----------------------------- MODULE MCMotorLayer -----------------------------
(***************************************************************************)
(* The three protocols of the motor layer in one instance for TLC.  They   *)
(* share no state in the code (a controller's receive path, the group's    *)
(* transmit threads, one register transaction), so a behaviour exercises   *)
(* one of them while the others stay as they start.                        *)
(***************************************************************************)
EXTENDS ControllerGroup, Sequences

CONSTANTS
  Values, Initial, Retries,     \* RegisterTransaction
  Required, Optional, Rounds,   \* MotorController
  MaxFrames, MaxReceived        \* frames under way in the first and the second

ASSUME MotorLayerAssumption ==
  /\ Values \subseteq Nat /\ Initial \in Values /\ Retries \in Nat \ {0}
  /\ IsFiniteSet(Required \cup Optional) /\ Required \cap Optional = {}
  /\ Rounds \in Nat \ {0} /\ MaxFrames \in Nat \ {0}
  /\ MaxReceived \in Nat \ {0}

VARIABLES
  protocol,                                                \* the one exercised
  reg, down, up, call, ack, reply, res, clean,             \* RegisterTransaction
  motors, finalized, asked, rx, fresh, transport_errors,   \* MotorController
  recv_mutex, waiters, poller, thread, report, closed

Register == INSTANCE RegisterTransaction
Controller == INSTANCE MotorController
                WITH errors <- transport_errors, caller <- thread,
                     MaxFrames <- MaxReceived

groupVars == vars
registerVars == <<reg, down, up, call, ack, reply, res, clean>>
controllerVars == <<motors, finalized, asked, rx, fresh, transport_errors,
                    recv_mutex, waiters, poller, thread, report, closed>>
layerVars == <<protocol, groupVars, registerVars, controllerVars>>

LayerInit ==
  /\ protocol \in {"register", "group", "controller"}
  /\ Init /\ Register!Init /\ Controller!Init

LayerNext ==
  \/ /\ protocol = "register" /\ Register!Next
     /\ UNCHANGED <<protocol, groupVars, controllerVars>>
  \/ /\ protocol = "group" /\ Next
     /\ UNCHANGED <<protocol, registerVars, controllerVars>>
  \/ /\ protocol = "controller" /\ (Controller!Next \/ Controller!Closed)
     /\ UNCHANGED <<protocol, groupVars, registerVars>>

\* The fairness of the three specifications.
LayerSpec ==
  /\ LayerInit /\ [][LayerNext]_layerVars
  /\ Register!Fairness /\ Fairness /\ Controller!Fairness

-----------------------------------------------------------------------------
(* The properties of the three instances together *)

\* The types of the dispatch, the register transaction and the receive path.
LayerTypeOK == TypeOK /\ Register!TypeOK /\ Controller!TypeOK

\* A confirmed register value is the motor's (RegisterTransaction).
ConfirmedValue == Register!ConfirmedValue

\* What a controller says of its motors is true: the table is empty or final
\* outside a discovery, and motors reported present have answered since the
\* call began, although the receive thread files their frames (MotorController).
\* (Checked together with the types.)
MotorsTrulyReported ==
  LayerTypeOK /\ Controller!TableSettled /\ Controller!ReportedMotorsAnswered

\* Every call into the motor layer returns, whatever the bus loses, beside
\* failing transmit threads, closing ports and a receive thread that competes
\* for the bus (send_mit, write_register_with_retry, poll_feedback_once).
LayerCallsReturn ==
  DispatchReturns /\ Register!CallReturns /\ Controller!CallsEnd

===============================================================================
