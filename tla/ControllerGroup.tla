-------------------------- MODULE ControllerGroup --------------------------
(***************************************************************************)
(* ControllerGroup of the motor layer: batches of MIT and POS_VEL commands *)
(* are split over the controllers (one CAN port each) and written by one   *)
(* thread per controller, while the calling thread waits for all of them.  *)
(* The controllers may be closed meanwhile.                                *)
(***************************************************************************)
EXTENDS Integers, FiniteSets

CONSTANTS
  Controllers,
  Callers,       \* threads that dispatch batches
  NoCaller,
  MaxGeneration  \* dispatches (bound of the model)

ASSUME GroupAssumption ==
  /\ IsFiniteSet(Controllers) /\ Controllers # {}
  /\ NoCaller \notin Callers
  /\ MaxGeneration \in Nat

VARIABLES
  caller,      \* position of each calling thread
  call_mutex,  \* its holder
  kind,        \* task_kind_
  batches,     \* mit_batches_ and pos_vel_batches_: whose commands they hold
  generation,
  completed,
  errors,
  worker,      \* each transmit thread: position, generation seen, job, error
  lifecycle,   \* holder of each controller's lifecycle_mutex_
  bus_closed,
  stopping,
  result       \* outcome of the last dispatch that was not rejected

vars == <<caller, call_mutex, kind, batches, generation, completed, errors,
          worker, lifecycle, bus_closed, stopping, result>>

Kinds == {"Mit", "PosVel"}

\* A batch is known by the generation it is published as; 0 is an empty one.
Init ==
  /\ caller = [k \in Callers |-> "idle"]
  /\ call_mutex = NoCaller
  /\ kind = "Mit"
  /\ batches = [t \in Kinds |-> [c \in Controllers |-> 0]]
  /\ generation = 0
  /\ completed = 0
  /\ errors = [c \in Controllers |-> FALSE]
  /\ worker = [c \in Controllers |->
                 [pc |-> "wait", seen |-> 0, job |-> 0, error |-> FALSE]]
  /\ lifecycle = [c \in Controllers |-> "free"]
  /\ bus_closed = [c \in Controllers |-> FALSE]
  /\ stopping = FALSE
  /\ result = TRUE

-----------------------------------------------------------------------------
(* The calling thread *)

\* dispatch_mit, dispatch_pos_vel: one call at a time.
Enter(k) ==
  /\ caller[k] = "idle" /\ ~stopping /\ generation < MaxGeneration
  /\ call_mutex = NoCaller
  /\ call_mutex' = k
  /\ caller' = [caller EXCEPT ![k] = "dispatch"]
  /\ UNCHANGED <<kind, batches, generation, completed, errors, worker,
                 lifecycle, bus_closed, stopping, result>>

\* Mutant: completed_ is not reset.
PublishUncounted(k) ==
  /\ caller[k] = "dispatch"
  /\ \E t \in Kinds :
       /\ kind' = t
       /\ batches' = [batches EXCEPT ![t] =
                        [c \in Controllers |-> generation + 1]]
  /\ errors' = [c \in Controllers |-> FALSE]
  /\ generation' = generation + 1
  /\ caller' = [caller EXCEPT ![k] = "await"]
  /\ UNCHANGED <<call_mutex, completed, worker, lifecycle, bus_closed,
                 stopping, result>>

\* Under state_mutex_: split the commands over their owners, clear count and
\* errors, start a new generation.
Publish(k) ==
  /\ caller[k] = "dispatch"
  /\ \E t \in Kinds, owners \in SUBSET Controllers :
       /\ kind' = t
       /\ batches' = [batches EXCEPT ![t] =
                        [c \in Controllers |->
                           IF c \in owners THEN generation + 1 ELSE 0]]
  /\ completed' = 0
  /\ errors' = [c \in Controllers |-> FALSE]
  /\ generation' = generation + 1
  /\ caller' = [caller EXCEPT ![k] = "await"]
  /\ UNCHANGED <<call_mutex, worker, lifecycle, bus_closed, stopping, result>>

\* partition meets a null, duplicate, foreign or surplus motor: it throws with
\* the batches partly filled and no new generation.
Reject(k) ==
  /\ caller[k] = "dispatch"
  /\ \E t \in Kinds, owners \in SUBSET Controllers :
       batches' = [batches EXCEPT ![t] =
                     [c \in Controllers |->
                        IF c \in owners THEN generation + 1 ELSE 0]]
  /\ caller' = [caller EXCEPT ![k] = "idle"]
  /\ call_mutex' = NoCaller
  /\ UNCHANGED <<kind, generation, completed, errors, worker, lifecycle,
                 bus_closed, stopping, result>>

\* wait_and_raise.
Collect(k) ==
  /\ caller[k] = "await" /\ completed = Cardinality(Controllers)
  /\ result' = (\A c \in Controllers : ~errors[c])
  /\ caller' = [caller EXCEPT ![k] = "idle"]
  /\ call_mutex' = NoCaller
  /\ UNCHANGED <<kind, batches, generation, completed, errors, worker,
                 lifecycle, bus_closed, stopping>>

-----------------------------------------------------------------------------
(* The transmit threads: worker_loop *)

Take(c) ==
  /\ worker[c].pc = "wait" /\ ~stopping /\ generation # worker[c].seen
  /\ worker' = [worker EXCEPT ![c] = [pc |-> "batch", seen |-> generation,
                                      job |-> batches[kind][c],
                                      error |-> FALSE]]
  /\ UNCHANGED <<caller, call_mutex, kind, batches, generation, completed,
                 errors, lifecycle, bus_closed, stopping, result>>

\* send_mit_batch, send_pos_vel_batch: closed is looked at under the lock,
\* for an empty batch too.
Lock(c) ==
  /\ worker[c].pc = "batch" /\ lifecycle[c] = "free"
  /\ IF bus_closed[c]
       THEN /\ worker' = [worker EXCEPT ![c].pc = "report",
                                        ![c].error = TRUE]
            /\ UNCHANGED lifecycle
       ELSE /\ worker' = [worker EXCEPT ![c].pc = "frames"]
            /\ lifecycle' = [lifecycle EXCEPT ![c] = "worker"]
  /\ UNCHANGED <<caller, call_mutex, kind, batches, generation, completed,
                 errors, bus_closed, stopping, result>>

\* The frames are written, all of them or up to the first that fails.
Frames(c) ==
  /\ worker[c].pc = "frames"
  /\ \E failed \in IF worker[c].job = 0 THEN {FALSE} ELSE BOOLEAN :
       worker' = [worker EXCEPT ![c].pc = "report", ![c].error = failed]
  /\ lifecycle' = [lifecycle EXCEPT ![c] = "free"]
  /\ UNCHANGED <<caller, call_mutex, kind, batches, generation, completed,
                 errors, bus_closed, stopping, result>>

Report(c) ==
  /\ worker[c].pc = "report"
  /\ errors' = [errors EXCEPT ![c] = worker[c].error]
  /\ completed' = completed + 1
  /\ worker' = [worker EXCEPT ![c].pc = "wait", ![c].job = 0,
                              ![c].error = FALSE]
  /\ UNCHANGED <<caller, call_mutex, kind, batches, generation, lifecycle,
                 bus_closed, stopping, result>>

\* A transmit thread sees stopping_ and returns.
Exit(c) ==
  /\ worker[c].pc = "wait" /\ stopping
  /\ worker' = [worker EXCEPT ![c].pc = "gone"]
  /\ UNCHANGED <<caller, call_mutex, kind, batches, generation, completed,
                 errors, lifecycle, bus_closed, stopping, result>>

-----------------------------------------------------------------------------
(* Closing a controller and the end of the group *)

\* Mutant: close_bus does not take lifecycle_mutex_.
CloseUnlocked(c) ==
  /\ lifecycle[c] # "closer" /\ ~bus_closed[c]
  /\ bus_closed' = [bus_closed EXCEPT ![c] = TRUE]
  /\ UNCHANGED <<caller, call_mutex, kind, batches, generation, completed,
                 errors, worker, lifecycle, stopping, result>>

\* Controller::close_bus and shutdown: the lock is held while the receive
\* thread is joined and the bus shut down.
CloseBegin(c) ==
  /\ lifecycle[c] = "free" /\ ~bus_closed[c]
  /\ lifecycle' = [lifecycle EXCEPT ![c] = "closer"]
  /\ UNCHANGED <<caller, call_mutex, kind, batches, generation, completed,
                 errors, worker, bus_closed, stopping, result>>

CloseEnd(c) ==
  /\ lifecycle[c] = "closer"
  /\ bus_closed' = [bus_closed EXCEPT ![c] = TRUE]
  /\ lifecycle' = [lifecycle EXCEPT ![c] = "free"]
  /\ UNCHANGED <<caller, call_mutex, kind, batches, generation, completed,
                 errors, worker, stopping, result>>

\* ~Impl, reached when no call uses the group any more.
Stop ==
  /\ ~stopping /\ \A k \in Callers : caller[k] = "idle"
  /\ stopping' = TRUE
  /\ UNCHANGED <<caller, call_mutex, kind, batches, generation, completed,
                 errors, worker, lifecycle, bus_closed, result>>

\* The group is destroyed: nothing is left to happen.
Terminated ==
  /\ stopping /\ \A c \in Controllers : worker[c].pc = "gone" /\ bus_closed[c]
  /\ UNCHANGED vars

Calls(k) == Publish(k) \/ Reject(k) \/ Collect(k)
Works(c) == Take(c) \/ Lock(c) \/ Frames(c) \/ Report(c) \/ Exit(c)

Next ==
  \/ \E k \in Callers : Enter(k) \/ Calls(k)
  \/ \E c \in Controllers : Works(c) \/ CloseBegin(c) \/ CloseEnd(c)
  \/ Stop
  \/ Terminated

Spec == Init /\ [][Next]_vars

\* Every thread inside the group runs on; nobody has to call, close or stop.
Fairness ==
  /\ \A k \in Callers : WF_vars(Calls(k))
  /\ \A c \in Controllers : WF_vars(Works(c)) /\ WF_vars(CloseEnd(c))

FairSpec == Spec /\ Fairness

-----------------------------------------------------------------------------

TypeOK ==
  /\ caller \in [Callers -> {"idle", "dispatch", "await"}]
  /\ call_mutex \in Callers \cup {NoCaller}
  /\ kind \in Kinds
  /\ batches \in [Kinds -> [Controllers -> 0..(MaxGeneration + 1)]]
  /\ generation \in 0..MaxGeneration
  /\ completed \in 0..Cardinality(Controllers)
  /\ errors \in [Controllers -> BOOLEAN]
  /\ worker \in [Controllers -> [pc : {"wait", "batch", "frames", "report", "gone"},
                                 seen : 0..MaxGeneration,
                                 job : 0..MaxGeneration, error : BOOLEAN]]
  /\ lifecycle \in [Controllers -> {"free", "worker", "closer"}]
  /\ bus_closed \in [Controllers -> BOOLEAN]
  /\ stopping \in BOOLEAN
  /\ result \in BOOLEAN

\* A transmit thread writes the frames of a dispatch only while that dispatch
\* waits for it and the port is open: no frame of a batch follows the return
\* of send_mit or send_pos_vel (so a disable that comes after it is the last
\* word), and none of a rejected batch is ever sent.
FramesInsideCall ==
  \A c \in Controllers : worker[c].pc = "frames" =>
    /\ \E k \in Callers : caller[k] = "await"
    /\ worker[c].job \in {0, generation}
    /\ ~bus_closed[c]

\* The share of a controller as BatchSend sees it.
PartOf(c) ==
  IF generation # worker[c].seen \/ worker[c].pc \in {"batch", "frames"}
    THEN "todo"
  ELSE IF worker[c].pc = "report"
    THEN IF worker[c].error THEN "failed" ELSE "sent"
  ELSE IF errors[c] THEN "failed" ELSE "sent"

Awaiting == \E k \in Callers : caller[k] = "await"

Barrier == INSTANCE BatchSend WITH
  running <- Awaiting,
  part <- [c \in Controllers |-> IF Awaiting THEN PartOf(c) ELSE "none"],
  result <- result

\* The generation and completion counters implement the barrier: every
\* controller does its share of a dispatch once, and the caller hears of
\* exactly this dispatch's errors.
ImplementsBarrier == Barrier!Spec

\* A dispatch returns, even when controllers are closed under it.
DispatchReturns ==
  \A k \in Callers : caller[k] # "idle" ~> caller[k] = "idle"

=============================================================================
