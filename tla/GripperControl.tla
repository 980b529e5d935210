---------------------------- MODULE GripperControl ----------------------------
(***************************************************************************)
(* The product gripper of SafetyRuntime: the command that sets its target, *)
(* mode and strength, the control cycle with its contact, stall and        *)
(* overload detection, the hold of the protective stop states, and the     *)
(* recovery that should freeze both.                                       *)
(*                                                                         *)
(* Positions grow in the closing direction: 0 is fully open.  One unit is   *)
(* more than stall_movement and more than a cycle's step.  One gripper is   *)
(* modelled, the others run the same code on their own records.  Gains     *)
(* are "moving" or "holding"; the factors on them (ten in DIRECT mode, one *)
(* quarter when DEGRADED) are left out.  contact_detected and stalled are  *)
(* set and cleared together with protective_target_active.                 *)
(***************************************************************************)
EXTENDS Integers, Sequences

CONSTANTS
  Scenarios,     \* the instances examined: see scenario
  Closed,        \* closed_position; positions are 0 .. Closed
  MinError,      \* min_position_error
  Offset,        \* hold_offset
  Distance,      \* retreat_distance
  Window,        \* motion_window_ms, in ticks
  ContactHold,   \* contact_hold_ms
  OverloadHold,  \* overload_hold_ms
  Retry,         \* retreat_retry_ms
  MaxStep        \* ticks between two cycles

ASSUME GripperAssumption ==
  /\ Closed \in Nat \ {0} /\ MinError \in Nat /\ Offset \in Nat
  /\ Distance \in Nat /\ Window \in Nat \ {0} /\ ContactHold \in Nat
  /\ OverloadHold \in Nat /\ Retry \in Nat /\ MaxStep \in Nat \ {0}
  /\ \A s \in Scenarios :
       /\ s.requests \subseteq 0 .. Closed
       /\ s.levels \subseteq Nat /\ s.torques \subseteq Nat
       /\ s.modes \subseteq {"PROTECTED", "DIRECT"}

VARIABLES
  scenario,  \* what this behaviour is an instance of; never changes
  run,       \* the lifecycle state as far as the gripper sees it
  g,         \* the gripper's MotorRecord
  safe,      \* safe_grippers_: the last output known to be safe
  pos,       \* the position it reported last
  torque,    \* the torque it reported last
  status,    \* the status it reports: "off", "on" or "fault"
  worker,    \* where the worker is between two locks, and what it carries
  estop,     \* the same of the thread that calls estop()
  recovery,  \* where a recover() call is
  transition,\* hardware_transition_
  overtaken, \* a cycle or command came between a stop's hold and its state
  still,     \* how long it has closed without moving under this command
  pressed,   \* how long the torque has been at the contact threshold
  over       \* how long it has been at the overload threshold

threads == <<worker, estop, recovery, transition>>

vars == <<run, g, safe, pos, torque, status, worker, estop, recovery,
          transition, overtaken, still, pressed, over, scenario>>

Requests == scenario.requests  \* the openings callers ask for
Levels == scenario.levels      \* force levels in use; 0 is STRENGTH_MIN
Modes == scenario.modes        \* gripper modes in use
Torques == scenario.torques    \* torques the motor reports
Inputs == scenario.inputs      \* what the environment does

evidence == <<still, pressed, over>>

Unset == -1

\* What a motion showed ends with it.
EvidenceDropped == still' = Unset /\ pressed' = Unset /\ over' = Unset

NoPos == -1
NoFrame == [pos |-> NoPos, gain |-> "none"]
Idle == [pc |-> "idle", frame |-> NoFrame, goal |-> "none"]

\* emergency_stop_latched_, after estop() has returned.
Latched == [Idle EXCEPT !.pc = "latched"]

\* A thread that is about to enter the stop state goal.
Stopping(goal) == [pc |-> "prepare", frame |-> NoFrame, goal |-> goal]

\* Nobody holds command_mutex_ between two steps.
CommandFree == worker.pc # "resend"

Position == 0 .. Closed
Running == {"ENABLED", "DEGRADED"}
Protecting == {"CONTACT", "HOLDING", "OVERLOAD_RETREAT"}

Least(a, b) == IF a < b THEN a ELSE b
Distant(a, b) == IF a < b THEN b - a ELSE a - b

\* std::clamp to [lower_position, upper_position]
Clamp(p) == IF p < 0 THEN 0 ELSE Least(p, Closed)

\* configure_gripper_products: every level has its own thresholds, and level
\* 0 has none that a torque could reach.
NoThreshold == 1000
ContactTorque(level) == IF level = 0 THEN NoThreshold ELSE level
OverloadTorque(level) == IF level = 0 THEN NoThreshold ELSE level + 1

\* protection_enabled
Protection(m) == m.mode = "PROTECTED" /\ m.level # 0

\* What initialize_enabled_state leaves of the record, and what
\* seed_gripper_targets_from_feedback(true) then puts in; the gripper mode
\* stays what the last command made it.
Seeded(m, p) ==
  [m EXCEPT !.state = "IDLE", !.level = 1, !.requested = p, !.command = p,
            !.target = TRUE, !.retreat = NoPos, !.protective = NoPos,
            !.contact = Unset, !.overload = Unset, !.retreated = Unset,
            !.samples = <<>>, !.fault = FALSE]

Fresh ==
  [state |-> "IDLE", mode |-> "PROTECTED", level |-> 1, requested |-> 0,
   command |-> 0, target |-> TRUE, retreat |-> NoPos, protective |-> NoPos,
   contact |-> Unset, overload |-> Unset, retreated |-> Unset,
   samples |-> <<>>, fault |-> FALSE]

\* An enabled product: the gripper was seeded from its measured position and
\* the initial hold was sent.
Init ==
  /\ scenario \in Scenarios
  /\ run = "ENABLED" /\ pos = 0 /\ torque = 0 /\ status = "on"
  /\ g = Seeded(Fresh, pos) /\ safe = [pos |-> pos, gain |-> "holding"]
  /\ worker = Idle /\ estop = Idle /\ recovery = "none"
  /\ transition = FALSE /\ overtaken = FALSE
  /\ still = Unset /\ pressed = Unset /\ over = Unset

-----------------------------------------------------------------------------
(* set_gripper_commands *)

ClearEvidence(m) ==
  [m EXCEPT !.contact = Unset, !.overload = Unset, !.samples = <<>>]

\* The mutant keeps the evidence when only the strength changes.
CommandedKeepEvidence(m, p, level, mode) ==
  LET new == [m EXCEPT !.requested = p, !.level = level, !.mode = mode,
                       !.target = TRUE, !.fault = FALSE]
  IN IF ~m.target \/ p # m.requested \/ mode # m.mode
     THEN [ClearEvidence(new) EXCEPT !.state = "MOVING", !.retreat = NoPos,
                                     !.protective = NoPos]
     ELSE new

\* A new target or mode starts a motion without any protection left over; a
\* new strength alone drops the evidence of a motion under way.
Commanded(m, p, level, mode) ==
  LET new == [m EXCEPT !.requested = p, !.level = level, !.mode = mode,
                       !.target = TRUE, !.fault = FALSE]
  IN IF ~m.target \/ p # m.requested \/ mode # m.mode
     THEN [ClearEvidence(new) EXCEPT !.state = "MOVING", !.retreat = NoPos,
                                     !.protective = NoPos]
     ELSE IF level # m.level /\ m.state = "MOVING" THEN ClearEvidence(new)
     ELSE new

\* An emergency stop latches its fault before anything else, so that no
\* command gets past it; a stop of the worker does not.
SetGripperCommand ==
  /\ "command" \in Inputs /\ run \in Running /\ ~transition
  /\ estop.pc = "idle" /\ CommandFree
  /\ \E p \in Requests, level \in Levels, mode \in Modes :
       /\ <<p, level, mode>> # <<g.requested, g.level, g.mode>>
       /\ g' = Commanded(g, p, level, mode)
  /\ EvidenceDropped
  /\ overtaken' = (overtaken \/ /\ worker.pc \in {"write", "set"}
                                /\ Protection(g') /\ ~Protection(g))
  /\ UNCHANGED <<run, safe, pos, torque, status, threads, scenario>>

-----------------------------------------------------------------------------
(* prepare_gripper_commands_locked *)

\* An age grows up to the bound it is compared with.
Older(age, d, bound) == IF age = Unset THEN Unset ELSE Least(age + d, bound)

Aged(m, d) ==
  [m EXCEPT !.contact = Older(@, d, ContactHold),
            !.overload = Older(@, d, OverloadHold),
            !.retreated = Older(@, d, Retry),
            !.samples = [i \in 1 .. Len(m.samples) |->
               [age |-> Least(m.samples[i].age + d, Window),
                pos |-> m.samples[i].pos]]]

\* The samples kept cover the window: the oldest goes once the next one is
\* old enough to cover it alone.
Trimmed(samples) ==
  LET old == {i \in 1 .. Len(samples) : samples[i].age >= Window}
  IN IF old = {} THEN samples
     ELSE SubSeq(samples, CHOOSE i \in old : \A j \in old : j <= i,
                 Len(samples))

\* The sampling of a protected cycle; an unprotected one drops whatever
\* protection is left.
Sampled(m, p) ==
  IF Protection(m)
  THEN [m EXCEPT !.samples = Trimmed(Append(@, [age |-> 0, pos |-> p]))]
  ELSE [ClearEvidence(m) EXCEPT
          !.retreat = NoPos, !.protective = NoPos,
          !.state = IF @ \in Protecting THEN "MOVING" ELSE @]

\* The full window shows no movement.
Stalled(m) ==
  /\ Len(m.samples) >= 2 /\ m.samples[1].age >= Window
  /\ \A i, j \in 1 .. Len(m.samples) : m.samples[i].pos = m.samples[j].pos

InContact(m, p, tq) ==
  /\ Protection(m) /\ m.requested > p /\ tq >= ContactTorque(m.level)
  /\ Stalled(m) /\ Distant(m.command, p) >= MinError

\* One cycle of a motion: the command steps towards the request, contact that
\* lasts becomes a protective target, and a position near the request ends it.
Moved(m, p, tq, step) ==
  LET stepped == [m EXCEPT !.command =
                    IF m.requested > @ THEN @ + step
                    ELSE IF m.requested < @ THEN @ - step ELSE @]
      m1 == IF m.requested > p THEN stepped ELSE ClearEvidence(stepped)
      m2 == [m1 EXCEPT !.contact = IF ~InContact(m1, p, tq) THEN Unset
                                   ELSE IF @ = Unset THEN 0 ELSE @]
      held == Clamp(p + Offset)
  IN IF m2.contact >= ContactHold
     THEN [m2 EXCEPT !.protective = held, !.command = held,
                     !.state = "CONTACT"]
     ELSE IF Distant(m.requested, p) <= MinError
          THEN [m2 EXCEPT !.state = "IDLE"]
          ELSE m2

\* The mutant retreats from the measured position every time.
RetreatBaseMeasured(m, p) == p

\* The next retreat starts where the last one ended.
RetreatBase(m, p) == IF m.retreat = NoPos THEN p ELSE m.retreat

Retreated(m, target) ==
  [m EXCEPT !.retreat = target, !.protective = target,
            !.state = "OVERLOAD_RETREAT", !.retreated = 0]

OverloadAge(m, tq) ==
  IF tq < OverloadTorque(m.level) THEN Unset
  ELSE IF m.overload = Unset THEN 0 ELSE m.overload

RetreatDue(m) ==
  m.overload >= OverloadHold /\ (m.retreated = Unset \/ m.retreated >= Retry)

\* update_overload
UpdateOverload(m, p, tq) ==
  LET m1 == [m EXCEPT !.overload = OverloadAge(m, tq)]
      target == Clamp(RetreatBase(m, p) - Distance)
  IN IF RetreatDue(m1) THEN [Retreated(m1, target) EXCEPT !.command = target]
     ELSE m1

\* The mutant waits for the position and never for the retry time.
SettledByPosition(m, p) ==
  IF Protection(m)
     /\ (m.state = "CONTACT"
         \/ (m.state = "OVERLOAD_RETREAT" /\ Distant(p, m.retreat) <= MinError))
  THEN [m EXCEPT !.state = "HOLDING"] ELSE m

\* A contact becomes a hold one cycle later; a retreat becomes one when the
\* gripper got there or the retry time has passed.
Settled(m, p) ==
  IF Protection(m)
     /\ (m.state = "CONTACT"
         \/ (m.state = "OVERLOAD_RETREAT"
             /\ (Distant(p, m.retreat) <= MinError \/ m.retreated >= Retry)))
  THEN [m EXCEPT !.state = "HOLDING"] ELSE m

Prepared(m0, p, tq, step) ==
  LET m == Settled(Sampled(m0, p), p)
  IN CASE m.state = "MOVING" -> Moved(m, p, tq, step)
       [] m.state = "HOLDING" /\ Protection(m) -> UpdateOverload(m, p, tq)
       [] m.state = "IDLE" -> [m EXCEPT !.command = m.requested]
       [] OTHER -> m

FrameOf(m) ==
  [pos |-> m.command,
   gain |-> IF Protection(m) /\ m.state \in Protecting
            THEN "holding" ELSE "moving"]

-----------------------------------------------------------------------------
(* The stop states, as far as they concern the gripper *)

\* The mutant keeps the gains of the motion.
HoldFrameAsSent(m, frame) ==
  IF frame = NoFrame \/ status # "on" THEN NoFrame ELSE frame

\* prepare_protective_hold: a gripper whose status is not enabled is left
\* out, any other keeps its last output with the holding gains.
HoldFrame(m, frame) ==
  IF frame = NoFrame \/ status # "on" THEN NoFrame
  ELSE [frame EXCEPT !.gain = IF Protection(m) THEN "holding" ELSE "moving"]

\* prepare_protective_hold, its section under command_mutex_ ...
HoldPrepared(t) ==
  [t EXCEPT !.pc = "write", !.frame = HoldFrame(g, safe)]

\* ... and its section under state_mutex_.
HoldWritten(t) ==
  safe' = t.frame

\* The last section of enter_fault, which does not look at the gains again.
Faulted ==
  /\ run' = "FAULT" /\ transition' = FALSE /\ EvidenceDropped
  /\ g' = IF safe # NoFrame /\ ~g.fault
          THEN [g EXCEPT !.state = IF @ = "OVERLOAD_RETREAT" THEN @
                                   ELSE "HOLDING"]
          ELSE [g EXCEPT !.state = "FAULT", !.fault = TRUE]

-----------------------------------------------------------------------------
(* The worker *)

\* The gripper moves and its torque changes.
Feedback(p, tq) ==
  p \in Position /\ Distant(p, pos) <= 1 /\ pos' = p /\ torque' = tq

Lasting(holds, age, d, bound) ==
  IF ~holds THEN Unset ELSE IF age = Unset THEN 0 ELSE Least(age + d, bound)

\* How long the evidence has really lasted, whatever the gripper's own timers
\* say.
Evidence(d, p, tq) ==
  /\ still' = IF g.requested > p /\ p # pos THEN 0
              ELSE Lasting(g.requested > p, still, d, Window + ContactHold)
  /\ pressed' = Lasting(tq >= ContactTorque(g.level), pressed, d, ContactHold)
  /\ over' = Lasting(tq >= OverloadTorque(g.level), over, d, OverloadHold)

\* Time passes without a report.
NoEvidence(d) ==
  /\ still' = Older(still, d, Window + ContactHold)
  /\ pressed' = Older(pressed, d, ContactHold)
  /\ over' = Older(over, d, OverloadHold)

CycleDue == run \in Running /\ ~transition /\ worker = Idle /\ g.target

\* commit_gripper_commands_sent: the output replaces whatever hold a stop in
\* another thread has just prepared.
Committed(frame) ==
  safe' = frame /\ overtaken' = (overtaken \/ estop.pc = "set")

\* run_gripper_control_once and the worker's reaction to a failing send.
GripperCycle ==
  /\ CycleDue /\ status = "on"
  /\ \E d \in 1 .. MaxStep, p \in Position, tq \in Torques, step \in 0 .. 1 :
       /\ Feedback(p, tq) /\ Evidence(d, p, tq)
       /\ g' = Prepared(Aged(g, d), p, tq, step)
  /\ \/ Committed(FrameOf(g')) /\ UNCHANGED worker
     \/ /\ "loss" \in Inputs
        /\ \E s \in {"SAFE_STOP", "FAULT"} : worker' = Stopping(s)
        /\ UNCHANGED <<safe, overtaken>>
  /\ UNCHANGED <<run, status, estop, recovery, transition, scenario>>

\* Without feedback the timers run on and the last safe output, read under
\* state_mutex_, ...
MissingFeedback ==
  /\ "loss" \in Inputs /\ CycleDue
  /\ \E d \in 1 .. MaxStep : g' = Aged(g, d) /\ NoEvidence(d)
  /\ worker' = IF safe = NoFrame THEN Idle
               ELSE [Idle EXCEPT !.pc = "resend", !.frame = safe]
  /\ UNCHANGED <<run, safe, pos, torque, status, estop, recovery, transition,
                 overtaken, scenario>>

\* ... is sent again.
Resend ==
  /\ worker.pc = "resend"
  /\ \/ Committed(worker.frame) /\ worker' = Idle
     \/ /\ \E s \in {"SAFE_STOP", "FAULT"} : worker' = Stopping(s)
        /\ UNCHANGED <<safe, overtaken>>
  /\ UNCHANGED <<run, g, pos, torque, status, estop, recovery, transition,
                 evidence, scenario>>

\* A status other than enabled is a gripper fault, which stops the product.
GripperFault ==
  /\ CycleDue /\ status # "on"
  /\ g' = [g EXCEPT !.state = "FAULT", !.fault = TRUE]
  /\ worker' = Stopping("FAULT")
  /\ UNCHANGED <<run, safe, pos, torque, status, estop, recovery, transition,
                 overtaken, evidence, scenario>>

\* A watchdog, a send failure or a fault of another motor.
WorkerStop ==
  /\ "stop" \in Inputs /\ worker = Idle /\ ~transition
  /\ \E s \in {"SAFE_STOP", "FAULT"} :
       /\ run \in Running \/ (run = "SAFE_STOP" /\ s = "FAULT")
       /\ worker' = Stopping(s)
  /\ UNCHANGED <<run, g, safe, pos, torque, status, estop, recovery,
                 transition, overtaken, evidence, scenario>>

WorkerPrepare ==
  /\ worker.pc = "prepare" /\ worker' = HoldPrepared(worker)
  /\ UNCHANGED <<run, g, safe, pos, torque, status, estop, recovery,
                 transition, overtaken, evidence, scenario>>

WorkerWrite ==
  /\ worker.pc = "write" /\ HoldWritten(worker)
  /\ worker' = [worker EXCEPT !.pc = "set", !.frame = NoFrame]
  /\ UNCHANGED <<run, g, pos, torque, status, estop, recovery, transition,
                 overtaken, evidence, scenario>>

\* enter_safe_stop gives up without a hold for the arms, or when the state is
\* FAULT by now, and enter_fault starts again from the output.
WorkerSet ==
  /\ worker.pc = "set"
  /\ \/ /\ worker.goal = "SAFE_STOP" /\ run # "FAULT"
        /\ run' = "SAFE_STOP" /\ worker' = Idle /\ EvidenceDropped
        /\ UNCHANGED <<g, transition>>
     \/ /\ worker.goal = "SAFE_STOP" /\ worker' = Stopping("FAULT")
        /\ UNCHANGED <<run, g, transition, evidence>>
     \/ /\ worker.goal = "FAULT" /\ Faulted /\ worker' = Idle
  /\ UNCHANGED <<safe, pos, torque, status, estop, recovery, overtaken,
                 scenario>>

\* send_safe_hold_once has just served the arms, under command_mutex_ and
\* with its state checked again; the gripper hold takes its copy next.
HoldBegin ==
  /\ run \in {"SAFE_STOP", "FAULT"} /\ ~transition
  /\ worker = Idle /\ worker' = [Idle EXCEPT !.pc = "snapshot"]
  /\ UNCHANGED <<run, g, safe, pos, torque, status, estop, recovery,
                 transition, overtaken, evidence, scenario>>

\* send_gripper_hold_once copies the output under state_mutex_ ...
HoldCopy(end) ==
  IF safe = NoFrame THEN end ELSE [Idle EXCEPT !.pc = "send", !.frame = safe]

HoldSnapshot ==
  /\ worker.pc = "snapshot" /\ worker' = HoldCopy(Idle)
  /\ UNCHANGED <<run, g, safe, pos, torque, status, estop, recovery,
                 transition, overtaken, evidence, scenario>>

\* The record after a hold cycle with fresh feedback.
Held(m, p, tq) ==
  IF ~Protection(m) THEN m
  ELSE IF tq < OverloadTorque(m.level)
  THEN [m EXCEPT !.overload = Unset,
                 !.state = IF @ = "OVERLOAD_RETREAT" THEN "HOLDING" ELSE @]
  ELSE LET m1 == [m EXCEPT !.overload = OverloadAge(m, tq)]
       IN IF RetreatDue(m1) THEN Retreated(m1, Clamp(p - Distance)) ELSE m1

HeldFrame(m, frame) ==
  [pos |-> IF ~Protection(m) THEN frame.pos
           ELSE IF m.retreat # NoPos THEN m.retreat
           ELSE IF m.protective # NoPos THEN m.protective ELSE frame.pos,
   gain |-> IF Protection(m) THEN "holding" ELSE "moving"]

\* ... and goes on under command_mutex_: a gripper that is not enabled is
\* dropped, one without fresh feedback gets the copy again.  stale: another
\* thread is about to write an output from before.
HoldOutput(frame, stale) ==
  \E d \in 1 .. MaxStep :
    \/ /\ "loss" \in Inputs
       /\ safe' = frame /\ g' = Aged(g, d)
       /\ UNCHANGED <<pos, torque, overtaken>>
    \/ /\ status # "on"
       /\ safe' = NoFrame
       /\ g' = [Aged(g, d) EXCEPT !.state = "FAULT", !.fault = TRUE]
       /\ UNCHANGED <<pos, torque, overtaken>>
    \/ /\ status = "on"
       /\ \E p \in Position, tq \in Torques :
            /\ Feedback(p, tq)
            /\ g' = Held(Aged(g, d), p, tq)
            /\ safe' = HeldFrame(g', frame)
       /\ overtaken' = (overtaken /\ stale)

HoldSend ==
  /\ worker.pc = "send" /\ worker' = Idle
  /\ HoldOutput(worker.frame, estop.pc = "send")
  /\ UNCHANGED <<run, status, estop, recovery, transition, evidence, scenario>>

-----------------------------------------------------------------------------
(* Everything else that happens to the gripper *)

\* estop(), in its own thread: it freezes nothing, and the worker goes on
\* until the state is FAULT.
EstopBegin ==
  /\ "estop" \in Inputs /\ recovery = "none" /\ estop = Idle
  /\ estop' = Stopping("FAULT")
  /\ UNCHANGED <<run, g, safe, pos, torque, status, worker, recovery,
                 transition, overtaken, evidence, scenario>>

EstopPrepare ==
  /\ estop.pc = "prepare" /\ CommandFree /\ estop' = HoldPrepared(estop)
  /\ UNCHANGED <<run, g, safe, pos, torque, status, worker, recovery,
                 transition, overtaken, evidence, scenario>>

EstopWrite ==
  /\ estop.pc = "write" /\ HoldWritten(estop)
  /\ estop' = [estop EXCEPT !.pc = "set", !.frame = NoFrame]
  /\ UNCHANGED <<run, g, pos, torque, status, worker, recovery, transition,
                 overtaken, evidence, scenario>>

\* The first hold follows in the same thread if there is one for the arms.
EstopSet ==
  /\ estop.pc = "set" /\ CommandFree /\ Faulted
  /\ estop' \in {Latched, [Idle EXCEPT !.pc = "snapshot"]}
  /\ UNCHANGED <<safe, pos, torque, status, worker, recovery, overtaken,
                 scenario>>

EstopSnapshot ==
  /\ estop.pc = "snapshot" /\ estop' = HoldCopy(Latched)
  /\ UNCHANGED <<run, g, safe, pos, torque, status, worker, recovery,
                 transition, overtaken, evidence, scenario>>

\* The latch stays until a recovery is over.
EstopSend ==
  /\ estop.pc = "send" /\ CommandFree /\ estop' = Latched
  /\ HoldOutput(estop.frame, worker.pc \in {"send", "write"})
  /\ UNCHANGED <<run, status, worker, recovery, transition, evidence, scenario>>

\* enter_degraded, in the worker.
Degrade ==
  /\ "stop" \in Inputs /\ run = "ENABLED" /\ ~transition /\ worker = Idle
  /\ run' = "DEGRADED"
  /\ UNCHANGED <<g, safe, pos, torque, status, threads, overtaken, evidence,
                 scenario>>

MotorFault ==
  /\ "fault" \in Inputs /\ status = "on" /\ status' = "fault"
  /\ UNCHANGED <<run, g, safe, pos, torque, threads, overtaken, evidence,
                 scenario>>

\* recover(), which an emergency stop under way keeps out: the state is frozen
\* under state_mutex_ ...
RecoverFreeze ==
  /\ "recover" \in Inputs /\ recovery = "none"
  /\ estop.pc \in {"idle", "latched"}
  /\ recovery' = "frozen" /\ run' = "FAULT" /\ transition' = TRUE
  /\ EvidenceDropped
  /\ UNCHANGED <<g, safe, pos, torque, status, worker, estop, overtaken,
                 scenario>>

\* ... the held outputs are dropped under command_mutex_ ...
RecoverClear ==
  /\ recovery = "frozen" /\ CommandFree
  /\ recovery' = "cleared" /\ safe' = NoFrame
  /\ UNCHANGED <<run, g, pos, torque, status, worker, estop, transition,
                 overtaken, evidence, scenario>>

\* ... the motors are disabled and their faults cleared ...
RecoverDisable ==
  /\ recovery = "cleared"
  /\ recovery' = "off" /\ status' = "off"
  /\ g' = [g EXCEPT !.state = "DISABLED"]
  /\ UNCHANGED <<run, safe, pos, torque, worker, estop, transition, overtaken,
                 evidence, scenario>>

\* ... and the product is enabled again to return to zero.
RecoverEnable ==
  /\ recovery = "off"
  /\ recovery' = "none" /\ run' = "ENABLED" /\ status' = "on"
  /\ transition' = FALSE /\ estop' = Idle
  /\ g' = Seeded(g, pos) /\ safe' = [pos |-> pos, gain |-> "holding"]
  /\ EvidenceDropped
  /\ UNCHANGED <<pos, torque, worker, overtaken, scenario>>

Worker ==
  GripperCycle \/ MissingFeedback \/ Resend \/ GripperFault
  \/ WorkerPrepare \/ WorkerWrite \/ WorkerSet
  \/ HoldBegin \/ HoldSnapshot \/ HoldSend

Next ==
  \/ Worker \/ SetGripperCommand \/ WorkerStop \/ Degrade \/ MotorFault
  \/ EstopBegin \/ EstopPrepare \/ EstopWrite \/ EstopSet \/ EstopSnapshot
  \/ EstopSend
  \/ RecoverFreeze \/ RecoverClear \/ RecoverDisable \/ RecoverEnable

\* The worker thread runs its cycles whatever the callers do.
Spec == Init /\ [][Next]_vars /\ WF_vars(Worker)

-----------------------------------------------------------------------------
(* Properties *)

Ages(bound) == Unset .. bound
Frames == [pos : Position, gain : {"moving", "holding"}] \cup {NoFrame}

\* Every field of the record and every output stays in its range: targets
\* inside the gripper's travel, timers at most at the bound they are compared
\* with, and never more samples than the window holds.
TypeOK ==
  /\ run \in Running \cup {"SAFE_STOP", "FAULT"}
  /\ g.state \in Protecting \cup {"DISABLED", "IDLE", "MOVING", "FAULT"}
  /\ g.requested \in Position /\ g.command \in Position
  /\ {g.retreat, g.protective} \subseteq Position \cup {NoPos}
  /\ g.contact \in Ages(ContactHold) /\ g.overload \in Ages(OverloadHold)
  /\ g.retreated \in Ages(Retry) /\ Len(g.samples) <= Window + 1
  /\ {safe, worker.frame, estop.frame} \subseteq Frames
  /\ pos \in Position /\ status \in {"off", "on", "fault"}

\* A contact is declared only after the gripper has really stood still for
\* the motion window and the contact hold together, pressing with the
\* contact torque of the strength now in force: evidence from before a new
\* command, a torque spike or a movement never counts (the timers and samples
\* of prepare_gripper_commands_locked, cleared by set_gripper_commands).
ContactEvidence ==
  [][(g'.state = "CONTACT" /\ g.state # "CONTACT")
       => (still' >= Window + ContactHold /\ pressed' >= ContactHold)]_vars

\* Once an overload made the gripper retreat, no control cycle commands it to
\* close again past that point until a new command or the end of protection:
\* every further retreat opens further (update_overload's base).
RetreatOpens ==
  [][(run \in Running /\ g.retreat # NoPos /\ g'.retreat # NoPos)
       => (g'.command <= g.retreat /\ g'.retreat <= g.retreat)]_vars

\* In a protective stop a protected gripper is held with the holding gains,
\* whichever thread stopped the product and whatever copy of the output the
\* worker was carrying, with one exception: a control cycle or a command
\* between a stop's hold and its state may bring the gains of the motion into
\* the stop, and then only until a hold cycle with fresh feedback while no
\* other thread carries a copy of them.
\* (A recover() that overtakes the worker's hold is FrozenGripper's subject.)
\* Every target and output stays inside the travel (TypeOK).
HeldGently ==
  /\ TypeOK
  /\ (/\ run \in {"SAFE_STOP", "FAULT"} /\ Protection(g)
      /\ ~overtaken /\ "recover" \notin Inputs) => safe.gain # "moving"

\* The same without the exception: the hold of an emergency stop as
\* prepare_protective_hold computes it.
AlwaysHeldGently ==
  run = "FAULT" /\ Protection(g) => safe.gain # "moving"

Overloaded == torque >= OverloadTorque(g.level)

\* A gripper that found contact and stays overloaded is opened, retreat after
\* retreat, until it is fully open, even when it cannot follow the retreat:
\* the retry time ends a retreat that never arrives.
OverloadOpens ==
  <>[](run \in Running /\ Protection(g) /\ g.state \in Protecting /\ Overloaded)
    => []<>(g.command = 0)

\* native_types.hpp says of the PROTECTED mode: retreat after sustained
\* overload.  Whatever the gripper was doing, an overload that lasts while
\* there is room to open shall make it retreat.
SustainedOverloadRetreats ==
  <>[](run \in Running /\ Protection(g) /\ Overloaded /\ g.command > 0)
    => <>(g.state = "OVERLOAD_RETREAT")

\* set_gripper_commands says: evidence gathered under one calibrated
\* threshold cannot be reused after switching profiles.  A retreat shall need
\* an overload of the strength now in force for the whole overload hold.
OverloadOwnEvidence ==
  [][(/\ run \in Running
       /\ g.state # "OVERLOAD_RETREAT" /\ g'.state = "OVERLOAD_RETREAT")
       => over' >= OverloadHold]_vars

\* recover() says: no old user target may be sent while the product is being
\* cleared, checked, or homed.
FrozenGripper ==
  [][(worker.pc = "send" /\ worker' = Idle /\ safe' # NoFrame)
       => recovery = "none"]_vars
=============================================================================
