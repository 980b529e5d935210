-------------------------- MODULE TrajectoryControl --------------------------
(***************************************************************************)
(* Finite motions of SafetyRuntime: planning against a reference that is   *)
(* read again before the motion is accepted, the active motion, its FIFO   *)
(* queue and its history, the 500 Hz cycle that turns the motion into the  *)
(* arm's reference, the physical arrival check that runs in two critical   *)
(* sections around an unlocked measurement, and everything that ends or    *)
(* replaces a motion.                                                      *)
(*                                                                         *)
(* A position stands for a complete joint vector; a motion is the sequence *)
(* of its knots, one tick apart.  Time passes with the control cycles.     *)
(***************************************************************************)
EXTENDS Integers, Sequences, FiniteSets, SequencesExt

CONSTANTS
  Scenarios,       \* the instances examined: see scenario
  MaxIds,          \* motions handed out in one behaviour
  Stable,          \* kArrivalStableDuration
  Unstable,        \* kCompletedHoldViolationDuration
  ArrivalTimeout,  \* clamp(duration / 4, 4 s, 10 s)
  PauseTimeout     \* kNativeCartesianTrackingPauseTimeout

ASSUME BoundsAssumption ==
  /\ MaxIds \in Nat /\ Stable \in Nat \ {0} /\ Unstable \in Nat \ {0}
  /\ ArrivalTimeout \in Nat \ {0} /\ PauseTimeout \in Nat \ {0}
  /\ \A s \in Scenarios :
       /\ s.pos \subseteq Nat /\ \A p, q \in s.pos : p .. q \subseteq s.pos
       /\ s.ids \in 0 .. MaxIds
       /\ s.queue \in Nat \ {0} /\ s.history \in Nat \ {0}
       /\ s.slacks \subseteq Nat /\ s.step \in Nat \ {0}
       /\ s.mode \in {"PV", "MIT"}
       /\ s.feedbacks \subseteq SUBSET {"near", "quiet", "tight"}

VARIABLES
  scenario,  \* what this behaviour is an instance of; never changes
  ctl,       \* trajectory_control_
  queue,     \* trajectory_queue_
  history,   \* trajectory_history_
  nextId,    \* next_motion_id_
  mailbox,   \* arm_mailbox_: the reference and where it is going
  pending,   \* pending_arm_mailbox_
  plan,      \* the planning transaction of the caller holding motion_mutex
  token,     \* active_command_planning_token_ # 0
  power,     \* "on": the Runtime takes commands; a stop takes two steps
  moving,    \* some arm motor of the layout is enabled
  job,       \* what the worker carries across its unlocked measurement
  fb,        \* the feedback snapshot assessed last
  origin,    \* where the arm's reference is: the last frame, or the measured
             \* position a newer hold or target was seeded from
  nearFor    \* how long every fresh snapshot assessed has been near the target

vars == <<ctl, queue, history, nextId, mailbox, pending, plan, token,
          power, moving, job, fb, origin, nearFor, scenario>>

Pos == scenario.pos              \* arm positions, 0 .. n
MaxQueue == scenario.queue       \* trajectory_queue_ limit (64 in the code)
MaxHistory == scenario.history   \* trajectory_history_ limit (128 in the code)
Slacks == scenario.slacks        \* completion deadline minus final reference
MaxStep == scenario.step         \* ticks one control cycle may be late
Feedbacks == scenario.feedbacks  \* what a snapshot can say of the target
Mode == scenario.mode            \* control mode of this enable
Inputs == scenario.inputs        \* the operations the environment uses

Unset == -1
NoPos == -1
Terminal == {"CANCELLED", "FAULT"}

Min2(a, b) == IF a < b THEN a ELSE b

\* Ages saturate at the bound they are compared with.
Older(age, dt, bound) == IF age = Unset THEN Unset ELSE Min2(age + dt, bound)

\* struct TrajectoryControl.
NoMotion ==
  [id |-> 0, state |-> "IDLE", path |-> <<>>, approach |-> 0, slack |-> 0,
   approached |-> FALSE, wall |-> 0, elapsed |-> 0, tracking |-> "unknown",
   pause |-> Unset, settling |-> Unset, stable |-> Unset, init |-> FALSE,
   hold |-> FALSE, unstable |-> Unset]

NoJob == [at |-> "idle", id |-> 0, monitor |-> FALSE, waiting |-> FALSE,
          deadline |-> FALSE, init |-> FALSE]
NoPlan == [at |-> "none", enqueue |-> FALSE, ref |-> <<>>]
Mail(p) == [ref |-> p, goal |-> p, joint |-> FALSE]
NoMail == Mail(NoPos)

RefDuration(m) == Len(m.path) - 1
Duration(m) == RefDuration(m) + m.slack

\* The reference e ticks into the motion.
Sample(m, e) == m.path[Min2(e, RefDuration(m)) + 1]
Final(m) == Last(m.path)

\* start_trajectory: the waypoints of the validated request, with the approach
\* to a declared start pose in front.
Waypoints(start, via, goal) ==
  IF via = NoPos THEN <<start, goal>> ELSE <<start, via, goal>>

\* start_trajectory: the validated request as a QUEUED TrajectoryControl.
Prepared(id, path, approach, slack) ==
  [NoMotion EXCEPT !.id = id, !.state = "QUEUED", !.path = path,
                   !.approach = approach, !.slack = slack]

\* activate_trajectory_locked: every timer and every settling result of an
\* earlier activation is dropped.
Activated(m) ==
  [NoMotion EXCEPT !.id = m.id, !.state = "RUNNING", !.path = m.path,
                   !.approach = m.approach, !.slack = m.slack,
                   !.approached = m.approach = 0]

\* motion_status_locked, archive_trajectory_locked: the history keeps the
\* newest entries.
StatusOf(m) == [id |-> m.id, state |-> m.state]
Recent(h) ==
  IF Len(h) > MaxHistory THEN SubSeq(h, Len(h) - MaxHistory + 1, Len(h)) ELSE h
Archive(h, m) == IF m.id = 0 THEN h ELSE Recent(Append(h, StatusOf(m)))

\* motion_status(id): active, queued, then the newest history entry.
Status(id) ==
  LET old == {i \in DOMAIN history : history[i].id = id} IN
  IF ctl.id = id THEN ctl.state
  ELSE IF \E i \in DOMAIN queue : queue[i].id = id THEN "QUEUED"
  ELSE IF old # {} THEN history[CHOOSE i \in old : \A j \in old : j <= i].state
  ELSE "IDLE"

motion_arrived == queue = <<>> /\ ctl.state \in {"IDLE", "COMPLETED"}

\* terminate_trajectory_locked: the queue goes even when nothing is active.
\* Only the status of an ended motion is read again.
QueueCancelled ==
  /\ history' = Recent(history \o [i \in DOMAIN queue |->
                         [id |-> queue[i].id, state |-> "CANCELLED"]])
  /\ queue' = <<>>
terminate_queue(state) == QueueCancelled /\ UNCHANGED ctl
terminate_trajectory(state) ==
  /\ ctl' = IF ctl.state \in {"RUNNING", "COMPLETED"}
            THEN [NoMotion EXCEPT !.id = ctl.id, !.state = state] ELSE ctl
  /\ QueueCancelled

-----------------------------------------------------------------------------
(* Planning and start. *)

\* trajectory_sample_locked and planned_arm_sample: the running motion's
\* reference, else the mailbox's (the reference, never its goal).
PlannedArm ==
  IF ctl.state = "RUNNING"
  THEN <<ctl.id, Sample(ctl, IF ctl.approached THEN ctl.wall
                             ELSE Min2(ctl.wall, ctl.approach))>>
  ELSE IF mailbox.ref # NoPos THEN <<0, mailbox.ref>> ELSE <<>>

\* planned_trajectory_tail_sample: the end of the last motion that will have
\* been executed.
PlannedTail ==
  IF queue # <<>> THEN <<Last(queue).id, Final(Last(queue))>>
  ELSE IF ctl.state \in {"RUNNING", "COMPLETED"} THEN <<ctl.id, Final(ctl)>>
  ELSE PlannedArm

Reference(enqueue) == IF enqueue THEN PlannedTail ELSE PlannedArm

\* require_state_for_command.
MayCommand(allow_trajectory) ==
  /\ power = "on" /\ (allow_trajectory \/ ctl.state # "RUNNING")

WorkerIdle == job.at = "idle"   \* command_mutex_ is free

\* begin_command_planning: one planner at a time.
MayPlan(enqueue) == MayCommand(enqueue) /\ ~token

\* cancel_command_planning, or the end of a successful start.
PlanningOver == plan' = NoPlan /\ token' = FALSE

\* move_linear / move_circular / move_pose: the token and the reference are
\* taken in one command transaction.
PlanBegin(enqueue) ==
  /\ "plan" \in Inputs /\ (enqueue => "enqueue" \in Inputs)
  /\ plan.at = "none" /\ WorkerIdle /\ nextId <= scenario.ids
  /\ MayPlan(enqueue) /\ Reference(enqueue) # <<>>
  /\ plan' = [at |-> "planning", enqueue |-> enqueue, ref |-> Reference(enqueue)]
  /\ token' = TRUE
  /\ UNCHANGED <<ctl, queue, history, nextId, mailbox, pending, power,
                 moving, job, fb, origin, nearFor, scenario>>

\* The planner or the request's validation throws, or the second transaction
\* finds another reference, no token or a full queue: CommandPlanningScope
\* withdraws the token and nothing is queued.
PlanFails ==
  /\ plan.at = "planning" /\ PlanningOver
  /\ UNCHANGED <<ctl, queue, history, nextId, mailbox, pending, power,
                 moving, job, fb, origin, nearFor, scenario>>

\* require_unchanged_planned_reference.
ReferenceUnchecked == TRUE
ReferenceUnchanged == Reference(plan.enqueue) = plan.ref

\* start_trajectory's checks under the command transaction.
MayStart ==
  /\ plan.at = "planning" /\ token /\ MayCommand(plan.enqueue)
  /\ plan.enqueue => Len(queue) < MaxQueue

\* start_trajectory: a queued motion waits; otherwise the ended motion goes to
\* the history, the mailboxes are emptied and the new motion is active.
start_trajectory(goal, via, slack) ==
  LET m == Prepared(nextId, Waypoints(plan.ref[2], via, goal),
                    IF via = NoPos THEN 0 ELSE 1, slack)
  IN /\ WorkerIdle /\ MayStart /\ ReferenceUnchanged
     /\ nextId' = nextId + 1
     /\ IF plan.enqueue /\ ctl.state = "RUNNING"
        THEN /\ queue' = Append(queue, m)
             /\ UNCHANGED <<ctl, history, mailbox, pending, nearFor>>
        ELSE /\ history' = Archive(history, ctl)
             /\ ctl' = Activated(m)
             /\ mailbox' = NoMail /\ pending' = NoMail
             /\ nearFor' = Unset
             /\ UNCHANGED queue
     /\ PlanningOver
     /\ UNCHANGED <<power, moving, job, fb, origin, scenario>>

-----------------------------------------------------------------------------
(* Other owners of the arm reference. *)

\* install_joint_position: replaces a completed motion's hold.  The reference
\* goes on from an earlier ordinary target's, or starts where the arm is.
InstallJointPosition(p, measured) ==
  /\ "install" \in Inputs /\ WorkerIdle /\ MayCommand(FALSE) /\ ~token
  /\ IF ctl.state = "COMPLETED" THEN terminate_trajectory("CANCELLED")
     ELSE UNCHANGED <<ctl, queue, history>>
  /\ LET ref == IF mailbox.joint THEN mailbox.ref ELSE measured IN
     /\ mailbox' = [ref |-> ref, goal |-> p, joint |-> TRUE]
     /\ origin' = ref
  /\ pending' = NoMail
  /\ UNCHANGED <<nextId, plan, token, power, moving, job, fb, nearFor,
                 scenario>>

\* submit_mit_ex / submit_pos_vel_ex: the pending slot, under state_mutex_ only.
SubmitRaw(p) ==
  /\ "submit" \in Inputs /\ MayCommand(FALSE) /\ ~token
  /\ pending' = Mail(p)
  /\ UNCHANGED <<ctl, queue, history, nextId, mailbox, plan, token, power,
                 moving, job, fb, origin, nearFor, scenario>>

\* stop_motion waits for motion_mutex, then cancel_all_motions.
CancelAll ==
  /\ "cancel" \in Inputs /\ plan.at = "none" /\ WorkerIdle
  /\ terminate_trajectory("CANCELLED")
  /\ UNCHANGED <<nextId, mailbox, pending, plan, token, power, moving, job,
                 fb, origin, nearFor, scenario>>

\* cancel_motion of a queued motion: its successor was planned from its end
\* and gets an approach segment from the end of its new predecessor.
NotRebound(m, from) == m
Rebound(m, from) ==
  [m EXCEPT !.path = <<from>> \o @, !.approach = @ + 1]

Predecessor(i) == IF i = 1 THEN ctl ELSE queue[i - 1]
Detached(i) ==
  IF i = Len(queue) THEN Front(queue)
  ELSE RemoveAt([queue EXCEPT ![i + 1] = Rebound(@, Final(Predecessor(i)))], i)

CancelQueued(i) ==
  /\ "cancel_motion" \in Inputs /\ WorkerIdle
  /\ history' = Archive(history, [queue[i] EXCEPT !.state = "CANCELLED"])
  /\ queue' = Detached(i)
  /\ UNCHANGED <<ctl, nextId, mailbox, pending, plan, token, power, moving,
                 job, fb, origin, nearFor, scenario>>

\* cancel_motion of the active motion cancels what was planned after it.
CancelActive ==
  /\ "cancel_motion" \in Inputs /\ WorkerIdle /\ ctl.state = "RUNNING"
  /\ terminate_trajectory("CANCELLED")
  /\ UNCHANGED <<nextId, mailbox, pending, plan, token, power, moving, job,
                 fb, origin, nearFor, scenario>>

\* disable, enable_motors, disable_motors: state_mutex_ only, so they cut into
\* the worker's cycle and into a planning transaction.
LifecycleStops ==
  /\ "stop" \in Inputs /\ power = "on"
  /\ terminate_trajectory("CANCELLED")
  /\ power' = "stopping"
  /\ UNCHANGED <<nextId, mailbox, pending, plan, token, moving, job, fb, origin,
                 nearFor, scenario>>

\* The stop's final critical section empties the mailboxes and the token.
LifecycleStopped ==
  /\ power = "stopping"
  /\ mailbox' = NoMail /\ pending' = NoMail /\ token' = FALSE /\ origin' = NoPos
  /\ power' = "off"
  /\ UNCHANGED <<ctl, queue, history, nextId, plan, moving, job, fb, nearFor,
                 scenario>>

\* enable: the hold is seeded from the measured position p.
Enable(p, m) ==
  /\ power = "off" /\ WorkerIdle
  /\ power' = "on" /\ moving' = m /\ token' = FALSE
  /\ mailbox' = [Mail(p) EXCEPT !.joint = TRUE] /\ origin' = p
  /\ UNCHANGED <<ctl, queue, history, nextId, pending, plan, job, fb, nearFor,
                 scenario>>

\* The worker's own protection (enter_safe_stop, enter_fault).
Protect ==
  /\ "stop" \in Inputs /\ power = "on" /\ WorkerIdle
  /\ terminate_trajectory("FAULT")
  /\ mailbox' = NoMail /\ pending' = NoMail /\ power' = "off" /\ origin' = NoPos
  /\ UNCHANGED <<nextId, plan, token, moving, job, fb, nearFor, scenario>>

-----------------------------------------------------------------------------
(* The worker. *)

\* prepare_trajectory_cycle: a tracking error above the pause threshold stops
\* the motion's clock (unless a deadline is managed) until it recovers or the
\* pause times out.
Paused == Mode = "PV" /\ ctl.approached /\ ctl.tracking = "lost"
PauseExpired(dt) ==
  Paused /\ ctl.pause # Unset /\ ctl.pause + dt >= PauseTimeout

\* All timers of the motion after dt ticks.
Aged(m, dt) ==
  [m EXCEPT !.wall = IF Paused /\ m.slack = 0 THEN @
                     ELSE Older(@, dt, Duration(m) + ArrivalTimeout),
            !.pause = IF ~Paused THEN Unset
                      ELSE IF @ = Unset THEN 0 ELSE Older(@, dt, PauseTimeout),
            !.settling = Older(@, dt, Stable), !.stable = Older(@, dt, Stable)]

\* The motion after its sample at the present time; the reference waits at the
\* end of the approach until the arm has physically arrived there.
AtApproach(m) ==
  ~m.approached /\ m.approach # 0 /\ Min2(m.wall, RefDuration(m)) >= m.approach
Sampled(m) ==
  [m EXCEPT !.elapsed = IF AtApproach(m) THEN Min2(m.wall, m.approach)
                        ELSE Min2(m.wall, Duration(m))]
SampleTime(m) ==
  IF AtApproach(m) THEN m.approach ELSE Min2(m.wall, RefDuration(m))
Completing(m) == AtApproach(m) \/ SampleTime(m) >= RefDuration(m)

\* run_arm_control_cycle measures the tracking error of the frame it sent.
Tracking(m) ==
  IF Mode = "PV" /\ m.approached THEN {"unknown", "small", "lost"}
  ELSE {m.tracking}

\* run_arm_control_cycle with a running motion: it writes the mailbox and the
\* frame is sent.  nearFor is what the arrival check will be held to.
TrajectoryCycle(dt) ==
  /\ WorkerIdle /\ power = "on" /\ ctl.state = "RUNNING"
  /\ ~PauseExpired(dt)
  /\ LET m == Sampled(Aged(ctl, dt)) IN
     /\ \E t \in Tracking(m) : ctl' = [m EXCEPT !.tracking = t]
     /\ mailbox' = Mail(Sample(m, SampleTime(m)))
     /\ origin' = Sample(m, SampleTime(m))
     /\ job' = IF Completing(m) THEN [NoJob EXCEPT !.at = "sent"] ELSE job
  /\ nearFor' = Older(nearFor, dt, Stable)
  /\ UNCHANGED <<queue, history, nextId, pending, plan, token, power, moving,
                 fb, scenario>>

\* The tracking pause timed out: fault_trajectory and enter_safe_stop.
TrackingFails(dt) ==
  /\ WorkerIdle /\ power = "on" /\ ctl.state = "RUNNING" /\ PauseExpired(dt)
  /\ terminate_trajectory("FAULT")
  /\ mailbox' = NoMail /\ pending' = NoMail /\ power' = "off" /\ origin' = NoPos
  /\ UNCHANGED <<nextId, plan, token, moving, job, fb, nearFor, scenario>>

\* consume_pending_arm_mailbox.
Consumed == IF pending = NoMail THEN mailbox ELSE pending

\* The ordinary reference of this cycle: in PV the final position at once (the
\* velocity limit does the rest), in MIT one bounded step towards it.
StepTo(b) ==
  [b EXCEPT !.ref = IF Mode = "PV" \/ @ = b.goal THEN b.goal
                    ELSE IF @ < b.goal THEN @ + 1 ELSE @ - 1]

\* run_arm_control_cycle without a running motion; a completed one is still
\* monitored.
OrdinaryCycle(dt) ==
  /\ WorkerIdle /\ power = "on" /\ ctl.state # "RUNNING"
  /\ Consumed.ref # NoPos
  /\ mailbox' = StepTo(Consumed) /\ origin' = StepTo(Consumed).ref
  /\ pending' = NoMail
  /\ IF ctl.state = "COMPLETED"
     THEN /\ ctl' = [ctl EXCEPT !.unstable = Older(@, dt, Unstable)]
          /\ job' = [NoJob EXCEPT !.at = "sent"]
     ELSE UNCHANGED <<ctl, job>>
  /\ nearFor' = Older(nearFor, dt, Stable)
  /\ UNCHANGED <<queue, history, nextId, plan, token, power, moving, fb,
                 scenario>>

\* update_trajectory_completion, first section: a continuous successor is
\* handed the arm without waiting for it to settle.
MayHandOff ==
  /\ ctl.state = "RUNNING" /\ ~AtApproach(ctl)
  /\ ctl.elapsed >= RefDuration(ctl) /\ ctl.elapsed >= Duration(ctl)
  /\ queue # <<>> /\ Head(queue).approach = 0 /\ ctl.tracking = "small"
  /\ Final(ctl) = Head(queue).path[1]

HandOff ==
  /\ job.at = "sent" /\ MayHandOff
  /\ history' = Archive(history, [ctl EXCEPT !.state = "COMPLETED"])
  /\ ctl' = Activated(Head(queue)) /\ queue' = Tail(queue)
  /\ job' = NoJob /\ nearFor' = Unset
  /\ UNCHANGED <<nextId, mailbox, pending, plan, token, power, moving, fb,
                 origin, scenario>>

\* Otherwise what the verdict will be about is remembered.
Assess ==
  /\ job.at = "sent" /\ ~MayHandOff
  /\ IF ctl.state \in {"RUNNING", "COMPLETED"}
     THEN LET fresh == ctl.state = "RUNNING" /\ ctl.settling = Unset
              m == IF fresh THEN [ctl EXCEPT !.settling = 0, !.stable = Unset,
                                             !.unstable = Unset, !.init = FALSE]
                   ELSE ctl
          IN /\ ctl' = m
             /\ job' = [at |-> "measured", id |-> m.id,
                        monitor |-> m.state = "COMPLETED",
                        waiting |-> m.state = "RUNNING" /\ AtApproach(m),
                        deadline |-> m.elapsed >= Duration(m),
                        init |-> m.init]
     ELSE job' = NoJob /\ UNCHANGED ctl
  /\ UNCHANGED <<queue, history, nextId, mailbox, pending, plan, token, power,
                 moving, fb, origin, nearFor, scenario>>

\* Second section, a completed motion: only snapshots newer than the last one
\* count; an unstable hold is given a moment, then the motion runs again.
HoldVerdict(new, f, steady) ==
  IF ~moving \/ ~new THEN ctl
  ELSE IF {"near", "quiet"} \subseteq f /\ steady
  THEN [ctl EXCEPT !.unstable = Unset]
  ELSE IF ctl.unstable = Unset THEN [ctl EXCEPT !.unstable = 0]
  ELSE IF ctl.unstable < Unstable THEN ctl
  ELSE [ctl EXCEPT !.state = "RUNNING", !.settling = 0, !.stable = Unset,
                   !.unstable = Unset, !.hold = "near" \in f]

\* A running one: a snapshot at the target opens the stable window, a newer one
\* away from it closes it.  With a managed deadline position decides, otherwise
\* the zero-speed hold has to be entered first.
Managed == ctl.slack > 0 /\ ~job.waiting
Tight(f) == Mode = "MIT" \/ "tight" \in f
FinalSeen(f) == "near" \in f /\ (Managed \/ Tight(f) \/ ctl.hold)
WindowKept(new, f) == IF new /\ FinalSeen(f) /\ ctl.stable = Unset
                      THEN [ctl EXCEPT !.init = TRUE, !.stable = 0,
                                       !.hold = ~Managed]
                      ELSE [ctl EXCEPT !.init = @ \/ new]
Settled(new, f) ==
  LET m == [ctl EXCEPT !.init = @ \/ new] IN
  IF ~new THEN m
  ELSE IF ~FinalSeen(f) THEN [m EXCEPT !.hold = FALSE, !.stable = Unset]
  ELSE IF ~Managed /\ ~m.hold
  THEN [m EXCEPT !.hold = TRUE, !.settling = 0, !.stable = 0]
  ELSE [m EXCEPT !.stable = IF @ = Unset THEN 0 ELSE @]

WindowMet(m) == m.stable # Unset /\ m.stable >= Stable
Completed(m, f, steady) ==
  \/ ~moving
  \/ /\ WindowMet(m) /\ steady
     /\ IF Managed THEN "near" \in f /\ Tight(f) /\ job.deadline
        ELSE {"near", "quiet"} \subseteq f

\* The approach is over: the path starts at its planned time.
ApproachDone(m) ==
  [m EXCEPT !.approached = TRUE, !.wall = Min2(@, m.approach),
            !.tracking = "unknown", !.pause = Unset, !.settling = Unset,
            !.stable = Unset, !.unstable = Unset, !.init = FALSE,
            !.hold = FALSE]

\* The motion is over and the next one of the queue starts.
Arrived(m) ==
  LET done == [m EXCEPT !.state = "COMPLETED", !.hold = TRUE,
                        !.unstable = Unset] IN
  IF queue = <<>> THEN ctl' = done /\ UNCHANGED <<queue, history>>
  ELSE /\ history' = Archive(history, done)
       /\ ctl' = Activated(Head(queue)) /\ queue' = Tail(queue)

\* The arrival timeout counts from the start of the motion (or of its path).
NeverTimedOut(m) == FALSE
TimedOut(m) ==
  m.wall >= (IF job.waiting THEN m.approach ELSE Duration(m)) + ArrivalTimeout

\* The motion the verdict is about must still be there, in the same state.
AlwaysThere == TRUE
StillThere ==
  /\ ctl.id = job.id
  /\ ctl.state = IF job.monitor THEN "COMPLETED" ELSE "RUNNING"

Running(new, f, steady) ==
  LET m == Settled(new, f) IN
  IF Completed(m, f, steady)
  THEN IF job.waiting
       THEN ctl' = ApproachDone(m) /\ UNCHANGED <<queue, history>>
       ELSE Arrived(m)
  ELSE IF TimedOut(m) THEN terminate_trajectory("FAULT")
  ELSE /\ ctl' = IF WindowMet(m) /\ ~steady THEN [m EXCEPT !.stable = 0] ELSE m
       /\ UNCHANGED <<queue, history>>

\* The measurement (the last snapshot again, a newer one, or none fresh enough)
\* and the second section.
Verdict(new, f, steady) ==
  /\ job.at = "measured"
  /\ new \/ f = fb \/ f = {}
  /\ IF ~StillThere THEN UNCHANGED <<ctl, queue, history>>
     ELSE IF job.monitor
     THEN ctl' = HoldVerdict(new, f, steady) /\ UNCHANGED <<queue, history>>
     ELSE Running(new \/ ~job.init, f, steady)
  /\ fb' = f /\ job' = NoJob
  /\ nearFor' = IF ctl'.id # ctl.id \/ ctl'.approached # ctl.approached
                THEN Unset
                ELSE IF "near" \in f THEN (IF nearFor = Unset THEN 0 ELSE nearFor)
                ELSE IF new THEN Unset ELSE nearFor
  /\ UNCHANGED <<nextId, mailbox, pending, plan, token, power, moving, origin,
                 scenario>>

-----------------------------------------------------------------------------
Init ==
  /\ scenario \in Scenarios
  /\ ctl = NoMotion /\ queue = <<>> /\ history = <<>> /\ nextId = 1
  /\ mailbox = NoMail /\ pending = NoMail /\ plan = NoPlan /\ token = FALSE
  /\ power = "off" /\ moving = TRUE /\ job = NoJob /\ fb = {}
  /\ origin = NoPos /\ nearFor = Unset

Vias == IF "approach" \in Inputs THEN Pos \union {NoPos} ELSE {NoPos}

Callers ==
  \/ \E e \in BOOLEAN : PlanBegin(e)
  \/ PlanFails
  \/ \E g \in Pos, v \in Vias, s \in Slacks : start_trajectory(g, v, s)
  \/ \E p, m \in Pos : InstallJointPosition(p, m)
  \/ \E p \in Pos : SubmitRaw(p)
  \/ CancelAll
  \/ \E i \in DOMAIN queue : CancelQueued(i)
  \/ CancelActive
  \/ LifecycleStops
  \/ LifecycleStopped
  \/ \E p \in Pos, m \in (IF "partial" \in Inputs THEN BOOLEAN ELSE {TRUE}) :
       Enable(p, m)

Worker ==
  \/ \E dt \in 1 .. MaxStep : TrajectoryCycle(dt)
  \/ \E dt \in 1 .. MaxStep : TrackingFails(dt)
  \/ \E dt \in 1 .. MaxStep : OrdinaryCycle(dt)
  \/ HandOff
  \/ Assess
  \/ \E new \in BOOLEAN, f \in Feedbacks \union {{}} :
       \E steady \in (IF Mode = "PV" THEN BOOLEAN ELSE {TRUE}) :
         Verdict(new, f, steady)

Next == Callers \/ Worker \/ Protect

Spec == Init /\ [][Next]_vars /\ WF_vars(Worker)

-----------------------------------------------------------------------------
Motion ==
  [id : 0 .. MaxIds, path : Seq(Pos), approach : 0 .. MaxQueue,
   state : {"IDLE", "QUEUED", "RUNNING", "COMPLETED"} \union Terminal,
   slack : Slacks \union {0}, approached : BOOLEAN, wall : Nat,
   elapsed : Nat, tracking : {"unknown", "small", "lost"},
   pause : Unset .. PauseTimeout, settling : Unset .. Stable,
   stable : Unset .. Stable, init : BOOLEAN, hold : BOOLEAN,
   unstable : Unset .. Unstable]

\* The type invariant.
TypeOK ==
  /\ ctl \in Motion /\ queue \in Seq(Motion) /\ Len(queue) <= MaxQueue
  /\ Len(history) <= MaxHistory /\ nextId \in 1 .. MaxIds + 1
  /\ mailbox.ref \in Pos \union {NoPos} /\ origin \in Pos \union {NoPos}
  /\ power \in {"on", "stopping", "off"} /\ nearFor \in Unset .. Stable

\* Each queued motion starts where the motion before it ends, also after a
\* motion between them was cancelled, and a queue only waits behind a running
\* motion; and every motion id handed out is in exactly one place, active,
\* queued or in the history, until the bounded history drops it
\* (start_trajectory, cancel_motion, archive_trajectory_locked).  The bounds of
\* queue and history are among the types.
QueueConsistent ==
  LET Places(id) == (IF ctl.id = id THEN 1 ELSE 0)
                    + Cardinality({i \in DOMAIN queue : queue[i].id = id})
                    + Cardinality({i \in DOMAIN history : history[i].id = id})
  IN /\ TypeOK
     /\ queue # <<>> => ctl.state = "RUNNING"
     /\ \A i \in DOMAIN queue : queue[i].path[1] = Final(Predecessor(i))
     /\ \A id \in 1 .. nextId - 1 :
          Places(id) = 1 \/ (Places(id) = 0 /\ Len(history) = MaxHistory)

\* Once a caller has been told CANCELLED or FAULT that answer stays, whatever
\* verdict the worker was about to give (update_trajectory_completion).
TerminalFinal ==
  [][\A id \in 1 .. MaxIds :
       Status(id) \in Terminal => Status(id)' \in {Status(id), "IDLE"}]_vars

\* motion_arrived: the most recently accepted motion is the one that completed
\* (ArticoreProductState, for the product's operations: no cancel_motion).
ArrivedIsNewest ==
  motion_arrived /\ nextId > 1 /\ "cancel_motion" \notin Inputs =>
    Status(nextId - 1) \in {"COMPLETED", "IDLE"}

\* A motion that is not handed off completes only after every fresh snapshot
\* assessed was near its target for the whole stable window, unless no motor of
\* the arm is enabled (update_trajectory_completion).
CompletedAfterWindow ==
  [][\A id \in 1 .. MaxIds :
       (/\ job.at = "measured" /\ moving /\ ctl.id = id
        /\ ctl.state = "RUNNING" /\ Status(id)' = "COMPLETED")
       => nearFor >= Stable]_vars

\* A running motion only moves the reference along its own path, starting from
\* the reference the arm had: no plan, queue, hand-off, cancellation or hold
\* check makes it jump (prepare_trajectory_cycle).  A raw frame streamed over
\* a completed motion does: planning goes on from the completed motion's end.
NoReferenceJump ==
  [][("submit" \notin Inputs /\ ctl.state = "RUNNING" /\ ctl'.id = ctl.id
      /\ power' = "on" /\ origin' # origin)
     => \E i \in DOMAIN ctl.path : \E j \in i .. Len(ctl.path) :
          ctl.path[i] = origin /\ ctl.path[j] = origin']_vars

\* Every accepted motion ends: it arrives, times out or is cancelled, and the
\* motions queued behind it get their turn.
MotionEnds ==
  \A id \in 1 .. MaxIds :
    (Status(id) \in {"QUEUED", "RUNNING"}) ~>
      (Status(id) \notin {"QUEUED", "RUNNING"})

\* "latest-target-wins": a motion that has completed does not take the arm back
\* from a command accepted after it.
LatestTargetWins ==
  [][(ctl.state = "COMPLETED" /\ ctl'.state = "RUNNING" /\ ctl'.id = ctl.id)
     => mailbox.ref = Final(ctl)]_vars

\* "Give the stationary phase its own deadline/window": a motion holding still
\* at its target is not timed out before that phase had its window.
OwnDeadline ==
  [][(job.at = "measured" /\ ctl.state = "RUNNING" /\ ctl.hold
      /\ ctl'.state = "FAULT") => ctl.settling >= Stable]_vars

=============================================================================
