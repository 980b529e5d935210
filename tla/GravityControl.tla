---------------------------- MODULE GravityControl ----------------------------
(***************************************************************************)
(* Gravity compensation and bimanual follow of SafetyRuntime: the two ways *)
(* of moving the arms that are neither a target nor a trajectory.  Callers *)
(* start and stop them under command_mutex_; the worker's cycle copies     *)
(* their state under state_mutex_, computes and sends, and commits under   *)
(* state_mutex_ again; power batches, stops and disables reset them with   *)
(* state_mutex_ alone, possibly in the middle of a cycle.                  *)
(*                                                                         *)
(* A position stands for an arm; both arms count in the same direction.    *)
(* The joint torques and gains are the gravity scale: it multiplies the    *)
(* feedforward, and one minus it the holding gains.                        *)
(***************************************************************************)
EXTENDS Integers

CONSTANTS
  Transition,   \* transition_duration, in ticks
  Limit,        \* soft joint limits are 0 .. Limit
  Inputs        \* what the environment does

ASSUME GravityAssumption == Transition \in Nat \ {0} /\ Limit \in Nat

VARIABLES
  run,          \* "ENABLED", "PARTIAL", "STOPPED" (SAFE_STOP, FAULT), "READY"
  transition,   \* hardware_transition_
  arms,         \* every arm motor is enabled
  gravity,      \* gravity_control_: phase, start scale, ticks since the start,
                \* and status.active
  follow,       \* bimanual_follow_
  mailbox,      \* arm_mailbox_: "none", "joint" (ordinary target) or "raw" (any
                \* other frame), and the leader target
  pending,      \* a raw frame waits in pending_arm_mailbox_
  arm,          \* measured positions of leader and follower
  worker,       \* the copy the worker's cycle works on
  scale,        \* gravity scale of the last gravity frame, 0 before the first
  since         \* ticks since the clock reading of that frame or of the start

vars == <<run, transition, arms, gravity, follow, mailbox, pending, arm,
          worker, scale, since>>
frames == <<scale, since>>

Positions == 0 .. Limit
Full == Transition * Transition  \* gravity scale 1.0
Least(a, b) == IF a < b THEN a ELSE b
Distant(a, b) == IF a < b THEN b - a ELSE a - b

NoGravity == [phase |-> "INACTIVE", start |-> 0, age |-> 0, active |-> FALSE]
NoFollow == [active |-> FALSE, leader0 |-> 0, follower0 |-> 0, ref |-> 0]
NoMailbox == [kind |-> "none", leader |-> 0]
IdleWorker ==
  [pc |-> "idle", gravity |-> NoGravity, follow |-> NoFollow, gap |-> 0]

Init ==
  /\ run = "ENABLED" /\ transition = FALSE /\ arms = TRUE
  /\ gravity = NoGravity /\ follow = NoFollow
  /\ arm = [leader |-> 0, follower |-> 0]
  /\ mailbox = [kind |-> "joint", leader |-> 0] /\ pending = FALSE
  /\ worker = IdleWorker /\ scale = 0 /\ since = 0

\* command_mutex_ is free between the worker's cycles.
CommandFree == worker.pc = "idle"

\* The full Runtime states that take the two modes.
Enabled == run = "ENABLED" /\ ~transition

-----------------------------------------------------------------------------
(* Callers *)

StartGravity ==
  /\ "gravity" \in Inputs /\ Enabled /\ CommandFree
  /\ gravity.phase = "INACTIVE" /\ ~follow.active
  /\ gravity' = [phase |-> "ENTERING", start |-> 0, age |-> 0, active |-> TRUE]
  /\ mailbox' = NoMailbox /\ pending' = FALSE /\ follow' = NoFollow
  /\ scale' = 0 /\ since' = 0
  /\ UNCHANGED <<run, transition, arms, arm, worker>>

\* The mutant starts the exit at full gravity whatever was reached.
ExitFromFull == Transition

\* The scale reached in ENTERING; stop leaves it at 1.0 in any other phase.
ExitStart == IF gravity.phase = "ENTERING" THEN gravity.age ELSE Transition

\* A second stop starts the exit again ("restop").
StopGravity ==
  /\ "gravity" \in Inputs /\ CommandFree /\ Enabled
  /\ gravity.phase # "INACTIVE"
  /\ gravity.phase = "EXITING" => "restop" \in Inputs
  /\ gravity' = [phase |-> "EXITING", start |-> ExitStart, age |-> 0,
                 active |-> TRUE]
  /\ UNCHANGED <<run, transition, arms, follow, mailbox, pending, arm, worker,
                 frames>>

\* require_state_for_command: gravity compensation owns the arms.
CommandAllowed ==
  run \in {"ENABLED", "PARTIAL"} /\ ~transition /\ gravity.phase = "INACTIVE"

\* An ordinary joint target; it drops a waiting raw frame.
SetTarget ==
  /\ "target" \in Inputs /\ CommandAllowed /\ CommandFree
  /\ \E p \in Positions : mailbox' = [kind |-> "joint", leader |-> p]
  /\ pending' = FALSE
  /\ UNCHANGED <<run, transition, arms, gravity, follow, arm, worker, frames>>

\* submit_pos_vel, submit_mit: without command_mutex_.
SubmitRaw ==
  /\ "raw" \in Inputs /\ CommandAllowed /\ ~follow.active
  /\ pending' = TRUE
  /\ UNCHANGED <<run, transition, arms, gravity, follow, mailbox, arm, worker,
                 frames>>

\* clear_pending_arm_mailbox of start_bimanual_follow.
PendingCleared == FALSE

StartFollow ==
  /\ "follow" \in Inputs /\ Enabled /\ CommandFree
  /\ gravity.phase = "INACTIVE" /\ mailbox.kind = "joint" /\ arms
  /\ follow' = [active |-> TRUE, leader0 |-> arm.leader,
                follower0 |-> arm.follower, ref |-> arm.follower]
  /\ pending' = PendingCleared
  /\ UNCHANGED <<run, transition, arms, gravity, mailbox, arm, worker, frames>>

\* Both arms are held where they are.
StopFollow ==
  /\ "follow" \in Inputs /\ CommandFree /\ ~transition /\ follow.active /\ arms
  /\ follow' = NoFollow
  /\ mailbox' = [mailbox EXCEPT !.leader = arm.leader]
  /\ UNCHANGED <<run, transition, arms, gravity, pending, arm, worker, frames>>

-----------------------------------------------------------------------------
(* Resets *)

Reset ==
  /\ gravity' = [gravity EXCEPT !.phase = "INACTIVE", !.active = FALSE]
  /\ follow' = NoFollow

\* set_motor_power_batch(disable): the reset comes first, under state_mutex_
\* alone; the motors follow once command_mutex_ is free.
BatchDisable ==
  /\ "batch" \in Inputs /\ run \in {"ENABLED", "PARTIAL"} /\ ~transition
  /\ transition' = TRUE /\ Reset
  /\ UNCHANGED <<run, arms, mailbox, pending, arm, worker, frames>>

\* Some motors, perhaps the arms among them, or all are off.
BatchDone ==
  /\ transition /\ CommandFree /\ transition' = FALSE
  /\ \/ run' = "READY" /\ arms' = FALSE
     \/ run' = "PARTIAL" /\ arms' \in {arms, FALSE}
  /\ UNCHANGED <<gravity, follow, mailbox, pending, arm, worker, frames>>

Stopped ==
  /\ run' = "STOPPED" /\ Reset /\ mailbox' = NoMailbox /\ pending' = FALSE
  /\ UNCHANGED <<transition, arms, arm, frames>>

\* enter_safe_stop, enter_fault: under both mutexes.
Stop ==
  /\ "stop" \in Inputs /\ CommandFree /\ run \in {"ENABLED", "PARTIAL"}
  /\ Stopped /\ UNCHANGED worker

\* disable(), unless READY, and the enable() after it.
Restart ==
  /\ "stop" \in Inputs /\ CommandFree /\ ~transition /\ run # "ENABLED"
  /\ run' = "ENABLED" /\ arms' = TRUE
  /\ gravity' = NoGravity /\ follow' = NoFollow
  /\ mailbox' = [kind |-> "joint", leader |-> arm.leader] /\ pending' = FALSE
  /\ UNCHANGED <<transition, arm, worker, frames>>

-----------------------------------------------------------------------------
(* The worker's cycle *)

Working == worker.pc = "idle" /\ run \in {"ENABLED", "PARTIAL"} /\ ~transition

\* run_arm_control_cycle takes its copy; without gravity it consumes a raw
\* frame.
GravityBegin ==
  /\ Working /\ gravity.phase # "INACTIVE"
  /\ worker' = [pc |-> "gravity", gravity |-> gravity, follow |-> follow,
                gap |-> since]
  /\ since' = 0
  /\ UNCHANGED <<run, transition, arms, gravity, follow, mailbox, pending, arm,
                 scale>>

ArmBegin ==
  /\ Working /\ gravity.phase = "INACTIVE" /\ (follow.active \/ pending)
  /\ worker' = [IdleWorker EXCEPT !.pc = "arm", !.follow = follow]
  /\ UNCHANGED <<run, transition, arms, gravity, follow, mailbox, pending, arm,
                 frames>>

Scale(g) ==
  CASE g.phase = "ACTIVE" -> Full
    [] g.phase = "ENTERING" -> g.age * Transition
    [] OTHER -> g.start * (Transition - g.age)

\* The mutant never leaves the exit.
GravityCommitStays(g, now) ==
  IF g.phase = "ENTERING" /\ g.age >= Transition
  THEN [now EXCEPT !.phase = "ACTIVE"] ELSE now

\* The phase follows the copy, not what another thread made of it since.
GravityCommit(g, now) ==
  CASE g.phase = "ENTERING" /\ g.age >= Transition ->
         [now EXCEPT !.phase = "ACTIVE"]
    [] g.phase = "EXITING" /\ g.age >= Transition ->
         [now EXCEPT !.phase = "INACTIVE", !.active = FALSE]
    [] OTHER -> now

\* A cycle that cannot read an enabled arm ends in a protective stop.
GravitySend ==
  /\ worker.pc = "gravity" /\ worker' = IdleWorker
  /\ \/ ~arms /\ Stopped
     \/ /\ arms
        /\ scale' = Scale(worker.gravity)
        /\ gravity' = GravityCommit(worker.gravity, gravity)
        /\ mailbox' = IF worker.gravity.phase = "EXITING"
                         /\ worker.gravity.age >= Transition
                      THEN [kind |-> "raw", leader |-> 0] ELSE mailbox
        /\ UNCHANGED <<run, transition, arms, follow, pending, arm, since>>

InLimits(p) == p \in Positions

\* The mutant commits without looking whether the follow is still on.
FollowCommitBlind(ref) == [follow EXCEPT !.ref = ref]

FollowCommit(ref) == IF follow.active THEN [follow EXCEPT !.ref = ref] ELSE follow

\* The follower repeats the leader's motion relative to where both started, a
\* bounded step per cycle; a target outside the limits fails the cycle.
ArmSend ==
  /\ worker.pc = "arm" /\ worker' = IdleWorker
  /\ LET f == worker.follow
         kind == IF pending THEN "raw" ELSE mailbox.kind
         desired == f.follower0 + (mailbox.leader - f.leader0)
         fails == f.active /\ (~arms \/ kind # "joint" \/ ~InLimits(desired))
     IN \/ fails /\ Stopped
        \/ /\ ~fails
           /\ mailbox' = [mailbox EXCEPT !.kind = kind] /\ pending' = FALSE
           /\ IF f.active
              THEN \E ref \in (f.ref - 1) .. (f.ref + 1) :
                     /\ Distant(ref, desired) <= Distant(f.ref, desired)
                     /\ follow' = FollowCommit(ref)
              ELSE UNCHANGED follow
           /\ UNCHANGED <<run, transition, arms, gravity, arm, frames>>

\* A send that times out is one missed frame, retried in the next cycle.
MissedFrame ==
  /\ "miss" \in Inputs /\ worker.pc = "gravity" /\ arms /\ worker' = IdleWorker
  /\ since' = Least(worker.gap + since, Transition)
  /\ UNCHANGED <<run, transition, arms, gravity, follow, mailbox, pending, arm,
                 scale>>

-----------------------------------------------------------------------------
(* The world *)

\* Time passes; a cycle is never later than the transition is long.
Tick ==
  /\ gravity.phase # "INACTIVE" /\ since < Transition
  /\ gravity' = [gravity EXCEPT !.age = Least(@ + 1, Transition)]
  /\ since' = since + 1
  /\ UNCHANGED <<run, transition, arms, follow, mailbox, pending, arm, worker,
                 scale>>

Move ==
  /\ "follow" \in Inputs
  /\ \E l \in Positions, f \in Positions : arm' = [leader |-> l, follower |-> f]
  /\ UNCHANGED <<run, transition, arms, gravity, follow, mailbox, pending,
                 worker, frames>>

Next ==
  \/ StartGravity \/ StopGravity \/ SetTarget \/ SubmitRaw
  \/ StartFollow \/ StopFollow
  \/ BatchDisable \/ BatchDone \/ Stop \/ Restart
  \/ GravityBegin \/ ArmBegin \/ GravitySend \/ ArmSend \/ MissedFrame
  \/ Tick \/ Move

\* The worker runs, the clock goes on and a batch ends; frames are not missed
\* for ever, because the failure threshold then stops the product.
Spec ==
  /\ Init /\ [][Next]_vars
  /\ SF_vars(GravityBegin) /\ SF_vars(GravitySend)
  /\ SF_vars(ArmBegin) /\ SF_vars(ArmSend)
  /\ WF_vars(Tick) /\ SF_vars(BatchDone)

-----------------------------------------------------------------------------
(* Properties *)

\* Phases, scales, ages and positions stay in range; in particular the
\* follower's reference, a sum over two arms, never leaves the joint limits.
TypeOK ==
  /\ run \in {"ENABLED", "PARTIAL", "STOPPED", "READY"}
  /\ gravity.phase \in {"INACTIVE", "ENTERING", "ACTIVE", "EXITING"}
  /\ gravity.start \in 0 .. Transition /\ gravity.age \in 0 .. Transition
  /\ follow.ref \in Positions /\ scale \in 0 .. Full
  /\ mailbox.kind \in {"none", "joint", "raw"} /\ mailbox.leader \in Positions

\* While an arm follows, the frame the worker works from is an ordinary
\* target: a raw frame that was waiting when the follow started is gone, so
\* it cannot turn up in a later cycle and stop the robot ("bimanual follow
\* requires an ordinary PV/MIT position command").  A follow switched off in
\* the middle of a cycle stays off, with everything it held cleared: the
\* cycle's commit looks at it again.  The follower's reference stays inside
\* its joint limits (TypeOK).
FollowOwnsTarget ==
  /\ TypeOK
  /\ IF follow.active THEN mailbox.kind = "joint" /\ ~pending
                      ELSE follow = NoFollow

\* From one gravity frame to the next the scale moves no further than the
\* time between them allows, also when a stop interrupts the entry: the arms
\* never feel a step in torque or stiffness (transition_start_gravity_scale).
ScaleSmooth ==
  [][(worker.pc = "gravity" /\ worker'.pc = "idle" /\ run' = run)
       => Distant(scale', scale) <= worker.gap * Transition]_vars

\* Once a stop was accepted, gravity compensation ends, in the hold or in a
\* reset.
GravityExits == gravity.phase = "EXITING" ~> gravity.phase = "INACTIVE"

\* The gravity test says of stop_gravity_compensation: stopping gravity
\* compensation returns to MIT hold.
StopReturnsToHold == gravity.phase = "EXITING" ~> mailbox.kind = "raw"

\* The gravity test says: gravity status reports the active controller.
StatusTrue == gravity.phase # "INACTIVE" => gravity.active
=============================================================================
