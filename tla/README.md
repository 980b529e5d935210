# TLA+ models of the Articore Motor-Drive-Layer

The repository drives a two-arm robot over CAN FD and offers it to one client
at a time over DDS. These modules model, from the top down, the parts of it that
decide *who may move the robot, what is sent to it, and when its torque goes
off*: the control lease and the threads of the DDS service; the lifecycle
operations and the 500 Hz worker of SafetyRuntime; finite motions, grippers,
gravity compensation and bimanual follow; and the protocols of the motor layer.
TLC checks small instances; TLAPS proves the safety properties for every
instance.

## Inventory

| Part | State | Operations | Talks to |
|---|---|---|---|
| Control lease (`dds/src/lease.cpp`) | owner, identity and expiry; last control and stream sequence number | acquire, authorize, heartbeat, refresh_after_control, release, expire_if_needed, revoke | `on_lost` callback into the service |
| DDS I/O thread (`cyclone_service.cpp`, `run`) | position in its loop, 2 ms / 100 ms / 1 s deadlines | reap the lease, take requests, take stream samples, pump the mailbox, publish state, health, discovery | lease, mailbox, queue, Runtime |
| Control worker (`control_worker_loop`) | queue of 32 requests, the request in hand, `control_busy_` | pop, recheck the lease, execute, refresh, publish events, create a Runtime | lease, Runtime, pending motion |
| Latest-command mailbox (`protocol.cpp`) | newest stream command | store, take (20 ms lifespan), clear | I/O thread |
| Pending motion (`pending_motion_request_`) | the MOVE request whose end has not been published | register, finish, cancel | both threads |
| Runtime facade (`yunyi_runtime_facade.cpp`, `yunyi_runtime_core.cpp`) | terminal flag, motion mutex | lifecycle, motion, streaming, gravity, follow, grippers, queries | SafetyRuntime |
| SafetyRuntime lifecycle (`runtime_enable.cpp`, `runtime_maintenance.cpp`) | safety state, latched fault, disabled motors, `disable_confirmed_`, `hardware_transition_` | connect, enable, disable, estop, recover, configure, set_zero, clear_faults, power of single motors, close | worker, motor backend |
| SafetyRuntime worker (`runtime_worker.cpp`, `runtime_safety.cpp`) | failure counters, deadlines, last safe outputs | decide, send, supervise feedback, degrade, protective hold, stop, fault | lifecycle, motor backend |
| Trajectories and streaming targets (`runtime_trajectory.cpp`, `runtime_joint_position.cpp`, `runtime_commands.cpp`) | active motion, queue, history, mailbox and pending slot, planning token | plan and start, enqueue, cancel, install a target, submit raw frames, cycle, arrival check | worker, facade |
| Grippers (`runtime_gripper.cpp`) | target, mode, strength, evidence of contact, stall and overload, protective target | set_gripper_commands, cycle, hold, freeze by recover | worker, lifecycle |
| Gravity compensation and bimanual follow (`runtime_gravity.cpp`, the cycle in `runtime_commands.cpp`) | phase, transition clock, scale; follow reference | start, stop, cycle, reset by stops and batches | worker, mailbox |
| Motor and CAN layer (`motor/src/runtime.cpp`) | motor table, feedback counts, register acknowledgements, group workers | discovery, feedback batches, bulk commands, register read/write and mode switch, grouped dispatch, close | SocketCAN |
| Kinematics, Cartesian planning, force curves | none | pure floating-point functions | – |

What is hard, and hardly reachable by a test:

* the loss of the lease races with the worker, which has already checked it;
* `acquire` may replace an expired lease before the loop has reaped it;
* the mailbox and the command taken from it outlive the look at the lease;
* both threads publish the events of one motion;
* the loss callback waits on the I/O thread for locks the worker holds;
* SIGTERM may come in the middle of all that;
* the 500 Hz worker decides under a lock and acts without it while a lifecycle
  operation changes the hardware, waits for its silence, or fails half way;
* a motion is measured outside the lock and judged inside it, while it may be
  cancelled, replaced or followed by the next of its queue;
* a gripper's evidence is gathered over many cycles, with commands, missing
  feedback and stops in between;
* controllers of gravity and follow work on a copy they write back after a send;
* answers of the bus are lost, late, or belong to an earlier call.

`PROJECT.json` lists these hazards one by one, at their lines, with the
properties that cover them.

## Modules

| Module | Models | Used by |
|---|---|---|
| `LeaseManager` | the lease, one step per method | `ControlService` |
| `RobotRuntime` | what the product Runtime promises the service, as outcomes of each facade call; no variables | `ControlService` |
| `ControlService` | both threads of the service with their program counters, queue, mailbox, pending motion, creation of the Runtime, loss callback, shutdown | `MCControlService` |
| `SafetyRuntime` | lifecycle operations in their critical sections, commands of other threads, the worker | `MCSafetyRuntime` |
| `TrajectoryControl` | planning transaction, active motion, queue, history, mailboxes, cycle and arrival check | `MCTrajectoryControl` |
| `GripperControl` | the product gripper: command, cycle, protective hold, freeze by recover() | `MCGripperControl` |
| `GravityControl` | gravity compensation and bimanual follow | its own run |
| `RegisterTransaction` | register reads, writes and mode switch of one motor over a lossy bus | `MCMotorLayer` |
| `ControllerGroup` | grouped dispatch through one transmit thread per controller, beside closes | `MCMotorLayer` |
| `BatchSend` | what a grouped dispatch promises: the abstract specification `ControllerGroup` implements | `ControllerGroup` |
| `MotorController` | motor table, discovery, feedback batches, bulk commands, receive thread, close | `MCMotorLayer` |
| `MC…` | instances for TLC: scenarios, operation sets, symmetry | the runs |
| `ControlServiceProofs`, `ServiceOrderProofs` | theorems about the service: leases and streams; order, events, motions and shutdown | |
| `SafetyRuntimeProofs`, `TrajectoryControlProofs`, `GripperControlProofs`, `GravityControlProofs`, `ControllerGroupProofs`, `MotorLayerProofs` | theorems about the module of that name (`MotorLayerProofs`: registers and controller) | |

### How the state and the actions correspond to the code

**LeaseManager.** Every method runs under one mutex and is one step. Time is
relative: `lease.ttl` counts the ticks to `expires_at`, and `now >= expires_at`
is `ttl = 0`. An expired lease stays the active one until somebody reaps or
replaces it, as in the code.

**ControlService.** Clients are the environment and may present any request with
any identity and number at any time, which covers lost, duplicated, delayed and
reordered DDS samples. Requests the code answers with an error and no state
change are not steps. The I/O thread's `io.pc` walks through one iteration of
`run`: `expire` (expire_if_needed), `control` (take_control_requests, any number
of requests), `stream` (take_stream_commands), `pump` and `submit` (pump_latest:
the check of `control_busy_` with the take, and the call into the Runtime, are
two steps because the worker runs in between), `state` and `finish`
(publish_state: the read of `motion_arrived` and its use after the DDS write). A
lost lease diverts it through `lost_stop`, `lost_disable` and `lost_cancel` – the
callback the service gives to LeaseManager – and back to `io.ret`. SIGTERM takes
it through `join`, `stop_motion`, `disable`, `disconnect`. The worker's `wk.pc`
walks through execute_queued_request: `popped` (request taken, `control_busy_`
not yet raised), `check`, `exec` (lease checked, call not started), `executing`
(inside the call, holding the mutexes `HoldsLifecycle`, `HoldsMotion` or
`HoldsCommand` name), `refresh`, `motion` (ACCEPTED or FAILED), `register`,
`recheck`, `cancel`, `drop`.

A Runtime call takes effect when it returns. The exception is recover(), which
turns the torque on while it runs: state `RECOVERING`. The lifecycle state
merges ENABLED, RUNNING and the degraded states of the code into `ENABLED`, in
which the robot follows targets (`Operational`). FAULT is not operational but may
have its torque on: estop() keeps it, and a disable that was not confirmed may not
have taken it away. Setters, inverse kinematics, grippers, gravity compensation
and bimanual follow are the last case of `Outcomes`. A request is identified by
its lease and sequence number, which authorize makes unique. `lastExec` and
`late` exist for the properties only.

**SafetyRuntime.** `rt` is the part of the object guarded by state_mutex_; an
action is one section that holds it. `lifecycle` and `command` are the holders of
lifecycle_mutex_ and of command_mutex_ where it is kept across sections. A
caller's `call[c].pc` names the section it enters next, with one letter per
operation (`e_` enable, `d_` disable, `s_` estop, `m_` maintenance, `r_`
recover, `q_` and `b_` power of motors, `x_` close). `power` is what the motors
really do, against which `disable_confirmed_` is compared. The worker first
decides (`DecideGrace`, `DecideTimeout`, `DecideWork`), then acts on what it
decided without the lock (`WorkerArm`, `WorkerSend`, `WorkerFeedback`,
`WorkerHold`, `WorkerStop`, `WorkerFault`, …). `rt.recent` says that
`last_successful_command_` is less than command_timeout_ms ago, `rt.unsent` that
the target's generation has not been sent yet: a frame renews the time only for an
unsent generation (`Sent`), a gripper command only starts it (`WorkerGripper`),
`CommandAges` is the passing of command_timeout_ms, and a pass that finds the
time over (`TimeoutDue`) does nothing but stop. `frame` keeps what the last frame
carried. Whether feedback is healthy, a frame goes out and a motor obeys is
nondeterministic.

**TrajectoryControl.** A position stands for a complete joint vector and a motion
is the sequence of its knots, one tick apart. `Callers` are the operations of the
facade; planning reads the reference, plans outside the lock and reads it again
when the motion is accepted. `TrajectoryCycle`, `TrackingFails`, `OrdinaryCycle`
and `HandOff` are the cycle; `Assess` and `Verdict` are the two critical sections
of update_trajectory_completion around the unlocked measurement; `Protect` is a
stop of the lifecycle, in two steps, which may come between any of them.
`origin` and `nearFor` exist for the properties.

**GripperControl.** Positions grow in the closing direction. `GripperCycle` is
prepare_gripper_commands_locked with the send, `MissingFeedback` (and the later
`Resend`) and `GripperFault` its early exits, `HoldBegin`/`HoldSnapshot`/`HoldSend`
the hold of a protective stop across its two locks, `Recover…` the phases of
recover() the gripper sees. A protective stop is three locked sections: the hold is
computed from the last output, written to `safe_grippers_`, and only then the state
is set. The worker walks through them in `WorkerStop`, `WorkerPrepare`,
`WorkerWrite` and `WorkerSet`; estop(), which silences nobody while it does so, in
`EstopBegin` … `EstopSet` and then sends its own hold (`EstopSnapshot`,
`EstopSend`). What a cycle commits in between (`Committed`) survives into the stop:
the history variable `overtaken` records that this has happened. `still`, `pressed` and `over` measure for the properties what the
evidence ought to be.

**GravityControl.** `GravityBegin` and `ArmBegin` take the copy, `GravitySend` and
`ArmSend` send and commit it, `MissedFrame` is a failed send. Everything that
resets the two modes is an action: stops, batches, restart.

**RegisterTransaction, ControllerGroup, MotorController.** The bus is a pair of
frame queues that may lose any frame; a motor answers once, late or never; a
deadline may pass whenever an answer is missing. In `ControllerGroup`
`generation`, `completed` and `errors` are the members of that name, and the
refinement maps them to `BatchSend`: a share is open until its thread has
reported.

## Runs

A behaviour of most runs belongs to one *scenario*, chosen at the start: which
operations, inputs and bounds it has. Together the passing runs take every
action. Each module has its `TypeOK`; below the service it is a conjunct of one
invariant of the module's run (`TransitionOwned`, `QueueConsistent`,
`HeldGently`, `FollowOwnsTarget`, `MotorsTrulyReported`).

| Run | Question | Scenarios and bounds |
|---|---|---|
| `service` | Does the shutdown keep its order: nobody can reach the robot and it follows no target when CAN is closed? Can a live lease be taken over, a stream command reach the Runtime under another lease, a motion survive the loss of its lease, a request run twice or out of order? | Power, Stream, Motion, Overlap, Handover, Object; two clients, two leases, 2–4 numbers, lease of 2 ticks, lifespan 1, queue of 2, back-off 1..2 |
| `live` | Is every request answered, every loss handled and the shutdown completed in the end? | Blocking: one operation per lock (recover, move), SIGTERM; one client, lease of 1 tick |
| `runtime` | Does the worker keep silent when an operation relies on it? Is an emergency stop latched, `disable_confirmed_` true, no old target sent, no transition flag left behind? | Lifecycle (every command), Latch (two threads, a motor that trips), Partial (two motors), Recovery, Homed; 2–4 calls, up to 2 commands |
| `runtime_live` | Do operations return, does a silent stream stop, does a robot stay ENABLED without a command? | Life: connect, enable, close and one command; Streaming: replaced streaming targets beside any number of gripper commands |
| `motions` | Is the reference continuous, the queue connected, every id accounted for, a completion earned and an end final? | Motions (PV, the product's operations, a full queue of one), Queue (MIT, three queued motions, single cancellations, raw frames), Settle (every kind of snapshot, late cycles, deadlines, disabled arms); 2–4 motions, 2–3 positions |
| `motion_ends` | Does every accepted motion arrive, time out or fault? | Undisturbed: two motions, one queued |
| `grippers` | Does contact rest on uninterrupted evidence, do retreats only open, is a protected gripper held gently? | Closing (two strengths, every torque), Stops (every mode, the worker's stops), Races (an emergency stop beside the worker, its cycles and its stops), Recover; 4 positions |
| `gripper_live` | Does a lasting overload open the gripper, even one that cannot follow? | Pressing; 6 positions |
| `gravity` | Does follow own the target or hold nothing, does the gravity torque move smoothly, does a stop end it? | transition of 3 ticks, 3 positions per arm, every input |
| `motor` | Does a confirmed register hold, a batch end with its call, a reported motor exist, every call return? Does `ControllerGroup` implement `BatchSend`? | two controllers, two callers, two dispatches; two register values, two retry intervals; one required and one optional motor, two rounds |

Why the bounds are enough for the cases to happen: two clients (a third is
symmetric to the second) and two leases (an old and a new one is what every
hand-over needs); two to four sequence numbers (a request, a younger one, its
effect on a motion under way); a lease of two ticks, so that the lifespan of a
stream command fits inside it; a queue of two (full, and one behind the request
in hand). In SafetyRuntime four calls are connect, enable and two more that meet;
a second thread matters where lifecycle_mutex_ is not the only protection
(emergency stop, maintenance); a counter of failures saturates at the largest
value it is compared with, the threshold or, for feedback, three times that. In
TrajectoryControl four ids are an active motion, two queued ones and a
replacement; windows and timeouts are one or two ticks, so that a cycle can fall
before, on and behind each. In GripperControl the window holds more than one
sample and the holds last at least a cycle. In the motor layer two dispatches
show one that inherits from the last, two retries one that is late. All bounds
are named constants. Every mutant in `PROJECT.json` is found within them.

Only `runtime_live` disables the deadlock check: after close() nothing is left
that could happen.

**Fairness.** `ControlService!FairSpec`: weak fairness of the I/O thread's loop,
the loss callback, the shutdown and the worker. Both are ordinary threads which
the system does not stop, take_control_requests and take_stream_commands are
bounded (32 and 64 samples), and every Runtime call has its own deadline. Nothing
is assumed of clients, of time or of the Runtime's own thread. The two waits of
the callback for a mutex are guards, so that the worker could starve it; the run
shows it does not. `SafetyRuntime!Fairness`: weak fairness of the worker, strong
fairness of a caller's steps, because the worker takes and releases
command_mutex_ in each of its cycles and a waiting thread gets the mutex between
two of them, of the end of a planning transaction (its caller is a running
thread), of the worker's pass with its arm timer due, and of its seeing a grace
period that keeps being over (nothing renews `enabled_at_`). For the stream only
time is fair, `WF(CommandAges)`: whether the timeout is ever found due is up to
what renews the time of the last command. In
`TrajectoryControl` and `GripperControl` only the worker is fair. In
`GravityControl` the two halves of a cycle are strongly fair (frames are not
missed for ever, because the failure threshold then stops the product), time goes
on and a batch ends. In the motor layer every thread inside a call runs on and
the bus delivers or loses what it holds; nobody has to call.

### Findings

Two runs show where the code departs from what the repository says of it:

* `late_enable` – ENABLE passes the lease check, the lease is lost and the
  callback disables a robot still READY, ENABLE runs: torque on, no lease,
  nobody left to disable.
* `recover_resumes` – recover() empties the mailboxes but does not end a RUNNING
  trajectory; once its own enable() has turned the motors on, the worker goes on
  with it.

Further counterexamples, kept with their configurations (`tlc -config X.cfg M`)
and each violating the one property it names:

| Configuration | Module | What it shows |
|---|---|---|
| `MCInheritedTorque` | `MCControlService` | acquire() in the gap between expiry and the next loop iteration replaces the lease without the loss callback: the new owner gets an enabled robot (`lease.cpp:23`, against README.md:76) |
| `MCTerminalConnect` | `MCControlService` | after a DISCONNECT that could not confirm the disable the service keeps the terminal Runtime, and CONNECT fails from then on (`cyclone_service.cpp:633`) |
| `MCForeignCompletion` | `MCControlService` | `motion_arrived` of the state before a motion started completes that motion (`cyclone_service.cpp:831`) |
| `MCSubmissionWaits` | `MCControlService` | the I/O thread can wait behind maintenance in spite of the `control_busy_` check (`cyclone_service.cpp:431`) |
| `MCCompeting` | `MCControlService` | the comment in refresh_after_control describes a synchronous service; the worker made it obsolete (`lease.cpp:67`) |
| `MCBatchKeepsTarget` | `MCSafetyRuntime` | a power batch that turns the last motor off keeps the pending slot, and the next enable() sends that old target (`runtime_enable.cpp:953`) |
| `MCTimeoutKeepsTarget` | `MCSafetyRuntime` | clear_faults() gives up under no mutex after another thread has enabled the robot again: the fault it latches keeps the pending slot, and once the motors are off, connect() and enable() send that old target (`runtime_maintenance.cpp:513`) |
| `MCCancelledEmpty` | `MCSafetyRuntime` | a trajectory cancelled before its first cycle leaves an empty mailbox instead of a hold (`runtime_trajectory.cpp:2030`) |
| `MCLatestTarget` | `MCTrajectoryControl` | a raw frame does not end a COMPLETED trajectory, whose hold monitor may turn it RUNNING again and replace the stream (`runtime_commands.cpp:557`) |
| `MCOwnDeadline` | `MCTrajectoryControl` | the stationary phase has no deadline of its own: an arm that stands at its target is faulted by the timeout of the motion (`runtime_trajectory.cpp:1788`) |
| `MCIdleOverload` | `MCGripperControl` | an overload in IDLE or MOVING is never answered by a retreat (`runtime_gripper.cpp:713`) |
| `MCOldEvidence` | `MCGripperControl` | a change of strength in HOLDING keeps the overload time of the old threshold (`runtime_gripper.cpp:457`) |
| `MCFrozenGripper` | `MCGripperControl` | the gripper hold does not look at `hardware_transition_` again and may follow the freeze of recover() (`runtime_gripper.cpp:789`) |
| `MCMovingStop` | `MCGripperControl` | a control cycle between the hold of an emergency stop (`runtime_safety.cpp:173`) and its state (645) commits moving gains (`runtime_gripper.cpp:741`), which a hold without fresh feedback repeats (802, 822) |
| `MCStopAgain` | `GravityControl` | a repeated stop starts the exit again from full scale (`runtime_gravity.cpp:378`) |
| `MCGravityStatus` | `GravityControl` | the commit of a cycle undoes the reset a power batch made meanwhile (`runtime_gravity.cpp:551`) |

The passing runs keep clear of these cases where a property would meet one: the
scenarios with recover() have no trajectory, those with power batches,
motor_power_state or clear_faults no raw stream and no trajectory,
the liveness scenario no cancellation; `ArrivedIsNewest` is about behaviours
without cancel_motion and `NoReferenceJump` about those without raw frames,
`HeldGently` about those without recover() and, within them, about states which
`overtaken` does not mark (`MCMovingStop`), and a repeated stop of gravity
compensation is an input of its counterexample only.

## Proofs

The theorems hold for every value of the constants that satisfies the named
assumptions (`LeaseAssumption`, `ServiceAssumption`, `RuntimeAssumption`,
`BoundsAssumption`, `GripperAssumption`, …), which TLC evaluates in every run.
Each rests on an inductive invariant which TLC checked on the runs' scenarios
before it was proved; the proof has one lemma per action, or per group of actions
alike.

**The service: `ControlServiceProofs`, `ServiceOrderProofs`.** For every set of
clients, every bound on leases and numbers, every queue capacity and every lease
period longer than the stream lifespan (the code has 250 ms and 20 ms).

* `TypeCorrect` (`TypeOK`). Not inductive alone: that events are published for a
  control request needs `MotionRequest` (the worker comes to `motion` and
  `register` only with a MOVE).
* `StreamOwned` (`StreamUnderOwnLease`). Acquire over an expired lease leaves the
  mailbox alone, so "the mailbox belongs to the current lease" is not invariant.
  `MailboxInv` says a command is stale or belongs to the lease *and*
  `lease.ttl + mailbox.age >= LeaseTicks`: the sample that stored it refreshed
  the lease, so when the lease has run out the command has too. `CommandInv`
  carries this from take to submission.
* `LiveLeaseKept` (`LiveLeaseNotTakenOver`), `OneLateOperation`
  (`AtMostOneLateOperation`): as long as the checked request of another lease has
  not started, nothing else has (`LateInv`).
* `RequestsInOrder` (`ExecutedInOrder`): `OrderInv` orders the last executed
  request before the one in hand, that before the queue, the queue itself, and
  all of them before the lease's last number. `EventsInOrder`
  (`MotionEventOrder`) adds which events of the request in hand, and of the
  pending motion, can be out already (`EventInv`).
* `RunningIsAwaited`, `NoMotionWithoutLease`, `NoneLeftPending`, `ShutdownOrder`
  (`ClosedInOrder`): who will end a motion that runs (`AwaitInv`), what the loss callback has already
  stopped at each of its steps (`QuietInv`), that a pending request has a lease or
  a thread on its way to drop it (`PendingInv`), and what the shutdown has done
  (`ShutInv`). `ShutdownOrder` makes no claim about the torque: run() ignores the
  answer of disable() and closes CAN on a FAULT whose disable was not confirmed.

**SafetyRuntime: `SafetyRuntimeProofs`.** For every set of threads and motors and
every operation set: `TransitionNeverLeft` (`TransitionOwned`), `ConfirmedMeansOff`
(`ConfirmedOff`), `EstopStays` (`EstopLatched`), `SilentWhenFrozen` (`Frozen`),
`GraceKeepsCommands` (`GraceDropsNothing`: between the decision of the grace period
and its stop no joint target is acknowledged; trajectories and raw frames do not set
`first_command_accepted_`, so it says nothing of them). One invariant serves all:
`Types` and `Mutexes` (who is inside which section), `Always` (facts between the
shared fields), `Sending` (where no operation is while the worker sends), `Local`
(what the holder of lifecycle_mutex_ knows at each program counter, e.g. that the
motors it has just turned off are off, or that the worker is silenced) and `Rest`
(what holds when no operation is under way). What a thread knows has to survive the steps of the others: `Env`
states once what any other actor may change, and each operation's facts are shown
stable under it, so that the proof is not quadratic in the operations. The
assumption that no caller is named `"worker"` says the worker is a thread of its
own.

`OldTargetsDropped` (`NoOldTarget`) is about the scenarios of `TargetsDropped`, all
those of the run `runtime` among them: it leaves out what `recover_resumes`,
`MCBatchKeepsTarget` and `MCTimeoutKeepsTarget` show, and enable() of a robot that
takes commands because it is PARTIALLY_ENABLED. `OldInv` is proved on top of the
first invariant. `Waits` says what a robot may have in its pending slot and its
trajectory: nothing when it does not move (recover() alone has yet to empty the
slot), nothing during enable(), and that an operation which relies on a stopped
robot has one. `Yields` states once what the worker and the other threads may do
to the targets, `Passes` what each step of an operation does.

**Finite motions: `TrajectoryControlProofs`.** For every operation set, both
modes, every bound of queue and history and every timeout: `QueueIsConsistent`
(`QueueConsistent`), `EndsAreFinal` (`TerminalFinal`), `NewestArrived`
(`ArrivedIsNewest`), `CompletionEarned` (`CompletedAfterWindow`) and
`ReferenceFollowsPath` (`NoReferenceJump`). What a step can do to active motion,
queue and history is one of seven things (`Classified`: nothing, tend the active
motion, terminate all, advance to the head of the queue, replace an ended motion,
enqueue, drop one of the queue). One lemma per kind shows that the first half of
the invariant is kept, one lemma per action that the action is of its kind and
keeps the second half.

* The motions: `Chain` (each queued path begins where its predecessor ends),
  `Ids` (every id in exactly one place, or dropped by a full history), `Newest`,
  and `Shapes`, which the others need to be inductive: cancelling a queued motion
  gives its successor another approach and so another knot; an approach can grow
  once per motion ahead, so approach plus place in the queue stays within
  `MaxQueue + 1`.
* The reference and the verdict: `Carried` says that what the worker takes across
  its unlocked measurement is still true when it judges, or the motion has ended
  meanwhile; `Windowed` that the stable window is never longer than the time
  really spent near the target; `Placed` that the reference is on the part of the
  path already sampled, and at its end once the motion is COMPLETED; `Powered`
  that only a Runtime which takes commands has an active motion.

`BoundsAssumption` asks that positions have no gaps, because an ordinary MIT
reference passes through those between here and its target. `CompletionEarned`
also covers the motion which is archived as COMPLETED when its successor takes
over.

**Grippers: `GripperControlProofs`.** `HeldWithHoldingGains` (`HeldGently`),
`RetreatOnlyOpens` (`RetreatOpens`) and `ContactIsReal` (`ContactEvidence`).
`Types` must bound the samples: `Spread` says that a sample is at least as old as
there are newer ones, so that at most one of those kept covers the window.
`Evident` relates the code's own timers to what happened: the samples at the end
of a motion that show one position are no older than the standstill, and the
contact timer no older than the pressure. `Gentle` follows the gains through both
threads, from the hold each prepares over the section that writes it and the state
that is set later to the copies the holds carry across their two locks; its only
exception is `overtaken`, which a hold with fresh feedback ends again. `Frozen`
says that an emergency stop which is at its own hold, or a recovery, has the state
FAULT. `Retreating` ties the command to the retreat, and `Overrun`
covers the hold a recover() has overtaken: the record has then been seeded anew
and claims nothing. `RetreatOnlyOpens` assumes `OverloadHold # 0` (50 ms in the
built-in profile); without it such a hold would retreat at once, without moving
the command.

**Gravity compensation and follow: `GravityControlProofs`.** `FollowOwned`
(`FollowOwnsTarget`, by `FollowInv`) and `ScaleNeverJumps` (`ScaleSmooth`, by
`ScaleInv`: the scale of the last frame is near the one the clock gives). The
second assumes that a stop is not repeated during the exit, which
`MCStopAgain.cfg` refutes.

**Motor layer: `ControllerGroupProofs`, `MotorLayerProofs`.** `FramesInside`
(`FramesInsideCall`) and `GroupIsBarrier` (`ImplementsBarrier`: every step of
`ControllerGroup` is a step of `BatchSend` or a stutter) from `GroupInv`:
while a caller waits `completed` is the number of threads that are done, otherwise
all of them are; threads leave only when nobody uses the group, and frames are
written under the controller's lock and for the current generation.
`ConfirmedIsHeld` (`ConfirmedValue`) from `RegisterInv`: before the first failed
call nothing on the bus between two calls contradicts the confirmed value
(`Quiet`), and during a write everything behind the first occurrence of the wanted
value, in the order answers, register, writes, is that value (`Ordered`), so that
an acknowledgement carrying it settles the register. `ReportIsTrue`
(`MotorsTrulyReported`) from `ControllerInv`: a motor that has not answered is
still on a list of the call, and the table holds every candidate during a
discovery and the required ones after it.

**Only model-checked.** The liveness properties (`RequestsAnswered`, `LossHandled`,
`ShutdownCompletes`, `CallsReturn`, `StreamExpires`, `EnabledEnds`, `MotionEnds`,
`OverloadOpens`, `GravityExits`, `LayerCallsReturn`): fairness and ENABLED are
outside the prover's reach.

## Abstractions

* *SafetyRuntime*: a failed frame, lost feedback or a refused register is a
  nondeterministic outcome; the combined frame of arm and gripper is two steps;
  the hardware phase of a power batch is one step; planning tokens have no
  identity, because motion_mutex admits one planner; one retry in clear_faults;
  starting gravity compensation or follow, which also renews the time of the last
  command (`runtime_gravity.cpp:195`, `284`), and the resets of gravity and follow are in GravityControl. Two facts of the model
  to know when reading it: DEGRADED never returns to RUNNING, and neither
  start_trajectory nor a raw submission sets first_command_accepted, so the grace
  period may stop them.
* *TrajectoryControl*: time passes with control cycles, each late by at most
  `step`; the deadline of an approach is its duration; all motions are Cartesian;
  a tracking error is unknown, small or lost; steadiness (PV only) is
  nondeterministic; preparing, sending and tracking one cycle is one step, since
  command_mutex_ is held; ages saturate; an ordinary reference goes to its end at
  once in PV and by one position per cycle in MIT; batches, recover() and
  DEGRADED are in SafetyRuntime. A terminated motion keeps its id and its state.
  The wall time of a motion stands still while it is COMPLETED; in the code it goes
  on (`runtime_trajectory.cpp:1949`), so that a hold which is lost late may time out
  at once where the model gives it its old remainder. The end of a motion by a
  tracking fault and the safe stop that follows it, two sections of the worker
  (`runtime_worker.cpp:235`), are one step.
* *GripperControl*: one gripper, the others run the same code on their own
  records; a unit of position is more than `stall_movement` and than the step of
  a cycle; gains are "moving" or "holding"; strength 0 is MIN, without
  protection, and strength n has contact torque n and overload torque n + 1. A
  hold in SAFE_STOP starts from the measured position, so `RetreatOpens` is about
  control cycles.
* *GravityControl*: one position per arm, both counting in one direction; the
  scale is counted in units of 1/Transition²; a cycle is never later than the
  transition is long; the leader's reference is set at once; the reference of an
  ordinary target moves by one position per frame, although the code sets it at once
  for pv_per_joint_profile and mit_direct (`runtime_commands.cpp:965`, `1013`);
  trajectories, which the code excludes, are left out.
* *Motor layer*: the three protocols share no state, and a behaviour of
  `MCMotorLayer` exercises one of them. `ConfirmedValue` speaks of the time before
  the first failed call: an acknowledgement carries no number, so after a failure
  a late one may confirm the next call. The polling thread's look at the number of
  waiters and its lock are one step (the count alone decides nothing else), and the
  shutdown of the bus in close() does not throw (`runtime.cpp:1173`).

## Not modelled

* The Runtime under the service is `RobotRuntime`, one step per call; that
  SafetyRuntime implements it is not shown, and the reset of the SafetyRuntime
  pointer by disconnect while the I/O thread is inside a call is not visible.
* DDS failures: a failing wait or write leaves `run` by an exception, without the
  shutdown order; what the process does then is decided outside the repository.
* submit_gripper_mit, enter_safe_hold_from_feedback, the enable path without an
  interruption callback and replace_motion_id, which the product does not use.
* The health and discovery publishers, message validation, configuration, and
  the registers and texts of maintenance: no state the rest depends on.
* Kinematics, Cartesian planning, trajectory profiles, joint limits, dynamics,
  the torque limiter, force curves: floating point.
* Pacing, wire encoding and socket calls of the motor layer.

## Plan

What the code allows to be modelled faithfully is modelled, and every safety
property a passing run checks is proved. What is left is the relation between the
layers: that SafetyRuntime and TrajectoryControl together keep what `RobotRuntime`
promises the service.
