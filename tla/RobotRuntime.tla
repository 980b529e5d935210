---------------------------- MODULE RobotRuntime ----------------------------
(***************************************************************************)
(* What the product Runtime (YunyiRuntime) promises the DDS service: the   *)
(* whole-robot lifecycle state, the finite motion and the owner of the     *)
(* streaming target, and for every operation of the facade the set of      *)
(* outcomes it may have.  The phases inside an operation and the Runtime's *)
(* own worker thread are the subject of SafetyRuntime.                     *)
(*                                                                         *)
(*   NONE       the service holds no Runtime object                        *)
(*   READY      connected, every motor physically disabled                 *)
(*   ENABLED    ENABLED, RUNNING, DEGRADED, ... : torque on                *)
(*   RECOVERING inside recover(): torque on, returning to calibrated zero  *)
(*   FAULT      latched fault, torque on or off                            *)
(*   TERMINAL   disconnected: worker joined, CAN closed, not reusable      *)
(***************************************************************************)
EXTENDS Integers

LifecycleState ==
  {"NONE", "READY", "ENABLED", "RECOVERING", "FAULT", "TERMINAL"}

MotionState == {"IDLE", "RUNNING", "COMPLETED", "CANCELLED", "FAULT"}

NoMotion == <<0, 0>>

NoRuntime == [state |-> "NONE", motion |-> NoMotion, mstate |-> "IDLE",
              stream |-> 0]

FreshRuntime(s) == [NoRuntime EXCEPT !.state = s]

\* The robot follows targets, which takes torque.  A FAULT is not operational
\* but may have its torque on: estop() keeps it, and a disable that was not
\* confirmed may not have taken it away.
Operational(r) == r.state \in {"ENABLED", "RECOVERING"}

\* Operations that hold SafetyRuntime::lifecycle_mutex_ from start to end.
LifecycleOps == {"CONNECT", "DISCONNECT", "ENABLE", "DISABLE", "ESTOP",
                 "RECOVER", "CLEAR_FAULTS", "CONFIGURE_MODE"}

\* terminate_trajectory_locked: only an active or completed motion changes.
Terminate(r, s) ==
  IF r.mstate \in {"RUNNING", "COMPLETED"}
    THEN [r EXCEPT !.mstate = s]
    ELSE r

\* motion_arrived: no queued motion and the last one idle or completed.
MotionArrived(r) ==
  /\ r.state \notin {"NONE", "TERMINAL"}
  /\ r.mstate \in {"IDLE", "COMPLETED"}

-----------------------------------------------------------------------------
(* Operations: sets of [rt, ok] outcomes *)

Outcome(r, ok) == [rt |-> r, ok |-> ok]
Rejected(r) == {Outcome(r, FALSE)}

\* Mutant: disable without terminate_trajectory_locked.
DisableKeepsMotion(r) ==
  IF r.state \in {"NONE", "TERMINAL"} THEN Rejected(r)
  ELSE {Outcome([r EXCEPT !.state = "READY", !.stream = 0], TRUE)}

\* disable: cancels the motion and clears the streaming target whatever the
\* hardware answers; a latched fault survives, an unconfirmed disable faults.
DisableOutcomes(r) ==
  IF r.state \in {"NONE", "TERMINAL"} THEN Rejected(r)
  ELSE LET off(s) == [Terminate(r, "CANCELLED") EXCEPT !.state = s,
                                                       !.stream = 0]
       IN  {Outcome(off("FAULT"), FALSE),
            Outcome(off(IF r.state = "FAULT" THEN "FAULT" ELSE "READY"), TRUE)}

\* stop_motion: cancel_all_motions.
StopOutcomes(r) ==
  IF r.state \in {"NONE", "TERMINAL"} THEN Rejected(r)
  ELSE {Outcome(Terminate(r, "CANCELLED"), TRUE)}

\* enable: READY becomes ENABLED, or the failed transaction is rolled back
\* into a latched fault.
EnableOutcomes(r) ==
  IF r.state = "READY"
    THEN {Outcome([r EXCEPT !.state = "ENABLED"], TRUE),
          Outcome([r EXCEPT !.state = "FAULT"], FALSE)}
    ELSE Rejected(r)

\* estop: a latched current-position stop, the motion ends in FAULT.
EstopOutcomes(r) ==
  IF r.state \in {"NONE", "TERMINAL"} THEN Rejected(r)
  ELSE LET stop == [Terminate(r, "FAULT") EXCEPT !.state = "FAULT",
                                                 !.stream = 0]
       IN  {Outcome(stop, TRUE), Outcome(stop, FALSE)}

\* recover, when it returns: READY after the final disable, unless a running
\* trajectory still owns the arm when the zero target is submitted; or the
\* rollback of fail_recovery, which leaves the trajectory as it finds it.
RecoverOutcomes(r) ==
  IF r.state # "RECOVERING" THEN Rejected(r)
  ELSE LET end(m, s) == [m EXCEPT !.state = s, !.stream = 0]
       IN  {Outcome(end(m, "FAULT"), FALSE) :
              m \in {r, Terminate(r, "CANCELLED"), Terminate(r, "FAULT")}}
           \cup {Outcome(end(Terminate(r, "CANCELLED"), "READY"), TRUE) :
                   m \in {r.mstate} \ {"RUNNING"}}

\* configure_mode, set_zero and clear_faults: maintenance of a disabled robot.
MaintenanceOutcomes(r, states) ==
  IF r.state \in states
    THEN {Outcome([r EXCEPT !.state = "READY"], TRUE),
          Outcome([r EXCEPT !.state = "FAULT"], FALSE),
          Outcome(r, FALSE)}
    ELSE Rejected(r)

\* connect on an existing object: a READY Runtime is reconfigured, a faulted
\* one is revalidated, a torque-on one is left alone, a terminal one fails.
ConnectOutcomes(r) ==
  CASE r.state = "READY" -> MaintenanceOutcomes(r, {"READY"})
    [] r.state = "FAULT" -> {Outcome(r, TRUE), Outcome(r, FALSE),
                             Outcome([r EXCEPT !.state = "READY"], TRUE)}
    [] OTHER             -> Rejected(r)

\* disconnect is terminal even when the disable it performs is unconfirmed;
\* repeating it on a terminal object succeeds.
DisconnectOutcomes(r) ==
  IF r.state = "TERMINAL" THEN {Outcome(r, TRUE)}
  ELSE LET end == FreshRuntime("TERMINAL")
       IN  {Outcome(end, TRUE), Outcome(end, FALSE)}

\* move_pose, move_linear, move_circular: planned and started only while the
\* robot takes commands and no other finite motion is running.
MoveOutcomes(r, id) ==
  IF r.state = "ENABLED" /\ r.mstate # "RUNNING"
    THEN {Outcome(r, FALSE),
          Outcome([r EXCEPT !.motion = id, !.mstate = "RUNNING",
                            !.stream = 0], TRUE)}
    ELSE Rejected(r)

\* set_joint_pv, set_joint_mit, set_joint_mit_fast of the stream topic.  A
\* completed motion is already replaced when a later check rejects the target.
\* The homing phase of recover() takes targets like any enabled robot.
StreamOutcomes(r, l) ==
  IF Operational(r) /\ r.mstate # "RUNNING"
    THEN {Outcome(r, FALSE),
          Outcome(Terminate(r, "CANCELLED"), FALSE),
          Outcome([Terminate(r, "CANCELLED") EXCEPT !.stream = l], TRUE)}
    ELSE Rejected(r)

-----------------------------------------------------------------------------
(* What the Runtime's own worker thread may do between two calls *)

\* The finite motion settles, loses its hold again, or fails on its own.
MotionSteps(r) ==
  IF ~Operational(r) THEN {}
  ELSE CASE r.mstate = "RUNNING"   -> {[r EXCEPT !.mstate = "COMPLETED"],
                                       [r EXCEPT !.mstate = "FAULT"]}
         [] r.mstate = "COMPLETED" -> {[r EXCEPT !.mstate = "RUNNING"]}
         [] OTHER                  -> {}

\* enter_fault from a watchdog, a feedback or a transport failure.
FaultSteps(r) ==
  IF r.state = "ENABLED"
    THEN {[Terminate(r, "FAULT") EXCEPT !.state = "FAULT", !.stream = 0]}
    ELSE {}

=============================================================================
