--------------------------- MODULE SafetyRuntime ---------------------------
(***************************************************************************)
(* SafetyRuntime: the lifecycle operations of the robot, the threads that  *)
(* submit targets and the worker thread that sends them, supervises them   *)
(* and protects the arms.  They share the state below under three mutexes: *)
(* lifecycle_mutex_ (one operation at a time), command_mutex_ (who talks   *)
(* to the motors) and state_mutex_ (every action here is one section that  *)
(* holds it).  What happens between two sections of one thread may come    *)
(* from any other thread.                                                  *)
(***************************************************************************)
EXTENDS Integers, FiniteSets

CONSTANTS
  Motors,
  Callers,    \* threads that perform lifecycle operations
  NoCaller,
  Scenarios,  \* what may happen in a behaviour
  Threshold   \* feedback_failure_threshold, safe_hold_failure_threshold

AllOps == {"connect", "enable", "disable", "estop", "recover", "configure",
           "set_zero", "clear_faults", "power_state", "power_batch", "close"}

AllInputs == {"stream", "target", "install", "trajectory", "plan", "cancel",
              "gripper"}

\* The motors of the robot, the threads that call, the operations they perform,
\* the commands other threads give, and bounds of the model on operations,
\* submitted targets and motors that fail by themselves.
Scenario ==
  [motors : SUBSET Motors \ {{}}, callers : SUBSET Callers,
   ops : SUBSET AllOps, inputs : SUBSET AllInputs,
   calls : Nat, commands : Nat, trips : Nat]

ASSUME RuntimeAssumption ==
  /\ IsFiniteSet(Motors)
  /\ NoCaller \notin Callers /\ "worker" \notin Callers \cup {NoCaller}
  /\ Scenarios \subseteq Scenario
  /\ Threshold \in Nat \ {0}

VARIABLES
  rt,         \* the members of SafetyRuntime guarded by state_mutex_
  power,      \* what every motor really does
  lifecycle,  \* holder of lifecycle_mutex_
  command,    \* holder of command_mutex_, where it is kept across steps
  call,       \* the operation each caller is in
  worker,     \* the worker thread: position and what it decided to do
  frame,      \* what the last frame to the arm carried
  left        \* the scenario: what may still happen

vars == <<rt, power, lifecycle, command, call, worker, frame, left>>

States == {"DISCONNECTED", "READY", "ENABLED", "RUNNING", "DEGRADED",
           "SAFE_HOLD", "SAFE_STOP", "FAULT", "PARTIALLY_ENABLED"}
Active == {"ENABLED", "RUNNING", "DEGRADED", "PARTIALLY_ENABLED"}
Motion == {"IDLE", "RUNNING", "COMPLETED", "CANCELLED", "FAULT"}

\* A mailbox holds nothing, the measured position of enable(), a streaming
\* target that has to be renewed, or one that holds until it is replaced.
Mailbox == {"none", "hold", "stream", "target"}

\* old marks the targets given before the current enable() or recover().
\* recent: less than command_timeout_ms since last_successful_command_.
\* unsent: the generation of the mailbox is newer than its sent_generation.
Targets == {"mailbox", "pending", "trajectory"}

Present == DOMAIN power

Init ==
  /\ rt = [state |-> "DISCONNECTED", hardware_transition |-> FALSE,
           enable_transaction |-> FALSE, enable_grace |-> FALSE,
           fault_latched |-> FALSE, motor_fault |-> FALSE, estop |-> FALSE,
           disable_confirmed |-> FALSE, stopping |-> FALSE, hold |-> FALSE,
           mailbox |-> "none", pending |-> "none", trajectory |-> "IDLE",
           has_command |-> FALSE, accepted |-> FALSE, planning |-> FALSE,
           gripper |-> FALSE, disabled |-> {}, send_failures |-> 0,
           feedback_failures |-> 0, hold_failures |-> 0, old |-> {},
           recent |-> FALSE, unsent |-> FALSE]
  /\ left \in Scenarios
  /\ power \in [left.motors -> {"off", "on", "fault"}]
  /\ lifecycle = NoCaller
  /\ command = NoCaller
  /\ call = [c \in Callers |-> [op |-> "none", pc |-> "idle", ok |-> TRUE,
                                flag |-> FALSE, from |-> "READY",
                                motors |-> {}]]
  /\ worker = [pc |-> "top", todo |-> {}, severe |-> FALSE]
  /\ frame = [user |-> FALSE, old |-> FALSE, frozen |-> FALSE]

-----------------------------------------------------------------------------
(* Motors *)

AllOff(p) == \A m \in Present : p[m] = "off"
SomeFault(p) == \E m \in Present : p[m] = "fault"

\* What sending a command to the motors s may do: those in state from take it
\* or not.
Commanded(s, from, to) ==
  {[m \in Present |-> IF m \in t THEN to ELSE power[m]] :
     t \in SUBSET {m \in s : power[m] = from}}

\* disable_hardware: the queue barrier, the disable frames, the directed retry
\* and the feedback that confirms them.  Confirmed only if every motor reports
\* the disabled status.
DisableHardware(p, ok) ==
  /\ p \in Commanded(Present, "on", "off")
  /\ ok => AllOff(p)

\* initialize_arm_mailbox_from_feedback: no motor reports a fault.  Missing or
\* stale feedback is a failure of the step that asks.
FreshWithoutFault(p) == ~SomeFault(p)

\* confirm_enabled_feedback.
AllEnabled(p) == \A m \in Present : p[m] = "on"

-----------------------------------------------------------------------------
(* Sections under state_mutex_, as functions of the shared state *)

\* validate_fresh_feedback_snapshot succeeded.
FreshFeedback(r) == [r EXCEPT !.feedback_failures = 0]

\* clear_pending_arm_mailbox() and arm_mailbox_ = ArmMailbox{}.
ClearTargets(r) ==
  [r EXCEPT !.mailbox = "none", !.pending = "none",
            !.old = @ \ {"mailbox", "pending"}, !.unsent = FALSE]

\* terminate_trajectory_locked: what an ended trajectory last wrote into the
\* mailbox stays as a target that holds.
Terminate(r, s) ==
  IF r.trajectory \notin {"RUNNING", "COMPLETED"} THEN r
  ELSE [r EXCEPT !.trajectory = s, !.old = @ \ {"trajectory"},
                 !.mailbox = IF @ = "none" THEN @ ELSE "target"]

\* The targets an operation that takes over the motors finds.
MarkOld(r) ==
  [r EXCEPT !.old = {t \in Targets : \/ t = "mailbox" /\ r.mailbox # "none"
                                     \/ t = "pending" /\ r.pending # "none"
                                     \/ /\ t = "trajectory"
                                        /\ r.trajectory = "RUNNING"}]

\* initialize_enabled_state.
InitializeEnabled(r) ==
  [r EXCEPT !.state = "ENABLED", !.disable_confirmed = FALSE,
            !.has_command = FALSE, !.accepted = FALSE,
            !.enable_grace = FALSE, !.planning = FALSE, !.gripper = FALSE,
            !.send_failures = 0, !.feedback_failures = 0,
            !.hold_failures = 0, !.disabled = {}, !.recent = FALSE]

\* enter_safe_stop after the protective hold is prepared.
SafeStop(r) ==
  [ClearTargets(Terminate(r, "FAULT")) EXCEPT
     !.state = "SAFE_STOP", !.fault_latched = FALSE, !.hold_failures = 0]

\* enter_fault with torque left on: also ends a transaction of another thread.
EnterFault(r, held) ==
  IF r.state = "DISCONNECTED" THEN r
  ELSE [ClearTargets(Terminate(r, "FAULT")) EXCEPT
          !.state = "FAULT", !.fault_latched = TRUE,
          !.motor_fault = @ \/ SomeFault(power),
          !.hardware_transition = FALSE, !.disable_confirmed = FALSE,
          !.hold = held]

\* prepare_protective_hold: a motor that is off or faulted is left out, one
\* whose feedback is stale needs an earlier output to fall back on.
ProtectiveHold(held) ==
  held => \E m \in Present : power[m] = "on"

\* Mutant: commands are taken until the worker has stopped the robot.
TakesDuringGrace(r) ==
  /\ ~r.fault_latched /\ ~r.hardware_transition /\ ~r.enable_transaction
  /\ r.state \in Active

\* require_state_for_command.
TakesCommands(r) ==
  /\ ~r.fault_latched /\ ~r.hardware_transition /\ ~r.enable_transaction
  /\ ~r.enable_grace /\ r.state \in Active

\* install_joint_position: a planning transaction or a running trajectory owns
\* the arm commands, a completed one is replaced.
InstallAllowed(r) ==
  TakesCommands(r) /\ ~r.planning /\ r.trajectory # "RUNNING"

Installed(r) ==
  [Terminate(r, "CANCELLED") EXCEPT
     !.pending = "none", !.mailbox = "target", !.accepted = TRUE,
     !.planning = FALSE, !.unsent = TRUE, !.old = @ \ {"mailbox", "pending"}]

\* The counters stop where no comparison tells larger values apart.
More(n, most) == IF n < most THEN n + 1 ELSE n
MoreLost(n) == More(n, 3 * Threshold)
MoreFailed(n) == More(n, Threshold)

-----------------------------------------------------------------------------
(* Control flow of the callers *)

At(c, pc) == call[c].pc = pc
Go(c, pc) ==
  /\ call' = [call EXCEPT ![c].pc = pc]
  /\ UNCHANGED lifecycle

\* The operation returns.
Return(c) ==
  /\ call' = [call EXCEPT ![c] = [op |-> "none", pc |-> "idle", ok |-> TRUE,
                                  flag |-> FALSE, from |-> "READY",
                                  motors |-> {}]]
  /\ lifecycle' = NoCaller

\* connect(), enable() or disable() ends: for the caller, or inside recover()
\* or close(), which go on.
Finish(c, op, ok) ==
  IF call[c].op = op THEN Return(c)
  ELSE /\ UNCHANGED lifecycle
       /\ call' = [call EXCEPT
            ![c].pc = IF call[c].op = "close" THEN "x_stop"
                      ELSE IF ~ok THEN "r_fail"
                      ELSE CASE op = "connect" -> "r_freeze"
                             [] op = "enable"  -> "r_zero"
                             [] OTHER          -> "r_done"]

\* Between turning the motors off (or on) and saying so, and as long as a
\* maintenance command is on its way, an operation relies on silence.
FrozenAt == {"d_end", "e_state", "e_end", "r_errors", "r_check", "r_ready",
             "r_failed", "m_run", "b_end", "b_unsafe"}

\* A frame to the arm: a user's target, one from before the current enable()
\* or recover(), sent while an operation relies on silence.
Frame(user, old) ==
  [user |-> user, old |-> old,
   frozen |-> user /\ \E c \in Callers : call[c].pc \in FrozenAt]

\* A step of a caller that only changes rt.
Others == UNCHANGED <<power, command, worker, frame, left>>

\* lifecycle_mutex_ is taken and stays with the caller until it returns.
Begin(c, op, pc) ==
  /\ At(c, "idle") /\ c \in left.callers /\ left.calls > 0
  /\ lifecycle = NoCaller /\ lifecycle' = c
  /\ call' = [call EXCEPT ![c].op = op, ![c].pc = pc]
  /\ left' = [left EXCEPT !.calls = @ - 1]
  /\ UNCHANGED <<rt, power, command, worker, frame>>

-----------------------------------------------------------------------------
(* connect *)

\* A faulted Runtime is looked at again unless an emergency stop or a fault of
\* a motor is latched; any other connected one is left alone.
ConnectBegin(c) ==
  /\ At(c, "c_begin")
  /\ IF \/ rt.stopping
        \/ rt.state # "DISCONNECTED"
           /\ \/ rt.state # "FAULT" \/ ~rt.fault_latched \/ rt.estop
              \/ rt.motor_fault \/ rt.hardware_transition
              \/ SomeFault(power)
       THEN /\ rt' = [rt EXCEPT !.motor_fault = @ \/
                        /\ rt.state = "FAULT" /\ rt.fault_latched
                        /\ ~rt.stopping /\ ~rt.estop
                        /\ ~rt.hardware_transition /\ SomeFault(power)]
            /\ Finish(c, "connect", ~rt.stopping)
       ELSE /\ rt' = [rt EXCEPT !.hardware_transition = TRUE]
            /\ call' = [call EXCEPT ![c].pc = "c_feedback",
                                    ![c].flag = rt.state = "FAULT"]
            /\ UNCHANGED lifecycle
  /\ Others

\* Incomplete feedback: the state stays what it was.
ConnectFails(c) ==
  /\ At(c, "c_feedback")
  /\ rt' = [rt EXCEPT !.hardware_transition = FALSE]
  /\ Finish(c, "connect", FALSE)
  /\ Others

\* Every motor answered.  A faulted Runtime needs all of them disabled.
Connected(c) ==
  /\ At(c, "c_feedback")
  /\ IF call[c].flag /\ ~SomeFault(power) /\ ~AllOff(power)
       THEN /\ rt' = [FreshFeedback(rt) EXCEPT
                        !.disable_confirmed = FALSE,
                        !.hardware_transition = FALSE]
            /\ Finish(c, "connect", FALSE)
       ELSE LET latched == rt.estop \/ rt.motor_fault \/ SomeFault(power)
            IN  /\ rt' = [FreshFeedback(rt) EXCEPT
                            !.motor_fault = @ \/ SomeFault(power),
                            !.state = IF latched THEN "FAULT" ELSE "READY",
                            !.fault_latched = latched,
                            !.disable_confirmed = AllOff(power),
                            !.hardware_transition = FALSE]
                /\ Finish(c, "connect", TRUE)
  /\ Others

-----------------------------------------------------------------------------
(* enable *)

EnableBegin(c) ==
  /\ At(c, "e_begin")
  /\ IF \/ rt.state \notin {"READY", "PARTIALLY_ENABLED"}
        \/ rt.fault_latched \/ rt.hardware_transition
       THEN UNCHANGED rt /\ Finish(c, "enable", FALSE)
       ELSE /\ rt' = [rt EXCEPT !.hardware_transition = TRUE,
                                !.enable_transaction = TRUE]
            /\ Go(c, "e_seed")
  /\ Others

\* Fresh feedback without a fault becomes the first hold; anything else fails.
EnableSeed(c) ==
  /\ At(c, "e_seed") /\ command = NoCaller
  /\ \/ /\ FreshWithoutFault(power)
        /\ rt' = [MarkOld(rt) EXCEPT !.mailbox = "hold", !.unsent = TRUE,
                                     !.old = @ \ {"mailbox"}]
        /\ Go(c, "e_power")
     \/ UNCHANGED rt /\ Go(c, "e_fail")
  /\ Others

\* enable_all of each side, in parallel: a side that fails may have enabled
\* some of its motors.
EnableAll(c) ==
  /\ At(c, "e_power")
  /\ power' \in Commanded(Present, "off", "on")
  /\ \E pc \in {"e_state", "e_fail"} : Go(c, pc)
  /\ UNCHANGED <<rt, command, worker, frame, left>>

EnableState(c) ==
  /\ At(c, "e_state")
  /\ rt' = InitializeEnabled(rt)
  /\ Go(c, "e_hold")
  /\ Others

\* send_initial_hold, and the worker may run.
EnableHold(c) ==
  /\ At(c, "e_hold") /\ command = NoCaller
  /\ \/ /\ frame' = Frame(FALSE, "mailbox" \in rt.old)
        /\ rt' = [rt EXCEPT !.hardware_transition = FALSE]
        /\ Go(c, "e_confirm")
     \/ /\ Go(c, "e_fail")
        /\ UNCHANGED <<rt, frame>>
  /\ UNCHANGED <<power, command, worker, left>>

\* confirm_enabled_feedback until enable_grace_ms are over.
EnableConfirm(c) ==
  /\ At(c, "e_confirm")
  /\ \/ /\ AllEnabled(power)
        /\ rt' = [rt EXCEPT !.enable_transaction = FALSE]
        /\ Finish(c, "enable", TRUE)
     \/ UNCHANGED rt /\ Go(c, "e_fail")
  /\ Others

EnableFault(c) ==
  /\ At(c, "e_fail") /\ command = NoCaller
  /\ rt' = [ClearTargets(rt) EXCEPT
              !.state = "FAULT", !.fault_latched = TRUE,
              !.motor_fault = @ \/ SomeFault(power),
              !.hardware_transition = TRUE, !.disable_confirmed = FALSE]
  /\ Go(c, "e_rollback")
  /\ Others

\* Mutant: the rollback does not wait for the confirmation.
EnableUnconfirmed(c) ==
  /\ At(c, "e_rollback") /\ command = NoCaller
  /\ power' \in Commanded(Present, "on", "off")
  /\ call' = [call EXCEPT ![c].pc = "e_end", ![c].ok = TRUE]
  /\ UNCHANGED <<rt, lifecycle, command, worker, frame, left>>

EnableRollback(c) ==
  /\ At(c, "e_rollback") /\ command = NoCaller
  /\ \E ok \in BOOLEAN :
       /\ \E p \in [Present -> {"off", "on", "fault"}] :
            DisableHardware(p, ok) /\ power' = p
       /\ call' = [call EXCEPT ![c].pc = "e_end", ![c].ok = ok]
  /\ UNCHANGED <<rt, lifecycle, command, worker, frame, left>>

EnableEnd(c) ==
  /\ At(c, "e_end")
  /\ rt' = [rt EXCEPT !.disable_confirmed = call[c].ok,
                      !.hardware_transition = FALSE,
                      !.enable_transaction = FALSE]
  /\ Finish(c, "enable", FALSE)
  /\ Others

Enable(c) ==
  \/ EnableBegin(c) \/ EnableSeed(c) \/ EnableAll(c) \/ EnableState(c)
  \/ EnableHold(c) \/ EnableConfirm(c) \/ EnableFault(c)
  \/ EnableRollback(c) \/ EnableEnd(c)

-----------------------------------------------------------------------------
(* disable *)

\* flag: a latched fault is preserved.
DisableBegin(c) ==
  /\ At(c, "d_begin")
  /\ IF rt.state = "DISCONNECTED"
       THEN UNCHANGED rt /\ Finish(c, "disable", FALSE)
       ELSE /\ rt' = [Terminate(rt, "CANCELLED") EXCEPT
                        !.hardware_transition = TRUE]
            /\ call' = [call EXCEPT
                          ![c].pc = "d_motors",
                          ![c].flag = rt.state = "FAULT" /\ rt.fault_latched]
            /\ UNCHANGED lifecycle
  /\ Others

DisableMotors(c) ==
  /\ At(c, "d_motors") /\ command = NoCaller
  /\ \E ok \in BOOLEAN :
       /\ \E p \in [Present -> {"off", "on", "fault"}] :
            DisableHardware(p, ok) /\ power' = p
       /\ call' = [call EXCEPT ![c].pc = "d_end", ![c].ok = ok]
  /\ UNCHANGED <<rt, lifecycle, command, worker, frame, left>>

\* Mutant: the targets outlive disable().
Disabled(r, ok, keep) ==
  [r EXCEPT !.disable_confirmed = ok, !.hold = FALSE, !.has_command = FALSE,
            !.accepted = FALSE, !.enable_grace = FALSE, !.planning = FALSE,
            !.gripper = FALSE, !.hardware_transition = FALSE,
            !.disabled = IF ok THEN {} ELSE @,
            !.state = IF ok /\ ~keep THEN "READY" ELSE "FAULT",
            !.fault_latched = IF ok THEN @ \/ keep ELSE TRUE,
            !.motor_fault = @ \/ (~ok /\ SomeFault(power))]

\* The last section of disable(): READY, or a fault that was there before or
\* that the unconfirmed disable is.
DisableResult(r, ok, keep) ==
  [ClearTargets(r) EXCEPT
     !.disable_confirmed = ok, !.hold = FALSE, !.has_command = FALSE,
     !.accepted = FALSE, !.enable_grace = FALSE, !.planning = FALSE,
     !.gripper = FALSE, !.hardware_transition = FALSE,
     !.disabled = IF ok THEN {} ELSE @,
     !.state = IF ok /\ ~keep THEN "READY" ELSE "FAULT",
     !.fault_latched = IF ok THEN @ \/ keep ELSE TRUE,
     !.motor_fault = @ \/ (~ok /\ SomeFault(power))]

DisableEnd(c) ==
  /\ At(c, "d_end")
  /\ rt' = DisableResult(rt, call[c].ok, call[c].flag)
  /\ Finish(c, "disable", call[c].ok)
  /\ Others

Disable(c) == DisableBegin(c) \/ DisableMotors(c) \/ DisableEnd(c)

-----------------------------------------------------------------------------
(* estop: a latched stop that keeps the torque on *)

\* flag: a protective hold is needed; ok: disable was confirmed before.
EstopBegin(c) ==
  /\ At(c, "s_begin")
  /\ rt' = [rt EXCEPT !.estop = TRUE, !.fault_latched = TRUE]
  /\ IF rt.estop \/ rt.state = "DISCONNECTED"
       THEN Return(c)
       ELSE /\ call' = [call EXCEPT
                          ![c].pc = "s_prepare",
                          ![c].ok = rt.disable_confirmed,
                          ![c].flag = /\ ~rt.disable_confirmed
                                      /\ rt.state # "READY"]
            /\ UNCHANGED lifecycle
  /\ Others

EstopPrepare(c) ==
  /\ At(c, "s_prepare") /\ command = NoCaller
  /\ IF call[c].flag
       THEN \E held \in BOOLEAN :
              /\ ProtectiveHold(held)
              /\ rt' = [rt EXCEPT !.hold = held]
              /\ call' = [call EXCEPT ![c].pc = "s_fault", ![c].ok = held]
              /\ UNCHANGED lifecycle
       ELSE UNCHANGED rt /\ Go(c, "s_fault")
  /\ Others

EstopFault(c) ==
  /\ At(c, "s_fault") /\ command = NoCaller
  /\ rt' = EnterFault(rt, call[c].flag /\ call[c].ok)
  /\ Go(c, IF call[c].flag THEN "s_hold" ELSE "s_confirmed")
  /\ Others

\* A robot that was physically disabled stays known as such.
EstopConfirmed(c) ==
  /\ At(c, "s_confirmed")
  /\ rt' = [rt EXCEPT !.disable_confirmed = call[c].ok]
  /\ Return(c)
  /\ Others

\* The first hold is sent at once, if there is one; estop() fails otherwise
\* and stays latched.
EstopHold(c) ==
  /\ At(c, "s_hold") /\ command = NoCaller
  /\ frame' = IF rt.hold /\ rt.state = "FAULT" /\ ~rt.hardware_transition
                THEN Frame(FALSE, FALSE) ELSE frame
  /\ Return(c)
  /\ UNCHANGED <<rt, power, command, worker, left>>

Estop(c) ==
  \/ EstopBegin(c) \/ EstopPrepare(c) \/ EstopFault(c)
  \/ EstopConfirmed(c) \/ EstopHold(c)

-----------------------------------------------------------------------------
(* Maintenance: configure_mode, set_zero, clear_faults *)

Maintenance == {"configure", "set_zero", "clear_faults"}

\* Mutant: clear_faults() is possible while the emergency stop is latched.
ClearsAnything(op) ==
  /\ ~rt.hardware_transition
  /\ \/ rt.state = "READY"
     \/ op = "clear_faults" /\ rt.state = "FAULT"

\* maintenance_precheck, its first section.
MaintenanceAllowed(op) ==
  /\ ~rt.hardware_transition
  /\ \/ rt.state = "READY"
     \/ op = "clear_faults" /\ rt.state = "FAULT" /\ ~rt.estop

\* command_mutex_ is kept until the operation is over.
MaintenanceBegin(c) ==
  /\ At(c, "m_begin") /\ command = NoCaller
  /\ command' = c
  /\ IF MaintenanceAllowed(call[c].op)
       THEN /\ rt' = [rt EXCEPT !.hardware_transition = TRUE]
            /\ Go(c, "m_run")
       ELSE UNCHANGED rt /\ Go(c, "m_plain")
  /\ UNCHANGED <<power, worker, frame, left>>

\* The checks of the transport and of the feedback, the commands and the
\* verification.  Clearing faults may end a fault of a motor.  Present that
\* move, or a backend without the command, are refused without a fault.
MaintenanceRun(c) ==
  /\ At(c, "m_run")
  /\ \/ UNCHANGED power
     \/ /\ call[c].op = "clear_faults"
        /\ power' \in Commanded(Present, "fault", "off")
  /\ \/ AllOff(power') /\ Go(c, "m_ok")
     \/ power' = power /\ Go(c, "m_plain")
     \/ Go(c, "m_latch")
     \/ Go(c, "m_again")
  /\ UNCHANGED <<rt, command, worker, frame, left>>

\* Mutant: a refused operation does not end its transaction.
RefusalKeepsTransition(r, op, outcome) ==
  CASE outcome = "m_ok" ->
         [r EXCEPT !.hardware_transition = FALSE, !.state = "READY",
                   !.disable_confirmed = TRUE, !.fault_latched = FALSE]
    [] outcome = "m_plain" -> r
    [] OTHER ->
         [r EXCEPT !.hardware_transition = FALSE, !.state = "FAULT",
                   !.fault_latched = TRUE, !.disable_confirmed = FALSE]

\* finish_maintenance.  A success makes a READY Runtime, a latched fault
\* included unless it is the one that clears it.
MaintenanceResult(r, op, outcome) ==
  CASE outcome = "m_ok" ->
         [FreshFeedback(r) EXCEPT
                   !.hardware_transition = FALSE, !.state = "READY",
                   !.disable_confirmed = TRUE,
                   !.fault_latched = @ /\ op # "clear_faults",
                   !.motor_fault = @ /\ op # "clear_faults"]
    [] outcome = "m_plain" -> [r EXCEPT !.hardware_transition = FALSE]
    [] OTHER ->
         [r EXCEPT !.hardware_transition = FALSE, !.state = "FAULT",
                   !.fault_latched = TRUE, !.disable_confirmed = FALSE,
                   !.motor_fault = @ \/ SomeFault(power)]

\* Both mutexes are released.  clear_faults() looks again after feedback that
\* was incomplete or that still reports a fault.
MaintenanceEnd(c) ==
  /\ call[c].pc \in {"m_ok", "m_plain", "m_latch", "m_again"}
  /\ rt' = MaintenanceResult(rt, call[c].op, call[c].pc)
  /\ command' = NoCaller /\ lifecycle' = NoCaller
  /\ IF At(c, "m_again") /\ call[c].op = "clear_faults"
       THEN call' = [call EXCEPT ![c].pc = "m_retry"]
       ELSE Return(c)
  /\ UNCHANGED <<power, worker, frame, left>>

\* One retry stands for those of kClearFaultRetryWindow.
ClearFaultsRetry(c) ==
  /\ At(c, "m_retry") /\ ~call[c].flag /\ lifecycle = NoCaller
  /\ lifecycle' = c
  /\ call' = [call EXCEPT ![c].pc = "m_begin", ![c].flag = TRUE]
  /\ UNCHANGED rt /\ Others

\* The window is over: the fault is latched again, under no mutex but
\* state_mutex_.
ClearFaultsTimeout(c) ==
  /\ At(c, "m_retry")
  /\ rt' = MaintenanceResult(rt, "clear_faults", "m_latch")
  /\ call' = [call EXCEPT ![c].op = "none", ![c].pc = "idle",
                          ![c].flag = FALSE]
  /\ UNCHANGED lifecycle /\ Others

MaintenanceSteps(c) ==
  \/ MaintenanceBegin(c) \/ MaintenanceRun(c) \/ MaintenanceEnd(c)
  \/ ClearFaultsRetry(c) \/ ClearFaultsTimeout(c)

-----------------------------------------------------------------------------
(* recover: clear, check, enable, return to zero, disable *)

RecoverBegin(c) ==
  /\ At(c, "r_begin")
  /\ IF rt.stopping \/ rt.hardware_transition THEN Return(c)
     ELSE Go(c, IF rt.state = "DISCONNECTED" THEN "c_begin" ELSE "r_freeze")
  /\ UNCHANGED rt /\ Others

\* Nothing is accepted and the worker sends nothing from here on.
RecoverFreeze(c) ==
  /\ At(c, "r_freeze")
  /\ rt' = [rt EXCEPT !.state = "FAULT", !.fault_latched = TRUE,
                      !.hardware_transition = TRUE]
  /\ Go(c, "r_clear")
  /\ Others

\* The mailboxes are emptied; a trajectory that runs is left as it is.
RecoverClear(c) ==
  /\ At(c, "r_clear") /\ command = NoCaller
  /\ rt' = [ClearTargets(MarkOld(rt)) EXCEPT !.hold = FALSE]
  /\ Go(c, "r_disable")
  /\ Others

RecoverDisable(c) ==
  /\ At(c, "r_disable") /\ command = NoCaller
  /\ \E ok \in BOOLEAN :
       /\ \E p \in [Present -> {"off", "on", "fault"}] :
            DisableHardware(p, ok) /\ power' = p
       /\ rt' = IF ok THEN [rt EXCEPT !.disable_confirmed = TRUE] ELSE rt
       /\ Go(c, IF ok THEN "r_errors" ELSE "r_fail")
  /\ UNCHANGED <<command, worker, frame, left>>

RecoverErrors(c) ==
  /\ At(c, "r_errors")
  /\ power' \in Commanded(Present, "fault", "off")
  /\ \/ /\ rt' = [rt EXCEPT !.motor_fault = FALSE]
        /\ Go(c, "r_check")
     \/ UNCHANGED rt /\ Go(c, "r_fail")
  /\ UNCHANGED <<command, worker, frame, left>>

\* Transport, feedback, control mode and calibrated positions.
RecoverCheck(c) ==
  /\ At(c, "r_check")
  /\ \/ AllOff(power) /\ Go(c, "r_ready")
     \/ Go(c, "r_fail")
  /\ UNCHANGED rt /\ Others

RecoverReady(c) ==
  /\ At(c, "r_ready")
  /\ rt' = [rt EXCEPT !.state = "READY", !.fault_latched = FALSE,
                      !.motor_fault = FALSE, !.disable_confirmed = TRUE,
                      !.hardware_transition = FALSE]
  /\ Go(c, "e_begin")
  /\ Others

\* set_joint_pv_speed or set_joint_mit_speed towards zero.
RecoverZero(c) ==
  /\ At(c, "r_zero") /\ command = NoCaller
  /\ \/ InstallAllowed(rt) /\ rt' = Installed(rt) /\ Go(c, "r_home")
     \/ UNCHANGED rt /\ Go(c, "r_fail")
  /\ Others

\* Until every joint is at zero, the Runtime stopped or the time is over.
RecoverHome(c) ==
  /\ At(c, "r_home")
  /\ \/ /\ rt.state \notin {"FAULT", "SAFE_STOP", "DEGRADED"}
        /\ AllEnabled(power)
        /\ Go(c, "d_begin")
     \/ Go(c, "r_fail")
  /\ UNCHANGED rt /\ Others

RecoverDone(c) ==
  /\ At(c, "r_done")
  /\ rt' = [rt EXCEPT !.state = "READY", !.fault_latched = FALSE,
                      !.motor_fault = FALSE, !.estop = FALSE,
                      !.disable_confirmed = TRUE, !.send_failures = 0,
                      !.feedback_failures = 0]
  /\ Return(c)
  /\ Others

\* fail_recovery: everything is given up, the motors are turned off again.
RecoverFails(c) ==
  /\ At(c, "r_fail") /\ command = NoCaller
  /\ rt' = [ClearTargets(rt) EXCEPT
              !.hold = FALSE, !.state = "FAULT", !.fault_latched = TRUE,
              !.motor_fault = @ \/ SomeFault(power),
              !.hardware_transition = TRUE]
  /\ Go(c, "r_rollback")
  /\ Others

RecoverRollback(c) ==
  /\ At(c, "r_rollback") /\ command = NoCaller
  /\ \E ok \in BOOLEAN :
       /\ \E p \in [Present -> {"off", "on", "fault"}] :
            DisableHardware(p, ok) /\ power' = p
       /\ call' = [call EXCEPT ![c].pc = "r_failed", ![c].ok = ok]
  /\ UNCHANGED <<rt, lifecycle, command, worker, frame, left>>

RecoverFailed(c) ==
  /\ At(c, "r_failed")
  /\ rt' = [rt EXCEPT !.state = "FAULT", !.fault_latched = TRUE,
                      !.disable_confirmed = call[c].ok,
                      !.hardware_transition = FALSE,
                      !.enable_transaction = FALSE]
  /\ Return(c)
  /\ Others

Recover(c) ==
  \/ RecoverBegin(c) \/ RecoverFreeze(c) \/ RecoverClear(c)
  \/ RecoverDisable(c) \/ RecoverErrors(c) \/ RecoverCheck(c)
  \/ RecoverReady(c) \/ RecoverZero(c) \/ RecoverHome(c) \/ RecoverDone(c)
  \/ RecoverFails(c) \/ RecoverRollback(c) \/ RecoverFailed(c)

-----------------------------------------------------------------------------
(* Power of single motors *)

\* motor_power_state: only a READY or partly enabled Runtime asks the motors.
PowerStateBegin(c) ==
  /\ At(c, "q_begin")
  /\ IF rt.state \in {"READY", "PARTIALLY_ENABLED"}
       THEN /\ rt' = [rt EXCEPT !.hardware_transition = TRUE]
            /\ Go(c, "q_feedback")
       ELSE UNCHANGED rt /\ Return(c)
  /\ Others

PowerStateFeedback(c) ==
  /\ At(c, "q_feedback") /\ command = NoCaller
  /\ \/ rt' = [rt EXCEPT !.hardware_transition = FALSE] /\ Return(c)
     \/ rt' = FreshFeedback(rt) /\ Go(c, "q_end")
  /\ Others

PowerStateEnd(c) ==
  /\ At(c, "q_end")
  /\ rt' = [rt EXCEPT !.state = IF AllOff(power) THEN "READY"
                                ELSE "PARTIALLY_ENABLED",
                      !.disable_confirmed = AllOff(power),
                      !.hardware_transition = FALSE]
  /\ Return(c)
  /\ Others

\* set_motor_power_batch of some motors.  flag: they are to be enabled.
BatchBegin(c) ==
  /\ At(c, "b_begin")
  /\ \E s \in SUBSET Present \ {{}}, enabled \in BOOLEAN :
       IF \/ rt.state = "DISCONNECTED" \/ rt.stopping
          \/ enabled /\ \/ rt.state \notin {"READY", "PARTIALLY_ENABLED"}
                        \/ rt.fault_latched
          \/ rt.hardware_transition
         THEN UNCHANGED rt /\ Return(c)
         ELSE /\ rt' = [Terminate(rt, "CANCELLED") EXCEPT
                          !.hardware_transition = TRUE,
                          !.disabled = IF enabled THEN @ ELSE @ \cup s]
              /\ call' = [call EXCEPT ![c].pc = "b_motors", ![c].motors = s,
                                      ![c].flag = enabled,
                                      ![c].from = rt.state]
              /\ UNCHANGED lifecycle
  /\ Others

\* Feedback first: without it, or with a faulted motor among those to enable,
\* nothing is sent.  A failed enable is rolled back.  ok: the transaction
\* succeeded; pc tells whether the rollback was not confirmed.
BatchMotors(c) ==
  LET s    == call[c].motors
      off  == {m \in Present : power[m] = "off"}
      seen == IF call[c].flag /\ call[c].from = "READY"
                THEN rt.disabled \cup off ELSE rt.disabled
      End(ok, pc) == call' = [call EXCEPT ![c].pc = pc, ![c].ok = ok]
  IN
  /\ At(c, "b_motors") /\ command = NoCaller
  /\ \/ /\ UNCHANGED power
        /\ \E t \in SUBSET (IF call[c].flag THEN off ELSE {}) :
             \E r \in {rt, FreshFeedback(rt)} :
               rt' = [r EXCEPT !.disabled = @ \cup t]
        /\ End(FALSE, "b_end")
     \/ /\ call[c].flag /\ \A m \in s : power[m] # "fault"
        /\ power' = [m \in Present |-> IF m \in s THEN "on" ELSE power[m]]
        /\ rt' = [FreshFeedback(rt) EXCEPT !.disabled = seen \ s]
        /\ End(TRUE, "b_end")
     \/ /\ call[c].flag /\ s \cap off # {}
        /\ \A m \in s : power[m] # "fault"
        /\ power' \in Commanded(s, "off", "on")
        /\ rt' = [FreshFeedback(rt) EXCEPT !.disabled = seen \cup (s \cap off)]
        /\ \/ power' = power /\ End(FALSE, "b_end")
           \/ End(FALSE, "b_unsafe")
     \/ /\ ~call[c].flag
        /\ power' \in Commanded(s, "on", "off")
        /\ rt' \in {rt, FreshFeedback(rt)}
        /\ \/ (\A m \in s : power'[m] = "off") /\ End(TRUE, "b_end")
           \/ End(FALSE, "b_end")
  /\ UNCHANGED <<lifecycle, command, worker, frame, left>>

\* A state that already protects the robot is kept by a partial disable.
BatchResult(r, from, enabled, ok) ==
  LET keep == ~enabled /\ from \in {"DEGRADED", "SAFE_HOLD", "SAFE_STOP",
                                    "FAULT"}
      on   == enabled /\ ok /\ ~r.fault_latched
  IN  [r EXCEPT
         !.hardware_transition = FALSE,
         !.disable_confirmed = AllOff(power) /\ ~on,
         !.state = IF keep THEN from
                   ELSE IF r.fault_latched THEN @
                   ELSE IF AllOff(power) /\ ~on THEN "READY"
                   ELSE "PARTIALLY_ENABLED",
         !.disabled = IF ~AllOff(power) THEN @
                      ELSE IF keep THEN Present
                      ELSE IF r.fault_latched THEN @
                      ELSE {}]

BatchEnd(c) ==
  /\ \/ /\ At(c, "b_end")
        /\ rt' = BatchResult(rt, call[c].from, call[c].flag, call[c].ok)
     \/ /\ At(c, "b_unsafe")
        /\ rt' = [rt EXCEPT !.state = "FAULT", !.fault_latched = TRUE,
                            !.motor_fault = @ \/ SomeFault(power),
                            !.disable_confirmed = FALSE,
                            !.hardware_transition = FALSE]
  /\ Return(c)
  /\ Others

PowerSteps(c) ==
  \/ PowerStateBegin(c) \/ PowerStateFeedback(c) \/ PowerStateEnd(c)
  \/ BatchBegin(c) \/ BatchMotors(c) \/ BatchEnd(c)

-----------------------------------------------------------------------------
(* close *)

CloseBegin(c) ==
  /\ At(c, "x_begin")
  /\ IF rt.stopping THEN Return(c)
     ELSE Go(c, IF /\ rt.state # "DISCONNECTED"
                   /\ \/ ~rt.disable_confirmed
                      \/ rt.state \in Active \cup {"SAFE_HOLD", "SAFE_STOP"}
                  THEN "d_begin" ELSE "x_stop")
  /\ UNCHANGED rt /\ Others

\* stop_worker, whether the disable was confirmed or not.
CloseStop(c) ==
  /\ At(c, "x_stop")
  /\ rt' = [ClearTargets(Terminate(rt, "CANCELLED")) EXCEPT
              !.stopping = TRUE, !.accepted = FALSE, !.enable_grace = FALSE,
              !.planning = FALSE, !.hold = FALSE]
  /\ Go(c, "x_join")
  /\ Others

CloseJoin(c) ==
  /\ At(c, "x_join") /\ worker.pc = "gone"
  /\ rt' = [rt EXCEPT !.state = "DISCONNECTED"]
  /\ Return(c)
  /\ Others

Close(c) == CloseBegin(c) \/ CloseStop(c) \/ CloseJoin(c)

-----------------------------------------------------------------------------
(* Targets of the threads that command the robot *)

\* A target is submitted; r is what it makes of the shared state.
Command(input, r) ==
  /\ input \in left.inputs /\ left.commands > 0 /\ rt' = r
  /\ left' = [left EXCEPT !.commands = @ - 1]
  /\ UNCHANGED <<power, lifecycle, command, call, worker, frame>>

\* submit_pos_vel_ex, submit_mit_ex: into the pending slot, which does not
\* wait for command_mutex_.
Submit(m) ==
  /\ InstallAllowed(rt)
  /\ Command(m, [rt EXCEPT !.pending = m, !.old = @ \ {"pending"}])

Install ==
  /\ command = NoCaller /\ InstallAllowed(rt)
  /\ Command("install", Installed(rt))

\* start_trajectory.  Its first cycle fills the mailbox.
StartTrajectory ==
  /\ command = NoCaller /\ InstallAllowed(rt) /\ rt.state # "DEGRADED"
  /\ Command("trajectory", [ClearTargets(rt) EXCEPT
                              !.trajectory = "RUNNING", !.old = {}])

\* begin_command_planning: until the command is there or given up.
PlanBegin ==
  /\ command = NoCaller /\ InstallAllowed(rt)
  /\ Command("plan", [rt EXCEPT !.planning = TRUE])

PlanEnd ==
  LET r == [rt EXCEPT !.planning = FALSE] IN
  /\ rt.planning
  /\ \/ rt' = r
     \/ command = NoCaller /\ InstallAllowed(r) /\ rt' = Installed(r)
  /\ UNCHANGED <<power, lifecycle, command, call, worker, frame, left>>

Cancel ==
  /\ command = NoCaller /\ rt.trajectory \in {"RUNNING", "COMPLETED"}
  /\ Command("cancel", Terminate(rt, "CANCELLED"))

\* Gripper commands need no bound: a newer one replaces the last.
GripperCommand ==
  /\ command = NoCaller /\ InstallAllowed(rt)
  /\ "gripper" \in left.inputs
  /\ rt' = [rt EXCEPT !.gripper = TRUE]
  /\ UNCHANGED <<power, lifecycle, command, call, worker, frame, left>>

Commands ==
  \/ \E m \in {"stream", "target"} : Submit(m)
  \/ Install \/ StartTrajectory \/ PlanBegin \/ PlanEnd \/ Cancel
  \/ GripperCommand

\* A motor loses its power or reports a fault.
Trip(m) ==
  /\ left.trips > 0 /\ power[m] = "on"
  /\ \E s \in {"off", "fault"} : power' = [power EXCEPT ![m] = s]
  /\ left' = [left EXCEPT !.trips = @ - 1]
  /\ UNCHANGED <<rt, lifecycle, command, call, worker, frame>>

-----------------------------------------------------------------------------
(* The worker thread *)

\* The steps of one pass, in this order.
FirstOf(t) ==
  IF "arm" \in t THEN "arm"
  ELSE IF "feedback" \in t THEN "feedback"
  ELSE IF "gripper" \in t THEN "gripper"
  ELSE IF "hold" \in t THEN "hold"
  ELSE "top"

\* The rest of the pass is given up.
Leave(pc) == worker' = [pc |-> pc, todo |-> {}, severe |-> FALSE]
Done(task) == worker' = [worker EXCEPT !.todo = @ \ {task},
                                       !.pc = FirstOf(worker.todo \ {task})]
ByWorker == UNCHANGED <<power, lifecycle, call, left>>

\* Mutant: the wait does not end with stopping_.
TopIgnoresStop ==
  /\ worker.pc = "top" /\ ~rt.hardware_transition
  /\ Leave("decide")
  /\ UNCHANGED <<rt, command, frame>> /\ ByWorker

WorkerTop ==
  /\ worker.pc = "top"
  /\ \/ rt.stopping /\ Leave("gone")
     \/ ~rt.stopping /\ ~rt.hardware_transition /\ Leave("decide")
  /\ UNCHANGED <<rt, command, frame>> /\ ByWorker

\* Mutant: the hold of enable() counts as a command.
HoldCounts(r) ==
  /\ r.state = "ENABLED" /\ ~r.enable_transaction
  /\ ~r.has_command /\ ~r.accepted /\ ~r.planning
  /\ r.mailbox = "none"

\* No first command within enable_grace_ms.
GraceExpired(r) ==
  /\ r.state = "ENABLED" /\ ~r.enable_transaction
  /\ ~r.has_command /\ ~r.accepted /\ ~r.planning

DecideGrace ==
  /\ worker.pc = "decide" /\ GraceExpired(rt)
  /\ rt' = [rt EXCEPT !.enable_grace = TRUE]
  /\ Leave("stop")
  /\ UNCHANGED <<command, frame>> /\ ByWorker

\* The streaming target was not renewed within command_timeout_ms.
TimeoutDue(r) ==
  /\ r.state \in {"RUNNING", "DEGRADED", "PARTIALLY_ENABLED"}
  /\ r.has_command /\ r.mailbox = "stream" /\ ~r.recent

DecideTimeout ==
  /\ worker.pc = "decide" /\ TimeoutDue(rt)
  /\ Leave("stop")
  /\ UNCHANGED <<rt, command, frame>> /\ ByWorker

\* What the timers may ask for in a state.
Due(r) ==
  CASE r.state = "ENABLED" ->
         {"arm"} \cup (IF r.enable_transaction THEN {} ELSE {"gripper"})
    [] r.state \in Active \ {"ENABLED"} ->
         {"arm", "feedback"}
           \cup (IF r.enable_transaction THEN {} ELSE {"gripper"})
    [] r.state \in {"SAFE_HOLD", "SAFE_STOP"} -> {"feedback", "hold"}
    [] r.state = "FAULT" /\ r.hold ->
         {"hold"} \cup (IF r.estop THEN {"feedback"} ELSE {})
    [] OTHER -> {}

\* A timeout ends the pass before its work.
DecideWork ==
  /\ worker.pc = "decide" /\ ~TimeoutDue(rt)
  /\ \/ /\ rt.state = "READY" /\ Leave("ready")
     \/ \E t \in SUBSET Due(rt) :
          worker' = [worker EXCEPT !.pc = FirstOf(t), !.todo = t]
  /\ UNCHANGED <<rt, command, frame>> /\ ByWorker

\* Feedback of the idle robot.
WorkerReady ==
  /\ worker.pc = "ready" /\ command = NoCaller
  /\ IF ~rt.hardware_transition /\ rt.state = "READY"
       THEN \/ rt' = FreshFeedback(rt)
            \/ rt' = [rt EXCEPT !.feedback_failures = MoreLost(@)]
       ELSE UNCHANGED rt
  /\ Leave("top")
  /\ UNCHANGED <<command, frame>> /\ ByWorker

\* Mutant: the cycle trusts what the worker decided.
TrustsDecision(r) == r.state # "DISCONNECTED"

\* run_arm_control_cycle looks again before it touches the mailbox.
CycleRuns(r) == ~r.hardware_transition /\ r.state \in Active

\* A running trajectory writes the mailbox; otherwise the newest submission
\* replaces it.
Consumed(r) ==
  IF r.trajectory = "RUNNING"
  THEN [r EXCEPT !.mailbox = "target", !.unsent = TRUE,
                 !.old = (@ \ {"mailbox"}) \cup
                   (IF "trajectory" \in @ THEN {"mailbox"} ELSE {})]
  ELSE IF r.pending # "none"
  THEN [r EXCEPT !.mailbox = r.pending, !.pending = "none", !.unsent = TRUE,
                 !.old = (@ \ {"mailbox", "pending"}) \cup
                   (IF "pending" \in @ THEN {"mailbox"} ELSE {})]
  ELSE r

\* The worker keeps command_mutex_ until the frame is out.
WorkerArm ==
  /\ worker.pc = "arm" /\ command = NoCaller
  /\ IF ~CycleRuns(rt)
       THEN UNCHANGED <<rt, command>> /\ Done("arm")
       ELSE \/ /\ rt.trajectory = "RUNNING"
               /\ UNCHANGED <<rt, command>> /\ Leave("failed")
            \/ /\ rt' = Consumed(rt)
               /\ IF rt'.mailbox = "none"
                    THEN UNCHANGED command /\ Done("arm")
                    ELSE \/ /\ command' = "worker"
                            /\ worker' = [worker EXCEPT !.pc = "send"]
                         \/ UNCHANGED command /\ Leave("failed")
  /\ UNCHANGED frame /\ ByWorker

\* What the trajectory becomes after its frame: it goes on, it arrived, it did
\* not arrive in time, or a hold that moved has to settle again.
Completion(t) ==
  CASE t = "RUNNING" -> {"RUNNING", "COMPLETED", "FAULT"}
    [] t = "COMPLETED" -> {"COMPLETED", "RUNNING"}
    [] OTHER -> {t}

\* Mutant: every frame of a user's target renews the watchdog.
SentRenews(r) ==
  IF r.mailbox = "hold" THEN [r EXCEPT !.send_failures = 0]
  ELSE [r EXCEPT !.send_failures = 0, !.has_command = TRUE,
                 !.accepted = FALSE, !.recent = TRUE, !.unsent = FALSE,
                 !.state = IF @ = "ENABLED" THEN "RUNNING" ELSE @]

\* Only a user's target makes the Runtime RUNNING, and only its first frame
\* renews the watchdog: a repeated one keeps its generation.
Sent(r) ==
  IF r.mailbox = "hold" THEN [r EXCEPT !.send_failures = 0]
  ELSE [r EXCEPT !.send_failures = 0, !.has_command = TRUE,
                 !.accepted = FALSE,
                 !.recent = @ \/ r.unsent, !.unsent = FALSE,
                 !.state = IF @ = "ENABLED" THEN "RUNNING" ELSE @]

WorkerSend ==
  /\ worker.pc = "send" /\ command' = NoCaller
  /\ \/ /\ rt' = [rt EXCEPT !.send_failures = MoreFailed(@)]
        /\ Leave("failed")
        /\ UNCHANGED frame
     \/ /\ \E t \in Completion(rt.trajectory) :
             rt' = [Sent(rt) EXCEPT
                      !.trajectory = t,
                      !.old = IF t = "RUNNING" THEN @
                              ELSE @ \ {"trajectory"}]
        /\ frame' = Frame(rt.mailbox \notin {"none", "hold"},
                          "mailbox" \in rt.old)
        /\ Done("arm")
  /\ ByWorker

\* A few failed sends in a row are only missed frames.
WorkerFailed ==
  /\ worker.pc = "failed"
  /\ IF rt.send_failures \in 1..(Threshold - 1)
       THEN UNCHANGED rt /\ Leave("top")
       ELSE rt' = Terminate(rt, "FAULT") /\ Leave("stop")
  /\ UNCHANGED <<command, frame>> /\ ByWorker

\* The states whose feedback is supervised.
Supervised(r) ==
  /\ ~r.hardware_transition
  /\ \/ r.state \in {"RUNNING", "DEGRADED", "PARTIALLY_ENABLED",
                     "SAFE_HOLD", "SAFE_STOP"}
     \/ r.state = "FAULT" /\ r.estop /\ r.hold

\* collect_motor_feedback_health: a motor that was turned off on purpose is
\* healthy when it is off.
MotorHealthy(r, m) ==
  \/ power[m] = "on"
  \/ power[m] = "off" /\ m \in r.disabled

\* refresh_feedback_health: healthy only if every motor that should be on is.
WorkerFeedback ==
  /\ worker.pc = "feedback" /\ command = NoCaller
  /\ \/ ~Supervised(rt) /\ UNCHANGED rt /\ Leave("top")
     \/ /\ Supervised(rt)
        /\ \A m \in Present : MotorHealthy(rt, m)
        /\ rt' = [rt EXCEPT !.feedback_failures = 0]
        /\ Done("feedback")
     \/ /\ Supervised(rt)
        /\ rt' = [rt EXCEPT !.motor_fault = @ \/ SomeFault(power)]
        /\ \E severe \in BOOLEAN :
             worker' = [pc |-> "verdict", todo |-> {}, severe |-> severe]
  /\ UNCHANGED <<command, frame>> /\ ByWorker

WorkerVerdict ==
  LET n == MoreLost(rt.feedback_failures) IN
  /\ worker.pc = "verdict"
  /\ rt' = [rt EXCEPT !.feedback_failures = n]
  /\ Leave(IF worker.severe THEN "fault"
           ELSE IF rt.state = "DEGRADED" /\ n >= 3 * Threshold THEN "stop"
           ELSE IF rt.state = "RUNNING" /\ n >= Threshold THEN "degrade"
           ELSE "top")
  /\ UNCHANGED <<command, frame>> /\ ByWorker

WorkerDegrade ==
  /\ worker.pc = "degrade"
  /\ rt' = [rt EXCEPT !.state = IF @ = "RUNNING" THEN "DEGRADED" ELSE @]
  /\ Leave("top")
  /\ UNCHANGED <<command, frame>> /\ ByWorker

\* run_gripper_control_once.  The first batch after a gripper command makes
\* the Runtime RUNNING; it starts the watchdog, but never renews it.
WorkerGripper ==
  /\ worker.pc = "gripper" /\ command = NoCaller
  /\ \/ ~CycleRuns(rt) /\ UNCHANGED rt /\ Done("gripper")
     \/ /\ CycleRuns(rt)
        /\ rt' = IF ~rt.gripper THEN rt
                 ELSE [rt EXCEPT !.gripper = FALSE, !.has_command = TRUE,
                         !.recent = @ \/ ~rt.has_command,
                         !.state = IF @ = "ENABLED" THEN "RUNNING" ELSE @]
        /\ Done("gripper")
     \/ /\ CycleRuns(rt)
        /\ \/ rt' = [rt EXCEPT !.send_failures = MoreFailed(@)] /\ Leave("stop")
           \/ UNCHANGED rt /\ Leave("fault")
  /\ UNCHANGED <<command, frame>> /\ ByWorker

\* send_safe_hold_once.
WorkerHold ==
  LET holds == ~rt.hardware_transition
               /\ rt.state \in {"SAFE_HOLD", "SAFE_STOP", "FAULT"}
      fails == [rt EXCEPT !.hold_failures = MoreFailed(@), !.send_failures = MoreFailed(@)]
  IN
  /\ worker.pc = "hold" /\ command = NoCaller
  /\ \/ /\ rt' = [rt EXCEPT !.hold_failures = 0]
        /\ frame' = IF holds THEN Frame(FALSE, FALSE) ELSE frame
        /\ Leave("top")
     \/ /\ holds
        /\ rt' = fails /\ UNCHANGED frame
        /\ Leave(IF rt.state # "FAULT" /\ fails.hold_failures >= Threshold
                   THEN "fault" ELSE "top")
  /\ UNCHANGED command /\ ByWorker

\* enter_safe_stop: the hold first, then the state, which another thread may
\* have changed.
WorkerStop ==
  /\ worker.pc = "stop" /\ command = NoCaller
  /\ \E held \in BOOLEAN :
       /\ ProtectiveHold(held)
       /\ rt' = [rt EXCEPT !.hold = held]
       /\ Leave(IF held THEN "stopped" ELSE "fault")
  /\ UNCHANGED <<command, frame>> /\ ByWorker

WorkerStopped ==
  /\ worker.pc = "stopped" /\ command = NoCaller
  /\ IF rt.state \in {"DISCONNECTED", "READY", "FAULT"}
       THEN UNCHANGED rt /\ Leave("fault")
       ELSE rt' = SafeStop(rt) /\ Leave("top")
  /\ UNCHANGED <<command, frame>> /\ ByWorker

\* enter_fault, in the same two sections.
WorkerFault ==
  /\ worker.pc = "fault" /\ command = NoCaller
  /\ \E held \in BOOLEAN :
       /\ ProtectiveHold(held)
       /\ rt' = [rt EXCEPT !.hold = held]
       /\ worker' = [pc |-> "faulted", todo |-> {}, severe |-> held]
  /\ UNCHANGED <<command, frame>> /\ ByWorker

WorkerFaulted ==
  /\ worker.pc = "faulted" /\ command = NoCaller
  /\ rt' = EnterFault(rt, worker.severe)
  /\ Leave("top")
  /\ UNCHANGED <<command, frame>> /\ ByWorker

Worker ==
  \/ WorkerTop \/ DecideGrace \/ DecideTimeout \/ DecideWork \/ WorkerReady
  \/ WorkerArm \/ WorkerSend \/ WorkerFailed \/ WorkerFeedback
  \/ WorkerVerdict \/ WorkerDegrade \/ WorkerGripper \/ WorkerHold
  \/ WorkerStop \/ WorkerStopped \/ WorkerFault \/ WorkerFaulted

\* command_timeout_ms pass.  Nothing looks at the time of the last command
\* while there is no streaming target, so it may pass when there is one.
CommandAges ==
  /\ rt.recent /\ rt.mailbox = "stream"
  /\ rt' = [rt EXCEPT !.recent = FALSE]
  /\ UNCHANGED <<power, lifecycle, command, call, worker, frame, left>>

-----------------------------------------------------------------------------
(* Specification *)

Entry == [connect |-> "c_begin", enable |-> "e_begin", disable |-> "d_begin",
          estop |-> "s_begin", recover |-> "r_begin", configure |-> "m_begin",
          set_zero |-> "m_begin", clear_faults |-> "m_begin",
          power_state |-> "q_begin", power_batch |-> "b_begin",
          close |-> "x_begin"]

Step(c) ==
  \/ ConnectBegin(c) \/ ConnectFails(c) \/ Connected(c)
  \/ Enable(c) \/ Disable(c) \/ Estop(c) \/ MaintenanceSteps(c)
  \/ Recover(c) \/ PowerSteps(c) \/ Close(c)

Next ==
  \/ \E c \in Callers : Step(c) \/ \E op \in left.ops : Begin(c, op, Entry[op])
  \/ Commands
  \/ \E m \in Present : Trip(m)
  \/ Worker
  \/ CommandAges

\* Every thread is scheduled; a command that is being planned is given or
\* given up; time passes, and a grace period that keeps being over is seen.
Fairness ==
  /\ \A c \in Callers : SF_vars(Step(c))
  /\ WF_vars(Worker)
  /\ SF_vars(PlanEnd)
  /\ WF_vars(CommandAges) /\ SF_vars(DecideGrace)
  /\ SF_vars(DecideWork /\ "arm" \in worker'.todo)

Spec == Init /\ [][Next]_vars /\ Fairness

-----------------------------------------------------------------------------
(* Properties *)

\* Types of the state.
TypeOK ==
  /\ rt.state \in States /\ rt.trajectory \in Motion
  /\ rt.mailbox \in Mailbox /\ rt.pending \in Mailbox \ {"hold"}
  /\ rt.disabled \subseteq Present /\ rt.old \subseteq Targets
  /\ power \in [Present -> {"off", "on", "fault"}]
  /\ lifecycle \in Callers \cup {NoCaller}
  /\ command \in Callers \cup {NoCaller, "worker"}

\* The operation that is between turning motors on and saying so.
PoweringUp ==
  \E c \in Callers : call[c].pc \in {"e_state", "e_fail", "b_end", "b_unsafe"}

\* What close() and estop() rely on to leave the motors alone: disable is
\* confirmed only when every motor really is off, whatever failed, was retried
\* or was reported before (disable_confirmed_ of every operation).
ConfirmedOff ==
  rt.disable_confirmed => PoweringUp \/ AllOff(power)

\* The emergency stop stays until recover(): no sequence of other operations,
\* maintenance included, and no step of the worker leaves the faulted state or
\* lets a target wait behind it.
EstopLatched ==
  rt.estop /\ (\A c \in Callers : call[c].op \notin {"estop", "recover"}) =>
    /\ rt.fault_latched /\ rt.state \in {"FAULT", "DISCONNECTED"}
    /\ rt.mailbox = "none" /\ rt.pending = "none"

\* hardware_transition_ stops the worker: it is set only while the operation
\* that set it holds lifecycle_mutex_, never left behind on an error path.
\* (Checked together with the types.)
TransitionOwned ==
  TypeOK /\ (rt.hardware_transition => lifecycle # NoCaller)

\* No frame carries a target from before the enable() or recover() that turned
\* the motors on.
NoOldTarget == ~frame.old

\* Once an operation has turned the motors off (or on) the worker sends no
\* target until that operation has said what state the robot is in, although
\* it decided to send before.
Frozen == ~frame.frozen

\* The worker that decided to stop an idle robot does not drop a joint target
\* that was acknowledged after it decided (first_command_accepted_, which only
\* install_joint_position sets: an accepted trajectory or raw frame is not
\* covered, and may be dropped).
GraceDropsNothing ==
  rt.enable_grace /\ rt.state = "ENABLED" => ~rt.accepted

\* Every operation returns.
CallsReturn ==
  \A c \in Callers : (call[c].op # "none") ~> (call[c].op = "none")

\* A robot that streams and is not told anything new is stopped: neither the
\* frames that repeat its target nor a gripper batch renew the time the
\* watchdog looks at (last_successful_command_), in whatever order they and
\* failing sends come.
StreamExpires ==
  (rt.state = "RUNNING" /\ rt.mailbox = "stream") ~> (rt.mailbox # "stream")

\* A robot is not left enabled without a command (enable_grace_ms).
EnabledEnds ==
  (rt.state = "ENABLED") ~> (rt.state # "ENABLED")

\* "A cancelled trajectory becomes a stationary hold": while the motors are
\* on, there is something to send after a cancellation.
CancelledHolds ==
  (/\ rt.trajectory = "CANCELLED" /\ rt.state \in {"ENABLED", "RUNNING"}
   /\ ~rt.hardware_transition)
    => rt.mailbox # "none" \/ rt.pending # "none"

=============================================================================
