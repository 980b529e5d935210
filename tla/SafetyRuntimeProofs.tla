------------------------ MODULE SafetyRuntimeProofs ------------------------
(***************************************************************************)
(* Theorems about SafetyRuntime for any motors, threads, operations and    *)
(* commands: the transaction flag is never left behind, disable_confirmed_ *)
(* is true of the motors, the emergency stop is latched, the worker is     *)
(* silent when an operation relies on it and sends no target from before   *)
(* the motors were turned on.                                              *)
(***************************************************************************)
EXTENDS SafetyRuntime, TLAPS

-----------------------------------------------------------------------------
(* Types *)

Runtimes ==
  [state : States, hardware_transition : BOOLEAN, enable_transaction : BOOLEAN,
   enable_grace : BOOLEAN, fault_latched : BOOLEAN, motor_fault : BOOLEAN,
   estop : BOOLEAN, disable_confirmed : BOOLEAN, stopping : BOOLEAN,
   hold : BOOLEAN, mailbox : Mailbox, pending : Mailbox \ {"hold"},
   trajectory : Motion, has_command : BOOLEAN, accepted : BOOLEAN,
   planning : BOOLEAN, gripper : BOOLEAN, disabled : SUBSET Motors,
   send_failures : Nat, feedback_failures : Nat, hold_failures : Nat,
   old : SUBSET Targets, recent : BOOLEAN, unsent : BOOLEAN]

\* Two states of the Runtime that differ in nothing the theorems look at but
\* the targets.
Same(r, s) ==
  /\ s.state = r.state /\ s.hardware_transition = r.hardware_transition
  /\ s.fault_latched = r.fault_latched /\ s.estop = r.estop
  /\ s.disable_confirmed = r.disable_confirmed
  /\ s.enable_grace = r.enable_grace /\ s.accepted = r.accepted
  /\ s.disabled = r.disabled

SameTargets(r, s) == s.mailbox = r.mailbox /\ s.pending = r.pending
NoTargets(r) == r.mailbox = "none" /\ r.pending = "none"

-----------------------------------------------------------------------------
(* The inductive invariant *)

ConnectPcs == {"c_begin", "c_feedback"}
EnablePcs == {"e_begin", "e_seed", "e_power", "e_state", "e_hold", "e_confirm",
              "e_fail", "e_rollback", "e_end"}
DisablePcs == {"d_begin", "d_motors", "d_end"}
EstopPcs == {"s_begin", "s_prepare", "s_fault", "s_confirmed", "s_hold"}
HeldPcs == {"m_run", "m_ok", "m_plain", "m_latch", "m_again"}
RecoverPcs == {"r_begin", "r_freeze", "r_clear", "r_disable", "r_errors",
               "r_check", "r_ready", "r_zero", "r_home", "r_done", "r_fail",
               "r_rollback", "r_failed"}
QueryPcs == {"q_begin", "q_feedback", "q_end"}
BatchPcs == {"b_begin", "b_motors", "b_end", "b_unsafe"}
ClosePcs == {"x_begin", "x_stop", "x_join"}

\* Where a thread can be in an operation: recover() and close() go through
\* the steps of other operations.
PcOf(k) ==
  \/ k.op = "none" /\ k.pc = "idle"
  \/ k.op = "connect" /\ k.pc \in ConnectPcs
  \/ k.op = "enable" /\ k.pc \in EnablePcs
  \/ k.op = "disable" /\ k.pc \in DisablePcs
  \/ k.op = "estop" /\ k.pc \in EstopPcs
  \/ k.op \in Maintenance /\ k.pc \in HeldPcs \cup {"m_begin", "m_retry"}
  \/ k.op = "recover" /\ k.pc \in RecoverPcs \cup ConnectPcs \cup EnablePcs
                                    \cup DisablePcs
  \/ k.op = "power_state" /\ k.pc \in QueryPcs
  \/ k.op = "power_batch" /\ k.pc \in BatchPcs
  \/ k.op = "close" /\ k.pc \in ClosePcs \cup DisablePcs

Pcs == {"idle", "m_begin", "m_retry"} \cup ConnectPcs \cup EnablePcs \cup DisablePcs
         \cup EstopPcs \cup HeldPcs \cup RecoverPcs \cup QueryPcs \cup BatchPcs
         \cup ClosePcs

Calls == [op : AllOps \cup {"none"}, pc : Pcs, ok : BOOLEAN, flag : BOOLEAN,
          from : States, motors : SUBSET Motors]

\* Every step of the worker's but sending has its own name here.
WorkerPcs == {"top", "decide", "ready", "arm", "send", "failed", "feedback",
              "verdict", "degrade", "gripper", "hold", "stop", "stopped",
              "fault", "faulted", "gone"}

Types ==
  /\ rt \in Runtimes /\ rt.disabled \subseteq Present
  /\ power \in [Present -> {"off", "on", "fault"}] /\ Present \subseteq Motors
  /\ lifecycle \in Callers \cup {NoCaller}
  /\ command \in Callers \cup {NoCaller, "worker"}
  /\ call \in [Callers -> Calls]
  /\ \A c \in Callers : PcOf(call[c]) /\ call[c].motors \subseteq Present
  /\ worker \in [pc : WorkerPcs, todo : SUBSET WorkerPcs, severe : BOOLEAN]
  /\ left \in Scenario

\* The mutexes: lifecycle_mutex_ is held through every operation, except while
\* clear_faults() waits for its next attempt.
Mutexes ==
  /\ \A c \in Callers : lifecycle = c <=> call[c].pc \notin {"idle", "m_retry"}
  /\ \A c \in Callers : call[c].pc \in HeldPcs => command = c
  /\ worker.pc = "send" => command = "worker"

\* Where an operation may have hardware_transition_ set ...
TransitionPcs ==
  {"c_feedback", "e_seed", "e_power", "e_state", "e_hold", "e_fail",
   "e_rollback", "e_end", "d_motors", "d_end", "r_clear", "r_disable",
   "r_errors", "r_check", "r_ready", "r_fail", "r_rollback", "r_failed",
   "q_feedback", "q_end", "b_motors", "b_end", "b_unsafe"} \cup HeldPcs

\* ... and where the worker must not send, so that no frame is on its way in
\* the places of FrozenAt.
SilentPcs == {"e_seed", "e_power", "e_rollback", "d_motors", "r_clear",
              "r_disable", "r_rollback", "b_motors"} \cup FrozenAt
Silent(r) == r.hardware_transition \/ r.state \notin Active

\* The latched emergency stop.
Latched(r) ==
  /\ r.fault_latched /\ r.state \in {"FAULT", "DISCONNECTED"} /\ NoTargets(r)

\* What an operation other than recover() may be doing behind it: nothing that
\* ends in another state.
BehindLatch(k) ==
  /\ k.op # "recover"
  /\ k.pc \in {"d_motors", "d_end"} => k.flag
  /\ k.pc \in {"b_motors", "b_end"} => ~k.flag /\ k.from = "FAULT"
  /\ k.pc \notin EnablePcs \ {"e_begin"}
  /\ k.pc \notin {"m_run", "m_ok", "m_latch", "m_again", "q_feedback", "q_end"}

\* Motors that an operation has just turned off, or found off, are off.
KnownOff(k) ==
  \/ k.pc \in {"e_end", "d_end", "r_failed"} /\ k.ok
  \/ k.pc \in {"s_prepare", "s_fault", "s_confirmed"} /\ ~k.flag /\ k.ok
  \/ k.pc \in {"m_ok", "r_ready", "r_done"}

\* What holds while the operation k holds lifecycle_mutex_.
Local(r, p, k) ==
  /\ r.hardware_transition => k.pc \in TransitionPcs
  /\ k.pc \in SilentPcs => Silent(r)
  /\ KnownOff(k) => \A m \in DOMAIN p : p[m] = "off"
  /\ k.pc = "s_confirmed" => ~k.flag
  /\ r.disable_confirmed => \/ k.pc \in {"e_state", "e_fail", "b_end", "b_unsafe"}
                            \/ \A m \in DOMAIN p : p[m] = "off"
  /\ k.pc \in {"s_prepare", "s_fault", "e_seed"} => r.state # "DISCONNECTED"
  /\ k.pc \in {"x_stop", "x_join"} => r.state \in {"READY", "FAULT", "DISCONNECTED"}
  /\ k.pc = "x_join" => NoTargets(r)
  /\ r.estop =>
       \/ k.op = "recover" /\ (k.pc \in {"r_begin", "r_rollback", "r_failed"} => Latched(r))
       \/ k.pc \in {"s_prepare", "s_fault"}
       \/ BehindLatch(k) /\ Latched(r)

\* What holds while nobody does.
Rest(r, p) ==
  /\ ~r.hardware_transition
  /\ r.disable_confirmed => \A m \in DOMAIN p : p[m] = "off"
  /\ r.estop => Latched(r)

\* What always holds.
Always(r) ==
  /\ r.state = "DISCONNECTED" => NoTargets(r)
  /\ r.enable_grace => ~r.accepted

\* The worker sends when nobody relies on its silence.
Sending ==
  worker.pc = "send" =>
    \A c \in Callers : call[c].pc \notin FrozenAt \cup {"e_power"}

Inv ==
  /\ Types /\ Mutexes /\ Always(rt) /\ Sending /\ ~frame.frozen
  /\ \A c \in Callers : lifecycle = c => Local(rt, power, call[c])
  /\ lifecycle = NoCaller => Rest(rt, power)

-----------------------------------------------------------------------------
(* What the sections under state_mutex_ do *)

LEMMA FreshFeedbackEffect ==
  ASSUME NEW r \in Runtimes
  PROVE  /\ FreshFeedback(r) \in Runtimes
         /\ Same(r, FreshFeedback(r)) /\ SameTargets(r, FreshFeedback(r))
<1>1. FreshFeedback(r) \in Runtimes
  BY DEF FreshFeedback, Runtimes
<1>2. QED
  BY <1>1 DEF FreshFeedback, Runtimes, Same, SameTargets

LEMMA ClearTargetsEffect ==
  ASSUME NEW r \in Runtimes
  PROVE  /\ ClearTargets(r) \in Runtimes
         /\ Same(r, ClearTargets(r)) /\ NoTargets(ClearTargets(r))
<1>1. r.old \ {"mailbox", "pending"} \in SUBSET Targets
  BY DEF Runtimes
<1>2. "none" \in Mailbox /\ "none" \in Mailbox \ {"hold"}
  BY DEF Mailbox
<1>3. ClearTargets(r) \in Runtimes
  BY <1>1, <1>2 DEF ClearTargets, Runtimes
<1>4. QED
  BY <1>3 DEF ClearTargets, Runtimes, Same, NoTargets

LEMMA TerminateEffect ==
  ASSUME NEW r \in Runtimes, NEW m \in Motion
  PROVE  /\ Terminate(r, m) \in Runtimes
         /\ Same(r, Terminate(r, m))
         /\ NoTargets(r) => NoTargets(Terminate(r, m))
<1>1. CASE r.trajectory \notin {"RUNNING", "COMPLETED"}
  BY <1>1 DEF Terminate, Same
<1>2. CASE r.trajectory \in {"RUNNING", "COMPLETED"}
  <2> DEFINE b == IF r.mailbox = "none" THEN r.mailbox ELSE "target"
  <2>1. r.old \ {"trajectory"} \in SUBSET Targets /\ b \in Mailbox
    BY DEF Runtimes, Mailbox
  <2>2. Terminate(r, m) = [r EXCEPT !.trajectory = m,
                                    !.old = @ \ {"trajectory"}, !.mailbox = b]
    BY <1>2 DEF Terminate
  <2>3. r.mailbox = "none" => b = "none"
    OBVIOUS
  <2> HIDE DEF b
  <2>4. Terminate(r, m) \in Runtimes
    BY <2>1, <2>2, ZenonT(60) DEF Runtimes
  <2>5. QED
    BY <2>2, <2>3, <2>4 DEF Runtimes, Same, NoTargets
<1>3. QED
  BY <1>1, <1>2

LEMMA MarkOldEffect ==
  ASSUME NEW r \in Runtimes
  PROVE  /\ MarkOld(r) \in Runtimes
         /\ Same(r, MarkOld(r)) /\ SameTargets(r, MarkOld(r))
<1> DEFINE o == {t \in Targets : \/ t = "mailbox" /\ r.mailbox # "none"
                                 \/ t = "pending" /\ r.pending # "none"
                                 \/ /\ t = "trajectory"
                                    /\ r.trajectory = "RUNNING"}
<1>1. MarkOld(r) = [r EXCEPT !.old = o] /\ o \in SUBSET Targets
  BY DEF MarkOld
<1> HIDE DEF o
<1>2. MarkOld(r) \in Runtimes
  BY <1>1 DEF Runtimes
<1>3. QED
  BY <1>1, <1>2 DEF Runtimes, Same, SameTargets

LEMMA InitializeEnabledEffect ==
  ASSUME NEW r \in Runtimes
  PROVE  LET s == InitializeEnabled(r) IN
         /\ s \in Runtimes /\ SameTargets(r, s)
         /\ s.state = "ENABLED" /\ ~s.disable_confirmed /\ ~s.enable_grace
         /\ ~s.accepted /\ s.disabled = {}
         /\ s.hardware_transition = r.hardware_transition
         /\ s.fault_latched = r.fault_latched /\ s.estop = r.estop
<1>1. "ENABLED" \in States /\ {} \in SUBSET Motors /\ 0 \in Nat
  BY DEF States
<1>2. InitializeEnabled(r) \in Runtimes
  BY <1>1, ZenonT(60) DEF InitializeEnabled, Runtimes
<1>3. QED
  BY <1>2 DEF InitializeEnabled, Runtimes, SameTargets

LEMMA SafeStopEffect ==
  ASSUME NEW r \in Runtimes
  PROVE  LET s == SafeStop(r) IN
         /\ s \in Runtimes /\ NoTargets(s)
         /\ s.state = "SAFE_STOP" /\ ~s.fault_latched
         /\ s.hardware_transition = r.hardware_transition
         /\ s.disable_confirmed = r.disable_confirmed /\ s.estop = r.estop
         /\ s.enable_grace = r.enable_grace /\ s.accepted = r.accepted
         /\ s.disabled = r.disabled
<1> DEFINE q == ClearTargets(Terminate(r, "FAULT"))
<1>1. q \in Runtimes /\ Same(r, q) /\ NoTargets(q)
  <2>1. "FAULT" \in Motion
    BY DEF Motion
  <2>2. Terminate(r, "FAULT") \in Runtimes /\ Same(r, Terminate(r, "FAULT"))
    BY <2>1, TerminateEffect
  <2>3. QED
    BY <2>2, ClearTargetsEffect DEF Same
<1>2. SafeStop(r) = [q EXCEPT !.state = "SAFE_STOP", !.fault_latched = FALSE,
                              !.hold_failures = 0]
  BY DEF SafeStop
<1>3. "SAFE_STOP" \in States
  BY DEF States
<1> HIDE DEF q
<1>4. SafeStop(r) \in Runtimes
  <2>1. q \in Runtimes
    BY <1>1
  <2>2. [q EXCEPT !.state = "SAFE_STOP", !.fault_latched = FALSE,
                  !.hold_failures = 0] \in Runtimes
    BY <2>1, <1>3 DEF Runtimes
  <2>3. QED
    BY <1>2, <2>2
<1>5. QED
  BY <1>1, <1>2, <1>4 DEF Runtimes, Same, NoTargets

LEMMA EnterFaultEffect ==
  ASSUME NEW r \in Runtimes, NEW held \in BOOLEAN
  PROVE  LET s == EnterFault(r, held) IN
         /\ s \in Runtimes
         /\ r.state = "DISCONNECTED" => s = r
         /\ r.state # "DISCONNECTED" =>
              /\ NoTargets(s) /\ s.state = "FAULT" /\ s.fault_latched
              /\ ~s.hardware_transition /\ ~s.disable_confirmed
              /\ s.estop = r.estop /\ s.disabled = r.disabled
              /\ s.enable_grace = r.enable_grace /\ s.accepted = r.accepted
<1>1. CASE r.state = "DISCONNECTED"
  BY <1>1 DEF EnterFault
<1>2. CASE r.state # "DISCONNECTED"
  <2> DEFINE q == ClearTargets(Terminate(r, "FAULT"))
             f == q.motor_fault \/ SomeFault(power)
  <2>1. q \in Runtimes /\ Same(r, q) /\ NoTargets(q)
    <3>1. "FAULT" \in Motion
      BY DEF Motion
    <3>2. Terminate(r, "FAULT") \in Runtimes /\ Same(r, Terminate(r, "FAULT"))
      BY <3>1, TerminateEffect
    <3>3. QED
      BY <3>2, ClearTargetsEffect DEF Same
  <2>2. EnterFault(r, held) =
          [q EXCEPT !.state = "FAULT", !.fault_latched = TRUE,
                    !.motor_fault = f, !.hardware_transition = FALSE,
                    !.disable_confirmed = FALSE, !.hold = held]
    BY <1>2 DEF EnterFault
  <2>3. "FAULT" \in States /\ f \in BOOLEAN
    BY DEF States
  <2> HIDE DEF q, f
  <2>4. EnterFault(r, held) \in Runtimes
    <3>1. q \in Runtimes
      BY <2>1
    <3>2. [q EXCEPT !.state = "FAULT", !.fault_latched = TRUE,
                    !.motor_fault = f, !.hardware_transition = FALSE,
                    !.disable_confirmed = FALSE, !.hold = held] \in Runtimes
      BY <2>3, <3>1, ZenonT(60) DEF Runtimes
    <3>3. QED
      BY <2>2, <3>2
  <2>5. QED
    BY <1>2, <2>1, <2>2, <2>4 DEF Runtimes, Same, NoTargets
<1>3. QED
  BY <1>1, <1>2

LEMMA InstalledEffect ==
  ASSUME NEW r \in Runtimes
  PROVE  LET s == Installed(r) IN
         /\ s \in Runtimes /\ s.state = r.state
         /\ s.hardware_transition = r.hardware_transition
         /\ s.fault_latched = r.fault_latched /\ s.estop = r.estop
         /\ s.disable_confirmed = r.disable_confirmed
         /\ s.enable_grace = r.enable_grace /\ s.disabled = r.disabled
<1> DEFINE q == Terminate(r, "CANCELLED")
<1>1. q \in Runtimes /\ Same(r, q)
  BY TerminateEffect DEF Motion
<1>2. Installed(r) = [q EXCEPT !.pending = "none", !.mailbox = "target",
                        !.accepted = TRUE, !.planning = FALSE,
                        !.unsent = TRUE,
                        !.old = @ \ {"mailbox", "pending"}]
  BY DEF Installed
<1> HIDE DEF q
<1>3. /\ q.old \ {"mailbox", "pending"} \in SUBSET Targets
      /\ "none" \in Mailbox \ {"hold"} /\ "target" \in Mailbox
  BY <1>1 DEF Runtimes, Mailbox
<1>4. Installed(r) \in Runtimes
  BY <1>1, <1>2, <1>3, ZenonT(60) DEF Runtimes
<1>5. QED
  BY <1>1, <1>2, <1>4 DEF Runtimes, Same

LEMMA DisableResultEffect ==
  ASSUME NEW r \in Runtimes, NEW ok \in BOOLEAN, NEW keep \in BOOLEAN
  PROVE  LET s == DisableResult(r, ok, keep) IN
         /\ s \in Runtimes /\ NoTargets(s)
         /\ ~s.hardware_transition /\ ~s.enable_grace /\ ~s.accepted
         /\ s.estop = r.estop /\ s.disable_confirmed = ok
         /\ s.disabled \subseteq r.disabled
         /\ s.state = IF ok /\ ~keep THEN "READY" ELSE "FAULT"
         /\ r.fault_latched \/ keep => s.fault_latched
<1> DEFINE q == ClearTargets(r)
           d == IF ok THEN {} ELSE q.disabled
           t == IF ok /\ ~keep THEN "READY" ELSE "FAULT"
           l == IF ok THEN q.fault_latched \/ keep ELSE TRUE
           f == q.motor_fault \/ (~ok /\ SomeFault(power))
<1>1. q \in Runtimes /\ Same(r, q) /\ NoTargets(q)
  BY ClearTargetsEffect
<1>2. DisableResult(r, ok, keep) =
        [q EXCEPT !.disable_confirmed = ok, !.hold = FALSE,
           !.has_command = FALSE, !.accepted = FALSE, !.enable_grace = FALSE,
           !.planning = FALSE, !.gripper = FALSE,
           !.hardware_transition = FALSE, !.disabled = d, !.state = t,
           !.fault_latched = l, !.motor_fault = f]
  BY DEF DisableResult
<1>3. /\ d \in SUBSET Motors /\ t \in States /\ l \in BOOLEAN /\ f \in BOOLEAN
      /\ d \subseteq r.disabled /\ (r.fault_latched \/ keep => l)
  BY <1>1 DEF Runtimes, States, Same
<1> HIDE DEF q, d, l, f, t
<1>4. DisableResult(r, ok, keep) \in Runtimes
  <2>1. q \in Runtimes
    BY <1>1
  <2> DEFINE u == [q EXCEPT !.disable_confirmed = ok, !.hold = FALSE,
                     !.has_command = FALSE, !.accepted = FALSE,
                     !.enable_grace = FALSE, !.planning = FALSE]
  <2>2. u \in Runtimes
    BY <2>1, ZenonT(60) DEF Runtimes
  <2>3. DisableResult(r, ok, keep) =
          [u EXCEPT !.gripper = FALSE, !.hardware_transition = FALSE,
                    !.disabled = d, !.state = t, !.fault_latched = l,
                    !.motor_fault = f]
    BY <1>2
  <2> HIDE DEF u
  <2>4. [u EXCEPT !.gripper = FALSE, !.hardware_transition = FALSE,
                  !.disabled = d, !.state = t, !.fault_latched = l,
                  !.motor_fault = f] \in Runtimes
    BY <1>3, <2>2, ZenonT(60) DEF Runtimes
  <2>5. QED
    BY <2>3, <2>4
<1>5. /\ DisableResult(r, ok, keep).state = t
      /\ DisableResult(r, ok, keep).disabled = d
      /\ DisableResult(r, ok, keep).fault_latched = l
      /\ DisableResult(r, ok, keep).disable_confirmed = ok
      /\ DisableResult(r, ok, keep).estop = q.estop
      /\ ~DisableResult(r, ok, keep).hardware_transition
      /\ ~DisableResult(r, ok, keep).enable_grace
      /\ ~DisableResult(r, ok, keep).accepted
      /\ NoTargets(DisableResult(r, ok, keep))
  BY <1>1, <1>2, <1>4, ZenonT(60) DEF Runtimes, NoTargets
<1>6. QED
  BY <1>1, <1>3, <1>4, <1>5 DEF Same, t

LEMMA ConsumedEffect ==
  ASSUME NEW r \in Runtimes
  PROVE  Consumed(r) \in Runtimes /\ Same(r, Consumed(r))
<1>1. CASE r.trajectory = "RUNNING"
  <2> DEFINE o == (r.old \ {"mailbox"}) \cup
                    (IF "trajectory" \in r.old THEN {"mailbox"} ELSE {})
  <2>1. o \in SUBSET Targets /\ "target" \in Mailbox
    BY DEF Runtimes, Targets, Mailbox
  <2>2. Consumed(r) = [r EXCEPT !.mailbox = "target", !.unsent = TRUE, !.old = o]
    BY <1>1 DEF Consumed
  <2> HIDE DEF o
  <2>3. [r EXCEPT !.mailbox = "target", !.unsent = TRUE, !.old = o] \in Runtimes
    BY <2>1 DEF Runtimes
  <2>4. QED
    BY <2>2, <2>3 DEF Runtimes, Same
<1>2. CASE r.trajectory # "RUNNING" /\ r.pending # "none"
  <2> DEFINE o == (r.old \ {"mailbox", "pending"}) \cup
                    (IF "pending" \in r.old THEN {"mailbox"} ELSE {})
             b == r.pending
  <2>1. o \in SUBSET Targets /\ b \in Mailbox /\ "none" \in Mailbox \ {"hold"}
    BY DEF Runtimes, Targets, Mailbox
  <2>2. Consumed(r) = [r EXCEPT !.mailbox = b, !.pending = "none",
               !.unsent = TRUE, !.old = o]
    BY <1>2 DEF Consumed
  <2> HIDE DEF o, b
  <2>3. [r EXCEPT !.mailbox = b, !.pending = "none",
               !.unsent = TRUE, !.old = o] \in Runtimes
    BY <2>1 DEF Runtimes
  <2>4. QED
    BY <2>2, <2>3 DEF Runtimes, Same
<1>3. CASE r.trajectory # "RUNNING" /\ r.pending = "none"
  BY <1>3 DEF Consumed, Same
<1>4. QED
  BY <1>1, <1>2, <1>3

LEMMA MoreType ==
  ASSUME NEW n \in Nat
  PROVE  MoreLost(n) \in Nat /\ MoreFailed(n) \in Nat
  BY DEF MoreLost, MoreFailed, More

LEMMA SentEffect ==
  ASSUME NEW r \in Runtimes
  PROVE  LET s == Sent(r) IN
         /\ s \in Runtimes /\ SameTargets(r, s)
         /\ s.hardware_transition = r.hardware_transition
         /\ s.fault_latched = r.fault_latched /\ s.estop = r.estop
         /\ s.disable_confirmed = r.disable_confirmed
         /\ s.enable_grace = r.enable_grace /\ (s.accepted => r.accepted)
         /\ s.disabled = r.disabled /\ s.trajectory = r.trajectory
         /\ s.old = r.old
         /\ \/ s.state = r.state
            \/ r.state = "ENABLED" /\ s.state = "RUNNING"
<1>1. CASE r.mailbox = "hold"
  <2>1. [r EXCEPT !.send_failures = 0] \in Runtimes
    BY DEF Runtimes
  <2>2. Sent(r) = [r EXCEPT !.send_failures = 0]
    BY <1>1 DEF Sent
  <2>3. QED
    BY <2>1, <2>2 DEF Runtimes, SameTargets
<1>2. CASE r.mailbox # "hold"
  <2> DEFINE t == IF r.state = "ENABLED" THEN "RUNNING" ELSE r.state
             n == r.recent \/ r.unsent
  <2>1. /\ t \in States /\ n \in BOOLEAN
        /\ t = r.state \/ (r.state = "ENABLED" /\ t = "RUNNING")
    <3>1. r.state \in States
      BY DEF Runtimes
    <3>2. QED
      BY <3>1 DEF States
  <2>2. Sent(r) = [r EXCEPT !.send_failures = 0, !.has_command = TRUE,
                            !.accepted = FALSE, !.recent = n,
                            !.unsent = FALSE, !.state = t]
    BY <1>2 DEF Sent
  <2> HIDE DEF t, n
  <2>3. [r EXCEPT !.send_failures = 0, !.has_command = TRUE,
                  !.accepted = FALSE, !.recent = n, !.unsent = FALSE,
                  !.state = t] \in Runtimes
    BY <2>1 DEF Runtimes
  <2>4. QED
    BY <2>1, <2>2, <2>3 DEF Runtimes, SameTargets
<1>3. QED
  BY <1>1, <1>2

-----------------------------------------------------------------------------
(* Steps that may come between two steps of an operation *)

\* All that the worker, the commands and a late clear_faults() do to the state
\* an operation relies on.
Env(r, s) ==
  /\ s \in Runtimes /\ s.disabled = r.disabled /\ s.estop = r.estop
  /\ s.hardware_transition => r.hardware_transition
  /\ s.state \in Active =>
       /\ r.state \in Active
       /\ r.hardware_transition => s.hardware_transition
  /\ s.state = "DISCONNECTED" => r.state = "DISCONNECTED"
  /\ r.state \in {"READY", "FAULT", "DISCONNECTED"} =>
       s.state \in {"READY", "FAULT", "DISCONNECTED"}
  /\ r.state \in {"FAULT", "DISCONNECTED"} /\ r.fault_latched =>
       s.state \in {"FAULT", "DISCONNECTED"} /\ s.fault_latched
  /\ r.state \notin Active /\ NoTargets(r) => NoTargets(s)
  /\ s.disable_confirmed => r.disable_confirmed
  /\ s.enable_grace /\ s.accepted => r.enable_grace /\ r.accepted

\* A motor that is off stays off.
StaysOff(p, q) ==
  /\ q \in [DOMAIN p -> {"off", "on", "fault"}]
  /\ \A m \in DOMAIN p : p[m] = "off" => q[m] = "off"

LEMMA EnvSame ==
  ASSUME NEW r \in Runtimes, NEW s \in Runtimes, Same(r, s),
         NoTargets(r) => NoTargets(s)
  PROVE  Env(r, s)
  BY DEF Same, Env

LEMMA EnvKeeps ==
  ASSUME NEW r \in Runtimes, NEW s \in Runtimes, Env(r, s), NEW p, NEW q,
         StaysOff(p, q)
  PROVE  /\ Always(r) => Always(s)
         /\ Rest(r, p) => Rest(s, q)
         /\ \A k : Local(r, p, k) => Local(s, q, k)
<1>0. (\A m \in DOMAIN p : p[m] = "off") => (\A m \in DOMAIN q : q[m] = "off")
  BY DEF StaysOff
<1>1. Latched(r) => Latched(s)
  BY DEF Env, Latched, Active
<1>2. Always(r) => Always(s)
  BY DEF Always, Env, Active
<1>3. Rest(r, p) => Rest(s, q)
  BY <1>0, <1>1 DEF Rest, Env
<1>4. ASSUME NEW k, Local(r, p, k)
      PROVE  Local(s, q, k)
  <2>1. s.hardware_transition => k.pc \in TransitionPcs
    BY <1>4 DEF Env, Local
  <2>2. k.pc \in SilentPcs => Silent(s)
    BY <1>4 DEF Env, Local, Silent
  <2>3. KnownOff(k) => \A m \in DOMAIN q : q[m] = "off"
    BY <1>0, <1>4 DEF Local
  <2>4. s.disable_confirmed => \/ k.pc \in {"e_state", "e_fail", "b_end", "b_unsafe"}
                               \/ \A m \in DOMAIN q : q[m] = "off"
    BY <1>0, <1>4 DEF Env, Local
  <2>5. /\ k.pc = "s_confirmed" => ~k.flag
        /\ k.pc \in {"s_prepare", "s_fault", "e_seed"} => s.state # "DISCONNECTED"
        /\ k.pc \in {"x_stop", "x_join"} =>
             s.state \in {"READY", "FAULT", "DISCONNECTED"}
        /\ k.pc = "x_join" => NoTargets(s)
    BY <1>4 DEF Env, Local, Active
  <2>6. s.estop =>
          \/ /\ k.op = "recover"
             /\ k.pc \in {"r_begin", "r_rollback", "r_failed"} => Latched(s)
          \/ k.pc \in {"s_prepare", "s_fault"}
          \/ BehindLatch(k) /\ Latched(s)
    BY <1>1, <1>4 DEF Env, Local
  <2>7. QED
    BY <2>1, <2>2, <2>3, <2>4, <2>5, <2>6 DEF Local
<1>5. QED
  BY <1>2, <1>3, <1>4

\* A step of nobody who holds lifecycle_mutex_ and calls nothing.
LEMMA EnvStep ==
  ASSUME Inv, Env(rt, rt'), StaysOff(power, power'), lifecycle' = lifecycle,
         call' = call, left' \in Scenario, ~frame'.frozen,
         worker' \in [pc : WorkerPcs, todo : SUBSET WorkerPcs, severe : BOOLEAN],
         \/ command' = command
         \/ command = NoCaller /\ command' = "worker"
         \/ command = "worker" /\ command' = NoCaller /\ worker'.pc # "send",
         worker'.pc = "send" =>
           \/ worker.pc = "send"
           \/ ~Silent(rt) /\ command' = "worker"
  PROVE  Inv'
<1>1. Types'
  <2>1. Present' = Present
    BY DEF StaysOff, Present
  <2>2. rt' \in Runtimes /\ rt'.disabled \subseteq Present
    BY DEF Env, Inv, Types
  <2>3. power' \in [Present -> {"off", "on", "fault"}]
    BY DEF StaysOff, Present
  <2>4. QED
    BY <2>1, <2>2, <2>3 DEF Inv, Types
<1>2. Mutexes'
  BY RuntimeAssumption DEF Inv, Mutexes
<1>3. Sending'
  <2> SUFFICES ASSUME worker'.pc = "send", NEW c \in Callers
               PROVE  call[c].pc \notin FrozenAt \cup {"e_power"}
    BY DEF Sending
  <2>1. CASE worker.pc = "send"
    BY <2>1 DEF Inv, Sending
  <2>2. CASE ~Silent(rt)
    <3>1. lifecycle = c => call[c].pc \notin SilentPcs
      BY <2>2 DEF Inv, Local
    <3>2. lifecycle # c => call[c].pc \in {"idle", "m_retry"}
      BY DEF Inv, Mutexes
    <3>3. QED
      BY <3>1, <3>2 DEF SilentPcs, FrozenAt
  <2>3. QED
    BY <2>1, <2>2
<1>4. /\ Always(rt)'
      /\ \A c \in Callers : lifecycle = c => Local(rt', power', call[c])
      /\ lifecycle = NoCaller => Rest(rt', power')
  BY EnvKeeps DEF Inv, Types, Env
<1>5. QED
  BY <1>1, <1>2, <1>3, <1>4 DEF Inv

-----------------------------------------------------------------------------
(* The worker *)

WorkerTypes == [pc : WorkerPcs, todo : SUBSET WorkerPcs, severe : BOOLEAN]

LEMMA SamePower ==
  ASSUME Inv, power' = power
  PROVE  StaysOff(power, power')
  BY DEF Inv, Types, StaysOff, Present

LEMMA EnvRefl ==
  ASSUME Inv, rt' = rt
  PROVE  Env(rt, rt')
  BY EnvSame DEF Inv, Types, Same

LEMMA LeaveType ==
  ASSUME NEW pc \in WorkerPcs \ {"send"}, Leave(pc)
  PROVE  worker' \in WorkerTypes /\ worker'.pc # "send"
  BY DEF Leave, WorkerTypes

LEMMA FirstOfType ==
  ASSUME NEW t
  PROVE  FirstOf(t) \in WorkerPcs /\ FirstOf(t) # "send"
  BY DEF FirstOf, WorkerPcs

LEMMA DoneType ==
  ASSUME Inv, NEW task, Done(task)
  PROVE  worker' \in WorkerTypes /\ worker'.pc # "send"
<1> DEFINE f == FirstOf(worker.todo \ {task})
<1>1. f \in WorkerPcs /\ f # "send"
  BY FirstOfType
<1>2. worker \in WorkerTypes
  BY DEF Inv, Types, WorkerTypes
<1>3. worker' = [worker EXCEPT !.todo = @ \ {task}, !.pc = f]
  BY DEF Done
<1> HIDE DEF f
<1>4. QED
  BY <1>1, <1>2, <1>3 DEF WorkerTypes

\* A step of the worker that neither takes nor gives up command_mutex_.
LEMMA QuietStep ==
  ASSUME Inv, ByWorker, Env(rt, rt'), command' = command, ~frame'.frozen,
         worker' \in WorkerTypes, worker'.pc # "send"
  PROVE  Inv'
<1>1. /\ power' = power /\ lifecycle' = lifecycle /\ call' = call
      /\ left' \in Scenario
  BY DEF ByWorker, Inv, Types
<1>2. QED
  BY <1>1, SamePower, EnvStep DEF WorkerTypes

LEMMA NotFrozen ==
  ASSUME Inv, frame' = frame
  PROVE  ~frame'.frozen
  BY DEF Inv

LEMMA IdleSteps ==
  ASSUME Inv, WorkerTop \/ DecideTimeout \/ DecideWork
  PROVE  Inv'
<1>1. Env(rt, rt') /\ command' = command /\ ~frame'.frozen /\ ByWorker
  BY EnvRefl, NotFrozen DEF WorkerTop, DecideTimeout, DecideWork
<1>2. worker' \in WorkerTypes /\ worker'.pc # "send"
  <2>1. CASE WorkerTop \/ DecideTimeout
    BY <2>1, LeaveType DEF WorkerTop, DecideTimeout, WorkerPcs
  <2>2. CASE DecideWork
    <3>1. CASE Leave("ready")
      BY <3>1, LeaveType DEF WorkerPcs
    <3>2. CASE ~Leave("ready")
      <4>1. PICK t \in SUBSET Due(rt) :
                   worker' = [worker EXCEPT !.pc = FirstOf(t), !.todo = t]
        BY <2>2, <3>2 DEF DecideWork
      <4>2. Due(rt) \subseteq WorkerPcs
        BY DEF Due, WorkerPcs
      <4>3. worker \in WorkerTypes
        BY DEF Inv, Types, WorkerTypes
      <4>4. QED
        BY <4>1, <4>2, <4>3, FirstOfType DEF WorkerTypes
    <3>3. QED
      BY <3>1, <3>2
  <2>3. QED
    BY <2>1, <2>2
<1>3. QED
  BY <1>1, <1>2, QuietStep

LEMMA GraceStep ==
  ASSUME Inv, DecideGrace
  PROVE  Inv'
<1>0. rt \in Runtimes
  BY DEF Inv, Types
<1>1. rt' = [rt EXCEPT !.enable_grace = TRUE] /\ ~rt.accepted
  BY DEF DecideGrace, GraceExpired
<1>2. rt' \in Runtimes
  BY <1>0, <1>1 DEF Runtimes
<1>3. Env(rt, rt')
  BY <1>0, <1>1, <1>2, ZenonT(60) DEF Env, Runtimes, NoTargets
<1>4. QED
  BY <1>3, QuietStep, LeaveType, NotFrozen DEF DecideGrace, WorkerPcs

\* Counters, the hold and the kind of a fault are nobody else's business.
LEMMA ReadyStep ==
  ASSUME Inv, WorkerReady
  PROVE  Inv'
<1>0. rt \in Runtimes /\ MoreLost(rt.feedback_failures) \in Nat
  BY MoreType DEF Inv, Types, Runtimes
<1>1. Env(rt, rt')
  <2>1. CASE rt' = FreshFeedback(rt)
    BY <1>0, <2>1, FreshFeedbackEffect, EnvSame DEF NoTargets, SameTargets
  <2>2. CASE rt' = [rt EXCEPT !.feedback_failures = MoreLost(@)]
    <3>1. rt' \in Runtimes
      BY <1>0, <2>2 DEF Runtimes
    <3>2. QED
      BY <1>0, <2>2, <3>1, EnvSame DEF Runtimes, Same, NoTargets
  <2>3. CASE rt' = rt
    BY <2>3, EnvRefl
  <2>4. QED
    BY <2>1, <2>2, <2>3 DEF WorkerReady
<1>2. QED
  BY <1>1, QuietStep, LeaveType, NotFrozen DEF WorkerReady, WorkerPcs

\* The cycle takes command_mutex_ only when no operation relies on silence.
LEMMA ArmStep ==
  ASSUME Inv, WorkerArm
  PROVE  Inv'
<1>0. rt \in Runtimes /\ worker \in WorkerTypes
  BY DEF Inv, Types, WorkerTypes
<1>1. CASE ~CycleRuns(rt)
  BY <1>1, EnvRefl, QuietStep, DoneType, NotFrozen DEF WorkerArm
<1>2. CASE CycleRuns(rt) /\ Leave("failed")
  <2>1. rt' = rt \/ rt' = Consumed(rt)
    BY <1>2 DEF WorkerArm
  <2>2. command' = command /\ frame' = frame /\ ByWorker
    <3>1. worker'.pc # "send"
      BY <1>2, LeaveType DEF WorkerPcs
    <3>2. QED
      BY <1>0, <1>2, <3>1 DEF WorkerArm, WorkerTypes
  <2>3. Env(rt, rt')
    <3>1. CASE rt' = Consumed(rt)
      BY <1>0, <1>2, <3>1, ConsumedEffect DEF Env, Same, CycleRuns, Always, Inv, Active
    <3>2. QED
      BY <2>1, <3>1, EnvRefl
  <2>4. QED
    BY <1>2, <2>2, <2>3, QuietStep, LeaveType, NotFrozen DEF WorkerPcs
<1>3. CASE CycleRuns(rt) /\ ~Leave("failed")
  <2>1. /\ rt' = Consumed(rt) /\ command = NoCaller /\ ByWorker
        /\ frame' = frame
    BY <1>3 DEF WorkerArm
  <2>2. Env(rt, rt')
    BY <1>0, <1>3, <2>1, ConsumedEffect DEF Env, Same, CycleRuns, Active
  <2>3. CASE rt'.mailbox = "none"
    BY <1>3, <2>1, <2>2, <2>3, QuietStep, DoneType, NotFrozen DEF WorkerArm
  <2>4. CASE rt'.mailbox # "none"
    <3>1. command' = "worker" /\ worker' = [worker EXCEPT !.pc = "send"]
      BY <1>3, <2>4 DEF WorkerArm
    <3>2. worker' \in WorkerTypes
      BY <1>0, <3>1 DEF WorkerTypes, WorkerPcs
    <3>3. ~Silent(rt)
      BY <1>3 DEF CycleRuns, Silent
    <3>4. /\ power' = power /\ lifecycle' = lifecycle /\ call' = call
          /\ left' \in Scenario
      BY <2>1 DEF ByWorker, Inv, Types
    <3>5. QED
      BY <2>1, <2>2, <3>1, <3>2, <3>3, <3>4, SamePower, NotFrozen, EnvStep
         DEF WorkerTypes
  <2>5. QED
    BY <2>3, <2>4
<1>4. QED
  BY <1>1, <1>2, <1>3

\* The frame goes out while nobody is in a place that relies on silence.
LEMMA SendStep ==
  ASSUME Inv, WorkerSend
  PROVE  Inv'
<1>0. rt \in Runtimes /\ worker.pc = "send" /\ command = "worker" /\ ByWorker
      /\ command' = NoCaller /\ MoreFailed(rt.send_failures) \in Nat
  BY MoreType DEF Inv, Types, Mutexes, WorkerSend, Runtimes
<1>1. /\ power' = power /\ lifecycle' = lifecycle /\ call' = call
      /\ left' \in Scenario
  BY <1>0 DEF ByWorker, Inv, Types
<1>2. CASE rt' = [rt EXCEPT !.send_failures = MoreFailed(@)] /\ Leave("failed")
           /\ frame' = frame
  <2>1. rt' \in Runtimes
    BY <1>0, <1>2 DEF Runtimes
  <2>2. Env(rt, rt')
    BY <1>0, <1>2, <2>1, EnvSame DEF Runtimes, Same, NoTargets
  <2>3. worker' \in WorkerTypes /\ worker'.pc # "send"
    BY <1>2, LeaveType DEF WorkerPcs
  <2>4. QED
    BY <1>0, <1>1, <1>2, <2>2, <2>3, EnvStep, SamePower, NotFrozen DEF WorkerTypes
<1>3. CASE ~(rt' = [rt EXCEPT !.send_failures = MoreFailed(@)] /\ Leave("failed")
             /\ frame' = frame)
  <2>1. PICK t \in Completion(rt.trajectory) :
          rt' = [Sent(rt) EXCEPT !.trajectory = t,
                   !.old = IF t = "RUNNING" THEN @ ELSE @ \ {"trajectory"}]
    BY <1>3 DEF WorkerSend
  <2>2. /\ frame' = Frame(rt.mailbox \notin {"none", "hold"}, "mailbox" \in rt.old)
        /\ Done("arm")
    BY <1>3 DEF WorkerSend
  <2> DEFINE u == Sent(rt)
             o == IF t = "RUNNING" THEN u.old ELSE u.old \ {"trajectory"}
  <2>3. t \in Motion
    BY <1>0, <2>1 DEF Completion, Motion, Runtimes
  <2>4. u \in Runtimes
    BY <1>0, SentEffect
  <2>5. o \in SUBSET Targets
    BY <2>4 DEF Runtimes
  <2>6. rt' = [u EXCEPT !.trajectory = t, !.old = o]
    BY <2>1
  <2>7. [u EXCEPT !.trajectory = t, !.old = o] \in Runtimes
    <3> HIDE DEF u, o
    <3>1. QED
      BY <2>3, <2>4, <2>5 DEF Runtimes
  <2>8. Same(u, rt') /\ SameTargets(u, rt')
    <3> HIDE DEF u, o
    <3>1. QED
      BY <2>4, <2>6, <2>7 DEF Runtimes, Same, SameTargets
  <2>9. Env(rt, rt')
    BY <1>0, <2>6, <2>7, <2>8, SentEffect DEF Env, Same, SameTargets, NoTargets, Active
  <2>10. ~frame'.frozen
    BY <1>0, <2>2 DEF Frame, Inv, Sending
  <2>11. worker' \in WorkerTypes /\ worker'.pc # "send"
    BY <2>2, DoneType
  <2>12. QED
    BY <1>0, <1>1, <2>9, <2>10, <2>11, EnvStep, SamePower DEF WorkerTypes
<1>4. QED
  BY <1>2, <1>3

LEMMA FailedStep ==
  ASSUME Inv, WorkerFailed
  PROVE  Inv'
<1>0. rt \in Runtimes
  BY DEF Inv, Types
<1>1. Env(rt, rt')
  <2>1. CASE rt' = rt
    BY <2>1, EnvRefl
  <2>2. CASE rt' = Terminate(rt, "FAULT")
    BY <1>0, <2>2, TerminateEffect, EnvSame DEF Motion
  <2>3. QED
    BY <2>1, <2>2 DEF WorkerFailed
<1>2. QED
  BY <1>1, QuietStep, LeaveType, NotFrozen DEF WorkerFailed, WorkerPcs

LEMMA FeedbackStep ==
  ASSUME Inv, WorkerFeedback
  PROVE  Inv'
<1>0. rt \in Runtimes
  BY DEF Inv, Types
<1> DEFINE f == rt.motor_fault \/ SomeFault(power)
<1>1. rt' = rt \/ rt' = [rt EXCEPT !.feedback_failures = 0]
      \/ rt' = [rt EXCEPT !.motor_fault = f]
  BY DEF WorkerFeedback
<1>2. f \in BOOLEAN
  OBVIOUS
<1> HIDE DEF f
<1>3. Env(rt, rt')
  <2>1. CASE rt' = rt
    BY <2>1, EnvRefl
  <2>2. CASE rt' = [rt EXCEPT !.feedback_failures = 0]
    <3>1. rt' \in Runtimes
      BY <1>0, <2>2 DEF Runtimes
    <3>2. QED
      BY <1>0, <2>2, <3>1, EnvSame DEF Runtimes, Same, NoTargets
  <2>3. CASE rt' = [rt EXCEPT !.motor_fault = f]
    <3>1. rt' \in Runtimes
      BY <1>0, <1>2, <2>3 DEF Runtimes
    <3>2. QED
      BY <1>0, <2>3, <3>1, EnvSame DEF Runtimes, Same, NoTargets
  <2>4. QED
    BY <1>1, <2>1, <2>2, <2>3
<1>4. worker' \in WorkerTypes /\ worker'.pc # "send"
  BY LeaveType, DoneType DEF WorkerFeedback, WorkerPcs, WorkerTypes
<1>5. QED
  BY <1>3, <1>4, QuietStep, NotFrozen DEF WorkerFeedback

LEMMA VerdictStep ==
  ASSUME Inv, WorkerVerdict
  PROVE  Inv'
<1>0. rt \in Runtimes /\ MoreLost(rt.feedback_failures) \in Nat
  BY MoreType DEF Inv, Types, Runtimes
<1>1. rt' = [rt EXCEPT !.feedback_failures = MoreLost(rt.feedback_failures)]
  BY DEF WorkerVerdict
<1>2. rt' \in Runtimes
  BY <1>0, <1>1 DEF Runtimes
<1>3. Env(rt, rt')
  BY <1>0, <1>1, <1>2, EnvSame DEF Runtimes, Same, NoTargets
<1>4. \E pc \in {"fault", "stop", "degrade", "top"} : Leave(pc)
  BY DEF WorkerVerdict
<1>5. worker' \in WorkerTypes /\ worker'.pc # "send"
  BY <1>4, LeaveType DEF WorkerPcs
<1>6. QED
  BY <1>3, <1>5, QuietStep, NotFrozen DEF WorkerVerdict

LEMMA DegradeStep ==
  ASSUME Inv, WorkerDegrade
  PROVE  Inv'
<1>0. rt \in Runtimes
  BY DEF Inv, Types
<1> DEFINE t == IF rt.state = "RUNNING" THEN "DEGRADED" ELSE rt.state
<1>1. /\ t \in States
      /\ t = rt.state \/ (rt.state = "RUNNING" /\ t = "DEGRADED")
  <2>1. rt.state \in States
    BY <1>0 DEF Runtimes
  <2>2. QED
    BY <2>1 DEF States
<1>2. rt' = [rt EXCEPT !.state = t]
  BY DEF WorkerDegrade
<1> HIDE DEF t
<1>3. rt' \in Runtimes
  BY <1>0, <1>1, <1>2 DEF Runtimes
<1>4. Env(rt, rt')
  BY <1>0, <1>1, <1>2, <1>3 DEF Env, Runtimes, NoTargets, Active
<1>5. QED
  BY <1>4, QuietStep, LeaveType, NotFrozen DEF WorkerDegrade, WorkerPcs

LEMMA GripperStep ==
  ASSUME Inv, WorkerGripper
  PROVE  Inv'
<1>0. rt \in Runtimes /\ MoreFailed(rt.send_failures) \in Nat
  BY MoreType DEF Inv, Types, Runtimes
<1> DEFINE t == IF rt.state = "ENABLED" THEN "RUNNING" ELSE rt.state
           n == rt.recent \/ ~rt.has_command
<1>1. /\ t \in States /\ n \in BOOLEAN
      /\ t = rt.state \/ (rt.state = "ENABLED" /\ t = "RUNNING")
  <2>1. rt.state \in States
    BY <1>0 DEF Runtimes
  <2>2. QED
    BY <2>1 DEF States
<1>2. \/ rt' = rt
      \/ rt' = [rt EXCEPT !.gripper = FALSE, !.has_command = TRUE,
                         !.recent = n, !.state = t]
      \/ rt' = [rt EXCEPT !.send_failures = MoreFailed(@)]
  BY DEF WorkerGripper
<1> HIDE DEF t, n
<1>3. Env(rt, rt')
  <2>1. CASE rt' = rt
    BY <2>1, EnvRefl
  <2>2. CASE rt' = [rt EXCEPT !.gripper = FALSE, !.has_command = TRUE,
                         !.recent = n, !.state = t]
    <3>1. rt' \in Runtimes
      BY <1>0, <1>1, <2>2 DEF Runtimes
    <3>2. QED
      BY <1>0, <1>1, <2>2, <3>1 DEF Env, Runtimes, NoTargets, Active
  <2>3. CASE rt' = [rt EXCEPT !.send_failures = MoreFailed(@)]
    <3>1. rt' \in Runtimes
      BY <1>0, <2>3 DEF Runtimes
    <3>2. QED
      BY <1>0, <2>3, <3>1, EnvSame DEF Runtimes, Same, NoTargets
  <2>4. QED
    BY <1>2, <2>1, <2>2, <2>3
<1>4. worker' \in WorkerTypes /\ worker'.pc # "send"
  BY LeaveType, DoneType DEF WorkerGripper, WorkerPcs
<1>5. QED
  BY <1>3, <1>4, QuietStep, NotFrozen DEF WorkerGripper

LEMMA HoldStep ==
  ASSUME Inv, WorkerHold
  PROVE  Inv'
<1>0. /\ rt \in Runtimes /\ MoreFailed(rt.send_failures) \in Nat
      /\ MoreFailed(rt.hold_failures) \in Nat
  BY MoreType DEF Inv, Types, Runtimes
<1>1. \/ rt' = [rt EXCEPT !.hold_failures = 0]
      \/ rt' = [rt EXCEPT !.hold_failures = MoreFailed(@), !.send_failures = MoreFailed(@)]
  BY DEF WorkerHold
<1>3. Env(rt, rt')
  <2>1. CASE rt' = [rt EXCEPT !.hold_failures = 0]
    <3>1. rt' \in Runtimes
      BY <1>0, <2>1 DEF Runtimes
    <3>2. QED
      BY <1>0, <2>1, <3>1, EnvSame DEF Runtimes, Same, NoTargets
  <2>2. CASE rt' = [rt EXCEPT !.hold_failures = MoreFailed(@), !.send_failures = MoreFailed(@)]
    <3> DEFINE n == MoreFailed(rt.hold_failures)
               k == MoreFailed(rt.send_failures)
    <3>1. rt' = [rt EXCEPT !.hold_failures = n, !.send_failures = k]
      BY <2>2
    <3>2. n \in Nat /\ k \in Nat
      BY <1>0
    <3> HIDE DEF n, k
    <3>3. rt' \in Runtimes
      BY <1>0, <3>1, <3>2 DEF Runtimes
    <3>4. QED
      BY <1>0, <3>1, <3>3, EnvSame, ZenonT(60) DEF Runtimes, Same, NoTargets
  <2>3. QED
    BY <1>1, <2>1, <2>2
<1>4. ~frame'.frozen
  <2>1. frame' = frame \/ frame' = Frame(FALSE, FALSE)
    BY DEF WorkerHold
  <2>2. ~Frame(FALSE, FALSE).frozen
    BY DEF Frame
  <2>3. QED
    BY <2>1, <2>2, NotFrozen
<1>5. Leave("top") \/ Leave("fault")
  BY DEF WorkerHold
<1>6. worker' \in WorkerTypes /\ worker'.pc # "send"
  BY <1>5, LeaveType DEF WorkerPcs
<1>7. QED
  BY <1>3, <1>4, <1>6, QuietStep DEF WorkerHold

LEMMA StopSteps ==
  ASSUME Inv, WorkerStop \/ WorkerStopped \/ WorkerFault \/ WorkerFaulted
  PROVE  Inv'
<1>0. rt \in Runtimes /\ worker \in WorkerTypes
  BY DEF Inv, Types, WorkerTypes
<1>1. Env(rt, rt')
  <2>1. CASE WorkerStop \/ WorkerFault
    <3>1. PICK held \in BOOLEAN : rt' = [rt EXCEPT !.hold = held]
      BY <2>1 DEF WorkerStop, WorkerFault
    <3>2. rt' \in Runtimes
      BY <1>0, <3>1 DEF Runtimes
    <3>3. QED
      BY <1>0, <3>1, <3>2, EnvSame DEF Runtimes, Same, NoTargets
  <2>2. CASE WorkerStopped
    <3>1. CASE rt' = rt
      BY <3>1, EnvRefl
    <3>2. CASE /\ rt' = SafeStop(rt)
               /\ rt.state \notin {"DISCONNECTED", "READY", "FAULT"}
      BY <1>0, <3>2, SafeStopEffect DEF Env, Active
    <3>3. QED
      BY <2>2, <3>1, <3>2 DEF WorkerStopped
  <2>3. CASE WorkerFaulted
    <3>1. worker.severe \in BOOLEAN
      BY <1>0 DEF WorkerTypes
    <3>2. CASE rt.state = "DISCONNECTED"
      BY <1>0, <2>3, <3>1, <3>2, EnterFaultEffect, EnvRefl DEF WorkerFaulted
    <3>3. CASE rt.state # "DISCONNECTED"
      BY <1>0, <2>3, <3>1, <3>3, EnterFaultEffect DEF WorkerFaulted, Env, Active
    <3>4. QED
      BY <3>2, <3>3
  <2>4. QED
    BY <2>1, <2>2, <2>3
<1>2. worker' \in WorkerTypes /\ worker'.pc # "send"
  <2>1. CASE WorkerFault
    BY <2>1 DEF WorkerFault, WorkerTypes, WorkerPcs
  <2>2. CASE WorkerStop \/ WorkerStopped \/ WorkerFaulted
    <3>1. \E pc \in {"stopped", "fault", "top"} : Leave(pc)
      BY <2>2 DEF WorkerStop, WorkerStopped, WorkerFaulted
    <3>2. QED
      BY <3>1, LeaveType DEF WorkerPcs
  <2>3. QED
    BY <2>1, <2>2
<1>3. QED
  BY <1>1, <1>2, QuietStep, NotFrozen
     DEF WorkerStop, WorkerStopped, WorkerFault, WorkerFaulted

LEMMA WorkerKeeps ==
  ASSUME Inv, Worker
  PROVE  Inv'
  BY IdleSteps, GraceStep, ReadyStep, ArmStep, SendStep, FailedStep,
     FeedbackStep, VerdictStep, DegradeStep, GripperStep, HoldStep, StopSteps
     DEF Worker

-----------------------------------------------------------------------------
(* The threads that command the robot, and motors that fail *)

LEMMA CommandStep ==
  ASSUME Inv, Env(rt, rt'), left' \in Scenario,
         UNCHANGED <<power, lifecycle, command, call, worker, frame>>
  PROVE  Inv'
<1>1. /\ StaysOff(power, power') /\ ~frame'.frozen
      /\ worker' \in [pc : WorkerPcs, todo : SUBSET WorkerPcs, severe : BOOLEAN]
  BY SamePower DEF Inv, Types
<1>2. QED
  BY <1>1, EnvStep

LEMMA LeftType ==
  ASSUME Inv
  PROVE  /\ left.commands > 0 => [left EXCEPT !.commands = @ - 1] \in Scenario
         /\ left.trips > 0 => [left EXCEPT !.trips = @ - 1] \in Scenario
         /\ left.calls > 0 => [left EXCEPT !.calls = @ - 1] \in Scenario
<1>1. left \in Scenario
  BY DEF Inv, Types
<1>2. /\ left.commands > 0 => left.commands - 1 \in Nat
      /\ left.trips > 0 => left.trips - 1 \in Nat
      /\ left.calls > 0 => left.calls - 1 \in Nat
  BY <1>1 DEF Scenario
<1>3. QED
  BY <1>1, <1>2 DEF Scenario

\* A command is taken in a state that sends, before the worker decided to stop.
LEMMA Takes ==
  ASSUME NEW r \in Runtimes, InstallAllowed(r), NEW s \in Runtimes,
         s.state = r.state, s.hardware_transition = r.hardware_transition,
         s.disabled = r.disabled, s.estop = r.estop,
         s.fault_latched = r.fault_latched, s.enable_grace = r.enable_grace,
         s.disable_confirmed = r.disable_confirmed
  PROVE  Env(r, s)
<1>1. r.state \in Active /\ ~r.enable_grace
  BY DEF InstallAllowed, TakesCommands
<1>2. r.state \notin {"READY", "FAULT", "DISCONNECTED"}
  BY <1>1 DEF Active
<1>3. QED
  BY <1>1, <1>2 DEF Env

LEMMA CommandsKeep ==
  ASSUME Inv, Commands
  PROVE  Inv'
<1>0. rt \in Runtimes
  BY DEF Inv, Types
<1>1. /\ left' \in Scenario
      /\ UNCHANGED <<power, lifecycle, command, call, worker, frame>>
  BY LeftType DEF Commands, Submit, Install, StartTrajectory, PlanBegin, PlanEnd,
       Cancel, GripperCommand, Command, Inv, Types
<1>2. Env(rt, rt')
  <2>1. ASSUME NEW m \in {"stream", "target"}, Submit(m)
        PROVE  Env(rt, rt')
    <3>1. rt' = [rt EXCEPT !.pending = m, !.old = @ \ {"pending"}]
      BY <2>1 DEF Submit, Command
    <3>2. m \in Mailbox \ {"hold"} /\ rt.old \ {"pending"} \in SUBSET Targets
      BY <1>0 DEF Mailbox, Runtimes
    <3>3. rt' \in Runtimes
      BY <1>0, <3>1, <3>2 DEF Runtimes
    <3>4. QED
      BY <1>0, <2>1, <3>1, <3>3, Takes, ZenonT(60) DEF Submit, Runtimes
  <2>2. CASE Install
    BY <1>0, <2>2, Takes, InstalledEffect DEF Install, Command
  <2>3. CASE StartTrajectory
    <3> DEFINE q == ClearTargets(rt)
    <3>1. q \in Runtimes /\ Same(rt, q)
      BY <1>0, ClearTargetsEffect
    <3>2. rt' = [q EXCEPT !.trajectory = "RUNNING", !.old = {}]
      BY <2>3 DEF StartTrajectory, Command
    <3> HIDE DEF q
    <3>3. rt' \in Runtimes
      BY <3>1, <3>2 DEF Runtimes, Motion
    <3>4. QED
      BY <1>0, <2>3, <3>1, <3>2, <3>3, Takes, ZenonT(60)
         DEF StartTrajectory, Runtimes, Same
  <2>4. CASE PlanBegin \/ GripperCommand
    <3>1. /\ \/ rt' = [rt EXCEPT !.planning = TRUE]
             \/ rt' = [rt EXCEPT !.gripper = TRUE]
          /\ InstallAllowed(rt)
      BY <2>4 DEF PlanBegin, GripperCommand, Command
    <3>2. rt' \in Runtimes
      BY <1>0, <3>1, ZenonT(60) DEF Runtimes
    <3>3. QED
      BY <1>0, <3>1, <3>2, Takes DEF Runtimes
  <2>5. CASE PlanEnd
    <3> DEFINE q == [rt EXCEPT !.planning = FALSE]
    <3>1. q \in Runtimes
      BY <1>0 DEF Runtimes
    <3>2. Same(rt, q) /\ SameTargets(rt, q)
      BY <1>0 DEF Runtimes, Same, SameTargets
    <3>3. \/ rt' = q
          \/ InstallAllowed(q) /\ rt' = Installed(q)
      BY <2>5 DEF PlanEnd
    <3> HIDE DEF q
    <3>4. CASE rt' = q
      BY <1>0, <3>1, <3>2, <3>4, EnvSame DEF SameTargets, NoTargets
    <3>5. CASE InstallAllowed(q) /\ rt' = Installed(q)
      <4>1. Env(q, rt') /\ q.state \in Active /\ ~q.enable_grace
        BY <3>1, <3>5, Takes, InstalledEffect DEF InstallAllowed, TakesCommands
      <4>2. QED
        BY <3>2, <4>1 DEF Same, SameTargets, NoTargets, Env
    <3>6. QED
      BY <3>3, <3>4, <3>5
  <2>6. CASE Cancel
    BY <1>0, <2>6, TerminateEffect, EnvSame DEF Cancel, Command, Motion
  <2>7. QED
    BY <2>1, <2>2, <2>3, <2>4, <2>5, <2>6 DEF Commands
<1>3. QED
  BY <1>1, <1>2, CommandStep

LEMMA TripKeeps ==
  ASSUME Inv, NEW m \in Present, Trip(m)
  PROVE  Inv'
<1>1. StaysOff(power, power')
  <2>1. power \in [DOMAIN power -> {"off", "on", "fault"}]
    BY DEF Inv, Types, Present
  <2>2. QED
    BY <2>1 DEF Trip, StaysOff, Present
<1>2. left' \in Scenario
  BY LeftType DEF Trip
<1>3. /\ UNCHANGED <<rt, lifecycle, command, call, worker, frame>>
      /\ ~frame'.frozen
      /\ worker' \in [pc : WorkerPcs, todo : SUBSET WorkerPcs, severe : BOOLEAN]
  BY DEF Trip, Inv, Types
<1>4. QED
  BY <1>1, <1>2, <1>3, EnvRefl, EnvStep

LEMMA AgesKeeps ==
  ASSUME Inv, CommandAges
  PROVE  Inv'
<1>1. rt \in Runtimes /\ left \in Scenario
  BY DEF Inv, Types
<1>2. /\ rt' = [rt EXCEPT !.recent = FALSE] /\ left' = left
      /\ UNCHANGED <<power, lifecycle, command, call, worker, frame>>
  BY DEF CommandAges
<1>3. rt' \in Runtimes
  BY <1>1, <1>2 DEF Runtimes
<1>4. Env(rt, rt')
  BY <1>1, <1>2, <1>3, EnvSame DEF Runtimes, Same, NoTargets
<1>5. QED
  BY <1>1, <1>2, <1>4, CommandStep

-----------------------------------------------------------------------------
(* A step of the operation that holds lifecycle_mutex_ *)

Powers == [Present -> {"off", "on", "fault"}]
Good(r) == r \in Runtimes /\ r.disabled \subseteq Present /\ Always(r)
CallOf(k) == k \in Calls /\ PcOf(k) /\ k.motors \subseteq Present

\* A frame is on its way only if nobody is in one of these places.
Relies(k) == k.pc \in FrozenAt \cup {"e_power"}

LEMMA OwnerStep ==
  ASSUME Inv, NEW c \in Callers, NEW k, CallOf(k), lifecycle \in {c, NoCaller},
         call' = [call EXCEPT ![c] = k], Good(rt'), power' \in Powers,
         \/ /\ lifecycle' = c /\ k.pc \notin {"idle", "m_retry"}
            /\ Local(rt', power', k)
         \/ /\ lifecycle' = NoCaller /\ k.pc \in {"idle", "m_retry"}
            /\ Rest(rt', power'),
         worker' = worker, left' \in Scenario, ~frame'.frozen,
         \/ command' = command
         \/ command = NoCaller /\ command' = c
         \/ command = c /\ command' = NoCaller,
         k.pc \in HeldPcs => command' = c,
         Relies(k) => command = NoCaller \/ Relies(call[c])
  PROVE  Inv'
<1>0. /\ Types /\ Mutexes /\ Sending /\ NoCaller \notin Callers
      /\ "worker" \notin Callers \cup {NoCaller}
  BY RuntimeAssumption DEF Inv
<1>1. Present' = Present
  BY DEF Powers, Present
<1>2. /\ call' \in [Callers -> Calls] /\ call'[c] = k
      /\ \A d \in Callers \ {c} : call'[d] = call[d]
  BY <1>0 DEF Types, CallOf
<1>3. Types'
  <2>1. \A d \in Callers : PcOf(call'[d]) /\ call'[d].motors \subseteq Present
    BY <1>0, <1>2 DEF Types, CallOf
  <2>2. lifecycle' \in Callers \cup {NoCaller}
    OBVIOUS
  <2>3. command' \in Callers \cup {NoCaller, "worker"}
    BY <1>0 DEF Types
  <2>4. rt' \in Runtimes /\ rt'.disabled \subseteq Present
    BY DEF Good
  <2>5. QED
    BY <1>0, <1>1, <1>2, <2>1, <2>2, <2>3, <2>4 DEF Types, Powers
<1>4. \A d \in Callers \ {c} : call[d].pc \in {"idle", "m_retry"} /\ lifecycle' # d
  BY <1>0 DEF Mutexes
<1>5. worker.pc = "send" => command' = "worker" /\ command # NoCaller
  BY <1>0 DEF Mutexes
<1>6. Mutexes'
  <2>1. \A d \in Callers : lifecycle' = d <=> call'[d].pc \notin {"idle", "m_retry"}
    BY <1>0, <1>2, <1>4
  <2>2. \A d \in Callers : call'[d].pc \in HeldPcs => command' = d
    BY <1>2, <1>4 DEF HeldPcs
  <2>3. QED
    BY <1>5, <2>1, <2>2 DEF Mutexes
<1>7. Sending'
  <2>1. ASSUME worker.pc = "send", NEW d \in Callers
        PROVE  ~Relies(call'[d])
    <3>1. CASE d = c
      <4>1. ~Relies(call[c])
        BY <1>0, <2>1 DEF Sending, Relies
      <4>2. QED
        BY <1>2, <1>5, <2>1, <3>1, <4>1
    <3>2. CASE d # c
      BY <1>2, <1>4, <3>2 DEF Relies, FrozenAt
    <3>3. QED
      BY <3>1, <3>2
  <2>2. QED
    BY <2>1 DEF Sending, Relies
<1>8. /\ \A d \in Callers : lifecycle' = d => Local(rt', power', call'[d])
      /\ lifecycle' = NoCaller => Rest(rt', power')
  BY <1>0, <1>2, <1>4
<1>9. QED
  BY <1>3, <1>6, <1>7, <1>8 DEF Inv, Good

LEMMA Owner ==
  ASSUME Inv, NEW c \in Callers, call[c].pc \notin {"idle", "m_retry"}
  PROVE  /\ lifecycle = c /\ Local(rt, power, call[c]) /\ CallOf(call[c])
  BY DEF Inv, Mutexes, CallOf, Types

LEMMA Facts ==
  ASSUME Inv
  PROVE  /\ Good(rt) /\ power \in Powers /\ rt \in Runtimes
         /\ \A c \in Callers : CallOf(call[c])
  BY DEF Inv, Types, Good, Powers, CallOf

\* The operation goes on without any of the mutexes but lifecycle_mutex_.
LEMMA Moves ==
  ASSUME Inv, NEW c \in Callers, lifecycle = c, NEW k, CallOf(k),
         call' = [call EXCEPT ![c] = k], lifecycle' = lifecycle, Others,
         k.pc \notin {"idle", "m_retry"} \cup HeldPcs,
         Relies(k) => command = NoCaller \/ Relies(call[c]),
         Good(rt'), Local(rt', power, k)
  PROVE  Inv'
<1>1. /\ power' = power /\ command' = command /\ worker' = worker
      /\ left' \in Scenario /\ ~frame'.frozen /\ power' \in Powers
  BY DEF Others, Inv, Types, Powers
<1>2. QED
  BY <1>1, OwnerStep

IdleCall == [op |-> "none", pc |-> "idle", ok |-> TRUE, flag |-> FALSE,
             from |-> "READY", motors |-> {}]

LEMMA IdleType == CallOf(IdleCall) /\ IdleCall.pc = "idle" /\ ~Relies(IdleCall)
                  /\ IdleCall.pc \notin HeldPcs
<1>1. IdleCall \in Calls
  BY DEF IdleCall, Calls, States, Pcs
<1>2. PcOf(IdleCall) /\ IdleCall.motors \subseteq Present /\ IdleCall.pc = "idle"
  BY DEF IdleCall, PcOf
<1>3. QED
  BY <1>1, <1>2 DEF CallOf, Relies, FrozenAt, HeldPcs

LEMMA Returns ==
  ASSUME Inv, NEW c \in Callers, lifecycle = c, Return(c), Others, Good(rt'),
         Rest(rt', power)
  PROVE  Inv'
<1>1. /\ power' = power /\ command' = command /\ worker' = worker
      /\ left' \in Scenario /\ ~frame'.frozen /\ power' \in Powers
  BY DEF Others, Inv, Types, Powers
<1>2. call' = [call EXCEPT ![c] = IdleCall] /\ lifecycle' = NoCaller
  BY DEF Return, IdleCall
<1>3. QED
  BY <1>1, <1>2, IdleType, OwnerStep

With(k, pc) == [k EXCEPT !.pc = pc]

LEMMA WithPc ==
  ASSUME NEW k \in Calls, NEW pc \in Pcs
  PROVE  LET n == With(k, pc) IN
         /\ n \in Calls /\ n.op = k.op /\ n.pc = pc /\ n.ok = k.ok
         /\ n.flag = k.flag /\ n.from = k.from /\ n.motors = k.motors
<1>1. With(k, pc) \in Calls
  BY DEF With, Calls
<1>2. QED
  BY <1>1 DEF With, Calls

LEMMA Goes ==
  ASSUME Inv, NEW c \in Callers, lifecycle = c, NEW pc \in Pcs, Go(c, pc),
         Others, pc \notin {"idle", "m_retry"} \cup HeldPcs,
         PcOf(With(call[c], pc)),
         pc \in FrozenAt \cup {"e_power"} => command = NoCaller \/ Relies(call[c]),
         Good(rt'), Local(rt', power, With(call[c], pc))
  PROVE  Inv'
<1>1. CallOf(call[c]) /\ call \in [Callers -> Calls]
  BY DEF Inv, Types, CallOf
<1>2. CallOf(With(call[c], pc)) /\ With(call[c], pc).pc = pc
  BY <1>1, WithPc DEF CallOf
<1>3. call' = [call EXCEPT ![c] = With(call[c], pc)] /\ lifecycle' = lifecycle
  BY <1>1 DEF Go, With
<1>4. Relies(With(call[c], pc)) => command = NoCaller \/ Relies(call[c])
  BY <1>2 DEF Relies
<1>5. QED
  BY <1>2, <1>3, <1>4, Moves

\* The end of connect(), enable() and disable(), in the two uses of each.
LEMMA Finishes ==
  ASSUME Inv, NEW c \in Callers, lifecycle = c, NEW ok \in BOOLEAN,
         NEW op \in {"connect", "enable", "disable"}, Finish(c, op, ok), Others,
         \/ call[c].op \in {op, "recover"}
         \/ call[c].op = "close" /\ op = "disable",
         Good(rt'), ~rt'.hardware_transition,
         rt'.disable_confirmed => AllOff(power),
         op = "disable" =>
           /\ ok => AllOff(power)
           /\ rt'.state \in {"READY", "FAULT", "DISCONNECTED"},
         rt'.estop => call[c].op = "recover" \/ Latched(rt')
  PROVE  Inv'
<1>1. CASE call[c].op = op
  <2>1. Rest(rt', power)
    BY <1>1 DEF Rest, AllOff, Present
  <2>2. Return(c)
    BY <1>1 DEF Finish
  <2>3. QED
    BY <2>1, <2>2, Returns
<1>2. CASE call[c].op # op
  <2> DEFINE pc == IF call[c].op = "close" THEN "x_stop"
                   ELSE IF ~ok THEN "r_fail"
                   ELSE CASE op = "connect" -> "r_freeze"
                          [] op = "enable"  -> "r_zero"
                          [] OTHER          -> "r_done"
  <2>1. Go(c, pc)
    BY <1>2 DEF Finish, Go
  <2>2. \/ call[c].op = "close" /\ pc = "x_stop" /\ op = "disable"
        \/ call[c].op = "recover" /\ pc \in {"r_fail", "r_freeze", "r_zero"}
        \/ call[c].op = "recover" /\ pc = "r_done" /\ op = "disable" /\ ok
    BY <1>2
  <2> HIDE DEF pc
  <2> DEFINE k == With(call[c], pc)
  <2>3. pc \in Pcs /\ pc \notin {"idle", "m_retry"} \cup HeldPcs \cup FrozenAt
        /\ pc # "e_power"
    BY <2>2 DEF HeldPcs, FrozenAt, Pcs, RecoverPcs, ClosePcs
  <2>4. k.op = call[c].op /\ k.pc = pc
    BY <2>3, Facts, WithPc DEF CallOf
  <2>5. PcOf(k)
    BY <2>2, <2>4 DEF PcOf, RecoverPcs, ClosePcs
  <2>6. Local(rt', power, k)
    <3> HIDE DEF k
    <3>1. KnownOff(k) => AllOff(power)
      BY <2>2, <2>4 DEF KnownOff
    <3>2. k.pc \notin SilentPcs
      BY <2>2, <2>4 DEF SilentPcs, FrozenAt
    <3>3. k.op = "close" => BehindLatch(k)
      BY <2>2, <2>4 DEF BehindLatch, EnablePcs
    <3>4. k.pc \notin {"s_prepare", "s_fault", "s_confirmed", "e_seed", "x_join",
                       "r_begin", "r_rollback", "r_failed"}
      BY <2>2, <2>4
    <3>5. k.pc = "x_stop" => op = "disable"
      BY <2>2, <2>4
    <3>6. k.op \in {"recover", "close"}
      BY <2>2, <2>4
    <3>7. QED
      BY <2>4, <3>1, <3>2, <3>3, <3>4, <3>5, <3>6 DEF Local, AllOff, Present
  <2>7. QED
    BY <2>1, <2>3, <2>5, <2>6, Goes
<1>3. QED
  BY <1>1, <1>2

\* The operation also remembers something.
Now(k, pc, ok, flag) == [k EXCEPT !.pc = pc, !.ok = ok, !.flag = flag]

LEMMA NowType ==
  ASSUME NEW k \in Calls, NEW pc \in Pcs, NEW ok \in BOOLEAN, NEW flag \in BOOLEAN
  PROVE  LET n == Now(k, pc, ok, flag) IN
         /\ n \in Calls /\ n.op = k.op /\ n.pc = pc /\ n.ok = ok
         /\ n.flag = flag /\ n.from = k.from /\ n.motors = k.motors
<1>1. Now(k, pc, ok, flag) \in Calls
  BY DEF Now, Calls
<1>2. QED
  BY <1>1 DEF Now, Calls

SetsFlag(c, pc, flag) == call' = [call EXCEPT ![c].pc = pc, ![c].flag = flag]
SetsOk(c, pc, ok) == call' = [call EXCEPT ![c].pc = pc, ![c].ok = ok]
SetsBoth(c, pc, ok, flag) ==
  call' = [call EXCEPT ![c].pc = pc, ![c].ok = ok, ![c].flag = flag]

LEMMA NowCall ==
  ASSUME Inv, NEW c \in Callers, NEW pc \in Pcs, NEW ok \in BOOLEAN,
         NEW flag \in BOOLEAN,
         \/ SetsFlag(c, pc, flag) /\ ok = call[c].ok
         \/ SetsOk(c, pc, ok) /\ flag = call[c].flag
         \/ SetsBoth(c, pc, ok, flag)
  PROVE  call' = [call EXCEPT ![c] = Now(call[c], pc, ok, flag)]
<1>0. call \in [Callers -> Calls]
  BY DEF Inv, Types
<1> DEFINE k == call[c]
<1>1. [k EXCEPT !.pc = pc, !.flag = flag] = Now(k, pc, k.ok, flag)
  BY <1>0 DEF Now, Calls
<1>2. [k EXCEPT !.pc = pc, !.ok = ok] = Now(k, pc, ok, k.flag)
  BY <1>0 DEF Now, Calls
<1>3. [k EXCEPT !.pc = pc, !.ok = ok, !.flag = flag] = Now(k, pc, ok, flag)
  BY DEF Now
<1>4. \/ /\ call' = [call EXCEPT ![c] = [k EXCEPT !.pc = pc, !.flag = flag]]
         /\ ok = k.ok
      \/ /\ call' = [call EXCEPT ![c] = [k EXCEPT !.pc = pc, !.ok = ok]]
         /\ flag = k.flag
      \/ call' = [call EXCEPT ![c] = [k EXCEPT !.pc = pc, !.ok = ok, !.flag = flag]]
  BY <1>0 DEF SetsFlag, SetsOk, SetsBoth
<1>5. QED
  BY <1>1, <1>2, <1>3, <1>4

LEMMA Notes ==
  ASSUME Inv, NEW c \in Callers, lifecycle = c, NEW pc \in Pcs,
         NEW ok \in BOOLEAN, NEW flag \in BOOLEAN,
         call' = [call EXCEPT ![c] = Now(call[c], pc, ok, flag)],
         lifecycle' = lifecycle,
         UNCHANGED <<command, worker, frame, left>>, power' \in Powers,
         pc \notin {"idle", "m_retry"} \cup HeldPcs,
         PcOf(Now(call[c], pc, ok, flag)),
         pc \in FrozenAt \cup {"e_power"} => command = NoCaller \/ Relies(call[c]),
         Good(rt'), Local(rt', power', Now(call[c], pc, ok, flag))
  PROVE  Inv'
<1>1. CallOf(call[c]) /\ left' \in Scenario /\ ~frame'.frozen
  BY DEF Inv, Types, CallOf
<1> DEFINE k == Now(call[c], pc, ok, flag)
<1>2. CallOf(k) /\ k.pc = pc
  BY <1>1, NowType DEF CallOf
<1>3. Relies(k) => command = NoCaller \/ Relies(call[c])
  BY <1>2 DEF Relies
<1> HIDE DEF k
<1>4. QED
  BY <1>1, <1>2, <1>3, OwnerStep DEF k

-----------------------------------------------------------------------------
(* connect *)

LEMMA ConnectBeginKeeps ==
  ASSUME Inv, NEW c \in Callers, ConnectBegin(c)
  PROVE  Inv'
<1>0. /\ call[c].pc = "c_begin" /\ lifecycle = c /\ rt \in Runtimes /\ Good(rt)
      /\ call[c] \in Calls /\ power \in Powers /\ CallOf(call[c])
      /\ Local(rt, power, call[c]) /\ Others
  BY Owner, Facts DEF ConnectBegin, At, CallOf
<1>1. call[c].op \in {"connect", "recover"}
  BY <1>0 DEF CallOf, PcOf, ConnectPcs, EnablePcs, DisablePcs, EstopPcs, HeldPcs,
       QueryPcs, BatchPcs, ClosePcs
<1>2. /\ ~rt.hardware_transition /\ (rt.disable_confirmed => AllOff(power))
      /\ rt.estop => call[c].op = "recover" \/ Latched(rt)
  BY <1>0 DEF Local, TransitionPcs, HeldPcs, AllOff, Present
<1> DEFINE refused == \/ rt.stopping
                      \/ rt.state # "DISCONNECTED"
                         /\ \/ rt.state # "FAULT" \/ ~rt.fault_latched \/ rt.estop
                            \/ rt.motor_fault \/ rt.hardware_transition
                            \/ SomeFault(power)
           f == rt.motor_fault \/
                  /\ rt.state = "FAULT" /\ rt.fault_latched
                  /\ ~rt.stopping /\ ~rt.estop
                  /\ ~rt.hardware_transition /\ SomeFault(power)
<1>3. CASE refused
  <2>1. rt' = [rt EXCEPT !.motor_fault = f] /\ f \in BOOLEAN
        /\ Finish(c, "connect", ~rt.stopping)
    BY <1>3 DEF ConnectBegin
  <2> HIDE DEF f
  <2>2. rt' \in Runtimes
    BY <1>0, <2>1 DEF Runtimes
  <2>3. Same(rt, rt') /\ SameTargets(rt, rt')
    BY <1>0, <2>1, <2>2 DEF Runtimes, Same, SameTargets
  <2>4. Good(rt')
    BY <1>0, <2>2, <2>3 DEF Good, Same, SameTargets, Always, NoTargets
  <2>5. (~rt.stopping) \in BOOLEAN
    OBVIOUS
  <2>6. QED
    BY <1>0, <1>1, <1>2, <2>1, <2>3, <2>4, <2>5, Finishes
       DEF Same, SameTargets, Latched, NoTargets
<1>4. CASE ~refused
  <2> DEFINE g == rt.state = "FAULT"
             k == Now(call[c], "c_feedback", call[c].ok, g)
  <2>1. /\ rt' = [rt EXCEPT !.hardware_transition = TRUE] /\ lifecycle' = lifecycle
        /\ SetsFlag(c, "c_feedback", g)
    BY <1>4 DEF ConnectBegin, SetsFlag
  <2>2. g \in BOOLEAN /\ call[c].ok \in BOOLEAN /\ "c_feedback" \in Pcs
    BY <1>0 DEF Calls, Pcs, ConnectPcs
  <2> HIDE DEF g
  <2>3. call' = [call EXCEPT ![c] = k]
    BY <2>1, <2>2, NowCall
  <2>4. k.pc = "c_feedback" /\ k.op = call[c].op
    BY <1>0, <2>2, NowType
  <2>5. PcOf(k)
    BY <1>1, <2>4 DEF PcOf, ConnectPcs
  <2>6. rt' \in Runtimes
    BY <1>0, <2>1 DEF Runtimes
  <2>7. Good(rt')
    BY <1>0, <2>1, <2>6 DEF Good, Always, NoTargets, Runtimes
  <2>8. Local(rt', power, k)
    <3> HIDE DEF k
    <3>1. Latched(rt) => Latched(rt')
      BY <1>0, <2>1 DEF Latched, NoTargets, Runtimes
    <3>2. k.op = "connect" => BehindLatch(k)
      BY <2>4 DEF BehindLatch, EnablePcs
    <3>3. QED
      BY <1>0, <1>1, <1>2, <2>1, <2>4, <3>1, <3>2
         DEF Local, Runtimes, TransitionPcs, SilentPcs, FrozenAt, KnownOff,
             AllOff, Present
  <2>9. QED
    BY <1>0, <2>1, <2>2, <2>3, <2>5, <2>7, <2>8, Notes
       DEF Others, HeldPcs, FrozenAt
<1>5. QED
  BY <1>3, <1>4

LEMMA OwnerFacts ==
  ASSUME Inv, NEW c \in Callers, call[c].pc \notin {"idle", "m_retry"}
  PROVE  /\ lifecycle = c /\ Local(rt, power, call[c]) /\ CallOf(call[c])
         /\ call[c] \in Calls /\ PcOf(call[c]) /\ rt \in Runtimes /\ Good(rt)
         /\ power \in Powers
  BY Owner, Facts DEF CallOf

LEMMA ConnectOp ==
  ASSUME NEW k, PcOf(k), k.pc \in ConnectPcs
  PROVE  k.op \in {"connect", "recover"}
  BY DEF PcOf, ConnectPcs, EnablePcs, DisablePcs, EstopPcs, HeldPcs, QueryPcs,
       BatchPcs, ClosePcs

LEMMA ConnectFailsKeeps ==
  ASSUME Inv, NEW c \in Callers, ConnectFails(c)
  PROVE  Inv'
<1>0. /\ call[c].pc = "c_feedback" /\ Others /\ Finish(c, "connect", FALSE)
      /\ rt' = [rt EXCEPT !.hardware_transition = FALSE]
  BY DEF ConnectFails, At
<1>1. /\ lifecycle = c /\ Local(rt, power, call[c]) /\ PcOf(call[c])
      /\ rt \in Runtimes /\ Good(rt)
  BY <1>0, OwnerFacts
<1>2. call[c].op \in {"connect", "recover"}
  BY <1>0, <1>1, ConnectOp DEF ConnectPcs
<1>3. rt' \in Runtimes
  BY <1>0, <1>1 DEF Runtimes
<1>4. Good(rt') /\ ~rt'.hardware_transition /\ (Latched(rt) => Latched(rt'))
      /\ rt'.disable_confirmed = rt.disable_confirmed /\ rt'.estop = rt.estop
  BY <1>0, <1>1, <1>3 DEF Runtimes, Good, Always, NoTargets, Latched
<1>5. /\ rt.disable_confirmed => AllOff(power)
      /\ rt.estop => call[c].op = "recover" \/ Latched(rt)
  BY <1>0, <1>1 DEF Local, AllOff, Present
<1>6. QED
  BY <1>0, <1>1, <1>2, <1>4, <1>5, Finishes

LEMMA ConnectedKeeps ==
  ASSUME Inv, NEW c \in Callers, Connected(c)
  PROVE  Inv'
<1>0. call[c].pc = "c_feedback" /\ Others
  BY DEF Connected, At
<1>1. /\ lifecycle = c /\ Local(rt, power, call[c]) /\ PcOf(call[c])
      /\ rt \in Runtimes /\ Good(rt)
  BY <1>0, OwnerFacts
<1>2. call[c].op \in {"connect", "recover"}
  BY <1>0, <1>1, ConnectOp DEF ConnectPcs
<1>3. /\ rt.disable_confirmed => AllOff(power)
      /\ rt.estop => call[c].op = "recover" \/ Latched(rt)
  BY <1>0, <1>1 DEF Local, AllOff, Present
<1> DEFINE q == FreshFeedback(rt)
<1>4. q \in Runtimes /\ Same(rt, q) /\ SameTargets(rt, q)
      /\ q.motor_fault = rt.motor_fault
  BY <1>1, FreshFeedbackEffect DEF FreshFeedback, Runtimes
<1>5. CASE call[c].flag /\ ~SomeFault(power) /\ ~AllOff(power)
  <2>1. /\ rt' = [q EXCEPT !.disable_confirmed = FALSE,
                           !.hardware_transition = FALSE]
        /\ Finish(c, "connect", FALSE)
    BY <1>5 DEF Connected
  <2> HIDE DEF q
  <2>2. rt' \in Runtimes
    BY <1>4, <2>1 DEF Runtimes
  <2>3. Good(rt') /\ ~rt'.hardware_transition /\ (Latched(rt) => Latched(rt'))
        /\ ~rt'.disable_confirmed /\ rt'.estop = rt.estop
    BY <1>1, <1>4, <2>1, <2>2
       DEF Runtimes, Good, Always, NoTargets, Latched, Same, SameTargets
  <2>4. QED
    BY <1>0, <1>1, <1>2, <1>3, <2>1, <2>3, Finishes
<1>6. CASE ~(call[c].flag /\ ~SomeFault(power) /\ ~AllOff(power))
  <2> DEFINE l == rt.estop \/ rt.motor_fault \/ SomeFault(power)
             f == q.motor_fault \/ SomeFault(power)
             t == IF l THEN "FAULT" ELSE "READY"
             o == AllOff(power)
  <2>1. /\ rt' = [q EXCEPT !.motor_fault = f, !.state = t, !.fault_latched = l,
                           !.disable_confirmed = o,
                           !.hardware_transition = FALSE]
        /\ Finish(c, "connect", TRUE)
    BY <1>6 DEF Connected
  <2>2. /\ l \in BOOLEAN /\ f \in BOOLEAN /\ o \in BOOLEAN /\ t \in States
        /\ t # "DISCONNECTED" /\ (rt.estop => l /\ t = "FAULT")
    BY DEF States, AllOff
  <2>3. o => AllOff(power)
    OBVIOUS
  <2> HIDE DEF q, l, f, t, o
  <2>4. rt' \in Runtimes
    <3>1. q \in Runtimes /\ l \in BOOLEAN /\ f \in BOOLEAN /\ o \in BOOLEAN
          /\ t \in States
      BY <1>4, <2>2
    <3>2. [q EXCEPT !.motor_fault = f, !.state = t, !.fault_latched = l,
                    !.disable_confirmed = o, !.hardware_transition = FALSE]
            \in Runtimes
      BY <3>1 DEF Runtimes
    <3>3. QED
      BY <2>1, <3>2
  <2>5. /\ ~rt'.hardware_transition /\ rt'.disable_confirmed = o
        /\ rt'.state = t /\ rt'.fault_latched = l /\ rt'.estop = rt.estop
        /\ SameTargets(rt, rt') /\ rt'.disabled = rt.disabled
        /\ rt'.enable_grace = rt.enable_grace /\ rt'.accepted = rt.accepted
    BY <1>1, <1>4, <2>1, <2>4 DEF Runtimes, Same, SameTargets
  <2>6. Good(rt') /\ (rt.estop /\ Latched(rt) => Latched(rt'))
    BY <1>1, <2>2, <2>4, <2>5 DEF Good, Always, NoTargets, Latched, SameTargets
  <2>7. QED
    BY <1>0, <1>1, <1>2, <1>3, <2>1, <2>3, <2>5, <2>6, Finishes
<1>7. QED
  BY <1>5, <1>6

-----------------------------------------------------------------------------
(* enable *)

Off(p) == \A m \in DOMAIN p : p[m] = "off"

\* What Local says inside enable().
EnableLocal(r, p, k) ==
  /\ r.estop => k.op = "recover"
  /\ r.hardware_transition => k.pc # "e_confirm"
  /\ k.pc \in {"e_seed", "e_power", "e_state", "e_rollback", "e_end"} => Silent(r)
  /\ k.pc = "e_end" /\ k.ok => Off(p)
  /\ r.disable_confirmed => k.pc \in {"e_state", "e_fail"} \/ Off(p)
  /\ k.pc = "e_seed" => r.state # "DISCONNECTED"

LEMMA InEnable ==
  ASSUME NEW r, NEW p, NEW k, k.pc \in EnablePcs \ {"e_begin"}
  PROVE  Local(r, p, k) <=> EnableLocal(r, p, k)
<1>1. KnownOff(k) <=> k.pc = "e_end" /\ k.ok
  BY DEF KnownOff, EnablePcs
<1>2. k.pc \in TransitionPcs <=> k.pc # "e_confirm"
  BY DEF TransitionPcs, HeldPcs, EnablePcs
<1>3. k.pc \in SilentPcs <=>
        k.pc \in {"e_seed", "e_power", "e_state", "e_rollback", "e_end"}
  BY DEF SilentPcs, FrozenAt, EnablePcs
<1>4. ~BehindLatch(k)
  BY DEF BehindLatch
<1>5. k.pc \notin {"s_confirmed", "s_prepare", "s_fault", "x_stop", "x_join",
                   "r_begin", "r_rollback", "r_failed", "b_end", "b_unsafe"}
  BY DEF EnablePcs
<1>6. QED
  BY <1>1, <1>2, <1>3, <1>4, <1>5 DEF Local, EnableLocal, Off

LEMMA EnableOp ==
  ASSUME NEW k, PcOf(k), k.pc \in EnablePcs
  PROVE  k.op \in {"enable", "recover"}
  BY DEF PcOf, ConnectPcs, EnablePcs, DisablePcs, EstopPcs, HeldPcs, QueryPcs,
       BatchPcs, ClosePcs

\* A step of enable() that only moves on.
LEMMA EnableGoes ==
  ASSUME Inv, NEW c \in Callers, call[c].pc \in EnablePcs,
         NEW pc \in EnablePcs \ {"e_begin"}, Go(c, pc), Others,
         pc \in FrozenAt \cup {"e_power"} => command = NoCaller \/ Relies(call[c]),
         Good(rt'), EnableLocal(rt', power, With(call[c], pc))
  PROVE  Inv'
<1>1. call[c].pc \notin {"idle", "m_retry"}
  BY DEF EnablePcs
<1>2. lifecycle = c /\ call[c] \in Calls /\ PcOf(call[c])
  BY <1>1, OwnerFacts
<1>3. pc \in Pcs /\ pc \notin {"idle", "m_retry"} \cup HeldPcs
  BY DEF Pcs, EnablePcs, HeldPcs
<1>4. With(call[c], pc).pc = pc /\ With(call[c], pc).op \in {"enable", "recover"}
  BY <1>2, <1>3, WithPc, EnableOp
<1>5. PcOf(With(call[c], pc))
  BY <1>4 DEF PcOf
<1>6. Local(rt', power, With(call[c], pc))
  BY <1>4, InEnable
<1>7. QED
  BY <1>2, <1>3, <1>5, <1>6, Goes

LEMMA EnableBeginKeeps ==
  ASSUME Inv, NEW c \in Callers, EnableBegin(c)
  PROVE  Inv'
<1>0. call[c].pc = "e_begin" /\ Others
  BY DEF EnableBegin, At
<1>1. /\ lifecycle = c /\ Local(rt, power, call[c]) /\ PcOf(call[c])
      /\ rt \in Runtimes /\ Good(rt) /\ call[c] \in Calls
  BY <1>0, OwnerFacts
<1>2. call[c].op \in {"enable", "recover"}
  BY <1>0, <1>1, EnableOp DEF EnablePcs
<1>3. /\ rt.disable_confirmed => Off(power) /\ AllOff(power)
      /\ rt.estop => call[c].op = "recover" \/ Latched(rt)
      /\ ~rt.hardware_transition
  BY <1>0, <1>1 DEF Local, AllOff, Present, TransitionPcs, HeldPcs, Off
<1>4. CASE \/ rt.state \notin {"READY", "PARTIALLY_ENABLED"}
           \/ rt.fault_latched \/ rt.hardware_transition
  <2>1. rt' = rt /\ Finish(c, "enable", FALSE)
    BY <1>4 DEF EnableBegin
  <2>2. QED
    BY <1>0, <1>1, <1>2, <1>3, <2>1, Finishes
<1>5. CASE ~(\/ rt.state \notin {"READY", "PARTIALLY_ENABLED"}
             \/ rt.fault_latched \/ rt.hardware_transition)
  <2>1. /\ rt' = [rt EXCEPT !.hardware_transition = TRUE,
                            !.enable_transaction = TRUE]
        /\ Go(c, "e_seed")
    BY <1>5 DEF EnableBegin
  <2>2. rt' \in Runtimes
    BY <1>1, <2>1 DEF Runtimes
  <2>3. Good(rt') /\ rt'.hardware_transition /\ rt'.estop = rt.estop
        /\ rt'.state = rt.state /\ rt'.disable_confirmed = rt.disable_confirmed
    BY <1>1, <2>1, <2>2 DEF Good, Always, NoTargets, Runtimes
  <2>4. rt.estop => call[c].op = "recover"
    BY <1>3, <1>5 DEF Latched
  <2>5. With(call[c], "e_seed").pc = "e_seed"
        /\ With(call[c], "e_seed").op = call[c].op
    BY <1>1, WithPc DEF Pcs, EnablePcs
  <2>6. EnableLocal(rt', power, With(call[c], "e_seed"))
    BY <1>3, <1>5, <2>3, <2>4, <2>5 DEF EnableLocal, Silent
  <2>7. QED
    BY <1>0, <2>1, <2>3, <2>6, EnableGoes DEF EnablePcs, FrozenAt
<1>6. QED
  BY <1>4, <1>5

LEMMA EnableSeedKeeps ==
  ASSUME Inv, NEW c \in Callers, EnableSeed(c)
  PROVE  Inv'
<1>0. call[c].pc = "e_seed" /\ Others /\ command = NoCaller
  BY DEF EnableSeed, At
<1>1. /\ lifecycle = c /\ Local(rt, power, call[c])
      /\ rt \in Runtimes /\ Good(rt) /\ call[c] \in Calls
  BY <1>0, OwnerFacts
<1>2. EnableLocal(rt, power, call[c])
  BY <1>0, <1>1, InEnable DEF EnablePcs
<1>3. \A pc \in {"e_power", "e_fail"} :
        With(call[c], pc).pc = pc /\ With(call[c], pc).op = call[c].op
  BY <1>1, WithPc DEF Pcs, EnablePcs
<1>4. CASE /\ Go(c, "e_power")
           /\ rt' = [MarkOld(rt) EXCEPT !.mailbox = "hold", !.unsent = TRUE,
                                        !.old = @ \ {"mailbox"}]
  <2> DEFINE q == MarkOld(rt)
             o == q.old \ {"mailbox"}
  <2>1. q \in Runtimes /\ Same(rt, q)
    BY <1>1, MarkOldEffect
  <2>2. rt' = [q EXCEPT !.mailbox = "hold", !.unsent = TRUE, !.old = o]
    BY <1>4
  <2>3. o \in SUBSET Targets /\ "hold" \in Mailbox
    BY <2>1 DEF Runtimes, Mailbox
  <2> HIDE DEF q, o
  <2>4. rt' \in Runtimes
    BY <2>1, <2>2, <2>3 DEF Runtimes
  <2>5. Same(rt, rt')
    BY <2>1, <2>2, <2>4 DEF Same, Runtimes
  <2>6. Good(rt')
    BY <1>0, <1>1, <1>2, <2>4, <2>5 DEF Good, Always, Same, EnableLocal
  <2>7. EnableLocal(rt', power, With(call[c], "e_power"))
    BY <1>0, <1>2, <1>3, <2>5 DEF EnableLocal, Same, Silent
  <2>8. QED
    BY <1>0, <1>4, <2>6, <2>7, EnableGoes DEF EnablePcs
<1>5. CASE rt' = rt /\ Go(c, "e_fail")
  <2>1. EnableLocal(rt', power, With(call[c], "e_fail"))
    BY <1>2, <1>3, <1>5 DEF EnableLocal
  <2>2. QED
    BY <1>0, <1>1, <1>5, <2>1, EnableGoes DEF EnablePcs
<1>6. QED
  BY <1>4, <1>5 DEF EnableSeed

\* A step that also turns motors on or off, or sends a frame.
LEMMA PowerGoes ==
  ASSUME Inv, NEW c \in Callers, lifecycle = c, NEW pc \in Pcs, Go(c, pc),
         UNCHANGED <<command, worker, left>>, ~frame'.frozen, power' \in Powers,
         pc \notin {"idle", "m_retry"}, pc \in HeldPcs => command = c,
         PcOf(With(call[c], pc)),
         pc \in FrozenAt \cup {"e_power"} => command = NoCaller \/ Relies(call[c]),
         Good(rt'), Local(rt', power', With(call[c], pc))
  PROVE  Inv'
<1>1. CallOf(call[c]) /\ call \in [Callers -> Calls] /\ left' \in Scenario
  BY DEF Inv, Types, CallOf
<1>2. CallOf(With(call[c], pc)) /\ With(call[c], pc).pc = pc
  BY <1>1, WithPc DEF CallOf
<1>3. call' = [call EXCEPT ![c] = With(call[c], pc)] /\ lifecycle' = lifecycle
  BY <1>1 DEF Go, With
<1>4. Relies(With(call[c], pc)) => command = NoCaller \/ Relies(call[c])
  BY <1>2 DEF Relies
<1>5. QED
  BY <1>1, <1>2, <1>3, <1>4, OwnerStep

LEMMA CommandedType ==
  ASSUME power \in Powers, NEW s, NEW from, NEW to \in {"off", "on", "fault"},
         NEW p \in Commanded(s, from, to)
  PROVE  /\ p \in Powers /\ DOMAIN p = DOMAIN power
         /\ to = "off" => (Off(power) => Off(p))
<1>1. PICK t : p = [m \in Present |-> IF m \in t THEN to ELSE power[m]]
  BY DEF Commanded
<1>2. \A m \in Present : power[m] \in {"off", "on", "fault"}
  BY DEF Powers
<1>3. p \in Powers
  BY <1>1, <1>2 DEF Powers
<1>4. QED
  BY <1>1, <1>2, <1>3 DEF Off, Present, Powers

LEMMA EnableAllKeeps ==
  ASSUME Inv, NEW c \in Callers, EnableAll(c)
  PROVE  Inv'
<1>0. /\ call[c].pc = "e_power" /\ rt' = rt
      /\ UNCHANGED <<command, worker, frame, left>>
      /\ power' \in Commanded(Present, "off", "on")
  BY DEF EnableAll, At
<1>1. /\ lifecycle = c /\ Local(rt, power, call[c]) /\ PcOf(call[c])
      /\ rt \in Runtimes /\ Good(rt) /\ call[c] \in Calls /\ power \in Powers
  BY <1>0, OwnerFacts
<1>2. EnableLocal(rt, power, call[c])
  BY <1>0, <1>1, InEnable DEF EnablePcs
<1>3. PICK pc \in {"e_state", "e_fail"} : Go(c, pc)
  BY DEF EnableAll
<1>4. pc \in Pcs /\ pc \in EnablePcs \ {"e_begin"}
  BY DEF Pcs, EnablePcs
<1>5. With(call[c], pc).pc = pc /\ With(call[c], pc).op = call[c].op
      /\ call[c].op \in {"enable", "recover"}
  BY <1>0, <1>1, <1>4, WithPc, EnableOp DEF EnablePcs
<1>6. EnableLocal(rt', power', With(call[c], pc))
  BY <1>0, <1>2, <1>5 DEF EnableLocal
<1>7. Local(rt', power', With(call[c], pc)) /\ PcOf(With(call[c], pc))
  BY <1>4, <1>5, <1>6, InEnable DEF PcOf
<1>8. power' \in Powers /\ ~frame'.frozen
  BY <1>0, <1>1, CommandedType DEF Inv
<1>9. QED
  BY <1>0, <1>1, <1>3, <1>4, <1>7, <1>8, PowerGoes DEF Relies, HeldPcs

LEMMA EnableStateKeeps ==
  ASSUME Inv, NEW c \in Callers, EnableState(c)
  PROVE  Inv'
<1>0. /\ call[c].pc = "e_state" /\ rt' = InitializeEnabled(rt) /\ Others
      /\ Go(c, "e_hold")
  BY DEF EnableState, At
<1>1. /\ Local(rt, power, call[c]) /\ rt \in Runtimes /\ call[c] \in Calls
  BY <1>0, OwnerFacts
<1>2. EnableLocal(rt, power, call[c])
  BY <1>0, <1>1, InEnable DEF EnablePcs
<1>3. /\ rt' \in Runtimes /\ rt'.state = "ENABLED" /\ ~rt'.disable_confirmed
      /\ ~rt'.enable_grace /\ rt'.disabled = {} /\ rt'.estop = rt.estop
  BY <1>0, <1>1, InitializeEnabledEffect
<1>4. Good(rt')
  BY <1>3 DEF Good, Always
<1>5. With(call[c], "e_hold").pc = "e_hold" /\ With(call[c], "e_hold").op = call[c].op
  BY <1>1, WithPc DEF Pcs, EnablePcs
<1>6. EnableLocal(rt', power, With(call[c], "e_hold"))
  BY <1>2, <1>3, <1>5 DEF EnableLocal
<1>7. QED
  BY <1>0, <1>4, <1>6, EnableGoes DEF EnablePcs, FrozenAt

LEMMA EnableHoldKeeps ==
  ASSUME Inv, NEW c \in Callers, EnableHold(c)
  PROVE  Inv'
<1>0. call[c].pc = "e_hold" /\ UNCHANGED <<power, command, worker, left>>
  BY DEF EnableHold, At
<1>1. /\ lifecycle = c /\ Local(rt, power, call[c]) /\ PcOf(call[c])
      /\ rt \in Runtimes /\ Good(rt) /\ call[c] \in Calls /\ power \in Powers
  BY <1>0, OwnerFacts
<1>2. EnableLocal(rt, power, call[c])
  BY <1>0, <1>1, InEnable DEF EnablePcs
<1>3. CASE Go(c, "e_fail") /\ rt' = rt /\ frame' = frame
  <2>1. With(call[c], "e_fail").pc = "e_fail" /\ With(call[c], "e_fail").op = call[c].op
    BY <1>1, WithPc DEF Pcs, EnablePcs
  <2>2. EnableLocal(rt', power, With(call[c], "e_fail"))
    BY <1>2, <1>3, <2>1 DEF EnableLocal
  <2>3. QED
    BY <1>0, <1>1, <1>3, <2>2, EnableGoes DEF EnablePcs, FrozenAt, Others
<1>4. CASE /\ frame' = Frame(FALSE, "mailbox" \in rt.old) /\ Go(c, "e_confirm")
           /\ rt' = [rt EXCEPT !.hardware_transition = FALSE]
  <2>1. /\ With(call[c], "e_confirm").pc = "e_confirm"
        /\ With(call[c], "e_confirm").op = call[c].op
        /\ call[c].op \in {"enable", "recover"}
    BY <1>0, <1>1, WithPc, EnableOp DEF Pcs, EnablePcs
  <2>2. rt' \in Runtimes
    BY <1>1, <1>4 DEF Runtimes
  <2>3. Good(rt') /\ ~rt'.hardware_transition /\ rt'.estop = rt.estop
        /\ rt'.disable_confirmed = rt.disable_confirmed
    BY <1>1, <1>4, <2>2 DEF Good, Always, NoTargets, Runtimes
  <2>4. EnableLocal(rt', power', With(call[c], "e_confirm"))
    BY <1>0, <1>2, <2>1, <2>3 DEF EnableLocal
  <2>5. /\ Local(rt', power', With(call[c], "e_confirm"))
        /\ PcOf(With(call[c], "e_confirm")) /\ "e_confirm" \in Pcs
    BY <2>1, <2>4, InEnable DEF PcOf, EnablePcs, Pcs
  <2>6. ~frame'.frozen
    BY <1>4 DEF Frame
  <2>7. QED
    BY <1>0, <1>1, <1>4, <2>3, <2>5, <2>6, PowerGoes DEF HeldPcs, FrozenAt
<1>5. QED
  BY <1>3, <1>4 DEF EnableHold

LEMMA EnableConfirmKeeps ==
  ASSUME Inv, NEW c \in Callers, EnableConfirm(c)
  PROVE  Inv'
<1>0. call[c].pc = "e_confirm" /\ Others
  BY DEF EnableConfirm, At
<1>1. /\ lifecycle = c /\ Local(rt, power, call[c]) /\ PcOf(call[c])
      /\ rt \in Runtimes /\ Good(rt) /\ call[c] \in Calls
  BY <1>0, OwnerFacts
<1>2. EnableLocal(rt, power, call[c]) /\ call[c].op \in {"enable", "recover"}
  BY <1>0, <1>1, InEnable, EnableOp DEF EnablePcs
<1>3. CASE /\ rt' = [rt EXCEPT !.enable_transaction = FALSE]
           /\ Finish(c, "enable", TRUE)
  <2>1. rt' \in Runtimes
    BY <1>1, <1>3 DEF Runtimes
  <2>2. Good(rt') /\ rt'.hardware_transition = rt.hardware_transition
        /\ rt'.estop = rt.estop /\ rt'.disable_confirmed = rt.disable_confirmed
    BY <1>1, <1>3, <2>1 DEF Good, Always, NoTargets, Runtimes
  <2>3. ~rt.hardware_transition /\ (rt.disable_confirmed => AllOff(power))
        /\ (rt.estop => call[c].op = "recover")
    BY <1>0, <1>2 DEF EnableLocal, Off, AllOff, Present
  <2>4. QED
    BY <1>0, <1>1, <1>2, <1>3, <2>2, <2>3, Finishes
<1>4. CASE rt' = rt /\ Go(c, "e_fail")
  <2>1. With(call[c], "e_fail").pc = "e_fail" /\ With(call[c], "e_fail").op = call[c].op
    BY <1>1, WithPc DEF Pcs, EnablePcs
  <2>2. EnableLocal(rt', power, With(call[c], "e_fail"))
    BY <1>2, <1>4, <2>1 DEF EnableLocal
  <2>3. QED
    BY <1>0, <1>1, <1>4, <2>2, EnableGoes DEF EnablePcs, FrozenAt
<1>5. QED
  BY <1>3, <1>4 DEF EnableConfirm

LEMMA EnableFaultKeeps ==
  ASSUME Inv, NEW c \in Callers, EnableFault(c)
  PROVE  Inv'
<1>0. call[c].pc = "e_fail" /\ Go(c, "e_rollback") /\ Others
  BY DEF EnableFault, At
<1>1. /\ Local(rt, power, call[c]) /\ rt \in Runtimes /\ Good(rt) /\ call[c] \in Calls
  BY <1>0, OwnerFacts
<1>2. EnableLocal(rt, power, call[c])
  BY <1>0, <1>1, InEnable DEF EnablePcs
<1> DEFINE q == ClearTargets(rt)
           f == q.motor_fault \/ SomeFault(power)
<1>3. q \in Runtimes /\ Same(rt, q)
  BY <1>1, ClearTargetsEffect
<1>4. /\ rt' = [q EXCEPT !.state = "FAULT", !.fault_latched = TRUE,
                         !.motor_fault = f, !.hardware_transition = TRUE,
                         !.disable_confirmed = FALSE]
      /\ f \in BOOLEAN
  BY DEF EnableFault
<1> HIDE DEF q, f
<1>5. rt' \in Runtimes
  BY <1>3, <1>4, ZenonT(60) DEF Runtimes, States
<1>6. Good(rt') /\ rt'.hardware_transition /\ rt'.estop = rt.estop
      /\ ~rt'.disable_confirmed
  BY <1>1, <1>3, <1>4, <1>5 DEF Good, Always, Same, Runtimes
<1>7. /\ With(call[c], "e_rollback").pc = "e_rollback"
      /\ With(call[c], "e_rollback").op = call[c].op
  BY <1>1, WithPc DEF Pcs, EnablePcs
<1>8. EnableLocal(rt', power, With(call[c], "e_rollback"))
  BY <1>2, <1>6, <1>7 DEF EnableLocal, Silent
<1>9. QED
  BY <1>0, <1>6, <1>8, EnableGoes DEF EnablePcs, FrozenAt

LEMMA DisableHardwareEffect ==
  ASSUME power \in Powers, NEW p, NEW ok, DisableHardware(p, ok)
  PROVE  p \in Powers /\ (ok => Off(p)) /\ (Off(power) => Off(p))
<1>1. p \in Powers /\ DOMAIN p = Present /\ (Off(power) => Off(p))
  BY CommandedType DEF DisableHardware, Present
<1>2. QED
  BY <1>1 DEF DisableHardware, AllOff, Off

LEMMA EnableRollbackKeeps ==
  ASSUME Inv, NEW c \in Callers, EnableRollback(c)
  PROVE  Inv'
<1>0. /\ call[c].pc = "e_rollback" /\ rt' = rt /\ lifecycle' = lifecycle
      /\ UNCHANGED <<command, worker, frame, left>> /\ command = NoCaller
  BY DEF EnableRollback, At
<1>1. /\ lifecycle = c /\ Local(rt, power, call[c]) /\ PcOf(call[c])
      /\ rt \in Runtimes /\ Good(rt) /\ call[c] \in Calls /\ power \in Powers
  BY <1>0, OwnerFacts
<1>2. EnableLocal(rt, power, call[c]) /\ call[c].op \in {"enable", "recover"}
  BY <1>0, <1>1, InEnable, EnableOp DEF EnablePcs
<1>3. PICK ok \in BOOLEAN : DisableHardware(power', ok) /\ SetsOk(c, "e_end", ok)
  BY DEF EnableRollback, SetsOk
<1>4. call[c].flag \in BOOLEAN /\ "e_end" \in Pcs
  BY <1>1 DEF Calls, Pcs, EnablePcs
<1> DEFINE k == Now(call[c], "e_end", ok, call[c].flag)
<1>5. call' = [call EXCEPT ![c] = k]
  BY <1>3, <1>4, NowCall
<1>6. k.pc = "e_end" /\ k.op = call[c].op /\ k.ok = ok
  BY <1>1, <1>4, NowType
<1>7. power' \in Powers /\ (ok => Off(power')) /\ (Off(power) => Off(power'))
  BY <1>1, <1>3, DisableHardwareEffect
<1> HIDE DEF k
<1>8. EnableLocal(rt', power', k)
  BY <1>0, <1>2, <1>6, <1>7 DEF EnableLocal
<1>9. Local(rt', power', k) /\ PcOf(k)
  BY <1>2, <1>6, <1>8, InEnable DEF EnablePcs, PcOf
<1>10. QED
  BY <1>0, <1>1, <1>4, <1>5, <1>7, <1>9, Notes DEF HeldPcs, k

LEMMA EnableEndKeeps ==
  ASSUME Inv, NEW c \in Callers, EnableEnd(c)
  PROVE  Inv'
<1>0. /\ call[c].pc = "e_end" /\ Others /\ Finish(c, "enable", FALSE)
      /\ rt' = [rt EXCEPT !.disable_confirmed = call[c].ok,
                          !.hardware_transition = FALSE,
                          !.enable_transaction = FALSE]
  BY DEF EnableEnd, At
<1>1. /\ lifecycle = c /\ Local(rt, power, call[c]) /\ PcOf(call[c])
      /\ rt \in Runtimes /\ Good(rt) /\ call[c] \in Calls
  BY <1>0, OwnerFacts
<1>2. EnableLocal(rt, power, call[c]) /\ call[c].op \in {"enable", "recover"}
  BY <1>0, <1>1, InEnable, EnableOp DEF EnablePcs
<1>3. call[c].ok \in BOOLEAN
  BY <1>1 DEF Calls
<1>4. rt' \in Runtimes
  BY <1>0, <1>1, <1>3 DEF Runtimes
<1>5. Good(rt') /\ ~rt'.hardware_transition /\ rt'.estop = rt.estop
      /\ rt'.disable_confirmed = call[c].ok
  BY <1>0, <1>1, <1>4 DEF Good, Always, NoTargets, Runtimes
<1>6. /\ call[c].ok => AllOff(power)
      /\ rt.estop => call[c].op = "recover"
  BY <1>0, <1>2 DEF EnableLocal, Off, AllOff, Present
<1>7. QED
  BY <1>0, <1>1, <1>2, <1>5, <1>6, Finishes

LEMMA EnableKeeps ==
  ASSUME Inv, NEW c \in Callers, Enable(c)
  PROVE  Inv'
  BY EnableBeginKeeps, EnableSeedKeeps, EnableAllKeeps, EnableStateKeeps,
     EnableHoldKeeps, EnableConfirmKeeps, EnableFaultKeeps, EnableRollbackKeeps,
     EnableEndKeeps DEF Enable

-----------------------------------------------------------------------------
(* disable *)

\* What Local says inside disable().
DisableLocal(r, p, k) ==
  /\ Silent(r)
  /\ k.pc = "d_end" /\ k.ok => Off(p)
  /\ r.disable_confirmed => Off(p)
  /\ r.estop => k.op = "recover" \/ (k.flag /\ Latched(r))

LEMMA InDisable ==
  ASSUME NEW r, NEW p, NEW k, k.pc \in {"d_motors", "d_end"}
  PROVE  Local(r, p, k) <=> DisableLocal(r, p, k)
<1>1. KnownOff(k) <=> k.pc = "d_end" /\ k.ok
  BY DEF KnownOff
<1>2. k.pc \in TransitionPcs /\ k.pc \in SilentPcs
  BY DEF TransitionPcs, SilentPcs, FrozenAt
<1>3. BehindLatch(k) <=> k.op # "recover" /\ k.flag
  BY DEF BehindLatch, EnablePcs
<1>4. QED
  BY <1>1, <1>2, <1>3 DEF Local, DisableLocal, Off

LEMMA DisableOp ==
  ASSUME NEW k, PcOf(k), k.pc \in DisablePcs
  PROVE  k.op \in {"disable", "recover", "close"}
  BY DEF PcOf, ConnectPcs, EnablePcs, DisablePcs, EstopPcs, HeldPcs, QueryPcs,
       BatchPcs, ClosePcs

LEMMA DisableBeginKeeps ==
  ASSUME Inv, NEW c \in Callers, DisableBegin(c)
  PROVE  Inv'
<1>0. call[c].pc = "d_begin" /\ Others
  BY DEF DisableBegin, At
<1>1. /\ lifecycle = c /\ Local(rt, power, call[c]) /\ PcOf(call[c])
      /\ rt \in Runtimes /\ Good(rt) /\ call[c] \in Calls /\ power \in Powers
  BY <1>0, OwnerFacts
<1>2. call[c].op \in {"disable", "recover", "close"}
  BY <1>0, <1>1, DisableOp DEF DisablePcs
<1>3. /\ rt.disable_confirmed => Off(power) /\ AllOff(power)
      /\ rt.estop => call[c].op = "recover" \/ Latched(rt)
      /\ ~rt.hardware_transition
  BY <1>0, <1>1 DEF Local, AllOff, Present, TransitionPcs, HeldPcs, Off
<1>4. CASE rt.state = "DISCONNECTED"
  <2>1. rt' = rt /\ Finish(c, "disable", FALSE)
    BY <1>4 DEF DisableBegin
  <2>2. QED
    BY <1>0, <1>1, <1>2, <1>3, <1>4, <2>1, Finishes
<1>5. CASE rt.state # "DISCONNECTED"
  <2> DEFINE q == Terminate(rt, "CANCELLED")
             g == rt.state = "FAULT" /\ rt.fault_latched
             k == Now(call[c], "d_motors", call[c].ok, g)
  <2>1. q \in Runtimes /\ Same(rt, q) /\ (NoTargets(rt) => NoTargets(q))
    BY <1>1, TerminateEffect DEF Motion
  <2>2. /\ rt' = [q EXCEPT !.hardware_transition = TRUE] /\ lifecycle' = lifecycle
        /\ SetsFlag(c, "d_motors", g)
    BY <1>5 DEF DisableBegin, SetsFlag
  <2>3. /\ g \in BOOLEAN /\ call[c].ok \in BOOLEAN /\ "d_motors" \in Pcs
        /\ Latched(rt) => g
    BY <1>1, <1>5 DEF Calls, Pcs, DisablePcs, Latched
  <2> HIDE DEF g, q
  <2>4. call' = [call EXCEPT ![c] = k]
    BY <2>2, <2>3, NowCall
  <2>5. k.pc = "d_motors" /\ k.op = call[c].op /\ k.flag = g
    BY <1>1, <2>3, NowType
  <2>6. rt' \in Runtimes
    BY <2>1, <2>2 DEF Runtimes
  <2>7. /\ rt'.hardware_transition /\ rt'.estop = rt.estop
        /\ rt'.state = rt.state /\ rt'.fault_latched = rt.fault_latched
        /\ rt'.disable_confirmed = rt.disable_confirmed
        /\ rt'.disabled = rt.disabled /\ rt'.accepted = rt.accepted
        /\ rt'.enable_grace = rt.enable_grace
        /\ NoTargets(rt) => NoTargets(rt')
    BY <2>1, <2>2, <2>6 DEF Same, NoTargets, Runtimes
  <2>8. Good(rt') /\ (Latched(rt) => Latched(rt'))
    BY <1>1, <2>6, <2>7 DEF Good, Always, Latched
  <2> HIDE DEF k
  <2>9. DisableLocal(rt', power, k)
    BY <1>3, <2>3, <2>5, <2>7, <2>8 DEF DisableLocal, Silent
  <2>10. Local(rt', power, k) /\ PcOf(k)
    BY <1>2, <2>5, <2>9, InDisable DEF PcOf, DisablePcs
  <2>11. QED
    BY <1>0, <1>1, <2>2, <2>3, <2>4, <2>8, <2>10, Notes
       DEF Others, HeldPcs, FrozenAt, k
<1>6. QED
  BY <1>4, <1>5

LEMMA DisableMotorsKeeps ==
  ASSUME Inv, NEW c \in Callers, DisableMotors(c)
  PROVE  Inv'
<1>0. /\ call[c].pc = "d_motors" /\ rt' = rt /\ lifecycle' = lifecycle
      /\ UNCHANGED <<command, worker, frame, left>> /\ command = NoCaller
  BY DEF DisableMotors, At
<1>1. /\ lifecycle = c /\ Local(rt, power, call[c]) /\ PcOf(call[c])
      /\ rt \in Runtimes /\ Good(rt) /\ call[c] \in Calls /\ power \in Powers
  BY <1>0, OwnerFacts
<1>2. DisableLocal(rt, power, call[c]) /\ call[c].op \in {"disable", "recover", "close"}
  BY <1>0, <1>1, InDisable, DisableOp DEF DisablePcs
<1>3. PICK ok \in BOOLEAN : DisableHardware(power', ok) /\ SetsOk(c, "d_end", ok)
  BY DEF DisableMotors, SetsOk
<1>4. call[c].flag \in BOOLEAN /\ "d_end" \in Pcs
  BY <1>1 DEF Calls, Pcs, DisablePcs
<1> DEFINE k == Now(call[c], "d_end", ok, call[c].flag)
<1>5. call' = [call EXCEPT ![c] = k]
  BY <1>3, <1>4, NowCall
<1>6. k.pc = "d_end" /\ k.op = call[c].op /\ k.ok = ok /\ k.flag = call[c].flag
  BY <1>1, <1>4, NowType
<1>7. power' \in Powers /\ (ok => Off(power')) /\ (Off(power) => Off(power'))
  BY <1>1, <1>3, DisableHardwareEffect
<1> HIDE DEF k
<1>8. DisableLocal(rt', power', k)
  BY <1>0, <1>2, <1>6, <1>7 DEF DisableLocal
<1>9. Local(rt', power', k) /\ PcOf(k)
  BY <1>2, <1>6, <1>8, InDisable DEF DisablePcs, PcOf
<1>10. QED
  BY <1>0, <1>1, <1>4, <1>5, <1>7, <1>9, Notes DEF HeldPcs, k

LEMMA DisableEndKeeps ==
  ASSUME Inv, NEW c \in Callers, DisableEnd(c)
  PROVE  Inv'
<1>0. /\ call[c].pc = "d_end" /\ Others /\ Finish(c, "disable", call[c].ok)
      /\ rt' = DisableResult(rt, call[c].ok, call[c].flag)
  BY DEF DisableEnd, At
<1>1. /\ lifecycle = c /\ Local(rt, power, call[c]) /\ PcOf(call[c])
      /\ rt \in Runtimes /\ Good(rt) /\ call[c] \in Calls
  BY <1>0, OwnerFacts
<1>2. DisableLocal(rt, power, call[c]) /\ call[c].op \in {"disable", "recover", "close"}
  BY <1>0, <1>1, InDisable, DisableOp DEF DisablePcs
<1>3. call[c].ok \in BOOLEAN /\ call[c].flag \in BOOLEAN
  BY <1>1 DEF Calls
<1>4. LET s == rt' IN
      /\ s \in Runtimes /\ NoTargets(s)
      /\ ~s.hardware_transition /\ ~s.enable_grace /\ ~s.accepted
      /\ s.estop = rt.estop /\ s.disable_confirmed = call[c].ok
      /\ s.disabled \subseteq rt.disabled
      /\ s.state = IF call[c].ok /\ ~call[c].flag THEN "READY" ELSE "FAULT"
      /\ rt.fault_latched \/ call[c].flag => s.fault_latched
  BY <1>0, <1>1, <1>3, DisableResultEffect, SMTT(30)
<1>5. Good(rt') /\ rt'.state \in {"READY", "FAULT", "DISCONNECTED"}
  BY <1>1, <1>4 DEF Good, Always
<1>6. /\ call[c].ok => AllOff(power)
      /\ rt.estop => call[c].op = "recover" \/ Latched(rt')
  BY <1>0, <1>2, <1>4 DEF DisableLocal, Off, AllOff, Present, Latched
<1>7. QED
  BY <1>0, <1>1, <1>2, <1>3, <1>4, <1>5, <1>6, Finishes

LEMMA DisableKeeps ==
  ASSUME Inv, NEW c \in Callers, Disable(c)
  PROVE  Inv'
  BY DisableBeginKeeps, DisableMotorsKeeps, DisableEndKeeps DEF Disable

-----------------------------------------------------------------------------
(* estop *)

\* What Local says inside estop().
EstopLocal(r, p, k) ==
  /\ ~r.hardware_transition
  /\ k.pc # "s_hold" /\ ~k.flag /\ k.ok => Off(p)
  /\ k.pc = "s_confirmed" => ~k.flag
  /\ r.disable_confirmed => Off(p)
  /\ k.pc \in {"s_prepare", "s_fault"} => r.state # "DISCONNECTED"
  /\ r.estop => k.pc \in {"s_prepare", "s_fault"} \/ Latched(r)

LEMMA InEstop ==
  ASSUME NEW r, NEW p, NEW k, k.op = "estop", k.pc \in EstopPcs \ {"s_begin"}
  PROVE  Local(r, p, k) <=> EstopLocal(r, p, k)
<1>1. KnownOff(k) <=> k.pc # "s_hold" /\ ~k.flag /\ k.ok
  BY DEF KnownOff, EstopPcs
<1>2. k.pc \notin TransitionPcs /\ k.pc \notin SilentPcs
  BY DEF TransitionPcs, SilentPcs, FrozenAt, HeldPcs, EstopPcs
<1>3. BehindLatch(k)
  BY DEF BehindLatch, EnablePcs, EstopPcs
<1>4. k.pc \notin {"e_state", "e_fail", "b_end", "b_unsafe", "e_seed", "x_stop", "x_join"}
  BY DEF EstopPcs
<1>5. QED
  BY <1>1, <1>2, <1>3, <1>4 DEF Local, EstopLocal, Off

LEMMA EstopOp ==
  ASSUME NEW k, PcOf(k), k.pc \in EstopPcs
  PROVE  k.op = "estop"
  BY DEF PcOf, ConnectPcs, EnablePcs, DisablePcs, EstopPcs, HeldPcs, QueryPcs,
       BatchPcs, ClosePcs, RecoverPcs

LEMMA EstopBeginKeeps ==
  ASSUME Inv, NEW c \in Callers, EstopBegin(c)
  PROVE  Inv'
<1>0. /\ call[c].pc = "s_begin" /\ Others
      /\ rt' = [rt EXCEPT !.estop = TRUE, !.fault_latched = TRUE]
  BY DEF EstopBegin, At
<1>1. /\ lifecycle = c /\ Local(rt, power, call[c]) /\ PcOf(call[c])
      /\ rt \in Runtimes /\ Good(rt) /\ call[c] \in Calls /\ power \in Powers
  BY <1>0, OwnerFacts
<1>2. call[c].op = "estop"
  BY <1>0, <1>1, EstopOp DEF EstopPcs
<1>3. /\ rt.disable_confirmed => Off(power)
      /\ rt.estop => Latched(rt)
      /\ ~rt.hardware_transition
  BY <1>0, <1>1, <1>2 DEF Local, TransitionPcs, HeldPcs, Off
<1>4. rt' \in Runtimes
  BY <1>0, <1>1 DEF Runtimes
<1>5. /\ rt'.estop /\ rt'.fault_latched /\ rt'.state = rt.state
      /\ rt'.hardware_transition = rt.hardware_transition
      /\ rt'.disable_confirmed = rt.disable_confirmed
      /\ NoTargets(rt) => NoTargets(rt')
      /\ Good(rt')
  BY <1>0, <1>1, <1>4 DEF Runtimes, Good, Always, NoTargets
<1>6. CASE rt.estop \/ rt.state = "DISCONNECTED"
  <2>1. Return(c)
    BY <1>6 DEF EstopBegin
  <2>2. Latched(rt')
    BY <1>1, <1>3, <1>5, <1>6 DEF Latched, Good, Always
  <2>3. Rest(rt', power)
    BY <1>3, <1>5, <2>2 DEF Rest, Off
  <2>4. QED
    BY <1>0, <1>1, <1>5, <2>1, <2>3, Returns
<1>7. CASE ~(rt.estop \/ rt.state = "DISCONNECTED")
  <2> DEFINE g == ~rt.disable_confirmed /\ rt.state # "READY"
             o == rt.disable_confirmed
             k == Now(call[c], "s_prepare", o, g)
  <2>1. SetsBoth(c, "s_prepare", o, g) /\ lifecycle' = lifecycle
    BY <1>7 DEF EstopBegin, SetsBoth
  <2>2. g \in BOOLEAN /\ o \in BOOLEAN /\ "s_prepare" \in Pcs /\ (o => Off(power))
    BY <1>1, <1>3 DEF Runtimes, Pcs, EstopPcs
  <2> HIDE DEF g, o
  <2>3. call' = [call EXCEPT ![c] = k]
    BY <2>1, <2>2, NowCall
  <2>4. k.pc = "s_prepare" /\ k.op = call[c].op /\ k.ok = o /\ k.flag = g
    BY <1>1, <2>2, NowType
  <2> HIDE DEF k
  <2>5. EstopLocal(rt', power, k)
    BY <1>3, <1>5, <1>7, <2>2, <2>4 DEF EstopLocal
  <2>6. Local(rt', power, k) /\ PcOf(k)
    BY <1>2, <2>4, <2>5, InEstop DEF PcOf, EstopPcs
  <2>7. QED
    BY <1>0, <1>1, <1>5, <2>1, <2>2, <2>3, <2>6, Notes
       DEF Others, HeldPcs, FrozenAt, k
<1>8. QED
  BY <1>6, <1>7

LEMMA EstopPrepareKeeps ==
  ASSUME Inv, NEW c \in Callers, EstopPrepare(c)
  PROVE  Inv'
<1>0. call[c].pc = "s_prepare" /\ Others
  BY DEF EstopPrepare, At
<1>1. /\ lifecycle = c /\ Local(rt, power, call[c]) /\ PcOf(call[c])
      /\ rt \in Runtimes /\ Good(rt) /\ call[c] \in Calls /\ power \in Powers
  BY <1>0, OwnerFacts
<1>2. call[c].op = "estop" /\ EstopLocal(rt, power, call[c])
  BY <1>0, <1>1, EstopOp, InEstop DEF EstopPcs
<1>3. CASE call[c].flag
  <2>1. PICK held \in BOOLEAN : /\ rt' = [rt EXCEPT !.hold = held]
                                /\ SetsOk(c, "s_fault", held)
                                /\ lifecycle' = lifecycle
    BY <1>3 DEF EstopPrepare, SetsOk
  <2> DEFINE k == Now(call[c], "s_fault", held, call[c].flag)
  <2>2. call[c].flag \in BOOLEAN /\ "s_fault" \in Pcs
    BY <1>1 DEF Calls, Pcs, EstopPcs
  <2>3. call' = [call EXCEPT ![c] = k]
    BY <2>1, <2>2, NowCall
  <2>4. k.pc = "s_fault" /\ k.op = call[c].op /\ k.flag = call[c].flag
    BY <1>1, <2>2, NowType
  <2> HIDE DEF k
  <2>5. rt' \in Runtimes
    BY <1>1, <2>1 DEF Runtimes
  <2>6. Same(rt, rt') /\ SameTargets(rt, rt')
    BY <1>1, <2>1, <2>5 DEF Runtimes, Same, SameTargets
  <2>7. Good(rt')
    BY <1>1, <2>5, <2>6 DEF Good, Always, Same, SameTargets, NoTargets
  <2>8. EstopLocal(rt', power, k)
    BY <1>0, <1>2, <1>3, <2>4, <2>6 DEF EstopLocal, Same
  <2>9. Local(rt', power, k) /\ PcOf(k)
    BY <1>2, <2>4, <2>8, InEstop DEF PcOf, EstopPcs
  <2>10. QED
    BY <1>0, <1>1, <2>1, <2>2, <2>3, <2>7, <2>9, Notes
       DEF Others, HeldPcs, FrozenAt, k
<1>4. CASE ~call[c].flag
  <2>1. rt' = rt /\ Go(c, "s_fault")
    BY <1>4 DEF EstopPrepare
  <2> DEFINE k == With(call[c], "s_fault")
  <2>2. k.pc = "s_fault" /\ k.op = call[c].op /\ k.flag = call[c].flag
        /\ k.ok = call[c].ok /\ "s_fault" \in Pcs
    BY <1>1, WithPc DEF Pcs, EstopPcs
  <2> HIDE DEF k
  <2>3. EstopLocal(rt', power, k)
    BY <1>0, <1>2, <2>1, <2>2 DEF EstopLocal
  <2>4. Local(rt', power, k) /\ PcOf(k)
    BY <1>2, <2>2, <2>3, InEstop DEF PcOf, EstopPcs
  <2>5. QED
    BY <1>0, <1>1, <2>1, <2>2, <2>4, Goes DEF HeldPcs, FrozenAt, k
<1>5. QED
  BY <1>3, <1>4

LEMMA EstopFaultKeeps ==
  ASSUME Inv, NEW c \in Callers, EstopFault(c)
  PROVE  Inv'
<1>0. /\ call[c].pc = "s_fault" /\ Others
      /\ rt' = EnterFault(rt, call[c].flag /\ call[c].ok)
  BY DEF EstopFault, At
<1>1. /\ lifecycle = c /\ Local(rt, power, call[c]) /\ PcOf(call[c])
      /\ rt \in Runtimes /\ Good(rt) /\ call[c] \in Calls /\ power \in Powers
  BY <1>0, OwnerFacts
<1>2. call[c].op = "estop" /\ EstopLocal(rt, power, call[c])
  BY <1>0, <1>1, EstopOp, InEstop DEF EstopPcs
<1>3. rt.state # "DISCONNECTED" /\ (call[c].flag /\ call[c].ok) \in BOOLEAN
  BY <1>0, <1>2 DEF EstopLocal
<1>4. /\ rt' \in Runtimes /\ NoTargets(rt') /\ rt'.state = "FAULT"
      /\ rt'.fault_latched /\ ~rt'.hardware_transition
      /\ ~rt'.disable_confirmed /\ rt'.disabled = rt.disabled
      /\ rt'.enable_grace = rt.enable_grace /\ rt'.accepted = rt.accepted
  BY <1>0, <1>1, <1>3, EnterFaultEffect
<1>5. Good(rt') /\ Latched(rt')
  BY <1>1, <1>4 DEF Good, Always, Latched
<1> DEFINE pc == IF call[c].flag THEN "s_hold" ELSE "s_confirmed"
           k == With(call[c], pc)
<1>6. /\ pc \in {"s_hold", "s_confirmed"} /\ (pc = "s_confirmed" => ~call[c].flag)
      /\ Go(c, pc)
  BY DEF EstopFault
<1> HIDE DEF pc
<1>7. pc \in Pcs
  BY <1>6 DEF Pcs, EstopPcs
<1>8. k.pc = pc /\ k.op = call[c].op /\ k.flag = call[c].flag /\ k.ok = call[c].ok
  BY <1>1, <1>7, WithPc
<1> HIDE DEF k
<1>9. EstopLocal(rt', power, k)
  BY <1>0, <1>2, <1>4, <1>5, <1>6, <1>8 DEF EstopLocal
<1>10. Local(rt', power, k) /\ PcOf(k)
  BY <1>2, <1>6, <1>8, <1>9, InEstop DEF PcOf, EstopPcs
<1>11. QED
  BY <1>0, <1>1, <1>5, <1>6, <1>7, <1>10, Goes DEF HeldPcs, FrozenAt, k

LEMMA EstopConfirmedKeeps ==
  ASSUME Inv, NEW c \in Callers, EstopConfirmed(c)
  PROVE  Inv'
<1>0. /\ call[c].pc = "s_confirmed" /\ Others /\ Return(c)
      /\ rt' = [rt EXCEPT !.disable_confirmed = call[c].ok]
  BY DEF EstopConfirmed, At
<1>1. /\ lifecycle = c /\ Local(rt, power, call[c]) /\ PcOf(call[c])
      /\ rt \in Runtimes /\ Good(rt) /\ call[c] \in Calls
  BY <1>0, OwnerFacts
<1>2. call[c].op = "estop" /\ EstopLocal(rt, power, call[c]) /\ call[c].ok \in BOOLEAN
  BY <1>0, <1>1, EstopOp, InEstop DEF EstopPcs, Calls
<1>3. rt' \in Runtimes
  BY <1>0, <1>1, <1>2 DEF Runtimes
<1>4. /\ Good(rt') /\ (Latched(rt) => Latched(rt')) /\ rt'.estop = rt.estop
      /\ rt'.disable_confirmed = call[c].ok
      /\ rt'.hardware_transition = rt.hardware_transition
  BY <1>0, <1>1, <1>3 DEF Runtimes, Good, Always, NoTargets, Latched
<1>5. Rest(rt', power)
  BY <1>0, <1>2, <1>4 DEF Rest, EstopLocal, Off
<1>6. QED
  BY <1>0, <1>1, <1>4, <1>5, Returns

LEMMA EstopHoldKeeps ==
  ASSUME Inv, NEW c \in Callers, EstopHold(c)
  PROVE  Inv'
<1>0. /\ call[c].pc = "s_hold" /\ Return(c)
      /\ UNCHANGED <<rt, power, command, worker, left>>
  BY DEF EstopHold, At
<1>1. /\ lifecycle = c /\ Local(rt, power, call[c]) /\ PcOf(call[c])
      /\ Good(rt) /\ power \in Powers
  BY <1>0, OwnerFacts
<1>2. call[c].op = "estop" /\ EstopLocal(rt, power, call[c])
  BY <1>0, <1>1, EstopOp, InEstop DEF EstopPcs
<1>3. Rest(rt', power') /\ Good(rt') /\ power' \in Powers
  BY <1>0, <1>1, <1>2 DEF Rest, EstopLocal, Off
<1>4. ~frame'.frozen
  <2>1. frame' = frame \/ frame' = Frame(FALSE, FALSE)
    BY DEF EstopHold
  <2>2. ~Frame(FALSE, FALSE).frozen
    BY DEF Frame
  <2>3. QED
    BY <2>1, <2>2, NotFrozen
<1>5. call' = [call EXCEPT ![c] = IdleCall] /\ lifecycle' = NoCaller
  BY <1>0 DEF Return, IdleCall
<1>6. left' \in Scenario
  BY <1>0 DEF Inv, Types
<1>7. QED
  BY <1>0, <1>1, <1>3, <1>4, <1>5, <1>6, IdleType, OwnerStep

LEMMA EstopKeeps ==
  ASSUME Inv, NEW c \in Callers, Estop(c)
  PROVE  Inv'
  BY EstopBeginKeeps, EstopPrepareKeeps, EstopFaultKeeps, EstopConfirmedKeeps,
     EstopHoldKeeps DEF Estop

-----------------------------------------------------------------------------
(* Maintenance *)

LEMMA MaintenanceResultEffect ==
  ASSUME NEW r \in Runtimes, NEW op, NEW outcome
  PROVE  LET s == MaintenanceResult(r, op, outcome) IN
         /\ s \in Runtimes /\ SameTargets(r, s) /\ ~s.hardware_transition
         /\ s.estop = r.estop /\ s.disabled = r.disabled
         /\ s.enable_grace = r.enable_grace /\ s.accepted = r.accepted
         /\ outcome = "m_ok" => s.state = "READY"
         /\ outcome = "m_plain" =>
              /\ s.state = r.state /\ s.fault_latched = r.fault_latched
              /\ s.disable_confirmed = r.disable_confirmed
         /\ outcome \notin {"m_ok", "m_plain"} =>
              s.state = "FAULT" /\ s.fault_latched /\ ~s.disable_confirmed
<1>1. CASE outcome = "m_ok"
  <2> DEFINE q == FreshFeedback(r)
             l == q.fault_latched /\ op # "clear_faults"
             f == q.motor_fault /\ op # "clear_faults"
  <2>1. q \in Runtimes /\ Same(r, q) /\ SameTargets(r, q)
    BY FreshFeedbackEffect
  <2>2. /\ MaintenanceResult(r, op, outcome) =
             [q EXCEPT !.hardware_transition = FALSE, !.state = "READY",
                       !.disable_confirmed = TRUE, !.fault_latched = l,
                       !.motor_fault = f]
        /\ l \in BOOLEAN /\ f \in BOOLEAN /\ "READY" \in States
    BY <1>1 DEF MaintenanceResult, States
  <2> HIDE DEF q, l, f
  <2>3. [q EXCEPT !.hardware_transition = FALSE, !.state = "READY",
                  !.disable_confirmed = TRUE, !.fault_latched = l,
                  !.motor_fault = f] \in Runtimes
    BY <2>1, <2>2, ZenonT(60) DEF Runtimes
  <2>4. LET s == MaintenanceResult(r, op, outcome) IN
        /\ s \in Runtimes /\ SameTargets(q, s) /\ ~s.hardware_transition
        /\ s.estop = q.estop /\ s.disabled = q.disabled
        /\ s.enable_grace = q.enable_grace /\ s.accepted = q.accepted
        /\ s.state = "READY"
    BY <2>1, <2>2, <2>3 DEF Runtimes, SameTargets
  <2>5. QED
    BY <1>1, <2>1, <2>4 DEF Same, SameTargets
<1>2. CASE outcome = "m_plain"
  <2>1. MaintenanceResult(r, op, outcome) = [r EXCEPT !.hardware_transition = FALSE]
    BY <1>2 DEF MaintenanceResult
  <2>2. [r EXCEPT !.hardware_transition = FALSE] \in Runtimes
    BY DEF Runtimes
  <2>3. QED
    BY <1>2, <2>1, <2>2, ZenonT(60) DEF Runtimes, SameTargets
<1>3. CASE outcome \notin {"m_ok", "m_plain"}
  <2> DEFINE f == r.motor_fault \/ SomeFault(power)
  <2>1. /\ MaintenanceResult(r, op, outcome) =
             [r EXCEPT !.hardware_transition = FALSE, !.state = "FAULT",
                       !.fault_latched = TRUE, !.disable_confirmed = FALSE,
                       !.motor_fault = f]
        /\ f \in BOOLEAN /\ "FAULT" \in States
    BY <1>3 DEF MaintenanceResult, States
  <2> HIDE DEF f
  <2>2. [r EXCEPT !.hardware_transition = FALSE, !.state = "FAULT",
                  !.fault_latched = TRUE, !.disable_confirmed = FALSE,
                  !.motor_fault = f] \in Runtimes
    BY <2>1 DEF Runtimes
  <2>3. QED
    BY <1>3, <2>1, <2>2, ZenonT(60) DEF Runtimes, SameTargets
<1>4. QED
  BY <1>1, <1>2, <1>3

\* What Local says while maintenance holds command_mutex_.
MaintenanceLocal(r, p, k) ==
  /\ k.pc = "m_run" => Silent(r)
  /\ k.pc = "m_ok" => Off(p)
  /\ r.disable_confirmed => Off(p)
  /\ r.estop => k.pc = "m_plain" /\ Latched(r)

LEMMA InMaintenance ==
  ASSUME NEW r, NEW p, NEW k, k.op \in Maintenance, k.pc \in HeldPcs
  PROVE  Local(r, p, k) <=> MaintenanceLocal(r, p, k)
<1>1. KnownOff(k) <=> k.pc = "m_ok"
  BY DEF KnownOff, HeldPcs
<1>2. k.pc \in TransitionPcs /\ (k.pc \in SilentPcs <=> k.pc = "m_run")
  BY DEF TransitionPcs, SilentPcs, FrozenAt, HeldPcs
<1>3. k.op # "recover" /\ (BehindLatch(k) <=> k.pc = "m_plain")
  BY DEF BehindLatch, EnablePcs, Maintenance, HeldPcs
<1>4. k.pc \notin {"e_state", "e_fail", "b_end", "b_unsafe", "e_seed", "x_stop",
                   "x_join", "s_prepare", "s_fault", "s_confirmed"}
  BY DEF HeldPcs
<1>5. QED
  BY <1>1, <1>2, <1>3, <1>4 DEF Local, MaintenanceLocal, Off

LEMMA MaintenanceOp ==
  ASSUME NEW k, PcOf(k), k.pc \in HeldPcs \cup {"m_begin", "m_retry"}
  PROVE  k.op \in Maintenance
  BY DEF PcOf, ConnectPcs, EnablePcs, DisablePcs, EstopPcs, HeldPcs, QueryPcs,
       BatchPcs, ClosePcs, RecoverPcs

LEMMA MaintenanceBeginKeeps ==
  ASSUME Inv, NEW c \in Callers, MaintenanceBegin(c)
  PROVE  Inv'
<1>0. /\ call[c].pc = "m_begin" /\ command = NoCaller /\ command' = c
      /\ UNCHANGED <<power, worker, frame, left>>
  BY DEF MaintenanceBegin, At
<1>1. /\ lifecycle = c /\ Local(rt, power, call[c]) /\ PcOf(call[c])
      /\ rt \in Runtimes /\ Good(rt) /\ call[c] \in Calls /\ power \in Powers
      /\ CallOf(call[c])
  BY <1>0, OwnerFacts
<1>2. call[c].op \in Maintenance
  BY <1>0, <1>1, MaintenanceOp
<1>3. /\ rt.disable_confirmed => Off(power)
      /\ rt.estop => Latched(rt)
      /\ ~rt.hardware_transition
  BY <1>0, <1>1, <1>2 DEF Local, TransitionPcs, HeldPcs, Off, Maintenance
<1>4. PICK pc \in {"m_run", "m_plain"} :
        /\ Go(c, pc)
        /\ pc = "m_run" => /\ MaintenanceAllowed(call[c].op)
                           /\ rt' = [rt EXCEPT !.hardware_transition = TRUE]
        /\ pc = "m_plain" => rt' = rt
  BY DEF MaintenanceBegin
<1> DEFINE k == With(call[c], pc)
<1>5. pc \in Pcs /\ pc \in HeldPcs
  BY DEF Pcs, HeldPcs
<1>6. k \in Calls /\ k.pc = pc /\ k.op = call[c].op /\ k.motors = call[c].motors
  BY <1>1, <1>5, WithPc
<1>7. Good(rt') /\ MaintenanceLocal(rt', power, k)
  <2> HIDE DEF k
  <2>1. CASE pc = "m_run"
    <3>1. rt' = [rt EXCEPT !.hardware_transition = TRUE]
          /\ (rt.state = "READY" \/ ~rt.estop)
      BY <1>4, <2>1 DEF MaintenanceAllowed
    <3>2. rt' \in Runtimes
      BY <1>1, <3>1 DEF Runtimes
    <3>3. /\ Good(rt') /\ rt'.hardware_transition /\ rt'.estop = rt.estop
          /\ rt'.disable_confirmed = rt.disable_confirmed
      BY <1>1, <3>1, <3>2 DEF Runtimes, Good, Always, NoTargets
    <3>4. ~rt.estop
      BY <1>3, <3>1 DEF Latched
    <3>5. QED
      BY <1>3, <1>6, <2>1, <3>3, <3>4 DEF MaintenanceLocal, Silent
  <2>2. CASE pc = "m_plain"
    BY <1>1, <1>3, <1>4, <1>6, <2>2 DEF MaintenanceLocal
  <2>3. QED
    BY <2>1, <2>2
<1>8. CallOf(k) /\ Local(rt', power', k)
  BY <1>0, <1>1, <1>2, <1>5, <1>6, <1>7, InMaintenance DEF CallOf, PcOf
<1>9. call' = [call EXCEPT ![c] = k] /\ lifecycle' = c
  BY <1>1, <1>4 DEF Go, With
<1>10. left' \in Scenario /\ ~frame'.frozen /\ power' \in Powers
  BY <1>0, <1>1 DEF Inv, Types
<1>11. k.pc \notin {"idle", "m_retry"}
  BY <1>6
<1> HIDE DEF k
<1>12. QED
  BY <1>0, <1>1, <1>7, <1>8, <1>9, <1>10, <1>11, OwnerStep

LEMMA MaintenanceRunKeeps ==
  ASSUME Inv, NEW c \in Callers, MaintenanceRun(c)
  PROVE  Inv'
<1>0. /\ call[c].pc = "m_run" /\ rt' = rt
      /\ UNCHANGED <<command, worker, frame, left>>
      /\ power' = power \/ power' \in Commanded(Present, "fault", "off")
  BY DEF MaintenanceRun, At
<1>1. /\ lifecycle = c /\ Local(rt, power, call[c]) /\ PcOf(call[c])
      /\ rt \in Runtimes /\ Good(rt) /\ call[c] \in Calls /\ power \in Powers
  BY <1>0, OwnerFacts
<1>2. call[c].op \in Maintenance /\ command = c
  BY <1>0, <1>1, MaintenanceOp DEF HeldPcs, Inv, Mutexes
<1>3. MaintenanceLocal(rt, power, call[c])
  BY <1>0, <1>1, <1>2, InMaintenance DEF HeldPcs
<1>4. power' \in Powers /\ (Off(power) => Off(power')) /\ DOMAIN power' = Present
  <2>1. CASE power' = power
    BY <1>1, <2>1 DEF Powers
  <2>2. CASE power' \in Commanded(Present, "fault", "off")
    BY <1>1, <2>2, CommandedType DEF Present
  <2>3. QED
    BY <1>0, <2>1, <2>2
<1>5. PICK pc \in {"m_ok", "m_plain", "m_latch", "m_again"} :
        Go(c, pc) /\ (pc = "m_ok" => AllOff(power'))
  BY DEF MaintenanceRun
<1>6. pc \in Pcs /\ pc \in HeldPcs /\ (pc = "m_ok" => Off(power'))
  BY <1>4, <1>5 DEF Pcs, HeldPcs, AllOff, Off
<1> DEFINE k == With(call[c], pc)
<1>7. k.pc = pc /\ k.op = call[c].op
  BY <1>1, <1>6, WithPc
<1>8. MaintenanceLocal(rt', power', k)
  BY <1>0, <1>3, <1>4, <1>6, <1>7 DEF MaintenanceLocal
<1>9. Local(rt', power', k) /\ PcOf(k)
  BY <1>2, <1>6, <1>7, <1>8, InMaintenance DEF PcOf
<1>10. ~frame'.frozen
  BY <1>0 DEF Inv
<1> HIDE DEF k
<1>11. QED
  BY <1>0, <1>1, <1>2, <1>4, <1>5, <1>6, <1>9, <1>10, PowerGoes
     DEF FrozenAt, Relies, k

LEMMA MaintenanceEndKeeps ==
  ASSUME Inv, NEW c \in Callers, MaintenanceEnd(c)
  PROVE  Inv'
<1>0. /\ call[c].pc \in {"m_ok", "m_plain", "m_latch", "m_again"}
      /\ rt' = MaintenanceResult(rt, call[c].op, call[c].pc)
      /\ command' = NoCaller /\ lifecycle' = NoCaller
      /\ UNCHANGED <<power, worker, frame, left>>
  BY DEF MaintenanceEnd
<1>1. /\ lifecycle = c /\ Local(rt, power, call[c]) /\ PcOf(call[c])
      /\ rt \in Runtimes /\ Good(rt) /\ call[c] \in Calls /\ power \in Powers
      /\ CallOf(call[c])
  BY <1>0, OwnerFacts
<1>2. call[c].op \in Maintenance /\ command = c
  BY <1>0, <1>1, MaintenanceOp DEF HeldPcs, Inv, Mutexes
<1>3. MaintenanceLocal(rt, power, call[c])
  BY <1>0, <1>1, <1>2, InMaintenance DEF HeldPcs
<1>4. LET s == rt' IN
      /\ s \in Runtimes /\ SameTargets(rt, s) /\ ~s.hardware_transition
      /\ s.estop = rt.estop /\ s.disabled = rt.disabled
      /\ s.enable_grace = rt.enable_grace /\ s.accepted = rt.accepted
      /\ call[c].pc = "m_ok" => s.state = "READY"
      /\ call[c].pc = "m_plain" =>
           /\ s.state = rt.state /\ s.fault_latched = rt.fault_latched
           /\ s.disable_confirmed = rt.disable_confirmed
      /\ call[c].pc \notin {"m_ok", "m_plain"} =>
           s.state = "FAULT" /\ s.fault_latched /\ ~s.disable_confirmed
  BY <1>0, <1>1, MaintenanceResultEffect
<1>5. Good(rt')
  BY <1>1, <1>4 DEF Good, Always, NoTargets, SameTargets
<1>6. Rest(rt', power')
  <2>1. rt'.disable_confirmed => Off(power)
    BY <1>3, <1>4 DEF MaintenanceLocal
  <2>2. rt'.estop => Latched(rt')
    BY <1>3, <1>4 DEF MaintenanceLocal, Latched, NoTargets, SameTargets
  <2>3. QED
    BY <1>0, <1>4, <2>1, <2>2 DEF Rest, Off
<1>7. PICK k : /\ CallOf(k) /\ call' = [call EXCEPT ![c] = k]
               /\ k.pc \in {"idle", "m_retry"}
  <2>1. CASE call' = [call EXCEPT ![c].pc = "m_retry"]
    <3> DEFINE k == With(call[c], "m_retry")
    <3>1. /\ k \in Calls /\ k.pc = "m_retry" /\ k.op = call[c].op
          /\ k.motors = call[c].motors
      BY <1>1, WithPc DEF Pcs
    <3>2. CallOf(k)
      BY <1>1, <1>2, <3>1 DEF CallOf, PcOf
    <3>3. call' = [call EXCEPT ![c] = k]
      BY <2>1 DEF With
    <3>4. QED
      BY <3>1, <3>2, <3>3
  <2>2. CASE Return(c)
    BY <2>2, IdleType DEF Return, IdleCall
  <2>3. QED
    BY <2>1, <2>2 DEF MaintenanceEnd
<1>8. left' \in Scenario /\ ~frame'.frozen /\ power' \in Powers
  BY <1>0, <1>1 DEF Inv, Types
<1>9. k.pc \notin HeldPcs /\ ~Relies(k)
  BY <1>7 DEF HeldPcs, Relies, FrozenAt
<1>10. QED
  BY <1>0, <1>1, <1>2, <1>5, <1>6, <1>7, <1>8, <1>9, OwnerStep

LEMMA ClearFaultsRetryKeeps ==
  ASSUME Inv, NEW c \in Callers, ClearFaultsRetry(c)
  PROVE  Inv'
<1>0. /\ call[c].pc = "m_retry" /\ lifecycle = NoCaller /\ lifecycle' = c
      /\ SetsFlag(c, "m_begin", TRUE) /\ rt' = rt /\ Others
  BY DEF ClearFaultsRetry, At, SetsFlag
<1>1. /\ Rest(rt, power) /\ CallOf(call[c]) /\ Good(rt) /\ call[c] \in Calls
      /\ left' \in Scenario /\ ~frame'.frozen /\ power' \in Powers
  BY <1>0, Facts DEF Inv, Types, CallOf, Others
<1>2. call[c].op \in Maintenance
  BY <1>0, <1>1, MaintenanceOp DEF CallOf
<1>3. call[c].ok \in BOOLEAN /\ "m_begin" \in Pcs
  BY <1>1 DEF Calls, Pcs
<1> DEFINE again == TRUE
           k == Now(call[c], "m_begin", call[c].ok, again)
<1>10. again \in BOOLEAN /\ SetsFlag(c, "m_begin", again)
  BY <1>0
<1> HIDE DEF again
<1>4. call' = [call EXCEPT ![c] = k]
  BY <1>3, <1>10, NowCall
<1>5. k \in Calls /\ k.pc = "m_begin" /\ k.op = call[c].op /\ k.motors = call[c].motors
  BY <1>1, <1>3, <1>10, NowType
<1> HIDE DEF k
<1>6. CallOf(k)
  BY <1>1, <1>2, <1>5 DEF CallOf, PcOf
<1>7. Local(rt', power', k)
  <2>1. BehindLatch(k) /\ ~KnownOff(k) /\ k.pc \notin SilentPcs
    BY <1>2, <1>5 DEF BehindLatch, KnownOff, SilentPcs, FrozenAt, Maintenance, EnablePcs
  <2>2. QED
    BY <1>0, <1>1, <1>5, <2>1 DEF Rest, Local, Others
<1>8. k.pc \notin HeldPcs \cup {"idle", "m_retry"} /\ ~Relies(k)
  BY <1>5 DEF HeldPcs, Relies, FrozenAt
<1>9. QED
  BY <1>0, <1>1, <1>4, <1>6, <1>7, <1>8, OwnerStep DEF Others

\* The window of clear_faults() ends while another operation may be running.
LEMMA ClearFaultsTimeoutKeeps ==
  ASSUME Inv, NEW c \in Callers, ClearFaultsTimeout(c)
  PROVE  Inv'
<1>0. /\ call[c].pc = "m_retry" /\ lifecycle' = lifecycle /\ Others
      /\ rt' = MaintenanceResult(rt, "clear_faults", "m_latch")
  BY DEF ClearFaultsTimeout, At
<1>1. /\ rt \in Runtimes /\ call \in [Callers -> Calls] /\ power' = power
      /\ command' = command /\ worker' = worker /\ frame' = frame /\ left' = left
      /\ CallOf(call[c])
  BY <1>0, Facts DEF Inv, Types, Others
<1> DEFINE k == [call[c] EXCEPT !.op = "none", !.pc = "idle", !.flag = FALSE]
<1>2. call' = [call EXCEPT ![c] = k]
  BY <1>1 DEF ClearFaultsTimeout
<1>3. k \in Calls /\ k.op = "none" /\ k.pc = "idle" /\ k.motors = call[c].motors
  <2>1. call[c] \in Calls
    BY <1>1
  <2>2. k \in Calls
    BY <2>1 DEF Calls, Pcs
  <2>3. QED
    BY <2>1, <2>2 DEF Calls
<1> HIDE DEF k
<1>4. CallOf(k)
  BY <1>1, <1>3 DEF CallOf, PcOf
<1>5. call' \in [Callers -> Calls] /\ call'[c] = k
      /\ \A d \in Callers \ {c} : call'[d] = call[d]
  BY <1>1, <1>2, <1>3
<1>6. Env(rt, rt')
  <2>1. LET s == rt' IN
        /\ s \in Runtimes /\ SameTargets(rt, s) /\ ~s.hardware_transition
        /\ s.estop = rt.estop /\ s.disabled = rt.disabled
        /\ s.enable_grace = rt.enable_grace /\ s.accepted = rt.accepted
        /\ s.state = "FAULT" /\ s.fault_latched /\ ~s.disable_confirmed
    BY <1>0, <1>1, MaintenanceResultEffect
  <2>2. QED
    BY <2>1 DEF Env, Active, NoTargets, SameTargets
<1>7. /\ Always(rt') /\ rt' \in Runtimes /\ rt'.disabled \subseteq Present
      /\ \A d \in Callers : lifecycle = d => Local(rt', power', call[d])
      /\ lifecycle = NoCaller => Rest(rt', power')
  <2>1. rt' \in Runtimes /\ rt'.disabled = rt.disabled
    BY <1>6 DEF Env
  <2>2. StaysOff(power, power')
    BY <1>1, SamePower
  <2>3. /\ Always(rt) => Always(rt')
        /\ Rest(rt, power) => Rest(rt', power')
        /\ \A n : Local(rt, power, n) => Local(rt', power', n)
    BY <1>1, <1>6, <2>1, <2>2, EnvKeeps
  <2>4. QED
    BY <2>1, <2>3 DEF Inv, Types
<1>8. lifecycle # c
  BY <1>0 DEF Inv, Mutexes
<1>9. Types'
  <2>1. Present' = Present
    BY <1>1 DEF Present
  <2>2. \A d \in Callers : PcOf(call'[d]) /\ call'[d].motors \subseteq Present
    BY <1>4, <1>5 DEF Inv, Types, CallOf
  <2>3. QED
    BY <1>0, <1>1, <1>5, <1>7, <2>1, <2>2 DEF Inv, Types
<1>10. Mutexes'
  <2>1. \A d \in Callers : lifecycle' = d <=> call'[d].pc \notin {"idle", "m_retry"}
    BY <1>0, <1>3, <1>5, <1>8 DEF Inv, Mutexes
  <2>2. \A d \in Callers : call'[d].pc \in HeldPcs => command' = d
    BY <1>1, <1>3, <1>5 DEF Inv, Mutexes, HeldPcs
  <2>3. QED
    BY <1>1, <2>1, <2>2 DEF Inv, Mutexes
<1>11. Sending'
  BY <1>1, <1>3, <1>5 DEF Inv, Sending, FrozenAt
<1>12. /\ \A d \in Callers : lifecycle' = d => Local(rt', power', call'[d])
       /\ lifecycle' = NoCaller => Rest(rt', power')
  BY <1>0, <1>5, <1>7, <1>8
<1>13. QED
  BY <1>1, <1>7, <1>9, <1>10, <1>11, <1>12 DEF Inv

LEMMA MaintenanceKeeps ==
  ASSUME Inv, NEW c \in Callers, MaintenanceSteps(c)
  PROVE  Inv'
  BY MaintenanceBeginKeeps, MaintenanceRunKeeps, MaintenanceEndKeeps,
     ClearFaultsRetryKeeps, ClearFaultsTimeoutKeeps DEF MaintenanceSteps

-----------------------------------------------------------------------------
(* recover *)

\* What Local says inside recover().
RecoverLocal(r, p, pc, ok) ==
  /\ r.hardware_transition =>
       pc \notin {"r_begin", "r_freeze", "r_zero", "r_home", "r_done"}
  /\ pc \in {"r_clear", "r_disable", "r_errors", "r_check", "r_ready",
             "r_rollback", "r_failed"} => Silent(r)
  /\ pc \in {"r_ready", "r_done"} \/ (pc = "r_failed" /\ ok) => Off(p)
  /\ r.disable_confirmed => Off(p)
  /\ r.estop /\ pc \in {"r_begin", "r_rollback", "r_failed"} => Latched(r)

LEMMA InRecover ==
  ASSUME NEW r, NEW p, NEW k, k.op = "recover", k.pc \in RecoverPcs
  PROVE  Local(r, p, k) <=> RecoverLocal(r, p, k.pc, k.ok)
<1>1. KnownOff(k) <=> k.pc \in {"r_ready", "r_done"} \/ (k.pc = "r_failed" /\ k.ok)
  BY DEF KnownOff, RecoverPcs
<1>2. k.pc \in TransitionPcs <=>
        k.pc \notin {"r_begin", "r_freeze", "r_zero", "r_home", "r_done"}
  BY DEF TransitionPcs, HeldPcs, RecoverPcs
<1>3. k.pc \in SilentPcs <=>
        k.pc \in {"r_clear", "r_disable", "r_errors", "r_check", "r_ready",
                  "r_rollback", "r_failed"}
  BY DEF SilentPcs, FrozenAt, RecoverPcs
<1>4. ~BehindLatch(k)
  BY DEF BehindLatch
<1>5. k.pc \notin {"e_state", "e_fail", "b_end", "b_unsafe", "e_seed", "x_stop",
                   "x_join", "s_prepare", "s_fault", "s_confirmed"}
  BY DEF RecoverPcs
<1>6. QED
  BY <1>1, <1>2, <1>3, <1>4, <1>5 DEF Local, RecoverLocal, Off

LEMMA RecoverOp ==
  ASSUME NEW k, PcOf(k), k.pc \in RecoverPcs
  PROVE  k.op = "recover"
  BY DEF PcOf, ConnectPcs, EnablePcs, DisablePcs, EstopPcs, HeldPcs, QueryPcs,
       BatchPcs, ClosePcs, RecoverPcs

LEMMA RecoverFacts ==
  ASSUME Inv, NEW c \in Callers, call[c].pc \in RecoverPcs
  PROVE  /\ lifecycle = c /\ call[c] \in Calls /\ call[c].op = "recover"
         /\ rt \in Runtimes /\ Good(rt) /\ power \in Powers
         /\ RecoverLocal(rt, power, call[c].pc, call[c].ok)
<1>1. call[c].pc \notin {"idle", "m_retry"}
  BY DEF RecoverPcs
<1>2. QED
  BY <1>1, OwnerFacts, RecoverOp, InRecover

\* A step of recover() that stays inside it.
LEMMA RecoverGoes ==
  ASSUME Inv, NEW c \in Callers, call[c].pc \in RecoverPcs,
         NEW pc \in RecoverPcs, Go(c, pc),
         UNCHANGED <<command, worker, frame, left>>, power' \in Powers,
         pc \in FrozenAt => command = NoCaller \/ Relies(call[c]),
         Good(rt'), RecoverLocal(rt', power', pc, call[c].ok)
  PROVE  Inv'
<1>1. lifecycle = c /\ call[c] \in Calls /\ call[c].op = "recover"
  BY RecoverFacts
<1>2. pc \in Pcs /\ pc \notin {"idle", "m_retry", "e_power"} \cup HeldPcs
  BY DEF Pcs, RecoverPcs, HeldPcs
<1> DEFINE k == With(call[c], pc)
<1>3. k.pc = pc /\ k.op = "recover" /\ k.ok = call[c].ok
  BY <1>1, <1>2, WithPc
<1>4. Local(rt', power', k) /\ PcOf(k)
  BY <1>3, InRecover DEF PcOf
<1>5. ~frame'.frozen
  BY DEF Inv
<1> HIDE DEF k
<1>6. QED
  BY <1>1, <1>2, <1>4, <1>5, PowerGoes DEF k

LEMMA RecoverBeginKeeps ==
  ASSUME Inv, NEW c \in Callers, RecoverBegin(c)
  PROVE  Inv'
<1>0. call[c].pc = "r_begin" /\ rt' = rt /\ Others
  BY DEF RecoverBegin, At
<1>1. /\ lifecycle = c /\ call[c] \in Calls /\ call[c].op = "recover"
      /\ rt \in Runtimes /\ Good(rt) /\ power \in Powers
      /\ RecoverLocal(rt, power, "r_begin", call[c].ok)
  BY <1>0, RecoverFacts DEF RecoverPcs
<1>2. CASE Return(c)
  <2>1. Rest(rt', power)
    BY <1>0, <1>1 DEF RecoverLocal, Rest, Off
  <2>2. QED
    BY <1>0, <1>1, <1>2, <2>1, Returns
<1>3. CASE Go(c, "c_begin")
  <2> DEFINE k == With(call[c], "c_begin")
  <2>1. k.pc = "c_begin" /\ k.op = "recover" /\ "c_begin" \in Pcs
    BY <1>1, WithPc DEF Pcs, ConnectPcs
  <2> HIDE DEF k
  <2>2. PcOf(k)
    BY <2>1 DEF PcOf, ConnectPcs
  <2>3. Local(rt', power, k)
    <3>1. ~KnownOff(k) /\ k.pc \notin SilentPcs
      BY <2>1 DEF KnownOff, SilentPcs, FrozenAt
    <3>2. QED
      BY <1>0, <1>1, <2>1, <3>1 DEF RecoverLocal, Local, Off
  <2>4. QED
    BY <1>0, <1>1, <1>3, <2>1, <2>2, <2>3, Goes DEF HeldPcs, FrozenAt, k
<1>4. CASE Go(c, "r_freeze")
  <2>1. RecoverLocal(rt', power', "r_freeze", call[c].ok)
    BY <1>0, <1>1 DEF RecoverLocal, Others
  <2>2. QED
    BY <1>0, <1>1, <1>4, <2>1, RecoverGoes DEF RecoverPcs, FrozenAt, Others
<1>5. QED
  BY <1>2, <1>3, <1>4 DEF RecoverBegin

LEMMA RecoverFreezeKeeps ==
  ASSUME Inv, NEW c \in Callers, RecoverFreeze(c)
  PROVE  Inv'
<1>0. /\ call[c].pc = "r_freeze" /\ Others /\ Go(c, "r_clear")
      /\ rt' = [rt EXCEPT !.state = "FAULT", !.fault_latched = TRUE,
                          !.hardware_transition = TRUE]
  BY DEF RecoverFreeze, At
<1>1. /\ rt \in Runtimes /\ Good(rt) /\ power \in Powers
      /\ RecoverLocal(rt, power, "r_freeze", call[c].ok)
  BY <1>0, RecoverFacts DEF RecoverPcs
<1>2. rt' \in Runtimes
  BY <1>0, <1>1 DEF Runtimes, States
<1>3. /\ Good(rt') /\ rt'.hardware_transition
      /\ rt'.disable_confirmed = rt.disable_confirmed
  BY <1>0, <1>1, <1>2 DEF Good, Always, Runtimes
<1>4. RecoverLocal(rt', power', "r_clear", call[c].ok)
  BY <1>0, <1>1, <1>3 DEF RecoverLocal, Silent, Others
<1>5. QED
  BY <1>0, <1>1, <1>3, <1>4, RecoverGoes DEF RecoverPcs, FrozenAt, Others

LEMMA RecoverClearKeeps ==
  ASSUME Inv, NEW c \in Callers, RecoverClear(c)
  PROVE  Inv'
<1>0. call[c].pc = "r_clear" /\ Others /\ Go(c, "r_disable")
  BY DEF RecoverClear, At
<1>1. /\ rt \in Runtimes /\ Good(rt) /\ power \in Powers
      /\ RecoverLocal(rt, power, "r_clear", call[c].ok)
  BY <1>0, RecoverFacts DEF RecoverPcs
<1> DEFINE q == ClearTargets(MarkOld(rt))
<1>2. q \in Runtimes /\ Same(rt, q) /\ NoTargets(q)
  BY <1>1, MarkOldEffect, ClearTargetsEffect DEF Same
<1>3. rt' = [q EXCEPT !.hold = FALSE]
  BY DEF RecoverClear
<1> HIDE DEF q
<1>4. rt' \in Runtimes
  BY <1>2, <1>3 DEF Runtimes
<1>5. Same(rt, rt') /\ NoTargets(rt')
  BY <1>2, <1>3, <1>4 DEF Runtimes, Same, NoTargets
<1>6. Good(rt')
  BY <1>1, <1>4, <1>5 DEF Good, Always, Same
<1>7. RecoverLocal(rt', power', "r_disable", call[c].ok)
  BY <1>0, <1>1, <1>5 DEF RecoverLocal, Silent, Others, Same
<1>8. QED
  BY <1>0, <1>1, <1>6, <1>7, RecoverGoes DEF RecoverPcs, FrozenAt, Others

LEMMA RecoverDisableKeeps ==
  ASSUME Inv, NEW c \in Callers, RecoverDisable(c)
  PROVE  Inv'
<1>0. /\ call[c].pc = "r_disable" /\ command = NoCaller
      /\ UNCHANGED <<command, worker, frame, left>>
  BY DEF RecoverDisable, At
<1>1. /\ rt \in Runtimes /\ Good(rt) /\ power \in Powers
      /\ RecoverLocal(rt, power, "r_disable", call[c].ok)
  BY <1>0, RecoverFacts DEF RecoverPcs
<1>2. PICK ok \in BOOLEAN :
        /\ DisableHardware(power', ok)
        /\ rt' = IF ok THEN [rt EXCEPT !.disable_confirmed = TRUE] ELSE rt
        /\ Go(c, IF ok THEN "r_errors" ELSE "r_fail")
  BY DEF RecoverDisable
<1>3. power' \in Powers /\ (ok => Off(power')) /\ (Off(power) => Off(power'))
  BY <1>1, <1>2, DisableHardwareEffect
<1>4. CASE ok
  <2>1. rt' = [rt EXCEPT !.disable_confirmed = TRUE] /\ Go(c, "r_errors")
    BY <1>2, <1>4
  <2>2. rt' \in Runtimes
    BY <1>1, <2>1 DEF Runtimes
  <2>3. /\ Good(rt') /\ rt'.hardware_transition = rt.hardware_transition
        /\ rt'.state = rt.state
    BY <1>1, <2>1, <2>2 DEF Good, Always, NoTargets, Runtimes
  <2>4. RecoverLocal(rt', power', "r_errors", call[c].ok)
    BY <1>1, <1>3, <1>4, <2>3 DEF RecoverLocal, Silent
  <2>5. QED
    BY <1>0, <1>3, <2>1, <2>3, <2>4, RecoverGoes DEF RecoverPcs
<1>5. CASE ~ok
  <2>1. rt' = rt /\ Go(c, "r_fail")
    BY <1>2, <1>5
  <2>2. RecoverLocal(rt', power', "r_fail", call[c].ok)
    BY <1>1, <1>3, <2>1 DEF RecoverLocal
  <2>3. QED
    BY <1>0, <1>1, <1>3, <2>1, <2>2, RecoverGoes DEF RecoverPcs
<1>6. QED
  BY <1>4, <1>5

LEMMA RecoverErrorsKeeps ==
  ASSUME Inv, NEW c \in Callers, RecoverErrors(c)
  PROVE  Inv'
<1>0. /\ call[c].pc = "r_errors" /\ UNCHANGED <<command, worker, frame, left>>
      /\ power' \in Commanded(Present, "fault", "off")
  BY DEF RecoverErrors, At
<1>1. /\ rt \in Runtimes /\ Good(rt) /\ power \in Powers
      /\ RecoverLocal(rt, power, "r_errors", call[c].ok)
  BY <1>0, RecoverFacts DEF RecoverPcs
<1>2. power' \in Powers /\ (Off(power) => Off(power'))
  BY <1>0, <1>1, CommandedType
<1>3. CASE rt' = [rt EXCEPT !.motor_fault = FALSE] /\ Go(c, "r_check")
  <2>1. rt' \in Runtimes
    BY <1>1, <1>3 DEF Runtimes
  <2>2. Same(rt, rt') /\ SameTargets(rt, rt')
    BY <1>1, <1>3, <2>1 DEF Runtimes, Same, SameTargets
  <2>3. Good(rt')
    BY <1>1, <2>1, <2>2 DEF Good, Always, Same, SameTargets, NoTargets
  <2>4. RecoverLocal(rt', power', "r_check", call[c].ok)
    BY <1>1, <1>2, <2>2 DEF RecoverLocal, Silent, Same
  <2>5. QED
    BY <1>0, <1>2, <1>3, <2>3, <2>4, RecoverGoes DEF RecoverPcs, Relies, FrozenAt
<1>4. CASE rt' = rt /\ Go(c, "r_fail")
  <2>1. RecoverLocal(rt', power', "r_fail", call[c].ok)
    BY <1>1, <1>2, <1>4 DEF RecoverLocal
  <2>2. QED
    BY <1>0, <1>1, <1>2, <1>4, <2>1, RecoverGoes DEF RecoverPcs, FrozenAt
<1>5. QED
  BY <1>3, <1>4 DEF RecoverErrors

LEMMA RecoverCheckKeeps ==
  ASSUME Inv, NEW c \in Callers, RecoverCheck(c)
  PROVE  Inv'
<1>0. call[c].pc = "r_check" /\ rt' = rt /\ Others
  BY DEF RecoverCheck, At
<1>1. /\ rt \in Runtimes /\ Good(rt) /\ power \in Powers
      /\ RecoverLocal(rt, power, "r_check", call[c].ok)
  BY <1>0, RecoverFacts DEF RecoverPcs
<1>2. CASE AllOff(power) /\ Go(c, "r_ready")
  <2>1. RecoverLocal(rt', power', "r_ready", call[c].ok)
    BY <1>0, <1>1, <1>2 DEF RecoverLocal, Others, Silent, AllOff, Off, Present
  <2>2. QED
    BY <1>0, <1>1, <1>2, <2>1, RecoverGoes DEF RecoverPcs, Relies, FrozenAt, Others
<1>3. CASE Go(c, "r_fail")
  <2>1. RecoverLocal(rt', power', "r_fail", call[c].ok)
    BY <1>0, <1>1, <1>3 DEF RecoverLocal, Others
  <2>2. QED
    BY <1>0, <1>1, <1>3, <2>1, RecoverGoes DEF RecoverPcs, FrozenAt, Others
<1>4. QED
  BY <1>2, <1>3 DEF RecoverCheck

LEMMA RecoverReadyKeeps ==
  ASSUME Inv, NEW c \in Callers, RecoverReady(c)
  PROVE  Inv'
<1>0. /\ call[c].pc = "r_ready" /\ Others /\ Go(c, "e_begin")
      /\ rt' = [rt EXCEPT !.state = "READY", !.fault_latched = FALSE,
                      !.motor_fault = FALSE, !.disable_confirmed = TRUE,
                      !.hardware_transition = FALSE]
  BY DEF RecoverReady, At
<1>1. /\ lifecycle = c /\ call[c] \in Calls /\ call[c].op = "recover"
      /\ rt \in Runtimes /\ Good(rt) /\ power \in Powers
      /\ RecoverLocal(rt, power, "r_ready", call[c].ok)
  BY <1>0, RecoverFacts DEF RecoverPcs
<1>2. rt' \in Runtimes
  BY <1>0, <1>1, ZenonT(60) DEF Runtimes, States
<1>3. Good(rt') /\ ~rt'.hardware_transition
  BY <1>0, <1>1, <1>2 DEF Good, Always, Runtimes
<1> DEFINE k == With(call[c], "e_begin")
<1>4. k.pc = "e_begin" /\ k.op = "recover" /\ "e_begin" \in Pcs
  BY <1>1, WithPc DEF Pcs, EnablePcs
<1> HIDE DEF k
<1>5. Local(rt', power, k) /\ PcOf(k)
  <2>1. ~KnownOff(k) /\ k.pc \notin SilentPcs /\ PcOf(k)
    BY <1>4 DEF KnownOff, SilentPcs, FrozenAt, PcOf, EnablePcs
  <2>2. Off(power)
    BY <1>1 DEF RecoverLocal
  <2>3. QED
    BY <1>3, <1>4, <2>1, <2>2 DEF Local, Off
<1>6. QED
  BY <1>0, <1>1, <1>3, <1>4, <1>5, Goes DEF HeldPcs, FrozenAt, k

LEMMA RecoverZeroKeeps ==
  ASSUME Inv, NEW c \in Callers, RecoverZero(c)
  PROVE  Inv'
<1>0. call[c].pc = "r_zero" /\ Others
  BY DEF RecoverZero, At
<1>1. /\ rt \in Runtimes /\ Good(rt) /\ power \in Powers
      /\ RecoverLocal(rt, power, "r_zero", call[c].ok)
  BY <1>0, RecoverFacts DEF RecoverPcs
<1>2. CASE InstallAllowed(rt) /\ rt' = Installed(rt) /\ Go(c, "r_home")
  <2>1. /\ rt' \in Runtimes /\ rt'.state = rt.state
        /\ rt'.hardware_transition = rt.hardware_transition
        /\ rt'.disable_confirmed = rt.disable_confirmed
        /\ rt'.enable_grace = rt.enable_grace /\ rt'.disabled = rt.disabled
    BY <1>1, <1>2, InstalledEffect
  <2>2. rt.state # "DISCONNECTED" /\ ~rt.enable_grace
    BY <1>2 DEF InstallAllowed, TakesCommands, Active
  <2>3. Good(rt')
    BY <1>1, <2>1, <2>2 DEF Good, Always
  <2>4. RecoverLocal(rt', power', "r_home", call[c].ok)
    BY <1>0, <1>1, <2>1 DEF RecoverLocal, Others
  <2>5. QED
    BY <1>0, <1>1, <1>2, <2>3, <2>4, RecoverGoes DEF RecoverPcs, FrozenAt, Others
<1>3. CASE rt' = rt /\ Go(c, "r_fail")
  <2>1. RecoverLocal(rt', power', "r_fail", call[c].ok)
    BY <1>0, <1>1, <1>3 DEF RecoverLocal, Others
  <2>2. QED
    BY <1>0, <1>1, <1>3, <2>1, RecoverGoes DEF RecoverPcs, FrozenAt, Others
<1>4. QED
  BY <1>2, <1>3 DEF RecoverZero

LEMMA RecoverHomeKeeps ==
  ASSUME Inv, NEW c \in Callers, RecoverHome(c)
  PROVE  Inv'
<1>0. call[c].pc = "r_home" /\ rt' = rt /\ Others
  BY DEF RecoverHome, At
<1>1. /\ lifecycle = c /\ call[c] \in Calls /\ call[c].op = "recover"
      /\ rt \in Runtimes /\ Good(rt) /\ power \in Powers
      /\ RecoverLocal(rt, power, "r_home", call[c].ok)
  BY <1>0, RecoverFacts DEF RecoverPcs
<1>2. CASE Go(c, "d_begin")
  <2> DEFINE k == With(call[c], "d_begin")
  <2>1. k.pc = "d_begin" /\ k.op = "recover" /\ "d_begin" \in Pcs
    BY <1>1, WithPc DEF Pcs, DisablePcs
  <2> HIDE DEF k
  <2>2. ~KnownOff(k) /\ k.pc \notin SilentPcs /\ PcOf(k)
    BY <2>1 DEF KnownOff, SilentPcs, FrozenAt, PcOf, DisablePcs
  <2>3. Local(rt', power, k)
    BY <1>0, <1>1, <2>1, <2>2 DEF RecoverLocal, Local, Off
  <2>4. QED
    BY <1>0, <1>1, <1>2, <2>1, <2>2, <2>3, Goes DEF HeldPcs, FrozenAt, k
<1>3. CASE Go(c, "r_fail")
  <2>1. RecoverLocal(rt', power', "r_fail", call[c].ok)
    BY <1>0, <1>1, <1>3 DEF RecoverLocal, Others
  <2>2. QED
    BY <1>0, <1>1, <1>3, <2>1, RecoverGoes DEF RecoverPcs, FrozenAt, Others
<1>4. QED
  BY <1>2, <1>3 DEF RecoverHome

LEMMA RecoverDoneKeeps ==
  ASSUME Inv, NEW c \in Callers, RecoverDone(c)
  PROVE  Inv'
<1>0. /\ call[c].pc = "r_done" /\ Others /\ Return(c)
      /\ rt' = [rt EXCEPT !.state = "READY", !.fault_latched = FALSE,
                      !.motor_fault = FALSE, !.estop = FALSE,
                      !.disable_confirmed = TRUE, !.send_failures = 0,
                      !.feedback_failures = 0]
  BY DEF RecoverDone, At
<1>1. /\ lifecycle = c /\ rt \in Runtimes /\ Good(rt)
      /\ RecoverLocal(rt, power, "r_done", call[c].ok)
  BY <1>0, RecoverFacts DEF RecoverPcs
<1>2. rt' \in Runtimes
  BY <1>0, <1>1, ZenonT(60) DEF Runtimes, States
<1>3. Good(rt') /\ ~rt'.estop /\ rt'.hardware_transition = rt.hardware_transition
  BY <1>0, <1>1, <1>2 DEF Good, Always, Runtimes
<1>4. Rest(rt', power)
  BY <1>1, <1>3 DEF Rest, RecoverLocal, Off
<1>5. QED
  BY <1>0, <1>1, <1>3, <1>4, Returns

LEMMA RecoverFailsKeeps ==
  ASSUME Inv, NEW c \in Callers, RecoverFails(c)
  PROVE  Inv'
<1>0. call[c].pc = "r_fail" /\ Others /\ Go(c, "r_rollback")
  BY DEF RecoverFails, At
<1>1. /\ rt \in Runtimes /\ Good(rt) /\ power \in Powers
      /\ RecoverLocal(rt, power, "r_fail", call[c].ok)
  BY <1>0, RecoverFacts DEF RecoverPcs
<1> DEFINE q == ClearTargets(rt)
           f == q.motor_fault \/ SomeFault(power)
<1>2. q \in Runtimes /\ Same(rt, q) /\ NoTargets(q)
  BY <1>1, ClearTargetsEffect
<1>3. /\ rt' = [q EXCEPT !.hold = FALSE, !.state = "FAULT", !.fault_latched = TRUE,
                         !.motor_fault = f, !.hardware_transition = TRUE]
      /\ f \in BOOLEAN /\ "FAULT" \in States
  BY DEF RecoverFails, States
<1> HIDE DEF q, f
<1>4. rt' \in Runtimes
  <2>1. [q EXCEPT !.hold = FALSE, !.state = "FAULT", !.fault_latched = TRUE,
                  !.motor_fault = f, !.hardware_transition = TRUE] \in Runtimes
    BY <1>2, <1>3 DEF Runtimes
  <2>2. QED
    BY <1>3, <2>1
<1>5. /\ rt'.hardware_transition /\ rt'.state = "FAULT" /\ rt'.fault_latched
      /\ NoTargets(rt') /\ rt'.disable_confirmed = rt.disable_confirmed
      /\ rt'.disabled = rt.disabled /\ rt'.enable_grace = rt.enable_grace
      /\ rt'.accepted = rt.accepted
  BY <1>2, <1>3, <1>4 DEF Runtimes, Same, NoTargets
<1>6. Good(rt') /\ Latched(rt')
  BY <1>1, <1>4, <1>5 DEF Good, Always, Latched
<1>7. RecoverLocal(rt', power', "r_rollback", call[c].ok)
  BY <1>0, <1>1, <1>5, <1>6 DEF RecoverLocal, Silent, Others
<1>8. QED
  BY <1>0, <1>1, <1>6, <1>7, RecoverGoes DEF RecoverPcs, FrozenAt, Others

LEMMA RecoverRollbackKeeps ==
  ASSUME Inv, NEW c \in Callers, RecoverRollback(c)
  PROVE  Inv'
<1>0. /\ call[c].pc = "r_rollback" /\ rt' = rt /\ lifecycle' = lifecycle
      /\ UNCHANGED <<command, worker, frame, left>> /\ command = NoCaller
  BY DEF RecoverRollback, At
<1>1. /\ lifecycle = c /\ call[c] \in Calls /\ call[c].op = "recover"
      /\ rt \in Runtimes /\ Good(rt) /\ power \in Powers
      /\ RecoverLocal(rt, power, "r_rollback", call[c].ok)
  BY <1>0, RecoverFacts DEF RecoverPcs
<1>2. PICK ok \in BOOLEAN : DisableHardware(power', ok) /\ SetsOk(c, "r_failed", ok)
  BY DEF RecoverRollback, SetsOk
<1>3. call[c].flag \in BOOLEAN /\ "r_failed" \in Pcs
  BY <1>1 DEF Calls, Pcs, RecoverPcs
<1> DEFINE k == Now(call[c], "r_failed", ok, call[c].flag)
<1>4. call' = [call EXCEPT ![c] = k]
  BY <1>2, <1>3, NowCall
<1>5. k.pc = "r_failed" /\ k.op = "recover" /\ k.ok = ok
  BY <1>1, <1>3, NowType
<1>6. power' \in Powers /\ (ok => Off(power')) /\ (Off(power) => Off(power'))
  BY <1>1, <1>2, DisableHardwareEffect
<1> HIDE DEF k
<1>7. RecoverLocal(rt', power', "r_failed", ok)
  BY <1>0, <1>1, <1>6 DEF RecoverLocal
<1>8. Local(rt', power', k) /\ PcOf(k)
  BY <1>5, <1>7, InRecover DEF RecoverPcs, PcOf
<1>9. QED
  BY <1>0, <1>1, <1>3, <1>4, <1>6, <1>8, Notes DEF HeldPcs, k

LEMMA RecoverFailedKeeps ==
  ASSUME Inv, NEW c \in Callers, RecoverFailed(c)
  PROVE  Inv'
<1>0. /\ call[c].pc = "r_failed" /\ Others /\ Return(c)
      /\ rt' = [rt EXCEPT !.state = "FAULT", !.fault_latched = TRUE,
                      !.disable_confirmed = call[c].ok,
                      !.hardware_transition = FALSE,
                      !.enable_transaction = FALSE]
  BY DEF RecoverFailed, At
<1>1. /\ lifecycle = c /\ call[c] \in Calls /\ rt \in Runtimes /\ Good(rt)
      /\ RecoverLocal(rt, power, "r_failed", call[c].ok)
  BY <1>0, RecoverFacts DEF RecoverPcs
<1>2. call[c].ok \in BOOLEAN /\ "FAULT" \in States
  BY <1>1 DEF Calls, States
<1>3. rt' \in Runtimes
  BY <1>0, <1>1, <1>2 DEF Runtimes
<1>4. /\ Good(rt') /\ ~rt'.hardware_transition /\ rt'.estop = rt.estop
      /\ rt'.disable_confirmed = call[c].ok /\ (Latched(rt) => Latched(rt'))
  BY <1>0, <1>1, <1>3 DEF Good, Always, Latched, NoTargets, Runtimes
<1>5. Rest(rt', power)
  BY <1>1, <1>4 DEF Rest, RecoverLocal, Off
<1>6. QED
  BY <1>0, <1>1, <1>4, <1>5, Returns

LEMMA RecoverKeeps ==
  ASSUME Inv, NEW c \in Callers, Recover(c)
  PROVE  Inv'
  BY RecoverBeginKeeps, RecoverFreezeKeeps, RecoverClearKeeps,
     RecoverDisableKeeps, RecoverErrorsKeeps, RecoverCheckKeeps,
     RecoverReadyKeeps, RecoverZeroKeeps, RecoverHomeKeeps, RecoverDoneKeeps,
     RecoverFailsKeeps, RecoverRollbackKeeps, RecoverFailedKeeps DEF Recover

-----------------------------------------------------------------------------
(* Where operations begin *)

EntryPcs == {"c_begin", "e_begin", "d_begin", "s_begin", "r_begin", "m_begin",
             "q_begin", "b_begin", "x_begin"}

\* What Local says before an operation did anything.
EntryLocal(r, p, k) ==
  /\ ~r.hardware_transition
  /\ r.disable_confirmed => Off(p)
  /\ r.estop => Latched(r) \/ (k.op = "recover" /\ k.pc # "r_begin")

LEMMA AtEntry ==
  ASSUME NEW r, NEW p, NEW k, k.pc \in EntryPcs
  PROVE  Local(r, p, k) <=> EntryLocal(r, p, k)
<1>1. ~KnownOff(k)
  BY DEF KnownOff, EntryPcs
<1>2. k.pc \notin TransitionPcs /\ k.pc \notin SilentPcs
  BY DEF TransitionPcs, SilentPcs, FrozenAt, HeldPcs, EntryPcs
<1>3. BehindLatch(k) <=> k.op # "recover"
  BY DEF BehindLatch, EnablePcs, EntryPcs
<1>4. k.pc \notin {"e_state", "e_fail", "b_end", "b_unsafe", "e_seed", "x_stop",
                   "x_join", "s_prepare", "s_fault", "s_confirmed", "r_rollback",
                   "r_failed"}
  BY DEF EntryPcs
<1>5. QED
  BY <1>1, <1>2, <1>3, <1>4 DEF Local, EntryLocal, Off

LEMMA BeginKeeps ==
  ASSUME Inv, NEW c \in Callers, NEW op \in left.ops, Begin(c, op, Entry[op])
  PROVE  Inv'
<1>0. /\ call[c].pc = "idle" /\ lifecycle = NoCaller /\ lifecycle' = c
      /\ left' \in Scenario /\ UNCHANGED <<rt, power, command, worker, frame>>
  BY LeftType DEF Begin, At
<1>1. /\ Rest(rt, power) /\ CallOf(call[c]) /\ call[c] \in Calls /\ Good(rt)
      /\ power \in Powers /\ call \in [Callers -> Calls] /\ op \in AllOps
      /\ ~frame'.frozen
  BY <1>0, Facts DEF Inv, Types, CallOf, Scenario
<1> DEFINE pc == Entry[op]
           k == [call[c] EXCEPT !.op = op, !.pc = pc]
<1>2. call' = [call EXCEPT ![c] = k]
  BY <1>1 DEF Begin
<1>3. \/ op = "connect" /\ pc = "c_begin"
      \/ op = "enable" /\ pc = "e_begin"
      \/ op = "disable" /\ pc = "d_begin"
      \/ op = "estop" /\ pc = "s_begin"
      \/ op = "recover" /\ pc = "r_begin"
      \/ op \in Maintenance /\ pc = "m_begin"
      \/ op = "power_state" /\ pc = "q_begin"
      \/ op = "power_batch" /\ pc = "b_begin"
      \/ op = "close" /\ pc = "x_begin"
  BY <1>1 DEF AllOps, Entry, Maintenance
<1> HIDE DEF pc
<1>4. pc \in EntryPcs /\ pc \in Pcs
  BY <1>3 DEF EntryPcs, Pcs, ConnectPcs, EnablePcs, DisablePcs, EstopPcs,
       RecoverPcs, QueryPcs, BatchPcs, ClosePcs
<1>5. k \in Calls
  BY <1>1, <1>4 DEF Calls
<1>6. k.op = op /\ k.pc = pc /\ k.motors = call[c].motors
  BY <1>1, <1>5 DEF Calls
<1> HIDE DEF k
<1>7. PcOf(k)
  BY <1>3, <1>6 DEF PcOf, ConnectPcs, EnablePcs, DisablePcs, EstopPcs,
       RecoverPcs, QueryPcs, BatchPcs, ClosePcs
<1>8. CallOf(k)
  BY <1>1, <1>5, <1>6, <1>7 DEF CallOf
<1>9. EntryLocal(rt', power', k)
  BY <1>0, <1>1 DEF EntryLocal, Rest, Off
<1>10. Local(rt', power', k) /\ ~Relies(k)
       /\ k.pc \notin HeldPcs \cup {"idle", "m_retry"}
  BY <1>4, <1>6, <1>9, AtEntry DEF Relies, FrozenAt, HeldPcs, EntryPcs
<1>11. QED
  BY <1>0, <1>1, <1>2, <1>8, <1>10, OwnerStep

-----------------------------------------------------------------------------
(* Power of single motors *)

\* What Local says inside motor_power_state().
QueryLocal(r, p) == ~r.estop /\ (r.disable_confirmed => Off(p))

LEMMA InQuery ==
  ASSUME NEW r, NEW p, NEW k, k.op = "power_state", k.pc \in {"q_feedback", "q_end"}
  PROVE  Local(r, p, k) <=> QueryLocal(r, p)
<1>1. ~KnownOff(k) /\ ~BehindLatch(k) /\ k.pc \in TransitionPcs /\ k.pc \notin SilentPcs
  BY DEF KnownOff, BehindLatch, TransitionPcs, SilentPcs, FrozenAt
<1>2. QED
  BY <1>1 DEF Local, QueryLocal, Off

LEMMA QueryOp ==
  ASSUME NEW k, PcOf(k), k.pc \in QueryPcs
  PROVE  k.op = "power_state"
  BY DEF PcOf, ConnectPcs, EnablePcs, DisablePcs, EstopPcs, HeldPcs, QueryPcs,
       BatchPcs, ClosePcs, RecoverPcs

LEMMA QueryGoes ==
  ASSUME Inv, NEW c \in Callers, call[c].pc \in QueryPcs,
         NEW pc \in {"q_feedback", "q_end"}, Go(c, pc), Others,
         Good(rt'), QueryLocal(rt', power)
  PROVE  Inv'
<1>1. call[c].pc \notin {"idle", "m_retry"}
  BY DEF QueryPcs
<1>2. lifecycle = c /\ call[c] \in Calls /\ PcOf(call[c]) /\ call[c].op = "power_state"
  BY <1>1, OwnerFacts, QueryOp
<1>3. pc \in Pcs /\ pc \in QueryPcs
      /\ pc \notin {"idle", "m_retry", "e_power"} \cup HeldPcs \cup FrozenAt
  BY DEF Pcs, QueryPcs, HeldPcs, FrozenAt
<1> DEFINE k == With(call[c], pc)
<1>4. k.pc = pc /\ k.op = "power_state"
  BY <1>2, <1>3, WithPc
<1>5. Local(rt', power, k) /\ PcOf(k)
  BY <1>3, <1>4, InQuery DEF PcOf
<1> HIDE DEF k
<1>6. QED
  BY <1>2, <1>3, <1>5, Goes DEF k

LEMMA PowerStateKeeps ==
  ASSUME Inv, NEW c \in Callers,
         PowerStateBegin(c) \/ PowerStateFeedback(c) \/ PowerStateEnd(c)
  PROVE  Inv'
<1>0. /\ call[c].pc \in QueryPcs /\ call[c].pc \notin {"idle", "m_retry"} /\ Others
  BY DEF PowerStateBegin, PowerStateFeedback, PowerStateEnd, At, QueryPcs
<1>1. /\ lifecycle = c /\ Local(rt, power, call[c]) /\ PcOf(call[c])
      /\ rt \in Runtimes /\ Good(rt) /\ call[c].op = "power_state"
  BY <1>0, OwnerFacts, QueryOp
<1>2. CASE PowerStateBegin(c)
  <2>1. EntryLocal(rt, power, call[c]) /\ (rt.estop => Latched(rt))
    BY <1>1, <1>2, AtEntry DEF PowerStateBegin, At, EntryPcs, EntryLocal
  <2>2. CASE rt.state \in {"READY", "PARTIALLY_ENABLED"}
    <3>1. rt' = [rt EXCEPT !.hardware_transition = TRUE] /\ Go(c, "q_feedback")
      BY <1>2, <2>2 DEF PowerStateBegin
    <3>2. rt' \in Runtimes
      BY <1>1, <3>1 DEF Runtimes
    <3>3. /\ Good(rt') /\ rt'.estop = rt.estop
          /\ rt'.disable_confirmed = rt.disable_confirmed
      BY <1>1, <3>1, <3>2 DEF Good, Always, NoTargets, Runtimes
    <3>4. QueryLocal(rt', power)
      BY <2>1, <2>2, <3>3 DEF QueryLocal, EntryLocal, Latched
    <3>5. QED
      BY <1>0, <3>1, <3>3, <3>4, QueryGoes
  <2>3. CASE rt.state \notin {"READY", "PARTIALLY_ENABLED"}
    <3>1. rt' = rt /\ Return(c)
      BY <1>2, <2>3 DEF PowerStateBegin
    <3>2. Rest(rt', power)
      BY <2>1, <3>1 DEF EntryLocal, Rest, Off
    <3>3. QED
      BY <1>0, <1>1, <3>1, <3>2, Returns
  <2>4. QED
    BY <2>2, <2>3
<1>3. CASE PowerStateFeedback(c)
  <2>1. QueryLocal(rt, power)
    BY <1>1, <1>3, InQuery DEF PowerStateFeedback, At
  <2>2. CASE rt' = [rt EXCEPT !.hardware_transition = FALSE] /\ Return(c)
    <3>1. rt' \in Runtimes
      BY <1>1, <2>2 DEF Runtimes
    <3>2. /\ Good(rt') /\ rt'.estop = rt.estop /\ ~rt'.hardware_transition
          /\ rt'.disable_confirmed = rt.disable_confirmed
      BY <1>1, <2>2, <3>1 DEF Good, Always, NoTargets, Runtimes
    <3>3. Rest(rt', power)
      BY <2>1, <3>2 DEF QueryLocal, Rest, Off
    <3>4. QED
      BY <1>0, <1>1, <2>2, <3>2, <3>3, Returns
  <2>3. CASE rt' = FreshFeedback(rt) /\ Go(c, "q_end")
    <3>1. rt' \in Runtimes /\ Same(rt, rt') /\ SameTargets(rt, rt')
      BY <1>1, <2>3, FreshFeedbackEffect
    <3>2. Good(rt') /\ QueryLocal(rt', power)
      BY <1>1, <2>1, <3>1
         DEF Good, Always, NoTargets, Same, SameTargets, QueryLocal
    <3>3. QED
      BY <1>0, <2>3, <3>2, QueryGoes
  <2>4. QED
    BY <1>3, <2>2, <2>3 DEF PowerStateFeedback
<1>4. CASE PowerStateEnd(c)
  <2> DEFINE o == AllOff(power)
             t == IF o THEN "READY" ELSE "PARTIALLY_ENABLED"
  <2>1. QueryLocal(rt, power)
    BY <1>1, <1>4, InQuery DEF PowerStateEnd, At
  <2>2. /\ rt' = [rt EXCEPT !.state = t, !.disable_confirmed = o,
                            !.hardware_transition = FALSE]
        /\ Return(c)
    BY <1>4 DEF PowerStateEnd
  <2>3. o \in BOOLEAN /\ t \in States /\ t # "DISCONNECTED" /\ (o => Off(power))
    BY DEF AllOff, Off, Present, States
  <2> HIDE DEF o, t
  <2>4. rt' \in Runtimes
    BY <1>1, <2>2, <2>3 DEF Runtimes
  <2>5. /\ rt'.state = t /\ rt'.disable_confirmed = o /\ ~rt'.hardware_transition
        /\ rt'.estop = rt.estop /\ rt'.disabled = rt.disabled
        /\ rt'.enable_grace = rt.enable_grace /\ rt'.accepted = rt.accepted
    BY <1>1, <2>2, <2>4 DEF Runtimes
  <2>6. Good(rt') /\ Rest(rt', power)
    BY <1>1, <2>1, <2>3, <2>4, <2>5 DEF Good, Always, QueryLocal, Rest, Off
  <2>7. QED
    BY <1>0, <1>1, <2>2, <2>6, Returns
<1>5. QED
  BY <1>2, <1>3, <1>4

\* What Local says inside set_motor_power_batch().
BatchLocal(r, p, k) ==
  /\ Silent(r)
  /\ r.disable_confirmed => k.pc \in {"b_end", "b_unsafe"} \/ Off(p)
  /\ r.estop => /\ Latched(r)
                /\ k.pc # "b_unsafe" => ~k.flag /\ k.from = "FAULT"

LEMMA InBatch ==
  ASSUME NEW r, NEW p, NEW k, k.op = "power_batch", k.pc \in BatchPcs \ {"b_begin"}
  PROVE  Local(r, p, k) <=> BatchLocal(r, p, k)
<1>1. ~KnownOff(k) /\ k.pc \in TransitionPcs /\ k.pc \in SilentPcs
  BY DEF KnownOff, TransitionPcs, SilentPcs, FrozenAt, BatchPcs
<1>2. BehindLatch(k) <=> (k.pc # "b_unsafe" => ~k.flag /\ k.from = "FAULT")
  BY DEF BehindLatch, BatchPcs, EnablePcs
<1>3. k.pc \notin {"e_state", "e_fail", "e_seed", "x_stop", "x_join", "s_prepare",
                   "s_fault", "s_confirmed"}
  BY DEF BatchPcs
<1>4. QED
  BY <1>1, <1>2, <1>3 DEF Local, BatchLocal, Off

LEMMA BatchOp ==
  ASSUME NEW k, PcOf(k), k.pc \in BatchPcs
  PROVE  k.op = "power_batch"
  BY DEF PcOf, ConnectPcs, EnablePcs, DisablePcs, EstopPcs, HeldPcs, QueryPcs,
       BatchPcs, ClosePcs, RecoverPcs

LEMMA BatchBeginKeeps ==
  ASSUME Inv, NEW c \in Callers, BatchBegin(c)
  PROVE  Inv'
<1>0. call[c].pc = "b_begin" /\ Others
  BY DEF BatchBegin, At
<1>1. /\ lifecycle = c /\ Local(rt, power, call[c]) /\ PcOf(call[c])
      /\ rt \in Runtimes /\ Good(rt) /\ call[c] \in Calls /\ power \in Powers
      /\ Present \subseteq Motors /\ call \in [Callers -> Calls]
  BY <1>0, OwnerFacts DEF Inv, Types
<1>2. call[c].op = "power_batch"
  BY <1>0, <1>1, BatchOp DEF BatchPcs
<1>3. EntryLocal(rt, power, call[c]) /\ (rt.estop => Latched(rt))
  BY <1>0, <1>1, <1>2, AtEntry DEF EntryPcs, EntryLocal
<1>4. PICK s \in SUBSET Present \ {{}}, enabled \in BOOLEAN :
        \/ rt' = rt /\ Return(c)
        \/ /\ rt.state # "DISCONNECTED"
           /\ enabled => rt.state \in {"READY", "PARTIALLY_ENABLED"}
           /\ rt' = [Terminate(rt, "CANCELLED") EXCEPT
                       !.hardware_transition = TRUE,
                       !.disabled = IF enabled THEN @ ELSE @ \cup s]
           /\ call' = [call EXCEPT ![c].pc = "b_motors", ![c].motors = s,
                                   ![c].flag = enabled, ![c].from = rt.state]
           /\ UNCHANGED lifecycle
  BY DEF BatchBegin
<1>5. CASE rt' = rt /\ Return(c)
  <2>1. Rest(rt', power)
    BY <1>3, <1>5 DEF EntryLocal, Rest, Off
  <2>2. QED
    BY <1>0, <1>1, <1>5, <2>1, Returns
<1>6. CASE ~(rt' = rt /\ Return(c))
  <2> DEFINE q == Terminate(rt, "CANCELLED")
             d == IF enabled THEN q.disabled ELSE q.disabled \cup s
             k == [call[c] EXCEPT !.pc = "b_motors", !.motors = s,
                                  !.flag = enabled, !.from = rt.state]
  <2>1. q \in Runtimes /\ Same(rt, q) /\ (NoTargets(rt) => NoTargets(q))
    BY <1>1, TerminateEffect DEF Motion
  <2>2. /\ rt' = [q EXCEPT !.hardware_transition = TRUE, !.disabled = d]
        /\ lifecycle' = lifecycle /\ rt.state # "DISCONNECTED"
        /\ enabled => rt.state \in {"READY", "PARTIALLY_ENABLED"}
    BY <1>4, <1>6
  <2>3. call' = [call EXCEPT ![c] = k]
    BY <1>1, <1>4, <1>6
  <2>4. d \in SUBSET Motors /\ d \subseteq Present
    BY <1>1, <2>1 DEF Runtimes, Same, Good
  <2>5. k \in Calls
    BY <1>1 DEF Calls, Pcs, BatchPcs, Runtimes
  <2>6. /\ k.pc = "b_motors" /\ k.op = "power_batch" /\ k.motors = s
        /\ k.flag = enabled /\ k.from = rt.state
    BY <1>1, <1>2, <2>5 DEF Calls
  <2> HIDE DEF q, d, k
  <2>7. CallOf(k)
    BY <2>5, <2>6 DEF CallOf, PcOf, BatchPcs
  <2>8. rt' \in Runtimes
    BY <2>1, <2>2, <2>4 DEF Runtimes
  <2>9. /\ rt'.hardware_transition /\ rt'.estop = rt.estop
        /\ rt'.state = rt.state /\ rt'.fault_latched = rt.fault_latched
        /\ rt'.disable_confirmed = rt.disable_confirmed
        /\ rt'.disabled = d /\ rt'.accepted = rt.accepted
        /\ rt'.enable_grace = rt.enable_grace
        /\ NoTargets(rt) => NoTargets(rt')
    BY <2>1, <2>2, <2>8 DEF Same, NoTargets, Runtimes
  <2>10. Good(rt') /\ (Latched(rt) => Latched(rt'))
    BY <1>1, <2>4, <2>8, <2>9 DEF Good, Always, Latched
  <2>11. BatchLocal(rt', power, k)
    BY <1>3, <2>2, <2>6, <2>9, <2>10 DEF BatchLocal, EntryLocal, Silent, Latched
  <2>12. Local(rt', power, k)
    BY <2>6, <2>11, InBatch DEF BatchPcs
  <2>13. k.pc \notin {"idle", "m_retry"} \cup HeldPcs /\ ~Relies(k)
    BY <2>6 DEF HeldPcs, Relies, FrozenAt
  <2>14. QED
    BY <1>0, <1>1, <2>2, <2>3, <2>7, <2>10, <2>12, <2>13, Moves
<1>7. QED
  BY <1>5, <1>6

\* The motors are told, and what the batch remembers of it.
LEMMA BatchNotes ==
  ASSUME Inv, NEW c \in Callers, call[c].pc = "b_motors", command = NoCaller,
         NEW pc \in {"b_end", "b_unsafe"}, NEW ok \in BOOLEAN, SetsOk(c, pc, ok),
         UNCHANGED <<lifecycle, command, worker, frame, left>>,
         power' \in Powers,
         NEW q \in Runtimes, Same(rt, q), SameTargets(rt, q),
         NEW d, d \subseteq Present, rt' = [q EXCEPT !.disabled = d]
  PROVE  Inv'
<1>1. /\ lifecycle = c /\ Local(rt, power, call[c]) /\ PcOf(call[c])
      /\ rt \in Runtimes /\ Good(rt) /\ call[c] \in Calls
      /\ Present \subseteq Motors
  BY OwnerFacts DEF Inv, Types
<1>2. call[c].op = "power_batch" /\ BatchLocal(rt, power, call[c])
  BY <1>1, BatchOp, InBatch DEF BatchPcs
<1>3. rt' \in Runtimes
  <2>1. d \in SUBSET Motors
    BY <1>1
  <2>2. QED
    BY <2>1 DEF Runtimes
<1>4. /\ rt'.state = q.state /\ rt'.hardware_transition = q.hardware_transition
      /\ rt'.fault_latched = q.fault_latched /\ rt'.estop = q.estop
      /\ rt'.disable_confirmed = q.disable_confirmed
      /\ rt'.enable_grace = q.enable_grace /\ rt'.accepted = q.accepted
      /\ rt'.disabled = d /\ rt'.mailbox = q.mailbox /\ rt'.pending = q.pending
  BY <1>3 DEF Runtimes
<1>5. /\ rt'.state = rt.state /\ rt'.hardware_transition = rt.hardware_transition
      /\ rt'.fault_latched = rt.fault_latched /\ rt'.estop = rt.estop
      /\ rt'.enable_grace = rt.enable_grace /\ rt'.accepted = rt.accepted
      /\ rt'.disabled = d /\ (NoTargets(rt) => NoTargets(rt'))
  BY <1>4 DEF Same, SameTargets, NoTargets
<1>6. Good(rt') /\ (Latched(rt) => Latched(rt')) /\ (Silent(rt) => Silent(rt'))
  BY <1>1, <1>3, <1>5 DEF Good, Always, Latched, Silent
<1>7. call[c].flag \in BOOLEAN /\ pc \in Pcs
  BY <1>1 DEF Calls, Pcs, BatchPcs
<1> DEFINE k == Now(call[c], pc, ok, call[c].flag)
<1>8. call' = [call EXCEPT ![c] = k]
  BY <1>7, NowCall
<1>9. /\ k.pc = pc /\ k.op = call[c].op /\ k.flag = call[c].flag
      /\ k.from = call[c].from
  BY <1>1, <1>7, NowType
<1> HIDE DEF k
<1>10. BatchLocal(rt', power', k)
  BY <1>2, <1>5, <1>6, <1>9 DEF BatchLocal
<1>11. Local(rt', power', k) /\ PcOf(k)
  BY <1>2, <1>9, <1>10, InBatch DEF BatchPcs, PcOf
<1>12. pc \notin {"idle", "m_retry"} \cup HeldPcs
  BY DEF HeldPcs
<1>13. lifecycle' = lifecycle /\ UNCHANGED <<command, worker, frame, left>>
  OBVIOUS
<1>14. QED
  BY <1>1, <1>6, <1>7, <1>8, <1>11, <1>12, <1>13, Notes DEF k

LEMMA BatchMotorsKeeps ==
  ASSUME Inv, NEW c \in Callers, BatchMotors(c)
  PROVE  Inv'
<1> DEFINE s == call[c].motors
           off == {m \in Present : power[m] = "off"}
           seen == IF call[c].flag /\ call[c].from = "READY"
                     THEN rt.disabled \cup off ELSE rt.disabled
           f == FreshFeedback(rt)
<1>0. /\ call[c].pc = "b_motors" /\ command = NoCaller
      /\ UNCHANGED <<lifecycle, command, worker, frame, left>>
  BY DEF BatchMotors, At
<1>1. /\ rt \in Runtimes /\ Good(rt) /\ power \in Powers /\ s \subseteq Present
      /\ rt.disabled \subseteq Present
  BY Facts DEF CallOf, Good
<1>2. off \subseteq Present /\ seen \subseteq Present
  BY <1>1
<1>3. f \in Runtimes /\ Same(rt, f) /\ SameTargets(rt, f) /\ f.disabled = rt.disabled
  BY <1>1, FreshFeedbackEffect DEF Same
<1>4. Same(rt, rt) /\ SameTargets(rt, rt)
  BY DEF Same, SameTargets
<1>5. ASSUME NEW q \in {rt, f}, NEW d, d \subseteq Present,
             rt' = [q EXCEPT !.disabled = d], power' \in Powers,
             NEW pc \in {"b_end", "b_unsafe"}, NEW ok \in BOOLEAN,
             SetsOk(c, pc, ok)
      PROVE  Inv'
  <2>1. q \in Runtimes /\ Same(rt, q) /\ SameTargets(rt, q)
    BY <1>1, <1>3, <1>4
  <2>2. QED
    BY <1>0, <1>5, <2>1, BatchNotes
<1>6. \/ /\ power' = power
         /\ \E t \in SUBSET (IF call[c].flag THEN off ELSE {}) :
              \E r \in {rt, f} : rt' = [r EXCEPT !.disabled = @ \cup t]
         /\ SetsOk(c, "b_end", FALSE)
      \/ /\ power' = [m \in Present |-> IF m \in s THEN "on" ELSE power[m]]
         /\ rt' = [f EXCEPT !.disabled = seen \ s]
         /\ SetsOk(c, "b_end", TRUE)
      \/ /\ power' \in Commanded(s, "off", "on")
         /\ rt' = [f EXCEPT !.disabled = seen \cup (s \cap off)]
         /\ SetsOk(c, "b_end", FALSE) \/ SetsOk(c, "b_unsafe", FALSE)
      \/ /\ power' \in Commanded(s, "on", "off")
         /\ rt' \in {rt, f}
         /\ SetsOk(c, "b_end", TRUE) \/ SetsOk(c, "b_end", FALSE)
  BY DEF BatchMotors, SetsOk
<1> HIDE DEF s, off, seen, f
<1>7. CASE /\ power' = power
           /\ \E t \in SUBSET (IF call[c].flag THEN off ELSE {}) :
                \E r \in {rt, f} : rt' = [r EXCEPT !.disabled = @ \cup t]
           /\ SetsOk(c, "b_end", FALSE)
  <2>1. PICK t \in SUBSET (IF call[c].flag THEN off ELSE {}), r \in {rt, f} :
          rt' = [r EXCEPT !.disabled = @ \cup t]
    BY <1>7
  <2>2. rt' = [r EXCEPT !.disabled = r.disabled \cup t]
    BY <1>1, <1>3, <2>1 DEF Runtimes
  <2>3. r.disabled \cup t \subseteq Present
    BY <1>1, <1>2, <1>3, <2>1
  <2>4. QED
    BY <1>1, <1>5, <1>7, <2>2, <2>3
<1>8. CASE /\ power' = [m \in Present |-> IF m \in s THEN "on" ELSE power[m]]
           /\ rt' = [f EXCEPT !.disabled = seen \ s]
           /\ SetsOk(c, "b_end", TRUE)
  <2>1. power' \in Powers
    BY <1>1, <1>8 DEF Powers
  <2>2. seen \ s \subseteq Present
    BY <1>2
  <2>3. QED
    BY <1>5, <1>8, <2>1, <2>2
<1>9. CASE /\ power' \in Commanded(s, "off", "on")
           /\ rt' = [f EXCEPT !.disabled = seen \cup (s \cap off)]
           /\ SetsOk(c, "b_end", FALSE) \/ SetsOk(c, "b_unsafe", FALSE)
  <2>1. power' \in Powers
    BY <1>1, <1>9, CommandedType
  <2>2. seen \cup (s \cap off) \subseteq Present
    BY <1>1, <1>2
  <2>3. QED
    BY <1>5, <1>9, <2>1, <2>2
<1>10. CASE /\ power' \in Commanded(s, "on", "off")
            /\ rt' \in {rt, f}
            /\ SetsOk(c, "b_end", TRUE) \/ SetsOk(c, "b_end", FALSE)
  <2>1. power' \in Powers
    BY <1>1, <1>10, CommandedType
  <2>2. PICK q \in {rt, f} : rt' = q
    BY <1>10
  <2>3. rt' = [q EXCEPT !.disabled = rt.disabled]
    BY <1>1, <1>3, <2>2 DEF Runtimes
  <2>4. QED
    BY <1>1, <1>5, <1>10, <2>1, <2>3
<1>11. QED
  BY <1>6, <1>7, <1>8, <1>9, <1>10

LEMMA BatchResultEffect ==
  ASSUME NEW r \in Runtimes, Present \subseteq Motors, r.disabled \subseteq Present,
         NEW from \in States, NEW enabled \in BOOLEAN, NEW ok \in BOOLEAN
  PROVE  LET s == BatchResult(r, from, enabled, ok) IN
         /\ s \in Runtimes /\ ~s.hardware_transition
         /\ s.disable_confirmed => AllOff(power)
         /\ s.estop = r.estop /\ s.fault_latched = r.fault_latched
         /\ s.enable_grace = r.enable_grace /\ s.accepted = r.accepted
         /\ SameTargets(r, s) /\ s.disabled \subseteq Present
         /\ s.state = "DISCONNECTED" => r.state = "DISCONNECTED"
         /\ ~enabled /\ from = "FAULT" => s.state = "FAULT"
<1> DEFINE keep == ~enabled /\ from \in {"DEGRADED", "SAFE_HOLD", "SAFE_STOP",
                                         "FAULT"}
           on == enabled /\ ok /\ ~r.fault_latched
           o == AllOff(power) /\ ~on
           t == IF keep THEN from ELSE IF r.fault_latched THEN r.state
                ELSE IF AllOff(power) /\ ~on THEN "READY" ELSE "PARTIALLY_ENABLED"
           d == IF ~AllOff(power) THEN r.disabled ELSE IF keep THEN Present
                ELSE IF r.fault_latched THEN r.disabled ELSE {}
           s == [r EXCEPT !.hardware_transition = FALSE, !.disable_confirmed = o,
                          !.state = t, !.disabled = d]
<1>1. BatchResult(r, from, enabled, ok) = s
  BY DEF BatchResult, Runtimes
<1>2. /\ o \in BOOLEAN /\ (o => AllOff(power))
  BY DEF AllOff
<1>3. /\ t \in States /\ (t = "DISCONNECTED" => r.state = "DISCONNECTED")
      /\ ~enabled /\ from = "FAULT" => t = "FAULT"
  BY DEF States, Runtimes
<1>4. d \in SUBSET Motors /\ d \subseteq Present
  OBVIOUS
<1> HIDE DEF o, t, d, keep, on
<1>5. s \in Runtimes
  BY <1>2, <1>3, <1>4 DEF Runtimes
<1>6. /\ ~s.hardware_transition /\ s.disable_confirmed = o /\ s.state = t
      /\ s.estop = r.estop /\ s.fault_latched = r.fault_latched
      /\ s.enable_grace = r.enable_grace /\ s.accepted = r.accepted
      /\ SameTargets(r, s) /\ s.disabled = d
  BY <1>5 DEF Runtimes, SameTargets
<1> HIDE DEF s
<1>7. QED
  BY <1>1, <1>2, <1>3, <1>4, <1>5, <1>6

LEMMA BatchEndKeeps ==
  ASSUME Inv, NEW c \in Callers, BatchEnd(c)
  PROVE  Inv'
<1>0. call[c].pc \in {"b_end", "b_unsafe"} /\ Return(c) /\ Others
  BY DEF BatchEnd, At
<1>1. /\ lifecycle = c /\ Local(rt, power, call[c]) /\ PcOf(call[c])
      /\ rt \in Runtimes /\ Good(rt) /\ call[c] \in Calls
      /\ Present \subseteq Motors
  BY <1>0, OwnerFacts DEF Inv, Types
<1>2. BatchLocal(rt, power, call[c])
  BY <1>0, <1>1, BatchOp, InBatch DEF BatchPcs
<1>3. CASE /\ call[c].pc = "b_end"
           /\ rt' = BatchResult(rt, call[c].from, call[c].flag, call[c].ok)
  <2>1. /\ call[c].from \in States /\ call[c].flag \in BOOLEAN
        /\ call[c].ok \in BOOLEAN /\ rt.disabled \subseteq Present
    BY <1>1 DEF Calls, Good
  <2>2. /\ rt' \in Runtimes /\ ~rt'.hardware_transition
        /\ rt'.disable_confirmed => AllOff(power)
        /\ rt'.estop = rt.estop /\ rt'.fault_latched = rt.fault_latched
        /\ rt'.enable_grace = rt.enable_grace /\ rt'.accepted = rt.accepted
        /\ SameTargets(rt, rt') /\ rt'.disabled \subseteq Present
        /\ rt'.state = "DISCONNECTED" => rt.state = "DISCONNECTED"
        /\ ~call[c].flag /\ call[c].from = "FAULT" => rt'.state = "FAULT"
    BY <1>1, <1>3, <2>1, BatchResultEffect
  <2>3. Good(rt')
    BY <1>1, <2>2 DEF Good, Always, SameTargets, NoTargets
  <2>4. rt'.estop => Latched(rt')
    BY <1>2, <1>3, <2>2 DEF BatchLocal, Latched, SameTargets, NoTargets
  <2>5. Rest(rt', power)
    BY <2>2, <2>4 DEF Rest, AllOff, Present
  <2>6. QED
    BY <1>0, <1>1, <2>3, <2>5, Returns
<1>4. CASE /\ call[c].pc = "b_unsafe"
           /\ rt' = [rt EXCEPT !.state = "FAULT", !.fault_latched = TRUE,
                               !.motor_fault = @ \/ SomeFault(power),
                               !.disable_confirmed = FALSE,
                               !.hardware_transition = FALSE]
  <2> DEFINE f == rt.motor_fault \/ SomeFault(power)
  <2>1. /\ rt' = [rt EXCEPT !.state = "FAULT", !.fault_latched = TRUE,
                            !.motor_fault = f, !.disable_confirmed = FALSE,
                            !.hardware_transition = FALSE]
        /\ f \in BOOLEAN /\ "FAULT" \in States
    BY <1>1, <1>4 DEF Runtimes, SomeFault, States
  <2> HIDE DEF f
  <2>2. rt' \in Runtimes
    BY <1>1, <2>1, ZenonT(60) DEF Runtimes
  <2>3. /\ rt'.state = "FAULT" /\ rt'.fault_latched /\ ~rt'.disable_confirmed
        /\ ~rt'.hardware_transition /\ rt'.estop = rt.estop
        /\ rt'.disabled = rt.disabled /\ rt'.enable_grace = rt.enable_grace
        /\ rt'.accepted = rt.accepted /\ SameTargets(rt, rt')
    BY <1>1, <2>1, <2>2 DEF Runtimes, SameTargets
  <2>4. Good(rt') /\ Rest(rt', power)
    BY <1>1, <1>2, <2>2, <2>3
       DEF Good, Always, Rest, BatchLocal, Latched, SameTargets, NoTargets
  <2>5. QED
    BY <1>0, <1>1, <2>4, Returns
<1>5. QED
  BY <1>3, <1>4 DEF BatchEnd, At

-----------------------------------------------------------------------------
(* close *)

\* What Local says where close() stops the worker.
CloseLocal(r, p, pc) ==
  /\ ~r.hardware_transition
  /\ r.disable_confirmed => Off(p)
  /\ r.state \in {"READY", "FAULT", "DISCONNECTED"}
  /\ pc = "x_join" => NoTargets(r)
  /\ r.estop => Latched(r)

LEMMA InClose ==
  ASSUME NEW r, NEW p, NEW k, k.op = "close", k.pc \in {"x_stop", "x_join"}
  PROVE  Local(r, p, k) <=> CloseLocal(r, p, k.pc)
<1>1. /\ ~KnownOff(k) /\ BehindLatch(k) /\ k.pc \notin TransitionPcs
      /\ k.pc \notin SilentPcs
  BY DEF KnownOff, BehindLatch, TransitionPcs, SilentPcs, FrozenAt, HeldPcs,
       EnablePcs
<1>2. QED
  BY <1>1 DEF Local, CloseLocal, Off

LEMMA CloseOp ==
  ASSUME NEW k, PcOf(k), k.pc \in ClosePcs
  PROVE  k.op = "close"
  BY DEF PcOf, ConnectPcs, EnablePcs, DisablePcs, EstopPcs, HeldPcs, QueryPcs,
       BatchPcs, ClosePcs, RecoverPcs

LEMMA CloseKeeps ==
  ASSUME Inv, NEW c \in Callers, Close(c)
  PROVE  Inv'
<1>0. call[c].pc \in ClosePcs /\ call[c].pc \notin {"idle", "m_retry"} /\ Others
  BY DEF Close, CloseBegin, CloseStop, CloseJoin, At, ClosePcs
<1>1. /\ lifecycle = c /\ Local(rt, power, call[c]) /\ PcOf(call[c])
      /\ rt \in Runtimes /\ Good(rt) /\ call[c] \in Calls
      /\ call[c].op = "close"
  BY <1>0, OwnerFacts, CloseOp
<1>2. ASSUME NEW pc \in {"d_begin", "x_stop", "x_join"}, Go(c, pc), Good(rt'),
             IF pc = "d_begin" THEN EntryLocal(rt', power, With(call[c], pc))
             ELSE CloseLocal(rt', power, pc)
      PROVE  Inv'
  <2> DEFINE k == With(call[c], pc)
  <2>1. /\ pc \in Pcs
        /\ pc \notin {"idle", "m_retry", "e_power"} \cup HeldPcs \cup FrozenAt
    BY DEF Pcs, DisablePcs, ClosePcs, HeldPcs, FrozenAt
  <2>2. k.pc = pc /\ k.op = "close"
    BY <1>1, <2>1, WithPc
  <2>3. Local(rt', power, k)
    BY <1>2, <2>2, AtEntry, InClose DEF EntryPcs
  <2>4. PcOf(k)
    BY <2>2 DEF PcOf, DisablePcs, ClosePcs
  <2> HIDE DEF k
  <2>5. QED
    BY <1>0, <1>1, <1>2, <2>1, <2>3, <2>4, Goes DEF k
<1>3. CASE CloseBegin(c)
  <2>1. call[c].pc = "x_begin" /\ rt' = rt
    BY <1>3 DEF CloseBegin, At
  <2>2. EntryLocal(rt, power, call[c]) /\ (rt.estop => Latched(rt))
    BY <1>1, <2>1, AtEntry DEF EntryPcs, EntryLocal
  <2>3. CASE Return(c)
    BY <1>0, <1>1, <2>1, <2>2, <2>3, Returns DEF EntryLocal, Rest, Off
  <2>4. CASE Go(c, "d_begin")
    BY <1>1, <1>2, <2>1, <2>2, <2>4 DEF EntryLocal
  <2>5. CASE /\ Go(c, "x_stop")
             /\ ~(/\ rt.state # "DISCONNECTED"
                  /\ \/ ~rt.disable_confirmed
                     \/ rt.state \in Active \cup {"SAFE_HOLD", "SAFE_STOP"})
    <3>1. rt.state \in {"READY", "FAULT", "DISCONNECTED"}
      BY <1>1, <2>5 DEF Runtimes, States, Active
    <3>2. QED
      BY <1>1, <1>2, <2>1, <2>2, <2>5, <3>1 DEF EntryLocal, CloseLocal
  <2>6. QED
    BY <1>3, <2>3, <2>4, <2>5 DEF CloseBegin
<1>4. CASE CloseStop(c)
  <2> DEFINE p == Terminate(rt, "CANCELLED")
             q == ClearTargets(p)
  <2>1. CloseLocal(rt, power, "x_stop")
    BY <1>1, <1>4, InClose DEF CloseStop, At
  <2>2. p \in Runtimes /\ Same(rt, p)
    BY <1>1, TerminateEffect DEF Motion
  <2>3. q \in Runtimes /\ Same(p, q) /\ NoTargets(q)
    BY <2>2, ClearTargetsEffect
  <2>4. /\ rt' = [q EXCEPT !.stopping = TRUE, !.accepted = FALSE,
                           !.enable_grace = FALSE, !.planning = FALSE,
                           !.hold = FALSE]
        /\ Go(c, "x_join")
    BY <1>4 DEF CloseStop
  <2>5. Same(rt, q)
    BY <2>2, <2>3 DEF Same
  <2> HIDE DEF p, q
  <2>6. rt' \in Runtimes
    BY <2>3, <2>4, ZenonT(60) DEF Runtimes
  <2>7. /\ rt'.state = rt.state /\ rt'.hardware_transition = rt.hardware_transition
        /\ rt'.fault_latched = rt.fault_latched /\ rt'.estop = rt.estop
        /\ rt'.disable_confirmed = rt.disable_confirmed /\ ~rt'.accepted
        /\ rt'.disabled = rt.disabled /\ NoTargets(rt')
    BY <2>3, <2>4, <2>5, <2>6 DEF Runtimes, Same, NoTargets
  <2>8. Good(rt') /\ CloseLocal(rt', power, "x_join")
    BY <1>1, <2>1, <2>6, <2>7 DEF Good, Always, CloseLocal, Latched
  <2>9. QED
    BY <1>2, <2>4, <2>8
<1>5. CASE CloseJoin(c)
  <2>1. CloseLocal(rt, power, "x_join")
    BY <1>1, <1>5, InClose DEF CloseJoin, At
  <2>2. rt' = [rt EXCEPT !.state = "DISCONNECTED"] /\ Return(c)
    BY <1>5 DEF CloseJoin
  <2>3. rt' \in Runtimes
    BY <1>1, <2>2 DEF Runtimes, States
  <2>4. /\ rt'.hardware_transition = rt.hardware_transition
        /\ rt'.fault_latched = rt.fault_latched /\ rt'.estop = rt.estop
        /\ rt'.disable_confirmed = rt.disable_confirmed
        /\ rt'.accepted = rt.accepted /\ rt'.enable_grace = rt.enable_grace
        /\ rt'.disabled = rt.disabled /\ SameTargets(rt, rt')
        /\ rt'.state = "DISCONNECTED"
    BY <1>1, <2>2, <2>3 DEF Runtimes, SameTargets
  <2>5. Good(rt') /\ Rest(rt', power)
    BY <1>1, <2>1, <2>3, <2>4
       DEF Good, Always, CloseLocal, Rest, Latched, SameTargets, NoTargets, Off
  <2>6. QED
    BY <1>0, <1>1, <2>2, <2>5, Returns
<1>6. QED
  BY <1>3, <1>4, <1>5 DEF Close

-----------------------------------------------------------------------------
(* The specification *)

LEMMA StepKeeps ==
  ASSUME Inv, NEW c \in Callers, Step(c)
  PROVE  Inv'
<1>1. CASE PowerSteps(c)
  BY <1>1, PowerStateKeeps, BatchBeginKeeps, BatchMotorsKeeps, BatchEndKeeps
     DEF PowerSteps
<1>2. CASE ConnectBegin(c) \/ ConnectFails(c) \/ Connected(c)
  BY <1>2, ConnectBeginKeeps, ConnectFailsKeeps, ConnectedKeeps
<1>3. QED
  BY <1>1, <1>2, EnableKeeps, DisableKeeps, EstopKeeps, MaintenanceKeeps,
     RecoverKeeps, CloseKeeps DEF Step

LEMMA InitHolds ==
  ASSUME Init
  PROVE  Inv
<1>1. rt \in Runtimes
  BY DEF Init, Runtimes, States, Mailbox, Motion
<1>2. /\ left \in Scenario /\ left.motors \subseteq Motors
      /\ power \in [left.motors -> {"off", "on", "fault"}]
  BY RuntimeAssumption DEF Init, Scenario
<1>3. Present = left.motors
  BY <1>2 DEF Present
<1>4. call = [c \in Callers |-> IdleCall]
  BY DEF Init, IdleCall
<1>5. worker \in [pc : WorkerPcs, todo : SUBSET WorkerPcs, severe : BOOLEAN]
      /\ worker.pc = "top"
  BY DEF Init, WorkerPcs
<1>6. /\ lifecycle = NoCaller /\ command = NoCaller /\ rt.disabled = {}
      /\ ~rt.hardware_transition /\ ~rt.disable_confirmed /\ ~rt.estop
      /\ ~rt.enable_grace /\ NoTargets(rt) /\ ~frame.frozen
  BY DEF Init, NoTargets
<1>7. \A c \in Callers : CallOf(call[c]) /\ call[c].pc = "idle" /\ lifecycle # c
  BY <1>4, <1>6, IdleType, RuntimeAssumption
<1>8. call \in [Callers -> Calls]
  BY <1>4, IdleType DEF CallOf
<1>9. Types
  BY <1>1, <1>2, <1>3, <1>5, <1>6, <1>7, <1>8 DEF Types, CallOf
<1>10. Mutexes
  BY <1>5, <1>7 DEF Mutexes, HeldPcs
<1>11. Always(rt) /\ Rest(rt, power) /\ Sending
  BY <1>5, <1>6 DEF Always, Rest, Sending
<1>12. QED
  BY <1>6, <1>7, <1>9, <1>10, <1>11 DEF Inv

LEMMA NextKeeps ==
  ASSUME Inv, [Next]_vars
  PROVE  Inv'
<1>1. CASE UNCHANGED vars
  <2>1. UNCHANGED <<rt, power, lifecycle, command, call, worker, frame, left>>
    BY <1>1 DEF vars
  <2>2. Env(rt, rt') /\ left' \in Scenario
    BY <2>1, EnvRefl DEF Inv, Types
  <2>3. QED
    BY <2>1, <2>2, CommandStep
<1>2. CASE Next
  BY <1>2, StepKeeps, BeginKeeps, CommandsKeep, TripKeeps, WorkerKeeps, AgesKeeps
     DEF Next
<1>3. QED
  BY <1>1, <1>2

LEMMA RuntimeInvariant == Spec => []Inv
<1>1. Spec => Init /\ [][Next]_vars
  BY PTL DEF Spec
<1>2. Init => Inv
  BY InitHolds
<1>3. Inv /\ [Next]_vars => Inv'
  BY NextKeeps
<1>4. QED
  BY <1>1, <1>2, <1>3, PTL

-----------------------------------------------------------------------------
(* Old targets *)

\* The commands that leave something the first hold of enable() does not
\* replace: the pending slot and the trajectory.
Lasting == {"stream", "target", "trajectory"}
NoneLasting == left.inputs \cap Lasting = {}

\* The scenarios without the four ways an old target survives: enable() of a
\* PARTIALLY_ENABLED robot (power_state, power_batch), which takes commands all
\* the while; a batch that turns the last motor off; clear_faults() that times
\* out after another thread has enabled the robot again; recover() during a
\* trajectory.  None of them matters to a robot that is only told to hold a
\* position: the first hold of enable() replaces it.
TargetsDropped ==
  /\ left.ops \cap {"power_state", "power_batch", "clear_faults"} # {} => NoneLasting
  /\ "recover" \in left.ops => "trajectory" \notin left.inputs

Live(r) == r.trajectory \in {"RUNNING", "COMPLETED"}
Empty(r) == r.pending = "none" /\ ~Live(r)
Moving == {"ENABLED", "RUNNING", "DEGRADED"}
Idle == {"READY", "FAULT", "DISCONNECTED"}

\* Where an operation relies on the robot having been stopped.
StillPcs == {"c_feedback", "m_run", "m_ok", "m_latch", "m_again", "r_clear",
             "r_disable", "r_errors", "r_check", "r_ready", "r_rollback",
             "r_failed", "r_done"}

\* Nothing waits in a robot that does not move; recover() has yet to empty the
\* pending slot.  enable() begins without targets and takes none until it ends.
Waits(r, pc) ==
  /\ r.state \notin Moving => ~Live(r) /\ (r.pending = "none" \/ pc = "r_clear")
  /\ pc \in EnablePcs \ {"e_begin"} => Empty(r) /\ r.enable_transaction
  /\ pc \in {"d_motors", "d_end"} => ~Live(r)
  /\ pc \in StillPcs => r.state \in Idle

\* Where the operation is that holds lifecycle_mutex_.
Place == IF lifecycle = NoCaller THEN "idle" ELSE call[lifecycle].pc

Fresh ==
  /\ rt.old = {} /\ ~frame.old
  /\ "trajectory" \notin left.inputs => ~Live(rt)
  /\ NoneLasting => rt.pending = "none"
  /\ NoneLasting \/ (rt.state # "PARTIALLY_ENABLED" /\ Waits(rt, Place))

OldInv ==
  /\ \A c \in Callers : /\ call[c].op \in left.ops \cup {"none"}
                        /\ call[c].pc = "m_retry" => call[c].op = "clear_faults"
  /\ TargetsDropped => Fresh

\* What a step does to the targets when it gives none.
Drops(r, s) ==
  /\ r.old = {} => s.old = {}
  /\ Live(s) => Live(r)
  /\ s.pending # "none" => r.pending # "none"

Slots(r, s) ==
  /\ s.old = r.old /\ s.trajectory = r.trajectory /\ s.pending = r.pending
  /\ s.enable_transaction = r.enable_transaction

LEMMA ClearTargetsSlots ==
  ASSUME NEW r \in Runtimes
  PROVE  LET s == ClearTargets(r) IN
         /\ s \in Runtimes /\ Drops(r, s) /\ s.pending = "none"
         /\ s.trajectory = r.trajectory /\ s.state = r.state
         /\ s.enable_transaction = r.enable_transaction
<1>1. ClearTargets(r) \in Runtimes /\ Same(r, ClearTargets(r))
  BY ClearTargetsEffect
<1>2. QED
  BY <1>1 DEF ClearTargets, Runtimes, Drops, Live, Same

LEMMA TerminateSlots ==
  ASSUME NEW r \in Runtimes, NEW m \in {"CANCELLED", "FAULT"}
  PROVE  LET s == Terminate(r, m) IN
         /\ s \in Runtimes /\ Drops(r, s) /\ s.pending = r.pending
         /\ ~Live(s) /\ s.state = r.state
         /\ s.enable_transaction = r.enable_transaction
<1>1. Terminate(r, m) \in Runtimes /\ Same(r, Terminate(r, m))
  BY TerminateEffect DEF Motion
<1>2. CASE ~Live(r)
  BY <1>2 DEF Terminate, Live, Drops
<1>3. CASE Live(r)
  <2> DEFINE b == IF r.mailbox = "none" THEN r.mailbox ELSE "target"
  <2>1. Terminate(r, m) = [r EXCEPT !.trajectory = m,
                                    !.old = @ \ {"trajectory"}, !.mailbox = b]
    BY <1>3 DEF Terminate, Live
  <2> HIDE DEF b
  <2>2. QED
    BY <1>1, <2>1 DEF Runtimes, Live, Drops, Same
<1>4. QED
  BY <1>2, <1>3

LEMMA MarkOldSlots ==
  ASSUME NEW r \in Runtimes
  PROVE  LET s == MarkOld(r) IN
         /\ s \in Runtimes /\ s.pending = r.pending /\ s.trajectory = r.trajectory
         /\ s.state = r.state /\ s.enable_transaction = r.enable_transaction
         /\ s.old \subseteq {"mailbox", "pending", "trajectory"}
         /\ "pending" \in s.old => r.pending # "none"
         /\ "trajectory" \in s.old => Live(r)
<1> DEFINE o == {t \in Targets : \/ t = "mailbox" /\ r.mailbox # "none"
                                 \/ t = "pending" /\ r.pending # "none"
                                 \/ /\ t = "trajectory"
                                    /\ r.trajectory = "RUNNING"}
<1>1. MarkOld(r) = [r EXCEPT !.old = o] /\ MarkOld(r) \in Runtimes
  BY MarkOldEffect DEF MarkOld
<1>2. /\ o \subseteq {"mailbox", "pending", "trajectory"}
      /\ "pending" \in o => r.pending # "none"
      /\ "trajectory" \in o => Live(r)
  BY DEF Targets, Live
<1> HIDE DEF o
<1>3. QED
  BY <1>1, <1>2 DEF Runtimes

LEMMA InitializeEnabledSlots ==
  ASSUME NEW r \in Runtimes
  PROVE  Slots(r, InitializeEnabled(r))
<1>1. InitializeEnabled(r) \in Runtimes
  BY InitializeEnabledEffect
<1>2. QED
  BY <1>1 DEF InitializeEnabled, Runtimes, Slots

LEMMA SafeStopSlots ==
  ASSUME NEW r \in Runtimes
  PROVE  LET s == SafeStop(r) IN
         /\ Drops(r, s) /\ Empty(s) /\ s.state = "SAFE_STOP"
         /\ s.enable_transaction = r.enable_transaction
<1> DEFINE t == Terminate(r, "FAULT")
           q == ClearTargets(t)
<1>1. /\ t \in Runtimes /\ Drops(r, t) /\ ~Live(t)
      /\ t.enable_transaction = r.enable_transaction
  BY TerminateSlots
<1> HIDE DEF t
<1>2. /\ q \in Runtimes /\ Drops(t, q) /\ q.pending = "none"
      /\ q.trajectory = t.trajectory
      /\ q.enable_transaction = t.enable_transaction
  BY <1>1, ClearTargetsSlots
<1>3. SafeStop(r) = [q EXCEPT !.state = "SAFE_STOP", !.fault_latched = FALSE,
                              !.hold_failures = 0]
  BY DEF SafeStop, t
<1> HIDE DEF q
<1>4. SafeStop(r).old = q.old /\ SafeStop(r).trajectory = q.trajectory
      /\ SafeStop(r).pending = q.pending /\ SafeStop(r).state = "SAFE_STOP"
      /\ SafeStop(r).enable_transaction = q.enable_transaction
  BY <1>2, <1>3 DEF Runtimes
<1>5. QED
  BY <1>1, <1>2, <1>4 DEF Drops, Empty, Live

LEMMA EnterFaultSlots ==
  ASSUME NEW r \in Runtimes, NEW held \in BOOLEAN, r.state # "DISCONNECTED"
  PROVE  LET s == EnterFault(r, held) IN
         /\ Drops(r, s) /\ Empty(s) /\ s.state = "FAULT"
         /\ s.enable_transaction = r.enable_transaction
<1> DEFINE t == Terminate(r, "FAULT")
           q == ClearTargets(t)
           f == q.motor_fault \/ SomeFault(power)
<1>1. /\ t \in Runtimes /\ Drops(r, t) /\ ~Live(t)
      /\ t.enable_transaction = r.enable_transaction
  BY TerminateSlots
<1> HIDE DEF t
<1>2. /\ q \in Runtimes /\ Drops(t, q) /\ q.pending = "none"
      /\ q.trajectory = t.trajectory
      /\ q.enable_transaction = t.enable_transaction
  BY <1>1, ClearTargetsSlots
<1>3. EnterFault(r, held) =
        [q EXCEPT !.state = "FAULT", !.fault_latched = TRUE, !.motor_fault = f,
                  !.hardware_transition = FALSE, !.disable_confirmed = FALSE,
                  !.hold = held]
  BY DEF EnterFault, t
<1> HIDE DEF q, f
<1>4. EnterFault(r, held).old = q.old
      /\ EnterFault(r, held).trajectory = q.trajectory
      /\ EnterFault(r, held).pending = q.pending
      /\ EnterFault(r, held).state = "FAULT"
      /\ EnterFault(r, held).enable_transaction = q.enable_transaction
  BY <1>2, <1>3, ZenonT(60) DEF Runtimes
<1>5. QED
  BY <1>1, <1>2, <1>4 DEF Drops, Empty, Live

LEMMA InstalledSlots ==
  ASSUME NEW r \in Runtimes
  PROVE  LET s == Installed(r) IN
         /\ Drops(r, s) /\ Empty(s) /\ s.state = r.state
         /\ s.enable_transaction = r.enable_transaction
<1> DEFINE q == Terminate(r, "CANCELLED")
<1>1. /\ q \in Runtimes /\ Drops(r, q) /\ ~Live(q) /\ q.state = r.state
      /\ q.enable_transaction = r.enable_transaction
  BY TerminateSlots
<1>2. Installed(r) = [q EXCEPT !.pending = "none", !.mailbox = "target",
                        !.accepted = TRUE, !.planning = FALSE,
                        !.unsent = TRUE,
                        !.old = @ \ {"mailbox", "pending"}]
  BY DEF Installed
<1> HIDE DEF q
<1>3. Installed(r).old = q.old \ {"mailbox", "pending"}
      /\ Installed(r).trajectory = q.trajectory
      /\ Installed(r).pending = "none" /\ Installed(r).state = q.state
      /\ Installed(r).enable_transaction = q.enable_transaction
  BY <1>1, <1>2, ZenonT(60) DEF Runtimes
<1>4. QED
  BY <1>1, <1>3 DEF Drops, Empty, Live

LEMMA DisableResultSlots ==
  ASSUME NEW r \in Runtimes, NEW ok \in BOOLEAN, NEW keep \in BOOLEAN
  PROVE  LET s == DisableResult(r, ok, keep) IN
         /\ Drops(r, s) /\ s.pending = "none" /\ s.trajectory = r.trajectory
         /\ s.state \in {"READY", "FAULT"}
         /\ s.enable_transaction = r.enable_transaction
<1> DEFINE q == ClearTargets(r)
           d == IF ok THEN {} ELSE q.disabled
           t == IF ok /\ ~keep THEN "READY" ELSE "FAULT"
           l == IF ok THEN q.fault_latched \/ keep ELSE TRUE
           f == q.motor_fault \/ (~ok /\ SomeFault(power))
           s == DisableResult(r, ok, keep)
<1>1. /\ q \in Runtimes /\ Drops(r, q) /\ q.pending = "none"
      /\ q.trajectory = r.trajectory
      /\ q.enable_transaction = r.enable_transaction
  BY ClearTargetsSlots
<1>2. s = [q EXCEPT !.disable_confirmed = ok, !.hold = FALSE,
           !.has_command = FALSE, !.accepted = FALSE, !.enable_grace = FALSE,
           !.planning = FALSE, !.gripper = FALSE,
           !.hardware_transition = FALSE, !.disabled = d, !.state = t,
           !.fault_latched = l, !.motor_fault = f]
  BY DEF DisableResult
<1>3. t \in {"READY", "FAULT"}
  OBVIOUS
<1> HIDE DEF q, d, l, f, t, s
<1>4. s.old = q.old /\ s.trajectory = q.trajectory /\ s.pending = q.pending
      /\ s.state = t /\ s.enable_transaction = q.enable_transaction
  BY <1>1, <1>2, ZenonT(60) DEF Runtimes
<1>5. QED
  BY <1>1, <1>3, <1>4 DEF Drops, Live, s

LEMMA ConsumedSlots ==
  ASSUME NEW r \in Runtimes
  PROVE  LET s == Consumed(r) IN
         /\ Drops(r, s) /\ s.trajectory = r.trajectory /\ s.state = r.state
         /\ s.enable_transaction = r.enable_transaction
<1>0. Consumed(r) \in Runtimes /\ Same(r, Consumed(r))
  BY ConsumedEffect
<1>1. CASE r.trajectory = "RUNNING"
  <2> DEFINE o == (r.old \ {"mailbox"}) \cup
                    (IF "trajectory" \in r.old THEN {"mailbox"} ELSE {})
  <2>1. Consumed(r) = [r EXCEPT !.mailbox = "target", !.unsent = TRUE, !.old = o]
    BY <1>1 DEF Consumed
  <2>2. r.old = {} => o = {}
    OBVIOUS
  <2> HIDE DEF o
  <2>3. QED
    BY <1>0, <2>1, <2>2 DEF Runtimes, Drops, Live
<1>2. CASE r.trajectory # "RUNNING" /\ r.pending # "none"
  <2> DEFINE o == (r.old \ {"mailbox", "pending"}) \cup
                    (IF "pending" \in r.old THEN {"mailbox"} ELSE {})
             b == r.pending
  <2>1. Consumed(r) = [r EXCEPT !.mailbox = b, !.pending = "none",
               !.unsent = TRUE, !.old = o]
    BY <1>2 DEF Consumed
  <2>2. r.old = {} => o = {}
    OBVIOUS
  <2> HIDE DEF o, b
  <2>3. QED
    BY <1>0, <2>1, <2>2 DEF Runtimes, Drops, Live
<1>3. CASE r.trajectory # "RUNNING" /\ r.pending = "none"
  BY <1>3 DEF Consumed, Drops
<1>4. QED
  BY <1>1, <1>2, <1>3

LEMMA SentSlots ==
  ASSUME NEW r \in Runtimes
  PROVE  Sent(r).enable_transaction = r.enable_transaction
  BY DEF Sent, Runtimes

-----------------------------------------------------------------------------
(* Old targets: the worker and the commands *)

\* What those who do not hold lifecycle_mutex_ do to the targets.
Yields(r, s) ==
  /\ r.old = {} => s.old = {}
  /\ s.enable_transaction = r.enable_transaction
  /\ \/ s.state = r.state
     \/ r.state \in Moving /\ s.state \in Moving
     \/ s.state = "FAULT" /\ Empty(s)
     \/ s.state = "SAFE_STOP" /\ Empty(s) /\ r.state \notin Idle
  /\ Live(s) => Live(r) \/ (TakesCommands(r) /\ "trajectory" \in left.inputs)
  /\ s.pending # "none" => r.pending # "none" \/ (TakesCommands(r) /\ ~NoneLasting)

LEMMA OthersYield ==
  ASSUME Inv, OldInv, Yields(rt, rt'), call' = call, lifecycle' = lifecycle,
         left'.ops = left.ops, left'.inputs = left.inputs,
         rt.old = {} /\ ~frame.old => ~frame'.old
  PROVE  OldInv'
<1>1. Place' = Place /\ NoneLasting' = NoneLasting /\ TargetsDropped' = TargetsDropped
  BY DEF Place, NoneLasting, TargetsDropped
<1>2. ASSUME TargetsDropped
      PROVE  Fresh'
  <2>1. Fresh
    BY <1>2 DEF OldInv
  <2>2. /\ rt'.old = {} /\ ~frame'.old
        /\ "trajectory" \notin left'.inputs => ~Live(rt')
        /\ NoneLasting => rt'.pending = "none"
    BY <2>1 DEF Fresh, Yields
  <2>3. ASSUME ~NoneLasting
        PROVE  rt'.state # "PARTIALLY_ENABLED" /\ Waits(rt', Place)
    <3>1. rt.state # "PARTIALLY_ENABLED" /\ Waits(rt, Place)
      BY <2>1, <2>3 DEF Fresh
    <3>2. TakesCommands(rt) => rt.state \in Moving /\ ~rt.enable_transaction
                               /\ ~Silent(rt)
      BY <3>1 DEF TakesCommands, Active, Moving, Silent
    <3>3. Place \in {"d_motors", "d_end"} => Silent(rt)
      <4>1. CASE lifecycle = NoCaller
        BY <4>1 DEF Place
      <4>2. CASE lifecycle \in Callers
        <5>1. Local(rt, power, call[lifecycle]) /\ Place = call[lifecycle].pc
          BY <4>2, RuntimeAssumption DEF Inv, Place
        <5>2. QED
          BY <5>1 DEF Local, SilentPcs, FrozenAt
      <4>3. QED
        BY <4>1, <4>2 DEF Inv, Types
    <3>4. rt'.state # "PARTIALLY_ENABLED"
      BY <3>1 DEF Yields, Moving
    <3>5. rt'.state \notin Moving =>
            ~Live(rt') /\ (rt'.pending = "none" \/ Place = "r_clear")
      BY <3>1, <3>2 DEF Yields, Waits, Empty, Moving
    <3>6. Place \in EnablePcs \ {"e_begin"} => Empty(rt') /\ rt'.enable_transaction
      BY <3>1, <3>2 DEF Yields, Waits, Empty
    <3>7. Place \in {"d_motors", "d_end"} => ~Live(rt')
      BY <3>1, <3>2, <3>3 DEF Yields, Waits
    <3>8. Place \in StillPcs => rt'.state \in Idle
      BY <3>1 DEF Yields, Waits, Idle, Moving
    <3>9. QED
      BY <3>4, <3>5, <3>6, <3>7, <3>8 DEF Waits
  <2>4. QED
    BY <1>1, <2>2, <2>3 DEF Fresh
<1>3. QED
  BY <1>1, <1>2 DEF OldInv

LEMMA SlotsYield ==
  ASSUME NEW r, NEW s, Slots(r, s),
         s.state = r.state \/ (r.state \in Moving /\ s.state \in Moving)
  PROVE  Yields(r, s)
  BY DEF Slots, Yields, Live

LEMMA WorkerYields ==
  ASSUME Inv, Worker
  PROVE  Yields(rt, rt') /\ (rt.old = {} /\ ~frame.old => ~frame'.old)
<1>0. /\ rt \in Runtimes /\ \A n \in Nat : MoreLost(n) \in Nat /\ MoreFailed(n) \in Nat
      /\ rt.feedback_failures \in Nat /\ rt.send_failures \in Nat
      /\ rt.hold_failures \in Nat /\ worker \in WorkerTypes
      /\ rt.state \in States
  BY MoreType DEF Inv, Types, Runtimes, WorkerTypes
<1>1. CASE rt' = rt /\ frame' = frame
  BY <1>1 DEF Yields
<1>2. CASE DecideGrace
  BY <1>0, <1>2, SlotsYield DEF DecideGrace, Slots, Runtimes
<1>3. CASE WorkerReady
  <2>1. \/ rt' = rt
        \/ rt' = [rt EXCEPT !.feedback_failures = 0]
        \/ rt' = [rt EXCEPT !.feedback_failures = MoreLost(@)]
    BY <1>3 DEF WorkerReady, FreshFeedback
  <2>2. Slots(rt, rt') /\ rt'.state = rt.state
    BY <1>0, <2>1 DEF Slots, Runtimes
  <2>3. QED
    BY <1>3, <2>2, SlotsYield DEF WorkerReady
<1>4. CASE WorkerArm
  <2>1. (rt' = rt \/ rt' = Consumed(rt)) /\ frame' = frame
    BY <1>4 DEF WorkerArm
  <2>2. QED
    BY <1>0, <1>1, <2>1, ConsumedSlots DEF Yields, Drops, Live
<1>5. CASE WorkerSend
  <2>1. CASE rt' = [rt EXCEPT !.send_failures = MoreFailed(@)] /\ frame' = frame
    BY <1>0, <2>1, SlotsYield DEF Slots, Runtimes
  <2>2. CASE /\ \E t \in Completion(rt.trajectory) :
                  rt' = [Sent(rt) EXCEPT
                           !.trajectory = t,
                           !.old = IF t = "RUNNING" THEN @
                                   ELSE @ \ {"trajectory"}]
             /\ frame' = Frame(rt.mailbox \notin {"none", "hold"},
                               "mailbox" \in rt.old)
    <3> DEFINE q == Sent(rt)
    <3>1. PICK t \in Completion(rt.trajectory) :
                 rt' = [q EXCEPT !.trajectory = t,
                          !.old = IF t = "RUNNING" THEN @ ELSE @ \ {"trajectory"}]
      BY <2>2
    <3>2. /\ q \in Runtimes /\ q.pending = rt.pending /\ q.old = rt.old
          /\ q.enable_transaction = rt.enable_transaction
          /\ \/ q.state = rt.state
             \/ rt.state = "ENABLED" /\ q.state = "RUNNING"
      BY <1>0, SentEffect, SentSlots DEF SameTargets
    <3> HIDE DEF q
    <3>3. rt'.trajectory = t /\ rt'.pending = q.pending /\ rt'.state = q.state
          /\ rt'.enable_transaction = q.enable_transaction
          /\ rt'.old \in {q.old, q.old \ {"trajectory"}}
      BY <3>1, <3>2 DEF Runtimes
    <3>4. t \in {"RUNNING", "COMPLETED"} => Live(rt)
      BY DEF Completion, Live
    <3>5. Yields(rt, rt')
      BY <3>2, <3>3, <3>4 DEF Yields, Live, Moving
    <3>6. rt.old = {} => ~frame'.old
      BY <2>2 DEF Frame
    <3>7. QED
      BY <3>5, <3>6
  <2>3. QED
    BY <1>5, <2>1, <2>2 DEF WorkerSend
<1>6. CASE WorkerFailed
  <2>1. (rt' = rt \/ rt' = Terminate(rt, "FAULT")) /\ frame' = frame
    BY <1>6 DEF WorkerFailed
  <2>2. QED
    BY <1>0, <1>1, <2>1, TerminateSlots DEF Yields, Drops
<1>7. CASE WorkerFeedback \/ WorkerVerdict
  <2>1. /\ \/ rt' = rt
           \/ rt' = [rt EXCEPT !.feedback_failures = 0]
           \/ rt' = [rt EXCEPT !.motor_fault = @ \/ SomeFault(power)]
           \/ rt' = [rt EXCEPT !.feedback_failures = MoreLost(rt.feedback_failures)]
        /\ frame' = frame
    BY <1>7 DEF WorkerFeedback, WorkerVerdict
  <2>2. Slots(rt, rt') /\ rt'.state = rt.state
    BY <1>0, <2>1 DEF Slots, Runtimes
  <2>3. QED
    BY <2>1, <2>2, SlotsYield
<1>8. CASE WorkerDegrade
  <2>1. /\ rt' = [rt EXCEPT !.state = IF @ = "RUNNING" THEN "DEGRADED" ELSE @]
        /\ frame' = frame
    BY <1>8 DEF WorkerDegrade
  <2>2. /\ Slots(rt, rt')
        /\ rt'.state = rt.state \/ (rt.state \in Moving /\ rt'.state \in Moving)
    BY <1>0, <2>1 DEF Slots, Runtimes, Moving
  <2>3. QED
    BY <2>1, <2>2, SlotsYield
<1>9. CASE WorkerGripper
  <2>1. /\ \/ rt' = rt
           \/ rt' = [rt EXCEPT !.gripper = FALSE, !.has_command = TRUE,
                         !.recent = @ \/ ~rt.has_command,
                         !.state = IF @ = "ENABLED" THEN "RUNNING" ELSE @]
           \/ rt' = [rt EXCEPT !.send_failures = MoreFailed(@)]
        /\ frame' = frame
    BY <1>9 DEF WorkerGripper
  <2>2. /\ Slots(rt, rt')
        /\ rt'.state = rt.state \/ (rt.state \in Moving /\ rt'.state \in Moving)
    BY <1>0, <2>1 DEF Slots, Runtimes, Moving
  <2>3. QED
    BY <2>1, <2>2, SlotsYield
<1>10. CASE WorkerHold
  <2>1. /\ \/ rt' = [rt EXCEPT !.hold_failures = 0]
           \/ rt' = [rt EXCEPT !.hold_failures = MoreFailed(@), !.send_failures = MoreFailed(@)]
        /\ frame' = frame \/ frame' = Frame(FALSE, FALSE)
    BY <1>10 DEF WorkerHold
  <2>2. Slots(rt, rt') /\ rt'.state = rt.state
    BY <1>0, <2>1 DEF Slots, Runtimes
  <2>3. QED
    BY <2>1, <2>2, SlotsYield DEF Frame
<1>11. CASE WorkerStop \/ WorkerFault
  <2>1. (\E held \in BOOLEAN : rt' = [rt EXCEPT !.hold = held]) /\ frame' = frame
    BY <1>11 DEF WorkerStop, WorkerFault
  <2>2. Slots(rt, rt') /\ rt'.state = rt.state
    BY <1>0, <2>1 DEF Slots, Runtimes
  <2>3. QED
    BY <2>1, <2>2, SlotsYield
<1>12. CASE WorkerStopped
  <2>1. /\ \/ rt' = rt
           \/ rt.state \notin Idle /\ rt' = SafeStop(rt)
        /\ frame' = frame
    BY <1>12 DEF WorkerStopped, Idle
  <2>2. QED
    BY <1>0, <1>1, <2>1, SafeStopSlots DEF Yields, Drops
<1>13. CASE WorkerFaulted
  <2>1. /\ rt' = EnterFault(rt, worker.severe) /\ frame' = frame
        /\ worker.severe \in BOOLEAN
    BY <1>0, <1>13 DEF WorkerFaulted, WorkerTypes
  <2>2. CASE rt.state = "DISCONNECTED"
    BY <1>1, <2>1, <2>2 DEF EnterFault
  <2>3. CASE rt.state # "DISCONNECTED"
    BY <1>0, <2>1, <2>3, EnterFaultSlots DEF Yields, Drops
  <2>4. QED
    BY <2>2, <2>3
<1>14. CASE WorkerTop \/ DecideTimeout \/ DecideWork
  BY <1>1, <1>14 DEF WorkerTop, DecideTimeout, DecideWork
<1>15. QED
  BY <1>2, <1>3, <1>4, <1>5, <1>6, <1>7, <1>8, <1>9, <1>10, <1>11, <1>12, <1>13,
     <1>14 DEF Worker

LEMMA WorkerOld ==
  ASSUME Inv, OldInv, Worker
  PROVE  OldInv'
<1>1. call' = call /\ lifecycle' = lifecycle /\ left' = left
  BY DEF Worker, WorkerTop, DecideGrace, DecideTimeout, DecideWork, WorkerReady,
       WorkerArm, WorkerSend, WorkerFailed, WorkerFeedback, WorkerVerdict,
       WorkerDegrade, WorkerGripper, WorkerHold, WorkerStop, WorkerStopped,
       WorkerFault, WorkerFaulted, ByWorker
<1>2. QED
  BY <1>1, WorkerYields, OthersYield

LEMMA CommandsOld ==
  ASSUME Inv, OldInv, Commands
  PROVE  OldInv'
<1>0. rt \in Runtimes /\ left \in Scenario
  BY DEF Inv, Types
<1>1. UNCHANGED <<lifecycle, call, frame>>
  BY DEF Commands, Submit, Install, StartTrajectory, PlanBegin, PlanEnd, Cancel,
       GripperCommand, Command
<1>2. left'.ops = left.ops /\ left'.inputs = left.inputs
  <2>1. left' = left \/ left' = [left EXCEPT !.commands = @ - 1]
    BY DEF Commands, Submit, Install, StartTrajectory, PlanBegin, PlanEnd, Cancel,
         GripperCommand, Command
  <2>2. QED
    BY <1>0, <2>1 DEF Scenario
<1>3. Yields(rt, rt')
  <2>1. ASSUME NEW m \in {"stream", "target"}, Submit(m)
        PROVE  Yields(rt, rt')
    <3>1. /\ rt' = [rt EXCEPT !.pending = m, !.old = @ \ {"pending"}]
          /\ TakesCommands(rt) /\ ~NoneLasting
      BY <2>1 DEF Submit, Command, InstallAllowed, NoneLasting, Lasting
    <3>2. /\ rt'.old = rt.old \ {"pending"} /\ rt'.trajectory = rt.trajectory
          /\ rt'.state = rt.state
          /\ rt'.enable_transaction = rt.enable_transaction
      BY <1>0, <3>1 DEF Runtimes
    <3>3. QED
      BY <3>1, <3>2 DEF Yields, Live
  <2>2. CASE Install
    BY <1>0, <2>2, InstalledSlots DEF Install, Command, Yields, Drops
  <2>3. CASE StartTrajectory
    <3> DEFINE q == ClearTargets(rt)
    <3>1. /\ q \in Runtimes /\ q.pending = "none" /\ q.state = rt.state
          /\ q.enable_transaction = rt.enable_transaction
      BY <1>0, ClearTargetsSlots
    <3>2. /\ rt' = [q EXCEPT !.trajectory = "RUNNING", !.old = {}]
          /\ TakesCommands(rt) /\ "trajectory" \in left.inputs
      BY <2>3 DEF StartTrajectory, Command, InstallAllowed
    <3> HIDE DEF q
    <3>3. /\ rt'.old = {} /\ rt'.pending = q.pending /\ rt'.state = q.state
          /\ rt'.enable_transaction = q.enable_transaction
      BY <3>1, <3>2 DEF Runtimes
    <3>4. QED
      BY <3>1, <3>2, <3>3 DEF Yields
  <2>4. CASE PlanBegin \/ GripperCommand
    <3>1. \/ rt' = [rt EXCEPT !.planning = TRUE]
          \/ rt' = [rt EXCEPT !.gripper = TRUE]
      BY <2>4 DEF PlanBegin, GripperCommand, Command
    <3>2. Slots(rt, rt') /\ rt'.state = rt.state
      BY <1>0, <3>1 DEF Runtimes, Slots
    <3>3. QED
      BY <3>2, SlotsYield
  <2>5. CASE PlanEnd
    <3> DEFINE q == [rt EXCEPT !.planning = FALSE]
    <3>1. q \in Runtimes /\ Slots(rt, q) /\ q.state = rt.state
      BY <1>0 DEF Runtimes, Slots
    <3>2. rt' = q \/ rt' = Installed(q)
      BY <2>5 DEF PlanEnd
    <3> HIDE DEF q
    <3>3. CASE rt' = q
      BY <3>1, <3>3, SlotsYield
    <3>4. CASE rt' = Installed(q)
      BY <3>1, <3>4, InstalledSlots DEF Yields, Drops, Slots, Empty
    <3>5. QED
      BY <3>2, <3>3, <3>4
  <2>6. CASE Cancel
    BY <1>0, <2>6, TerminateSlots DEF Cancel, Command, Yields, Drops
  <2>7. QED
    BY <2>1, <2>2, <2>3, <2>4, <2>5, <2>6 DEF Commands
<1>4. QED
  BY <1>1, <1>2, <1>3, OthersYield

LEMMA TripOld ==
  ASSUME Inv, OldInv, NEW m \in Present, Trip(m)
  PROVE  OldInv'
<1>1. /\ UNCHANGED <<rt, lifecycle, call, frame>>
      /\ left' = [left EXCEPT !.trips = @ - 1] /\ left \in Scenario
  BY DEF Trip, Inv, Types
<1>2. left'.ops = left.ops /\ left'.inputs = left.inputs /\ Yields(rt, rt')
  BY <1>1 DEF Scenario, Yields
<1>3. QED
  BY <1>1, <1>2, OthersYield

LEMMA AgesOld ==
  ASSUME Inv, OldInv, CommandAges
  PROVE  OldInv'
<1>1. rt \in Runtimes
  BY DEF Inv, Types
<1>2. rt' = [rt EXCEPT !.recent = FALSE] /\ UNCHANGED <<lifecycle, call, frame, left>>
  BY DEF CommandAges
<1>3. Slots(rt, rt') /\ rt'.state = rt.state
  BY <1>1, <1>2 DEF Slots, Runtimes
<1>4. Yields(rt, rt')
  BY <1>3, SlotsYield
<1>5. QED
  BY <1>2, <1>4, OthersYield

-----------------------------------------------------------------------------
(* Old targets: the operations *)

\* The operation of c goes on at pc, or returns.
Turns(c, pc) ==
  /\ \A d \in Callers \ {c} : call'[d] = call[d]
  /\ call'[c].pc = pc
  /\ lifecycle' = IF pc \in {"idle", "m_retry"} THEN NoCaller ELSE c
  /\ IF pc = "idle" THEN call'[c].op = "none" ELSE call'[c].op = call[c].op
  /\ pc = "m_retry" => call[c].op = "clear_faults"

\* What the operation does to a robot with lasting commands.
Passes(r, pc, s, next) ==
  r.state # "PARTIALLY_ENABLED" /\ Waits(r, pc) =>
    s.state # "PARTIALLY_ENABLED" /\ Waits(s, next)

LEMMA AtPlace ==
  ASSUME Inv, OldInv, NEW c \in Callers, call[c].pc \notin {"idle", "m_retry"}
  PROVE  /\ Place = call[c].pc /\ lifecycle = c /\ rt \in Runtimes
         /\ call \in [Callers -> Calls] /\ PcOf(call[c])
         /\ call[c].op \in left.ops
         /\ TargetsDropped => Fresh
<1>1. /\ lifecycle = c /\ rt \in Runtimes /\ call \in [Callers -> Calls]
      /\ PcOf(call[c])
  BY OwnerFacts DEF Inv, Types
<1>2. call[c].op # "none"
  BY <1>1 DEF PcOf, Maintenance
<1>3. c # NoCaller
  BY RuntimeAssumption
<1>4. Place = call[c].pc
  BY <1>1, <1>3 DEF Place
<1>5. call[c].op \in left.ops /\ (TargetsDropped => Fresh)
  BY <1>2 DEF OldInv
<1>6. QED
  BY <1>1, <1>4, <1>5

LEMMA OwnerOld ==
  ASSUME Inv, OldInv, NEW c \in Callers, call[c].pc \notin {"idle", "m_retry"},
         left' = left, NEW pc, Turns(c, pc),
         Live(rt') => Live(rt), rt'.pending # "none" => rt.pending # "none",
         TargetsDropped => rt'.old = {} /\ ~frame'.old,
         TargetsDropped /\ ~NoneLasting => Passes(rt, call[c].pc, rt', pc)
  PROVE  OldInv'
<1>0. /\ Place = call[c].pc /\ lifecycle = c /\ call[c].op \in left.ops
      /\ TargetsDropped => Fresh
  BY AtPlace
<1>1. NoneLasting' = NoneLasting /\ TargetsDropped' = TargetsDropped
  BY DEF NoneLasting, TargetsDropped
<1>2. \A d \in Callers : /\ call'[d].op \in left'.ops \cup {"none"}
                         /\ call'[d].pc = "m_retry" => call'[d].op = "clear_faults"
  <2>1. /\ call'[c].op \in left'.ops \cup {"none"}
        /\ call'[c].pc = "m_retry" => call'[c].op = "clear_faults"
    BY <1>0 DEF Turns
  <2>2. QED
    BY <2>1 DEF Turns, OldInv
<1>3. Waits(rt', pc) => Waits(rt', Place')
  <2>1. Place' = pc \/ (pc = "m_retry" /\ Place' = "idle")
    BY RuntimeAssumption DEF Place, Turns
  <2>2. QED
    BY <2>1 DEF Waits, EnablePcs, StillPcs
<1>4. ASSUME TargetsDropped
      PROVE  Fresh'
  BY <1>0, <1>1, <1>3, <1>4 DEF Fresh, Passes
<1>5. QED
  BY <1>1, <1>2, <1>4 DEF OldInv

\* Operations that only take place without lasting commands.
LEMMA PlainOld ==
  ASSUME OldInv, left'.ops = left.ops, left'.inputs = left.inputs,
         Drops(rt, rt'), frame' = frame, TargetsDropped => NoneLasting,
         \A d \in Callers : /\ call'[d].op \in left.ops \cup {"none"}
                            /\ call'[d].pc = "m_retry" => call'[d].op = "clear_faults"
  PROVE  OldInv'
<1>1. NoneLasting' = NoneLasting /\ TargetsDropped' = TargetsDropped
  BY DEF NoneLasting, TargetsDropped
<1>2. ASSUME TargetsDropped
      PROVE  Fresh'
  <2>1. Fresh
    BY <1>2 DEF OldInv
  <2>2. QED
    BY <1>1, <1>2, <2>1 DEF Fresh, Drops
<1>3. QED
  BY <1>1, <1>2 DEF OldInv

\* A step that leaves targets and frame alone.
LEMMA SlotsOld ==
  ASSUME Inv, OldInv, NEW c \in Callers, call[c].pc \notin {"idle", "m_retry"},
         left' = left, frame' = frame, NEW pc, Turns(c, pc),
         Slots(rt, rt'), Passes(rt, call[c].pc, rt', pc)
  PROVE  OldInv'
<1>1. TargetsDropped => rt'.old = {} /\ ~frame'.old
  BY DEF OldInv, Fresh, Slots
<1>2. QED
  BY <1>1, OwnerOld DEF Slots, Live

LEMMA GoTurns ==
  ASSUME Inv, NEW c \in Callers, call[c].pc \notin {"idle", "m_retry"},
         NEW pc, pc \notin {"idle", "m_retry"}, Go(c, pc)
  PROVE  Turns(c, pc)
<1>1. call \in [Callers -> Calls] /\ lifecycle = c
  BY OwnerFacts DEF Inv, Types
<1>2. call' = [call EXCEPT ![c] = [call[c] EXCEPT !.pc = pc]] /\ lifecycle' = c
  BY <1>1 DEF Go
<1>3. call'[c].pc = pc /\ call'[c].op = call[c].op
  BY <1>1, <1>2 DEF Calls
<1>4. QED
  BY <1>1, <1>2, <1>3 DEF Turns

LEMMA ReturnTurns ==
  ASSUME Inv, NEW c \in Callers, Return(c)
  PROVE  Turns(c, "idle")
<1>1. call \in [Callers -> Calls]
  BY DEF Inv, Types
<1>2. QED
  BY <1>1 DEF Return, Turns

LEMMA SetsTurns ==
  ASSUME Inv, NEW c \in Callers, call[c].pc \notin {"idle", "m_retry"},
         NEW pc, pc \notin {"idle", "m_retry"}, lifecycle' = lifecycle,
         NEW f, NEW o,
         \/ call' = [call EXCEPT ![c].pc = pc, ![c].flag = f]
         \/ call' = [call EXCEPT ![c].pc = pc, ![c].ok = o]
         \/ call' = [call EXCEPT ![c].pc = pc, ![c].ok = o, ![c].flag = f]
  PROVE  Turns(c, pc)
<1>1. call \in [Callers -> Calls] /\ lifecycle = c
  BY OwnerFacts DEF Inv, Types
<1> DEFINE k == call[c]
<1>2. \/ call' = [call EXCEPT ![c] = [k EXCEPT !.pc = pc, !.flag = f]]
      \/ call' = [call EXCEPT ![c] = [k EXCEPT !.pc = pc, !.ok = o]]
      \/ call' = [call EXCEPT ![c] = [k EXCEPT !.pc = pc, !.ok = o, !.flag = f]]
  BY <1>1
<1>3. k \in Calls
  BY <1>1
<1> HIDE DEF k
<1>4. \/ call'[c] = [k EXCEPT !.pc = pc, !.flag = f]
      \/ call'[c] = [k EXCEPT !.pc = pc, !.ok = o]
      \/ call'[c] = [k EXCEPT !.pc = pc, !.ok = o, !.flag = f]
  BY <1>1, <1>2
<1>5. call'[c].pc = pc /\ call'[c].op = k.op
  BY <1>3, <1>4 DEF Calls
<1>6. \A d \in Callers \ {c} : call'[d] = call[d]
  BY <1>1, <1>2
<1>7. QED
  BY <1>1, <1>5, <1>6 DEF Turns, k

FinishPcs == {"idle", "x_stop", "r_fail", "r_freeze", "r_zero", "r_done"}

LEMMA FinishTurns ==
  ASSUME Inv, NEW c \in Callers, call[c].pc \notin {"idle", "m_retry"},
         NEW op, NEW ok, Finish(c, op, ok)
  PROVE  \E pc \in FinishPcs :
           Turns(c, pc) /\ (pc = "r_done" => op \notin {"connect", "enable"})
<1>1. CASE call[c].op = op
  <2>1. Turns(c, "idle")
    BY <1>1, ReturnTurns DEF Finish
  <2>2. QED
    BY <2>1 DEF FinishPcs
<1>2. CASE call[c].op # op
  <2> DEFINE pc == IF call[c].op = "close" THEN "x_stop"
                   ELSE IF ~ok THEN "r_fail"
                   ELSE CASE op = "connect" -> "r_freeze"
                          [] op = "enable"  -> "r_zero"
                          [] OTHER          -> "r_done"
  <2>1. Go(c, pc)
    BY <1>2 DEF Finish, Go
  <2>2. pc \in FinishPcs \ {"idle"} /\ (pc = "r_done" => op \notin {"connect", "enable"})
    BY DEF FinishPcs
  <2> HIDE DEF pc
  <2>3. Turns(c, pc)
    BY <2>1, <2>2, GoTurns DEF FinishPcs
  <2>4. QED
    BY <2>2, <2>3
<1>3. QED
  BY <1>1, <1>2

\* connect(), enable() or disable() is over: what a robot that does not move
\* keeps is all the rest relies on.
LEMMA FinishOld ==
  ASSUME Inv, OldInv, NEW c \in Callers, call[c].pc \notin {"idle", "m_retry"},
         left' = left, frame' = frame, NEW op \in {"connect", "enable", "disable"},
         NEW ok, Finish(c, op, ok), Drops(rt, rt'),
         rt.state # "PARTIALLY_ENABLED" /\ Waits(rt, call[c].pc) =>
           /\ rt'.state # "PARTIALLY_ENABLED"
           /\ rt'.state \notin Moving => Empty(rt')
           /\ op = "disable" => rt'.state \in Idle
  PROVE  OldInv'
<1>1. PICK pc \in FinishPcs :
             Turns(c, pc) /\ (pc = "r_done" => op \notin {"connect", "enable"})
  BY FinishTurns
<1>2. pc \notin EnablePcs \cup {"d_motors", "d_end"} /\ (pc \in StillPcs => pc = "r_done")
  BY DEF FinishPcs, EnablePcs, StillPcs
<1>3. Passes(rt, call[c].pc, rt', pc)
  BY <1>1, <1>2 DEF Passes, Waits, Empty
<1>4. TargetsDropped => rt'.old = {} /\ ~frame'.old
  BY DEF OldInv, Fresh, Drops
<1>5. QED
  BY <1>1, <1>3, <1>4, OwnerOld DEF Drops

LEMMA ConnectOld ==
  ASSUME Inv, OldInv, NEW c \in Callers,
         ConnectBegin(c) \/ ConnectFails(c) \/ Connected(c)
  PROVE  OldInv'
<1>0. /\ call[c].pc \in {"c_begin", "c_feedback"} /\ rt \in Runtimes
      /\ left' = left /\ frame' = frame
  BY DEF ConnectBegin, ConnectFails, Connected, At, Others, Inv, Types
<1>1. CASE ConnectBegin(c)
  <2>0. call[c].pc = "c_begin"
    BY <1>1 DEF ConnectBegin, At
  <2>1. CASE \E f \in BOOLEAN : rt' = [rt EXCEPT !.motor_fault = f]
             /\ Finish(c, "connect", ~rt.stopping)
    <3>1. Slots(rt, rt') /\ rt'.state = rt.state
      BY <1>0, <2>1 DEF Runtimes, Slots
    <3>2. Drops(rt, rt')
      BY <3>1 DEF Slots, Drops, Live
    <3>3. rt.state # "PARTIALLY_ENABLED" /\ Waits(rt, call[c].pc) =>
            /\ rt'.state # "PARTIALLY_ENABLED"
            /\ rt'.state \notin Moving => Empty(rt')
      BY <2>0, <3>1 DEF Waits, Slots, Empty, Live
    <3>4. QED
      BY <1>0, <2>0, <2>1, <3>2, <3>3, FinishOld
  <2>2. CASE /\ rt' = [rt EXCEPT !.hardware_transition = TRUE]
             /\ call' = [call EXCEPT ![c].pc = "c_feedback",
                                     ![c].flag = rt.state = "FAULT"]
             /\ lifecycle' = lifecycle /\ rt.state \in {"DISCONNECTED", "FAULT"}
    <3>1. Slots(rt, rt') /\ rt'.state = rt.state
      BY <1>0, <2>2 DEF Runtimes, Slots
    <3>2. Turns(c, "c_feedback")
      BY <2>0, <2>2, SetsTurns
    <3>3. Passes(rt, call[c].pc, rt', "c_feedback")
      BY <2>0, <2>2, <3>1
         DEF Passes, Waits, Slots, Live, EnablePcs, StillPcs, Idle
    <3>4. QED
      BY <1>0, <2>0, <3>1, <3>2, <3>3, SlotsOld
  <2>3. QED
    BY <1>1, <2>1, <2>2 DEF ConnectBegin
<1>2. CASE ConnectFails(c)
  <2>0. call[c].pc = "c_feedback" /\ Finish(c, "connect", FALSE)
        /\ rt' = [rt EXCEPT !.hardware_transition = FALSE]
    BY <1>2 DEF ConnectFails, At
  <2>1. Slots(rt, rt') /\ rt'.state = rt.state
    BY <1>0, <2>0 DEF Runtimes, Slots
  <2>2. Drops(rt, rt')
    BY <2>1 DEF Slots, Drops, Live
  <2>3. rt.state # "PARTIALLY_ENABLED" /\ Waits(rt, call[c].pc) =>
          /\ rt'.state # "PARTIALLY_ENABLED"
          /\ rt'.state \notin Moving => Empty(rt')
    BY <2>0, <2>1 DEF Waits, Slots, Empty, Live
  <2>4. QED
    BY <1>0, <2>0, <2>2, <2>3, FinishOld
<1>3. CASE Connected(c)
  <2>0. call[c].pc = "c_feedback" /\ \E ok : Finish(c, "connect", ok)
    BY <1>3 DEF Connected, At
  <2> DEFINE q == FreshFeedback(rt)
             l == rt.estop \/ rt.motor_fault \/ SomeFault(power)
             f == q.motor_fault \/ SomeFault(power)
             t == IF l THEN "FAULT" ELSE "READY"
             a == AllOff(power)
  <2>1. \/ rt' = [q EXCEPT !.disable_confirmed = FALSE,
                           !.hardware_transition = FALSE]
        \/ rt' = [q EXCEPT !.motor_fault = f, !.state = t, !.fault_latched = l,
                           !.disable_confirmed = a, !.hardware_transition = FALSE]
    BY <1>3 DEF Connected
  <2>2. q \in Runtimes /\ Slots(rt, q) /\ q.state = rt.state
    BY <1>0, FreshFeedbackEffect DEF FreshFeedback, Runtimes, Slots
  <2>3. t \in Idle
    BY DEF Idle
  <2> HIDE DEF q, l, f, t, a
  <2>4. Slots(q, rt') /\ rt'.state \in {q.state, t}
    BY <2>1, <2>2 DEF Runtimes, Slots
  <2>5. Drops(rt, rt')
    BY <2>2, <2>4 DEF Slots, Drops, Live
  <2>6. rt.state # "PARTIALLY_ENABLED" /\ Waits(rt, call[c].pc) =>
          /\ rt'.state # "PARTIALLY_ENABLED"
          /\ rt'.state \notin Moving => Empty(rt')
    BY <2>0, <2>2, <2>3, <2>4 DEF Waits, Slots, Empty, Live, StillPcs, Idle, Moving
  <2>7. QED
    BY <1>0, <2>0, <2>5, <2>6, FinishOld
<1>4. QED
  BY <1>1, <1>2, <1>3

LEMMA EnableOld ==
  ASSUME Inv, OldInv, NEW c \in Callers, Enable(c)
  PROVE  OldInv'
<1>0. /\ call[c].pc \in EnablePcs /\ call[c].pc \notin {"idle", "m_retry"}
      /\ left' = left /\ rt \in Runtimes
  BY DEF Enable, EnableBegin, EnableSeed, EnableAll, EnableState, EnableHold,
       EnableConfirm, EnableFault, EnableRollback, EnableEnd, At, EnablePcs,
       Others, Inv, Types
<1>a. /\ TargetsDropped => Fresh
      /\ TargetsDropped => Waits(rt, call[c].pc) \/ NoneLasting
  BY <1>0, AtPlace DEF Fresh
<1>1. CASE EnableBegin(c)
  <2>0. call[c].pc = "e_begin" /\ frame' = frame
    BY <1>1 DEF EnableBegin, At, Others
  <2>1. CASE rt' = rt /\ Finish(c, "enable", FALSE)
    <3>1. Drops(rt, rt')
      BY <2>1 DEF Drops
    <3>2. rt.state # "PARTIALLY_ENABLED" /\ Waits(rt, call[c].pc) =>
            /\ rt'.state # "PARTIALLY_ENABLED"
            /\ rt'.state \notin Moving => Empty(rt')
      BY <2>0, <2>1 DEF Waits, Empty
    <3>3. QED
      BY <1>0, <2>0, <2>1, <3>1, <3>2, FinishOld
  <2>2. CASE /\ rt.state \in {"READY", "PARTIALLY_ENABLED"} /\ Go(c, "e_seed")
             /\ rt' = [rt EXCEPT !.hardware_transition = TRUE,
                                 !.enable_transaction = TRUE]
    <3>1. /\ rt'.old = rt.old /\ rt'.pending = rt.pending /\ rt'.enable_transaction
          /\ rt'.trajectory = rt.trajectory /\ rt'.state = rt.state
      BY <1>0, <2>2 DEF Runtimes
    <3>2. Turns(c, "e_seed")
      BY <1>0, <2>2, GoTurns
    <3>3. Passes(rt, call[c].pc, rt', "e_seed")
      BY <2>0, <2>2, <3>1 DEF Passes, Waits, Empty, Live, Moving, EnablePcs, StillPcs
    <3>4. TargetsDropped => rt'.old = {} /\ ~frame'.old
      BY <1>a, <2>0, <3>1 DEF Fresh
    <3>5. QED
      BY <1>0, <3>1, <3>2, <3>3, <3>4, OwnerOld DEF Live
  <2>3. QED
    BY <1>1, <2>1, <2>2 DEF EnableBegin
<1>2. CASE EnableSeed(c)
  <2>0. call[c].pc = "e_seed" /\ frame' = frame
    BY <1>2 DEF EnableSeed, At, Others
  <2>1. CASE rt' = rt /\ Go(c, "e_fail")
    <3>1. Turns(c, "e_fail")
      BY <1>0, <2>1, GoTurns
    <3>2. Passes(rt, call[c].pc, rt', "e_fail")
      BY <2>0, <2>1 DEF Passes, Waits, EnablePcs, StillPcs
    <3>3. QED
      BY <1>0, <2>0, <2>1, <3>1, <3>2, SlotsOld DEF Slots
  <2>2. CASE /\ rt' = [MarkOld(rt) EXCEPT !.mailbox = "hold", !.unsent = TRUE,
                                          !.old = @ \ {"mailbox"}]
             /\ Go(c, "e_power")
    <3> DEFINE q == MarkOld(rt)
    <3>1. /\ q \in Runtimes /\ q.pending = rt.pending
          /\ q.trajectory = rt.trajectory /\ q.state = rt.state
          /\ q.enable_transaction = rt.enable_transaction
          /\ q.old \subseteq {"mailbox", "pending", "trajectory"}
          /\ "pending" \in q.old => rt.pending # "none"
          /\ "trajectory" \in q.old => Live(rt)
      BY <1>0, MarkOldSlots
    <3>2. rt' = [q EXCEPT !.mailbox = "hold", !.unsent = TRUE, !.old = @ \ {"mailbox"}]
      BY <2>2
    <3> HIDE DEF q
    <3>3. /\ rt'.old = q.old \ {"mailbox"} /\ rt'.pending = rt.pending
          /\ rt'.trajectory = rt.trajectory /\ rt'.state = rt.state
          /\ rt'.enable_transaction = rt.enable_transaction
      BY <3>1, <3>2 DEF Runtimes
    <3>4. Turns(c, "e_power")
      BY <1>0, <2>2, GoTurns
    <3>5. Passes(rt, call[c].pc, rt', "e_power")
      BY <2>0, <3>3 DEF Passes, Waits, Empty, Live, EnablePcs, StillPcs
    <3>6. TargetsDropped => Empty(rt)
      <4>1. Waits(rt, call[c].pc) => Empty(rt)
        BY <2>0 DEF Waits, EnablePcs
      <4>2. TargetsDropped /\ NoneLasting => Empty(rt)
        BY <1>a DEF Fresh, Empty, NoneLasting, Lasting
      <4>3. QED
        BY <1>a, <4>1, <4>2
    <3>7. TargetsDropped => rt'.old = {} /\ ~frame'.old
      BY <1>a, <2>0, <3>1, <3>3, <3>6 DEF Fresh, Empty
    <3>8. QED
      BY <1>0, <3>3, <3>4, <3>5, <3>7, OwnerOld DEF Live
  <2>3. QED
    BY <1>2, <2>1, <2>2 DEF EnableSeed
<1>3. CASE EnableAll(c)
  <2>0. call[c].pc = "e_power" /\ frame' = frame /\ rt' = rt
    BY <1>3 DEF EnableAll, At
  <2>1. PICK pc \in {"e_state", "e_fail"} : Go(c, pc)
    BY <1>3 DEF EnableAll
  <2>2. Turns(c, pc)
    BY <1>0, <2>1, GoTurns
  <2>3. Passes(rt, call[c].pc, rt', pc)
    BY <2>0 DEF Passes, Waits, EnablePcs, StillPcs
  <2>4. QED
    BY <1>0, <2>0, <2>2, <2>3, SlotsOld DEF Slots
<1>4. CASE EnableState(c)
  <2>0. call[c].pc = "e_state" /\ frame' = frame /\ rt' = InitializeEnabled(rt)
        /\ Go(c, "e_hold")
    BY <1>4 DEF EnableState, At, Others
  <2>1. Slots(rt, rt') /\ rt'.state = "ENABLED"
    BY <1>0, <2>0, InitializeEnabledSlots, InitializeEnabledEffect
  <2>2. Turns(c, "e_hold")
    BY <1>0, <2>0, GoTurns
  <2>3. Passes(rt, call[c].pc, rt', "e_hold")
    BY <2>0, <2>1 DEF Passes, Waits, Slots, Empty, Live, Moving, EnablePcs, StillPcs
  <2>4. QED
    BY <1>0, <2>0, <2>1, <2>2, <2>3, SlotsOld
<1>5. CASE EnableHold(c)
  <2>0. call[c].pc = "e_hold"
    BY <1>5 DEF EnableHold, At
  <2>1. \E pc \in {"e_confirm", "e_fail"} : Go(c, pc)
    BY <1>5 DEF EnableHold
  <2>2. PICK pc \in {"e_confirm", "e_fail"} : Go(c, pc)
    BY <2>1
  <2>3. Turns(c, pc)
    BY <1>0, <2>2, GoTurns
  <2>4. /\ rt' = rt \/ rt' = [rt EXCEPT !.hardware_transition = FALSE]
        /\ frame' = frame \/ frame' = Frame(FALSE, "mailbox" \in rt.old)
    BY <1>5 DEF EnableHold
  <2>5. Slots(rt, rt') /\ rt'.state = rt.state
    BY <1>0, <2>4 DEF Slots, Runtimes
  <2>6. Passes(rt, call[c].pc, rt', pc)
    BY <2>0, <2>5 DEF Passes, Waits, Slots, Empty, Live, EnablePcs, StillPcs
  <2>7. TargetsDropped => rt'.old = {} /\ ~frame'.old
    <3>1. Frame(FALSE, "mailbox" \in rt.old).old = ("mailbox" \in rt.old)
      BY DEF Frame
    <3>2. TargetsDropped => rt.old = {} /\ ~frame.old
      BY <1>a DEF Fresh
    <3>3. QED
      BY <2>4, <2>5, <3>1, <3>2 DEF Slots
  <2>8. QED
    BY <1>0, <2>3, <2>5, <2>6, <2>7, OwnerOld DEF Slots, Live
<1>6. CASE EnableConfirm(c)
  <2>0. call[c].pc = "e_confirm" /\ frame' = frame
    BY <1>6 DEF EnableConfirm, At, Others
  <2>1. CASE rt' = rt /\ Go(c, "e_fail")
    <3>1. Turns(c, "e_fail")
      BY <1>0, <2>1, GoTurns
    <3>2. Passes(rt, call[c].pc, rt', "e_fail")
      BY <2>0, <2>1 DEF Passes, Waits, EnablePcs, StillPcs
    <3>3. QED
      BY <1>0, <2>0, <2>1, <3>1, <3>2, SlotsOld DEF Slots
  <2>2. CASE /\ rt' = [rt EXCEPT !.enable_transaction = FALSE]
             /\ Finish(c, "enable", TRUE)
    <3>1. /\ rt'.old = rt.old /\ rt'.pending = rt.pending
          /\ rt'.trajectory = rt.trajectory /\ rt'.state = rt.state
      BY <1>0, <2>2 DEF Runtimes
    <3>2. Drops(rt, rt')
      BY <3>1 DEF Drops, Live
    <3>3. rt.state # "PARTIALLY_ENABLED" /\ Waits(rt, call[c].pc) =>
            /\ rt'.state # "PARTIALLY_ENABLED"
            /\ rt'.state \notin Moving => Empty(rt')
      BY <2>0, <3>1 DEF Waits, Empty, Live
    <3>4. QED
      BY <1>0, <2>0, <2>2, <3>2, <3>3, FinishOld
  <2>3. QED
    BY <1>6, <2>1, <2>2 DEF EnableConfirm
<1>7. CASE EnableFault(c)
  <2>0. call[c].pc = "e_fail" /\ frame' = frame /\ Go(c, "e_rollback")
    BY <1>7 DEF EnableFault, At, Others
  <2> DEFINE q == ClearTargets(rt)
             f == q.motor_fault \/ SomeFault(power)
  <2>1. rt' = [q EXCEPT !.state = "FAULT", !.fault_latched = TRUE,
                 !.motor_fault = f, !.hardware_transition = TRUE,
                 !.disable_confirmed = FALSE]
    BY <1>7 DEF EnableFault
  <2>2. /\ q \in Runtimes /\ Drops(rt, q) /\ q.pending = "none"
        /\ q.trajectory = rt.trajectory
        /\ q.enable_transaction = rt.enable_transaction
    BY <1>0, ClearTargetsSlots
  <2> HIDE DEF q, f
  <2>3. Slots(q, rt') /\ rt'.state = "FAULT"
    BY <2>1, <2>2, ZenonT(60) DEF Slots, Runtimes
  <2>4. Turns(c, "e_rollback")
    BY <1>0, <2>0, GoTurns
  <2>5. Passes(rt, call[c].pc, rt', "e_rollback")
    BY <2>0, <2>2, <2>3 DEF Passes, Waits, Slots, Empty, Live, EnablePcs, StillPcs
  <2>6. TargetsDropped => rt'.old = {} /\ ~frame'.old
    BY <1>a, <2>0, <2>2, <2>3 DEF Fresh, Drops, Slots
  <2>7. QED
    BY <1>0, <2>2, <2>3, <2>4, <2>5, <2>6, OwnerOld DEF Slots, Live, Drops
<1>8. CASE EnableRollback(c)
  <2>0. call[c].pc = "e_rollback" /\ frame' = frame /\ rt' = rt
        /\ lifecycle' = lifecycle
    BY <1>8 DEF EnableRollback, At
  <2>1. PICK ok : call' = [call EXCEPT ![c].pc = "e_end", ![c].ok = ok]
    BY <1>8 DEF EnableRollback
  <2>2. Turns(c, "e_end")
    BY <1>0, <2>0, <2>1, SetsTurns
  <2>3. Passes(rt, call[c].pc, rt', "e_end")
    BY <2>0 DEF Passes, Waits, EnablePcs, StillPcs
  <2>4. QED
    BY <1>0, <2>0, <2>2, <2>3, SlotsOld DEF Slots
<1>9. CASE EnableEnd(c)
  <2>0. call[c].pc = "e_end" /\ frame' = frame /\ Finish(c, "enable", FALSE)
    BY <1>9 DEF EnableEnd, At, Others
  <2>1. rt' = [rt EXCEPT !.disable_confirmed = call[c].ok,
                         !.hardware_transition = FALSE,
                         !.enable_transaction = FALSE]
    BY <1>9 DEF EnableEnd
  <2>2. /\ rt'.old = rt.old /\ rt'.pending = rt.pending
        /\ rt'.trajectory = rt.trajectory /\ rt'.state = rt.state
    BY <1>0, <2>1 DEF Runtimes
  <2>3. Drops(rt, rt')
    BY <2>2 DEF Drops, Live
  <2>4. rt.state # "PARTIALLY_ENABLED" /\ Waits(rt, call[c].pc) =>
          /\ rt'.state # "PARTIALLY_ENABLED"
          /\ rt'.state \notin Moving => Empty(rt')
    BY <2>0, <2>2 DEF Waits, Empty, Live
  <2>5. QED
    BY <1>0, <2>0, <2>3, <2>4, FinishOld
<1>10. QED
  BY <1>1, <1>2, <1>3, <1>4, <1>5, <1>6, <1>7, <1>8, <1>9 DEF Enable

LEMMA DisableOld ==
  ASSUME Inv, OldInv, NEW c \in Callers, Disable(c)
  PROVE  OldInv'
<1>0. /\ call[c].pc \in DisablePcs /\ call[c].pc \notin {"idle", "m_retry"}
      /\ left' = left /\ frame' = frame
  BY DEF Disable, DisableBegin, DisableMotors, DisableEnd, At, DisablePcs, Others
<1>a. rt \in Runtimes /\ call[c] \in Calls /\ (TargetsDropped => Fresh)
  BY <1>0, AtPlace
<1>1. CASE DisableBegin(c)
  <2>0. call[c].pc = "d_begin"
    BY <1>1 DEF DisableBegin, At
  <2>1. CASE rt.state = "DISCONNECTED" /\ rt' = rt /\ Finish(c, "disable", FALSE)
    <3>1. Drops(rt, rt')
      BY <2>1 DEF Drops
    <3>2. rt.state # "PARTIALLY_ENABLED" /\ Waits(rt, call[c].pc) =>
            /\ rt'.state # "PARTIALLY_ENABLED"
            /\ rt'.state \notin Moving => Empty(rt')
            /\ rt'.state \in Idle
      BY <2>0, <2>1 DEF Waits, Empty, Idle
    <3>3. QED
      BY <1>0, <2>1, <3>1, <3>2, FinishOld
  <2>2. CASE /\ rt' = [Terminate(rt, "CANCELLED") EXCEPT
                         !.hardware_transition = TRUE]
             /\ \E f : call' = [call EXCEPT ![c].pc = "d_motors", ![c].flag = f]
             /\ lifecycle' = lifecycle
    <3> DEFINE q == Terminate(rt, "CANCELLED")
    <3>1. /\ q \in Runtimes /\ Drops(rt, q) /\ q.pending = rt.pending
          /\ ~Live(q) /\ q.state = rt.state
          /\ q.enable_transaction = rt.enable_transaction
      BY <1>a, TerminateSlots
    <3> HIDE DEF q
    <3>2. Slots(q, rt') /\ rt'.state = q.state
      BY <2>2, <3>1 DEF Slots, Runtimes, q
    <3>3. Turns(c, "d_motors")
      BY <1>0, <2>2, SetsTurns
    <3>4. Passes(rt, call[c].pc, rt', "d_motors")
      BY <2>0, <3>1, <3>2 DEF Passes, Waits, Slots, Empty, Live, EnablePcs, StillPcs
    <3>5. TargetsDropped => rt'.old = {} /\ ~frame'.old
      BY <1>0, <1>a, <3>1, <3>2 DEF Fresh, Drops, Slots
    <3>6. (Live(rt') => Live(rt)) /\ (rt'.pending # "none" => rt.pending # "none")
      BY <3>1, <3>2 DEF Slots, Live
    <3>7. QED
      BY <1>0, <3>3, <3>4, <3>5, <3>6, OwnerOld
  <2>3. QED
    BY <1>1, <2>1, <2>2 DEF DisableBegin
<1>2. CASE DisableMotors(c)
  <2>0. call[c].pc = "d_motors" /\ rt' = rt /\ lifecycle' = lifecycle
    BY <1>2 DEF DisableMotors, At
  <2>1. PICK ok : call' = [call EXCEPT ![c].pc = "d_end", ![c].ok = ok]
    BY <1>2 DEF DisableMotors
  <2>2. Turns(c, "d_end")
    BY <1>0, <2>0, <2>1, SetsTurns
  <2>3. Passes(rt, call[c].pc, rt', "d_end")
    BY <2>0 DEF Passes, Waits, EnablePcs, StillPcs
  <2>4. QED
    BY <1>0, <2>0, <2>2, <2>3, SlotsOld DEF Slots
<1>3. CASE DisableEnd(c)
  <2>0. call[c].pc = "d_end" /\ \E ok : Finish(c, "disable", ok)
    BY <1>3 DEF DisableEnd, At
  <2>1. call[c].ok \in BOOLEAN /\ call[c].flag \in BOOLEAN
    BY <1>a DEF Calls
  <2>2. rt' = DisableResult(rt, call[c].ok, call[c].flag)
    BY <1>3 DEF DisableEnd
  <2>3. /\ Drops(rt, rt') /\ rt'.pending = "none"
        /\ rt'.trajectory = rt.trajectory /\ rt'.state \in {"READY", "FAULT"}
    BY <1>a, <2>1, <2>2, DisableResultSlots
  <2>4. rt.state # "PARTIALLY_ENABLED" /\ Waits(rt, call[c].pc) =>
          /\ rt'.state # "PARTIALLY_ENABLED"
          /\ rt'.state \notin Moving => Empty(rt')
          /\ rt'.state \in Idle
    BY <2>0, <2>3 DEF Waits, Empty, Live, Idle
  <2>5. QED
    BY <1>0, <2>0, <2>3, <2>4, FinishOld
<1>4. QED
  BY <1>1, <1>2, <1>3 DEF Disable

LEMMA EstopOld ==
  ASSUME Inv, OldInv, NEW c \in Callers, Estop(c)
  PROVE  OldInv'
<1>0. /\ call[c].pc \in EstopPcs /\ call[c].pc \notin {"idle", "m_retry"}
      /\ left' = left
  BY DEF Estop, EstopBegin, EstopPrepare, EstopFault, EstopConfirmed, EstopHold,
       At, EstopPcs, Others
<1>a. rt \in Runtimes /\ call[c] \in Calls /\ (TargetsDropped => Fresh)
  BY <1>0, AtPlace
<1>b. \A pc \in EstopPcs \cup {"idle"} :
        pc \notin EnablePcs \cup StillPcs \cup {"d_motors", "d_end"}
  BY DEF EstopPcs, EnablePcs, StillPcs
<1>c. ASSUME NEW r, NEW s, NEW pc \in EstopPcs, NEW q \in EstopPcs \cup {"idle"},
             Slots(r, s), s.state = r.state
      PROVE  Passes(r, pc, s, q)
  <2>1. pc # "r_clear" /\ q \notin EnablePcs \cup StillPcs \cup {"d_motors", "d_end"}
    BY <1>b, <1>c DEF EstopPcs
  <2>2. QED
    BY <1>c, <2>1 DEF Passes, Waits, Slots, Live
<1>1. CASE EstopBegin(c) \/ EstopPrepare(c) \/ EstopConfirmed(c)
  <2>1. /\ frame' = frame
        /\ \/ rt' = [rt EXCEPT !.estop = TRUE, !.fault_latched = TRUE]
           \/ \E h : rt' = [rt EXCEPT !.hold = h]
           \/ rt' = rt
           \/ rt' = [rt EXCEPT !.disable_confirmed = call[c].ok]
    BY <1>1 DEF EstopBegin, EstopPrepare, EstopConfirmed, Others
  <2>2. Slots(rt, rt') /\ rt'.state = rt.state
    BY <1>a, <2>1 DEF Slots, Runtimes
  <2>3. \E pc \in EstopPcs \cup {"idle"} : Turns(c, pc)
    <3>1. CASE Return(c)
      BY <3>1, ReturnTurns
    <3>2. CASE Go(c, "s_fault")
      <4>1. Turns(c, "s_fault")
        BY <1>0, <3>2, GoTurns
      <4>2. QED
        BY <4>1 DEF EstopPcs
    <3>3. CASE /\ \E o, f : call' = [call EXCEPT ![c].pc = "s_prepare",
                                                 ![c].ok = o, ![c].flag = f]
               /\ lifecycle' = lifecycle
      <4>1. Turns(c, "s_prepare")
        BY <1>0, <3>3, SetsTurns
      <4>2. QED
        BY <4>1 DEF EstopPcs
    <3>4. CASE /\ \E o : call' = [call EXCEPT ![c].pc = "s_fault", ![c].ok = o]
               /\ lifecycle' = lifecycle
      <4>1. Turns(c, "s_fault")
        BY <1>0, <3>4, SetsTurns
      <4>2. QED
        BY <4>1 DEF EstopPcs
    <3>5. QED
      BY <1>1, <3>1, <3>2, <3>3, <3>4 DEF EstopBegin, EstopPrepare, EstopConfirmed
  <2>4. QED
    BY <1>0, <1>c, <2>1, <2>2, <2>3, SlotsOld
<1>2. CASE EstopFault(c)
  <2>0. /\ call[c].pc = "s_fault" /\ frame' = frame
        /\ rt' = EnterFault(rt, call[c].flag /\ call[c].ok)
        /\ \E pc \in {"s_hold", "s_confirmed"} : Go(c, pc)
    BY <1>2 DEF EstopFault, At, Others
  <2>1. rt.state # "DISCONNECTED"
    BY <1>0, <2>0, OwnerFacts DEF Local
  <2>2. (call[c].flag /\ call[c].ok) \in BOOLEAN
    OBVIOUS
  <2>3. Drops(rt, rt') /\ Empty(rt') /\ rt'.state = "FAULT"
    BY <1>a, <2>0, <2>1, <2>2, EnterFaultSlots
  <2>4. PICK pc \in {"s_hold", "s_confirmed"} : Go(c, pc)
    BY <2>0
  <2>5. Turns(c, pc)
    BY <1>0, <2>4, GoTurns
  <2>6. Passes(rt, call[c].pc, rt', pc)
    BY <2>3 DEF Passes, Waits, Empty, EnablePcs, StillPcs
  <2>7. TargetsDropped => rt'.old = {} /\ ~frame'.old
    BY <1>a, <2>0, <2>3 DEF Fresh, Drops
  <2>8. QED
    BY <1>0, <2>3, <2>5, <2>6, <2>7, OwnerOld DEF Drops
<1>3. CASE EstopHold(c)
  <2>1. rt' = rt /\ Return(c) /\ frame' \in {frame, Frame(FALSE, FALSE)}
    BY <1>3 DEF EstopHold
  <2>2. Turns(c, "idle") /\ Slots(rt, rt')
    BY <2>1, ReturnTurns DEF Slots
  <2>3. Passes(rt, call[c].pc, rt', "idle")
    BY <1>0, <1>c, <2>1, <2>2
  <2>4. ~Frame(FALSE, FALSE).old
    BY DEF Frame
  <2>5. TargetsDropped => rt'.old = {} /\ ~frame'.old
    BY <1>a, <2>1, <2>4 DEF Fresh
  <2>6. QED
    BY <1>0, <2>1, <2>2, <2>3, <2>5, OwnerOld
<1>4. QED
  BY <1>1, <1>2, <1>3 DEF Estop

LEMMA MaintenanceSlots ==
  ASSUME NEW r \in Runtimes, NEW op, NEW pc
  PROVE  LET s == MaintenanceResult(r, op, pc) IN
         /\ Slots(r, s)
         /\ IF pc = "m_ok" THEN s.state = "READY"
            ELSE IF pc = "m_plain" THEN s.state = r.state ELSE s.state = "FAULT"
<1> DEFINE s == MaintenanceResult(r, op, pc)
           q == FreshFeedback(r)
           l == q.fault_latched /\ op # "clear_faults"
           f == q.motor_fault /\ op # "clear_faults"
           g == r.motor_fault \/ SomeFault(power)
<1>1. q \in Runtimes /\ Slots(r, q)
  BY FreshFeedbackEffect DEF FreshFeedback, Slots, Runtimes
<1>2. CASE pc = "m_ok"
  <2>1. s = [q EXCEPT !.hardware_transition = FALSE, !.state = "READY",
               !.disable_confirmed = TRUE, !.fault_latched = l, !.motor_fault = f]
    BY <1>2 DEF MaintenanceResult
  <2> HIDE DEF s, q, l, f
  <2>2. Slots(q, s) /\ s.state = "READY"
    BY <1>1, <2>1, ZenonT(60) DEF Slots, Runtimes
  <2>3. QED
    BY <1>1, <1>2, <2>2 DEF Slots, s
<1>3. CASE pc = "m_plain"
  <2>1. s = [r EXCEPT !.hardware_transition = FALSE]
    BY <1>3 DEF MaintenanceResult
  <2> HIDE DEF s
  <2>2. Slots(r, s) /\ s.state = r.state
    BY <2>1 DEF Slots, Runtimes
  <2>3. QED
    BY <1>3, <2>2 DEF s
<1>4. CASE pc \notin {"m_ok", "m_plain"}
  <2>1. s = [r EXCEPT !.hardware_transition = FALSE, !.state = "FAULT",
               !.fault_latched = TRUE, !.disable_confirmed = FALSE,
               !.motor_fault = g]
    BY <1>4 DEF MaintenanceResult
  <2> HIDE DEF s, g
  <2>2. Slots(r, s) /\ s.state = "FAULT"
    BY <2>1, ZenonT(60) DEF Slots, Runtimes
  <2>3. QED
    BY <1>4, <2>2 DEF s
<1>5. QED
  BY <1>2, <1>3, <1>4

LEMMA MaintenanceOld ==
  ASSUME Inv, OldInv, NEW c \in Callers, MaintenanceSteps(c)
  PROVE  OldInv'
<1>0. rt \in Runtimes /\ left' = left /\ frame' = frame /\ call \in [Callers -> Calls]
  BY DEF MaintenanceSteps, MaintenanceBegin, MaintenanceRun, MaintenanceEnd,
       ClearFaultsRetry, ClearFaultsTimeout, Others, Inv, Types
<1>1. CASE MaintenanceBegin(c)
  <2>0. call[c].pc = "m_begin"
    BY <1>1 DEF MaintenanceBegin, At
  <2>1. CASE /\ rt.state \in {"READY", "FAULT"} /\ Go(c, "m_run")
             /\ rt' = [rt EXCEPT !.hardware_transition = TRUE]
    <3>1. Slots(rt, rt') /\ rt'.state = rt.state
      BY <1>0, <2>1 DEF Slots, Runtimes
    <3>2. Turns(c, "m_run")
      BY <2>0, <2>1, GoTurns
    <3>3. Passes(rt, call[c].pc, rt', "m_run")
      BY <2>0, <2>1, <3>1 DEF Passes, Waits, Slots, Live, EnablePcs, StillPcs, Idle
    <3>4. QED
      BY <1>0, <2>0, <3>1, <3>2, <3>3, SlotsOld
  <2>2. CASE rt' = rt /\ Go(c, "m_plain")
    <3>1. Turns(c, "m_plain")
      BY <2>0, <2>2, GoTurns
    <3>2. Passes(rt, call[c].pc, rt', "m_plain")
      BY <2>0, <2>2 DEF Passes, Waits, EnablePcs, StillPcs
    <3>3. QED
      BY <1>0, <2>0, <2>2, <3>1, <3>2, SlotsOld DEF Slots
  <2>3. QED
    BY <1>1, <2>1, <2>2 DEF MaintenanceBegin, MaintenanceAllowed
<1>2. CASE MaintenanceRun(c)
  <2>0. /\ call[c].pc = "m_run" /\ rt' = rt
        /\ \E pc \in {"m_ok", "m_plain", "m_latch", "m_again"} : Go(c, pc)
    BY <1>2 DEF MaintenanceRun, At
  <2>1. PICK pc \in {"m_ok", "m_plain", "m_latch", "m_again"} : Go(c, pc)
    BY <2>0
  <2>2. Turns(c, pc)
    BY <2>0, <2>1, GoTurns
  <2>3. Passes(rt, call[c].pc, rt', pc)
    BY <2>0 DEF Passes, Waits, EnablePcs, StillPcs
  <2>4. QED
    BY <1>0, <2>0, <2>2, <2>3, SlotsOld DEF Slots
<1>3. CASE MaintenanceEnd(c)
  <2>0. /\ call[c].pc \in {"m_ok", "m_plain", "m_latch", "m_again"}
        /\ rt' = MaintenanceResult(rt, call[c].op, call[c].pc)
    BY <1>3 DEF MaintenanceEnd
  <2>1. /\ Slots(rt, rt')
        /\ IF call[c].pc = "m_ok" THEN rt'.state = "READY"
           ELSE IF call[c].pc = "m_plain" THEN rt'.state = rt.state
           ELSE rt'.state = "FAULT"
    BY <1>0, <2>0, MaintenanceSlots
  <2>2. \E pc \in {"idle", "m_retry"} : Turns(c, pc)
    <3>1. CASE Return(c)
      BY <3>1, ReturnTurns
    <3>2. CASE /\ call' = [call EXCEPT ![c].pc = "m_retry"]
               /\ call[c].op = "clear_faults"
      <4>1. lifecycle' = NoCaller
        BY <1>3 DEF MaintenanceEnd
      <4>2. call' = [call EXCEPT ![c] = [call[c] EXCEPT !.pc = "m_retry"]]
        BY <1>0, <3>2
      <4>3. call'[c].pc = "m_retry" /\ call'[c].op = call[c].op
        BY <1>0, <4>2 DEF Calls
      <4>4. Turns(c, "m_retry")
        BY <1>0, <3>2, <4>1, <4>2, <4>3 DEF Turns
      <4>5. QED
        BY <4>4
    <3>3. QED
      BY <1>3, <3>1, <3>2 DEF MaintenanceEnd
  <2>3. PICK pc \in {"idle", "m_retry"} : Turns(c, pc)
    BY <2>2
  <2>4. Passes(rt, call[c].pc, rt', pc)
    BY <2>0, <2>1 DEF Passes, Waits, Slots, Live, EnablePcs, StillPcs, Idle, Moving
  <2>5. QED
    BY <1>0, <2>0, <2>1, <2>3, <2>4, SlotsOld
<1>4. CASE ClearFaultsRetry(c) \/ ClearFaultsTimeout(c)
  <2>1. call[c].op = "clear_faults" /\ call[c].op \in left.ops
    BY <1>4 DEF ClearFaultsRetry, ClearFaultsTimeout, At, OldInv
  <2>2. TargetsDropped => NoneLasting
    BY <2>1 DEF TargetsDropped
  <2>3. Slots(rt, rt')
    BY <1>0, <1>4, MaintenanceSlots DEF ClearFaultsRetry, ClearFaultsTimeout, Slots
  <2>4. Drops(rt, rt')
    BY <2>3 DEF Slots, Drops, Live
  <2>5. /\ \A d \in Callers \ {c} : call'[d] = call[d]
        /\ call'[c].pc # "m_retry" /\ call'[c].op \in {call[c].op, "none"}
    <3> DEFINE k == call[c]
    <3>1. \/ call' = [call EXCEPT ![c] = [k EXCEPT !.pc = "m_begin", !.flag = TRUE]]
          \/ call' = [call EXCEPT ![c] = [k EXCEPT !.op = "none", !.pc = "idle",
                                                   !.flag = FALSE]]
      BY <1>0, <1>4 DEF ClearFaultsRetry, ClearFaultsTimeout
    <3>2. k \in Calls
      BY <1>0
    <3> HIDE DEF k
    <3>3. \/ call'[c] = [k EXCEPT !.pc = "m_begin", !.flag = TRUE]
          \/ call'[c] = [k EXCEPT !.op = "none", !.pc = "idle", !.flag = FALSE]
      BY <1>0, <3>1
    <3>4. call'[c].pc # "m_retry" /\ call'[c].op \in {k.op, "none"}
      BY <3>2, <3>3 DEF Calls
    <3>5. \A d \in Callers \ {c} : call'[d] = call[d]
      BY <1>0, <3>1
    <3>6. QED
      BY <3>4, <3>5 DEF k
  <2>6. \A d \in Callers : /\ call'[d].op \in left.ops \cup {"none"}
                           /\ call'[d].pc = "m_retry" => call'[d].op = "clear_faults"
    BY <2>1, <2>5 DEF OldInv
  <2>7. QED
    BY <1>0, <2>2, <2>4, <2>6, PlainOld
<1>5. QED
  BY <1>1, <1>2, <1>3, <1>4 DEF MaintenanceSteps

LEMMA RecoverOld ==
  ASSUME Inv, OldInv, NEW c \in Callers, Recover(c)
  PROVE  OldInv'
<1>0. /\ call[c].pc \in RecoverPcs /\ call[c].pc \notin {"idle", "m_retry"}
      /\ left' = left /\ frame' = frame
  BY DEF Recover, RecoverBegin, RecoverFreeze, RecoverClear, RecoverDisable,
       RecoverErrors, RecoverCheck, RecoverReady, RecoverZero, RecoverHome,
       RecoverDone, RecoverFails, RecoverRollback, RecoverFailed, At, RecoverPcs,
       Others
<1>a. /\ rt \in Runtimes /\ call[c].op \in left.ops /\ PcOf(call[c])
      /\ TargetsDropped => Fresh
  BY <1>0, AtPlace
<1>b. call[c].op = "recover"
  BY <1>0, <1>a, RecoverOp
<1>c. TargetsDropped => rt.old = {} /\ ~frame'.old /\ ~Live(rt)
  BY <1>0, <1>a, <1>b DEF TargetsDropped, Fresh
\* Steps between places that rely on the same.
<1>d. ASSUME NEW pc, Turns(c, pc), Slots(rt, rt'), rt'.state = rt.state,
             call[c].pc # "r_clear", pc \notin EnablePcs \ {"e_begin"},
             pc \notin {"d_motors", "d_end"},
             pc \in StillPcs => call[c].pc \in StillPcs
      PROVE  OldInv'
  <2>1. Passes(rt, call[c].pc, rt', pc)
    BY <1>d DEF Passes, Waits, Slots, Live
  <2>2. QED
    BY <1>0, <1>d, <2>1, SlotsOld
\* Steps into a robot that does not move.
<1>e. ASSUME NEW pc, Turns(c, pc), Drops(rt, rt'), rt'.state \in {"READY", "FAULT"},
             call[c].pc \in StillPcs \/ pc = "r_clear" \/ rt'.pending = "none",
             pc = "r_clear" \/ call[c].pc # "r_clear",
             pc \notin EnablePcs \ {"e_begin"}, pc \notin {"d_motors", "d_end"}
      PROVE  OldInv'
  <2>1. TargetsDropped => Passes(rt, call[c].pc, rt', pc)
    BY <1>c, <1>e DEF Passes, Waits, Drops, Idle, Moving
  <2>2. TargetsDropped => rt'.old = {} /\ ~frame'.old
    BY <1>c, <1>e DEF Drops
  <2>3. QED
    BY <1>0, <1>e, <2>1, <2>2, OwnerOld DEF Drops
<1>1. CASE RecoverBegin(c)
  <2>0. call[c].pc = "r_begin" /\ rt' = rt
    BY <1>1 DEF RecoverBegin, At
  <2>1. \E pc \in {"idle", "c_begin", "r_freeze"} : Turns(c, pc)
    <3>1. CASE Return(c)
      BY <3>1, ReturnTurns
    <3>2. CASE Go(c, "c_begin") \/ Go(c, "r_freeze")
      BY <1>0, <3>2, GoTurns
    <3>3. QED
      BY <1>1, <3>1, <3>2 DEF RecoverBegin
  <2>2. QED
    BY <1>d, <2>0, <2>1 DEF Slots, EnablePcs, StillPcs
<1>2. CASE RecoverFreeze(c)
  <2>0. call[c].pc = "r_freeze" /\ Go(c, "r_clear")
        /\ rt' = [rt EXCEPT !.state = "FAULT", !.fault_latched = TRUE,
                            !.hardware_transition = TRUE]
    BY <1>2 DEF RecoverFreeze, At
  <2>1. Drops(rt, rt') /\ rt'.state = "FAULT"
    BY <1>a, <2>0 DEF Drops, Live, Runtimes
  <2>2. Turns(c, "r_clear")
    BY <1>0, <2>0, GoTurns
  <2>3. QED
    BY <1>e, <2>1, <2>2 DEF EnablePcs
<1>3. CASE RecoverClear(c)
  <2>0. call[c].pc = "r_clear" /\ Go(c, "r_disable")
        /\ rt' = [ClearTargets(MarkOld(rt)) EXCEPT !.hold = FALSE]
    BY <1>3 DEF RecoverClear, At
  <2> DEFINE m == MarkOld(rt)
             q == ClearTargets(m)
  <2>1. /\ m \in Runtimes /\ m.trajectory = rt.trajectory /\ m.state = rt.state
        /\ m.old \subseteq {"mailbox", "pending", "trajectory"}
        /\ "trajectory" \in m.old => Live(rt)
    BY <1>a, MarkOldSlots
  <2> HIDE DEF m
  <2>2. /\ q \in Runtimes /\ q.pending = "none" /\ q.trajectory = m.trajectory
        /\ q.state = m.state
    BY <2>1, ClearTargetsSlots
  <2>3. q.old = m.old \ {"mailbox", "pending"}
    BY <2>1 DEF ClearTargets, Runtimes
  <2>4. rt' = [q EXCEPT !.hold = FALSE]
    BY <2>0 DEF m
  <2> HIDE DEF q
  <2>5. Slots(q, rt') /\ rt'.state = q.state
    BY <2>2, <2>4 DEF Slots, Runtimes
  <2>6. Turns(c, "r_disable")
    BY <1>0, <2>0, GoTurns
  <2>7. Passes(rt, call[c].pc, rt', "r_disable")
    BY <2>0, <2>1, <2>2, <2>5
       DEF Passes, Waits, Slots, Live, EnablePcs, StillPcs
  <2>8. TargetsDropped => rt'.old = {} /\ ~frame'.old
    BY <1>c, <2>1, <2>3, <2>5 DEF Slots
  <2>9. QED
    BY <1>0, <2>1, <2>2, <2>5, <2>6, <2>7, <2>8, OwnerOld DEF Slots, Live
<1>4. CASE RecoverDisable(c)
  <2>0. /\ call[c].pc = "r_disable"
        /\ rt' = rt \/ rt' = [rt EXCEPT !.disable_confirmed = TRUE]
        /\ \E pc \in {"r_errors", "r_fail"} : Go(c, pc)
    BY <1>4 DEF RecoverDisable, At
  <2>1. Slots(rt, rt') /\ rt'.state = rt.state
    BY <1>a, <2>0 DEF Slots, Runtimes
  <2>2. \E pc \in {"r_errors", "r_fail"} : Turns(c, pc)
    BY <1>0, <2>0, GoTurns
  <2>3. QED
    BY <1>d, <2>0, <2>1, <2>2 DEF EnablePcs, StillPcs
<1>5. CASE RecoverErrors(c) \/ RecoverCheck(c)
  <2>0. /\ call[c].pc \in {"r_errors", "r_check"}
        /\ rt' = rt \/ rt' = [rt EXCEPT !.motor_fault = FALSE]
        /\ \E pc \in {"r_check", "r_ready", "r_fail"} : Go(c, pc)
    BY <1>5 DEF RecoverErrors, RecoverCheck, At
  <2>1. Slots(rt, rt') /\ rt'.state = rt.state
    BY <1>a, <2>0 DEF Slots, Runtimes
  <2>2. \E pc \in {"r_check", "r_ready", "r_fail"} : Turns(c, pc)
    BY <1>0, <2>0, GoTurns
  <2>3. QED
    BY <1>d, <2>0, <2>1, <2>2 DEF EnablePcs, StillPcs
<1>6. CASE RecoverReady(c)
  <2>0. call[c].pc = "r_ready" /\ Go(c, "e_begin")
        /\ rt' = [rt EXCEPT !.state = "READY", !.fault_latched = FALSE,
                    !.motor_fault = FALSE, !.disable_confirmed = TRUE,
                    !.hardware_transition = FALSE]
    BY <1>6 DEF RecoverReady, At
  <2>1. Drops(rt, rt') /\ rt'.state = "READY"
    BY <1>a, <2>0 DEF Drops, Live, Runtimes
  <2>2. Turns(c, "e_begin")
    BY <1>0, <2>0, GoTurns
  <2>3. QED
    BY <1>e, <2>0, <2>1, <2>2 DEF EnablePcs, StillPcs
<1>7. CASE RecoverZero(c)
  <2>0. call[c].pc = "r_zero"
    BY <1>7 DEF RecoverZero, At
  <2>1. CASE rt' = rt /\ Go(c, "r_fail")
    <3>1. Turns(c, "r_fail")
      BY <1>0, <2>1, GoTurns
    <3>2. QED
      BY <1>d, <2>0, <2>1, <3>1 DEF Slots, EnablePcs, StillPcs
  <2>2. CASE rt' = Installed(rt) /\ Go(c, "r_home")
    <3>1. Drops(rt, rt') /\ Empty(rt') /\ rt'.state = rt.state
      BY <1>a, <2>2, InstalledSlots
    <3>2. Turns(c, "r_home")
      BY <1>0, <2>2, GoTurns
    <3>3. Passes(rt, call[c].pc, rt', "r_home")
      BY <3>1 DEF Passes, Waits, Empty, EnablePcs, StillPcs
    <3>4. TargetsDropped => rt'.old = {} /\ ~frame'.old
      BY <1>c, <3>1 DEF Drops
    <3>5. QED
      BY <1>0, <3>1, <3>2, <3>3, <3>4, OwnerOld DEF Drops
  <2>3. QED
    BY <1>7, <2>1, <2>2 DEF RecoverZero
<1>8. CASE RecoverHome(c)
  <2>0. /\ call[c].pc = "r_home" /\ rt' = rt
        /\ \E pc \in {"d_begin", "r_fail"} : Go(c, pc)
    BY <1>8 DEF RecoverHome, At
  <2>1. \E pc \in {"d_begin", "r_fail"} : Turns(c, pc)
    BY <1>0, <2>0, GoTurns
  <2>2. QED
    BY <1>d, <2>0, <2>1 DEF Slots, EnablePcs, StillPcs
<1>9. CASE RecoverDone(c)
  <2>0. call[c].pc = "r_done" /\ Return(c)
        /\ rt' = [rt EXCEPT !.state = "READY", !.fault_latched = FALSE,
                    !.motor_fault = FALSE, !.estop = FALSE,
                    !.disable_confirmed = TRUE, !.send_failures = 0,
                    !.feedback_failures = 0]
    BY <1>9 DEF RecoverDone, At
  <2>1. Drops(rt, rt') /\ rt'.state = "READY"
    BY <1>a, <2>0, ZenonT(60) DEF Drops, Live, Runtimes
  <2>2. Turns(c, "idle")
    BY <2>0, ReturnTurns
  <2>3. QED
    BY <1>e, <2>0, <2>1, <2>2 DEF EnablePcs, StillPcs
<1>10. CASE RecoverFails(c)
  <2>0. call[c].pc = "r_fail" /\ Go(c, "r_rollback")
    BY <1>10 DEF RecoverFails, At
  <2> DEFINE q == ClearTargets(rt)
             f == q.motor_fault \/ SomeFault(power)
  <2>1. rt' = [q EXCEPT !.hold = FALSE, !.state = "FAULT",
                 !.fault_latched = TRUE, !.motor_fault = f,
                 !.hardware_transition = TRUE]
    BY <1>10 DEF RecoverFails
  <2>2. q \in Runtimes /\ Drops(rt, q) /\ q.pending = "none"
    BY <1>a, ClearTargetsSlots
  <2> HIDE DEF q, f
  <2>3. Slots(q, rt') /\ rt'.state = "FAULT"
    BY <2>1, <2>2, ZenonT(60) DEF Slots, Runtimes
  <2>4. Drops(rt, rt') /\ rt'.pending = "none"
    BY <2>2, <2>3 DEF Slots, Drops, Live
  <2>5. Turns(c, "r_rollback")
    BY <1>0, <2>0, GoTurns
  <2>6. QED
    BY <1>e, <2>0, <2>3, <2>4, <2>5 DEF EnablePcs
<1>11. CASE RecoverRollback(c)
  <2>0. call[c].pc = "r_rollback" /\ rt' = rt /\ lifecycle' = lifecycle
    BY <1>11 DEF RecoverRollback, At
  <2>1. PICK ok : call' = [call EXCEPT ![c].pc = "r_failed", ![c].ok = ok]
    BY <1>11 DEF RecoverRollback
  <2>2. Turns(c, "r_failed")
    BY <1>0, <2>0, <2>1, SetsTurns
  <2>3. QED
    BY <1>d, <2>0, <2>2 DEF Slots, EnablePcs, StillPcs
<1>12. CASE RecoverFailed(c)
  <2>0. call[c].pc = "r_failed" /\ Return(c)
        /\ rt' = [rt EXCEPT !.state = "FAULT", !.fault_latched = TRUE,
                    !.disable_confirmed = call[c].ok,
                    !.hardware_transition = FALSE,
                    !.enable_transaction = FALSE]
    BY <1>12 DEF RecoverFailed, At
  <2>1. Drops(rt, rt') /\ rt'.state = "FAULT"
    BY <1>a, <2>0 DEF Drops, Live, Runtimes
  <2>2. Turns(c, "idle")
    BY <2>0, ReturnTurns
  <2>3. QED
    BY <1>e, <2>0, <2>1, <2>2 DEF EnablePcs, StillPcs
<1>13. QED
  BY <1>1, <1>2, <1>3, <1>4, <1>5, <1>6, <1>7, <1>8, <1>9, <1>10, <1>11, <1>12
     DEF Recover

LEMMA CallOps ==
  ASSUME Inv, OldInv, NEW c \in Callers, call[c].pc \notin {"idle", "m_retry"},
         NEW k, call' = [call EXCEPT ![c] = k], k.pc # "m_retry",
         k.op \in {call[c].op, "none"}
  PROVE  \A d \in Callers : /\ call'[d].op \in left.ops \cup {"none"}
                            /\ call'[d].pc = "m_retry" => call'[d].op = "clear_faults"
<1>1. call \in [Callers -> Calls]
  BY DEF Inv, Types
<1>2. call'[c] = k /\ \A d \in Callers \ {c} : call'[d] = call[d]
  BY <1>1
<1>3. QED
  BY <1>2 DEF OldInv

LEMMA PowerOld ==
  ASSUME Inv, OldInv, NEW c \in Callers, PowerSteps(c)
  PROVE  OldInv'
<1>0. /\ call[c].pc \in QueryPcs \cup BatchPcs
      /\ call[c].pc \notin {"idle", "m_retry"} /\ left' = left /\ frame' = frame
  BY DEF PowerSteps, PowerStateBegin, PowerStateFeedback, PowerStateEnd, BatchBegin,
       BatchMotors, BatchEnd, At, QueryPcs, BatchPcs, Others
<1>a. /\ rt \in Runtimes /\ call[c].op \in left.ops /\ PcOf(call[c])
      /\ call \in [Callers -> Calls] /\ call[c] \in Calls
  BY <1>0, AtPlace
<1>b. call[c].op \in {"power_state", "power_batch"}
  BY <1>0, <1>a, QueryOp, BatchOp
<1>c. TargetsDropped => NoneLasting
  BY <1>a, <1>b DEF TargetsDropped
<1>1. Drops(rt, rt')
  <2>1. CASE PowerStateBegin(c) \/ PowerStateFeedback(c) \/ PowerStateEnd(c)
    <3>1. \/ rt' = rt
          \/ \E b \in BOOLEAN : rt' = [rt EXCEPT !.hardware_transition = b]
          \/ rt' = [rt EXCEPT !.feedback_failures = 0]
          \/ \E s, o : rt' = [rt EXCEPT !.state = s, !.disable_confirmed = o,
                                        !.hardware_transition = FALSE]
      BY <2>1 DEF PowerStateBegin, PowerStateFeedback, PowerStateEnd, FreshFeedback
    <3>2. QED
      BY <1>a, <3>1 DEF Runtimes, Drops, Live
  <2>2. CASE BatchBegin(c)
    <3> DEFINE q == Terminate(rt, "CANCELLED")
    <3>1. q \in Runtimes /\ Drops(rt, q)
      BY <1>a, TerminateSlots
    <3>2. \/ rt' = rt
          \/ \E d : rt' = [q EXCEPT !.hardware_transition = TRUE, !.disabled = d]
      BY <2>2 DEF BatchBegin
    <3> HIDE DEF q
    <3>3. rt' = rt \/ Slots(q, rt')
      BY <3>1, <3>2 DEF Slots, Runtimes
    <3>4. QED
      BY <3>1, <3>3 DEF Slots, Drops, Live
  <2>3. CASE BatchMotors(c)
    <3>1. FreshFeedback(rt) \in Runtimes /\ Slots(rt, FreshFeedback(rt))
      BY <1>a, FreshFeedbackEffect DEF FreshFeedback, Slots, Runtimes
    <3>2. \E r \in {rt, FreshFeedback(rt)} :
            rt' = r \/ \E d : rt' = [r EXCEPT !.disabled = d]
      BY <2>3 DEF BatchMotors
    <3>3. PICK r \in {rt, FreshFeedback(rt)} :
            rt' = r \/ \E d : rt' = [r EXCEPT !.disabled = d]
      BY <3>2
    <3>4. r \in Runtimes /\ Slots(rt, r)
      BY <1>a, <3>1 DEF Slots
    <3>5. Slots(r, rt')
      BY <3>3, <3>4 DEF Slots, Runtimes
    <3>6. QED
      BY <3>4, <3>5 DEF Slots, Drops, Live
  <2>4. CASE BatchEnd(c)
    <3> DEFINE keep == /\ ~call[c].flag
                       /\ call[c].from \in {"DEGRADED", "SAFE_HOLD", "SAFE_STOP", "FAULT"}
               on == call[c].flag /\ call[c].ok /\ ~rt.fault_latched
               o == AllOff(power) /\ ~on
               s == IF keep THEN call[c].from
                    ELSE IF rt.fault_latched THEN rt.state
                    ELSE IF AllOff(power) /\ ~on THEN "READY"
                    ELSE "PARTIALLY_ENABLED"
               d == IF ~AllOff(power) THEN rt.disabled
                    ELSE IF keep THEN Present
                    ELSE IF rt.fault_latched THEN rt.disabled
                    ELSE {}
               f == rt.motor_fault \/ SomeFault(power)
    <3>1. \/ rt' = [rt EXCEPT !.hardware_transition = FALSE,
                     !.disable_confirmed = o, !.state = s, !.disabled = d]
          \/ rt' = [rt EXCEPT !.state = "FAULT", !.fault_latched = TRUE,
                     !.motor_fault = f, !.disable_confirmed = FALSE,
                     !.hardware_transition = FALSE]
      BY <2>4 DEF BatchEnd, BatchResult
    <3> HIDE DEF keep, on, o, s, d, f
    <3>2. Slots(rt, rt')
      BY <1>a, <3>1 DEF Slots, Runtimes
    <3>3. QED
      BY <3>2 DEF Slots, Drops, Live
  <2>5. QED
    BY <2>1, <2>2, <2>3, <2>4 DEF PowerSteps
<1>2. \E k : /\ call' = [call EXCEPT ![c] = k] /\ k.pc # "m_retry"
             /\ k.op \in {call[c].op, "none"}
  <2> DEFINE k == call[c]
  <2>1. CASE Return(c)
    <3>1. call' = [call EXCEPT ![c] = IdleCall]
      BY <2>1 DEF Return, IdleCall
    <3>2. IdleCall.pc = "idle" /\ IdleCall.op = "none"
      BY DEF IdleCall
    <3>3. QED
      BY <3>1, <3>2
  <2>2. CASE \E pc \in {"q_feedback", "q_end"} : Go(c, pc)
    <3>1. PICK pc \in {"q_feedback", "q_end"} :
            call' = [call EXCEPT ![c] = [k EXCEPT !.pc = pc]]
      BY <1>a, <2>2 DEF Go
    <3>2. [k EXCEPT !.pc = pc].pc = pc /\ [k EXCEPT !.pc = pc].op = k.op
      BY <1>a DEF Calls
    <3>3. QED
      BY <3>1, <3>2
  <2>3. CASE BatchBegin(c) /\ ~Return(c)
    <3> DEFINE f == rt.state
    <3>1. PICK s \in SUBSET Present \ {{}}, e \in BOOLEAN :
            call' = [call EXCEPT ![c].pc = "b_motors", ![c].motors = s,
                                 ![c].flag = e, ![c].from = f]
      BY <2>3 DEF BatchBegin
    <3> HIDE DEF f
    <3> DEFINE n == [k EXCEPT !.pc = "b_motors", !.motors = s, !.flag = e, !.from = f]
    <3>2. call' = [call EXCEPT ![c] = n]
      BY <1>a, <3>1
    <3>3. n.pc = "b_motors" /\ n.op = k.op
      BY <1>a DEF Calls
    <3>4. QED
      BY <3>2, <3>3
  <2>4. CASE BatchMotors(c)
    <3>1. PICK o \in BOOLEAN, pc \in {"b_end", "b_unsafe"} :
            call' = [call EXCEPT ![c].pc = pc, ![c].ok = o]
      <4>1. \/ call' = [call EXCEPT ![c].pc = "b_end", ![c].ok = FALSE]
            \/ call' = [call EXCEPT ![c].pc = "b_end", ![c].ok = TRUE]
            \/ call' = [call EXCEPT ![c].pc = "b_unsafe", ![c].ok = FALSE]
        BY <2>4 DEF BatchMotors
      <4>2. QED
        BY <4>1
    <3> DEFINE n == [k EXCEPT !.pc = pc, !.ok = o]
    <3>2. call' = [call EXCEPT ![c] = n]
      BY <1>a, <3>1
    <3>3. n.pc = pc /\ n.op = k.op
      BY <1>a DEF Calls
    <3>4. QED
      BY <3>2, <3>3
  <2>5. QED
    BY <2>1, <2>2, <2>3, <2>4 DEF PowerSteps, PowerStateBegin, PowerStateFeedback,
         PowerStateEnd, BatchEnd
<1>3. \A d \in Callers : /\ call'[d].op \in left.ops \cup {"none"}
                         /\ call'[d].pc = "m_retry" => call'[d].op = "clear_faults"
  BY <1>0, <1>2, CallOps
<1>4. QED
  BY <1>0, <1>1, <1>3, <1>c, PlainOld

LEMMA CloseOld ==
  ASSUME Inv, OldInv, NEW c \in Callers, Close(c)
  PROVE  OldInv'
<1>0. /\ call[c].pc \in ClosePcs /\ call[c].pc \notin {"idle", "m_retry"}
      /\ left' = left /\ frame' = frame
  BY DEF Close, CloseBegin, CloseStop, CloseJoin, At, ClosePcs, Others
<1>a. rt \in Runtimes /\ (TargetsDropped => Fresh)
  BY <1>0, AtPlace
<1>1. CASE CloseBegin(c)
  <2>0. call[c].pc = "x_begin" /\ rt' = rt
    BY <1>1 DEF CloseBegin, At
  <2>1. \E pc \in {"idle", "d_begin", "x_stop"} : Turns(c, pc)
    <3>1. CASE Return(c)
      BY <3>1, ReturnTurns
    <3>2. CASE Go(c, "d_begin") \/ Go(c, "x_stop")
      BY <1>0, <3>2, GoTurns
    <3>3. QED
      BY <1>1, <3>1, <3>2 DEF CloseBegin
  <2>2. PICK pc \in {"idle", "d_begin", "x_stop"} : Turns(c, pc)
    BY <2>1
  <2>3. Passes(rt, call[c].pc, rt', pc)
    BY <2>0 DEF Passes, Waits, EnablePcs, StillPcs
  <2>4. QED
    BY <1>0, <2>0, <2>2, <2>3, SlotsOld DEF Slots
<1>2. CASE CloseStop(c)
  <2>0. call[c].pc = "x_stop" /\ Go(c, "x_join")
    BY <1>2 DEF CloseStop, At
  <2> DEFINE t == Terminate(rt, "CANCELLED")
             q == ClearTargets(t)
  <2>1. t \in Runtimes /\ Drops(rt, t) /\ ~Live(t) /\ t.state = rt.state
    BY <1>a, TerminateSlots
  <2> HIDE DEF t
  <2>2. /\ q \in Runtimes /\ Drops(t, q) /\ q.pending = "none"
        /\ q.trajectory = t.trajectory /\ q.state = t.state
    BY <2>1, ClearTargetsSlots
  <2>3. rt' = [q EXCEPT !.stopping = TRUE, !.accepted = FALSE,
                 !.enable_grace = FALSE, !.planning = FALSE, !.hold = FALSE]
    BY <1>2 DEF CloseStop, t
  <2> HIDE DEF q
  <2>4. Slots(q, rt') /\ rt'.state = q.state
    BY <2>2, <2>3, ZenonT(60) DEF Slots, Runtimes
  <2>5. Drops(rt, rt') /\ Empty(rt')
    BY <2>1, <2>2, <2>4 DEF Drops, Slots, Live, Empty
  <2>6. Turns(c, "x_join")
    BY <1>0, <2>0, GoTurns
  <2>7. Passes(rt, call[c].pc, rt', "x_join")
    BY <2>1, <2>2, <2>4, <2>5 DEF Passes, Waits, Empty, EnablePcs, StillPcs
  <2>8. TargetsDropped => rt'.old = {} /\ ~frame'.old
    BY <1>0, <1>a, <2>5 DEF Fresh, Drops
  <2>9. QED
    BY <1>0, <2>5, <2>6, <2>7, <2>8, OwnerOld DEF Drops
<1>3. CASE CloseJoin(c)
  <2>0. /\ call[c].pc = "x_join" /\ Return(c)
        /\ rt' = [rt EXCEPT !.state = "DISCONNECTED"]
    BY <1>3 DEF CloseJoin, At
  <2>1. rt.state \in Idle /\ rt.pending = "none"
    BY <1>0, <2>0, OwnerFacts DEF Local, NoTargets, Idle
  <2>2. Slots(rt, rt') /\ rt'.state = "DISCONNECTED"
    BY <1>a, <2>0 DEF Slots, Runtimes
  <2>3. Turns(c, "idle")
    BY <2>0, ReturnTurns
  <2>4. Passes(rt, call[c].pc, rt', "idle")
    BY <2>0, <2>1, <2>2
       DEF Passes, Waits, Slots, Live, EnablePcs, StillPcs, Idle, Moving
  <2>5. QED
    BY <1>0, <2>2, <2>3, <2>4, SlotsOld
<1>4. QED
  BY <1>1, <1>2, <1>3 DEF Close

LEMMA BeginOld ==
  ASSUME Inv, OldInv, NEW c \in Callers, NEW op \in left.ops, Begin(c, op, Entry[op])
  PROVE  OldInv'
<1>1. /\ lifecycle = NoCaller /\ lifecycle' = c /\ rt' = rt /\ frame' = frame
      /\ call' = [call EXCEPT ![c].op = op, ![c].pc = Entry[op]]
      /\ left' = [left EXCEPT !.calls = @ - 1]
      /\ call \in [Callers -> Calls] /\ left \in Scenario
  BY DEF Begin, Inv, Types
<1>2. left'.ops = left.ops /\ left'.inputs = left.inputs /\ op \in AllOps
  BY <1>1 DEF Scenario
<1>3. Entry[op] \in EntryPcs
  BY <1>2 DEF Entry, EntryPcs, AllOps
<1>4. NoneLasting' = NoneLasting /\ TargetsDropped' = TargetsDropped
  BY <1>2 DEF NoneLasting, TargetsDropped
<1> DEFINE pc == Entry[op]
           k == call[c]
           n == [k EXCEPT !.op = op, !.pc = pc]
<1>5. call' = [call EXCEPT ![c] = n] /\ k \in Calls
  BY <1>1
<1> HIDE DEF pc, k
<1>6. n.op = op /\ n.pc = pc
  BY <1>5 DEF Calls
<1> HIDE DEF n
<1>7. call'[c] = n /\ \A d \in Callers \ {c} : call'[d] = call[d]
  BY <1>1, <1>5
<1>8. pc \in EntryPcs
  BY <1>3 DEF pc
<1>9. \A d \in Callers : /\ call'[d].op \in left'.ops \cup {"none"}
                         /\ call'[d].pc = "m_retry" => call'[d].op = "clear_faults"
  <2>1. call'[c].op \in left'.ops /\ call'[c].pc # "m_retry"
    BY <1>2, <1>6, <1>7, <1>8 DEF EntryPcs
  <2>2. QED
    BY <1>2, <1>7, <2>1 DEF OldInv
<1>10. Place = "idle" /\ Place' = pc
  <2>1. c # NoCaller
    BY RuntimeAssumption
  <2>2. QED
    BY <1>1, <1>6, <1>7, <2>1 DEF Place
<1>11. Waits(rt, "idle") => Waits(rt', pc)
  BY <1>1, <1>8 DEF Waits, EntryPcs, EnablePcs, StillPcs
<1>12. ASSUME TargetsDropped
       PROVE  Fresh'
  <2>1. Fresh
    BY <1>12 DEF OldInv
  <2>2. QED
    BY <1>1, <1>2, <1>4, <1>10, <1>11, <2>1 DEF Fresh
<1>13. QED
  BY <1>4, <1>9, <1>12 DEF OldInv

LEMMA StepOld ==
  ASSUME Inv, OldInv, NEW c \in Callers, Step(c)
  PROVE  OldInv'
  BY ConnectOld, EnableOld, DisableOld, EstopOld, MaintenanceOld, RecoverOld,
     PowerOld, CloseOld DEF Step

LEMMA InitOld == Init => OldInv
<1> SUFFICES ASSUME Init PROVE OldInv
  OBVIOUS
<1>1. /\ rt.old = {} /\ ~frame.old /\ rt.trajectory = "IDLE"
      /\ rt.pending = "none" /\ rt.state = "DISCONNECTED"
  BY DEF Init
<1>2. /\ lifecycle = NoCaller
      /\ \A c \in Callers : call[c].op = "none" /\ call[c].pc = "idle"
  BY DEF Init
<1>3. Place = "idle"
  BY <1>2 DEF Place
<1>4. Waits(rt, "idle")
  BY <1>1 DEF Waits, Live, EnablePcs, StillPcs
<1>5. Fresh
  BY <1>1, <1>3, <1>4 DEF Fresh, Live
<1>6. QED
  BY <1>2, <1>5 DEF OldInv

LEMMA NextOld ==
  ASSUME Inv, OldInv, [Next]_vars
  PROVE  OldInv'
<1>1. CASE UNCHANGED vars
  BY <1>1 DEF vars, OldInv, Fresh, TargetsDropped, NoneLasting, Waits, Place, Live,
       Empty
<1>2. CASE Next
  BY <1>2, StepOld, BeginOld, CommandsOld, TripOld, WorkerOld, AgesOld DEF Next
<1>3. QED
  BY <1>1, <1>2

-----------------------------------------------------------------------------
(* Theorems *)

\* hardware_transition_, which keeps the worker and every command from the
\* motors, is set only while an operation holds lifecycle_mutex_: no return,
\* failed step or exception path of connect(), enable(), disable(), estop(),
\* maintenance, recover(), the power functions or close() leaves it behind.
THEOREM TransitionNeverLeft == Spec => []TransitionOwned
<1>1. Inv => TransitionOwned
  BY DEF Inv, Types, Rest, TransitionOwned, TypeOK, Runtimes
<1>2. QED
  BY <1>1, RuntimeInvariant, PTL

\* disable_confirmed_ is true only when every motor is really off, except
\* where enable() or set_motor_power_batch() has turned motors on and is about
\* to withdraw it under the same lifecycle_mutex_.
THEOREM ConfirmedMeansOff == Spec => []ConfirmedOff
<1>1. Inv => ConfirmedOff
  <2> SUFFICES ASSUME Inv, rt.disable_confirmed
               PROVE  PoweringUp \/ AllOff(power)
    BY DEF ConfirmedOff
  <2>1. CASE lifecycle = NoCaller
    BY <2>1 DEF Inv, Rest, AllOff, Present
  <2>2. CASE lifecycle \in Callers
    BY <2>2 DEF Inv, Local, AllOff, Present, PoweringUp
  <2>3. QED
    BY <2>1, <2>2 DEF Inv, Types
<1>2. QED
  BY <1>1, RuntimeInvariant, PTL

\* After estop() only recover() leaves the fault: no other operation, batch or
\* maintenance step, no command and no step of the worker clears the latch,
\* changes the state to another than FAULT or DISCONNECTED, or leaves a target
\* to be sent.
THEOREM EstopStays == Spec => []EstopLatched
<1>1. Inv => EstopLatched
  <2> SUFFICES ASSUME Inv, rt.estop,
                      \A c \in Callers : call[c].op \notin {"estop", "recover"}
               PROVE  Latched(rt)
    BY DEF EstopLatched, Latched, NoTargets
  <2>1. CASE lifecycle = NoCaller
    BY <2>1 DEF Inv, Rest
  <2>2. CASE lifecycle \in Callers
    <3>1. Local(rt, power, call[lifecycle]) /\ PcOf(call[lifecycle])
      BY <2>2 DEF Inv, Types
    <3>2. call[lifecycle].pc \in EstopPcs => call[lifecycle].op = "estop"
      BY <3>1, EstopOp
    <3>3. QED
      BY <2>2, <3>1, <3>2 DEF Local, EstopPcs
  <2>3. QED
    BY <2>1, <2>2 DEF Inv, Types
<1>2. QED
  BY <1>1, RuntimeInvariant, PTL

\* A worker that decided to send before an operation took the motors sends
\* nothing between the moment that operation has turned them off or on and the
\* moment it has set the new state, whatever command_mutex_ and the check
\* before the transmission are raced with.
THEOREM SilentWhenFrozen == Spec => []Frozen
<1>1. Inv => Frozen
  BY DEF Inv, Frozen
<1>2. QED
  BY <1>1, RuntimeInvariant, PTL

\* Once the worker has decided to stop an enabled and idle robot, no joint
\* target is acknowledged any more (install_joint_position and the install at
\* the end of a planning), so the stop drops none of those.  An accepted
\* trajectory or raw frame does not set first_command_accepted_: the theorem
\* says nothing of them, and the stop may drop them.
THEOREM GraceKeepsCommands == Spec => []GraceDropsNothing
<1>1. Inv => GraceDropsNothing
  BY DEF Inv, Always, GraceDropsNothing
<1>2. QED
  BY <1>1, RuntimeInvariant, PTL

\* No frame carries a target from before the enable() or recover() that turned
\* the motors on, whatever the threads, the motors and the worker do, in every
\* scenario of TargetsDropped.
THEOREM OldTargetsDropped == Spec => [](TargetsDropped => NoOldTarget)
<1>1. Init => OldInv
  BY InitOld
<1>2. Inv /\ Inv' /\ OldInv /\ [Next]_vars => OldInv'
  BY NextOld
<1>3. OldInv => (TargetsDropped => NoOldTarget)
  BY DEF OldInv, Fresh, NoOldTarget
<1>4. QED
  BY <1>1, <1>2, <1>3, RuntimeInvariant, PTL DEF Spec

=============================================================================
