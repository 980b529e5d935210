------------------------ MODULE ControlServiceProofs ------------------------
(***************************************************************************)
(* Theorems about ControlService for every number of clients, leases and   *)
(* sequence numbers, every queue capacity and every lease period longer    *)
(* than the stream lifespan.                                               *)
(***************************************************************************)
EXTENDS ControlService, TLAPS

-----------------------------------------------------------------------------
(* Type correctness *)

\* A finite motion is only ever registered for a control request.
MotionRequest == wk.pc \in {"motion", "register"} => wk.req.op = "MOVE"

TypeInv == TypeOK /\ MotionRequest

OutcomeRecord == [rt : RuntimeRecord, ok : BOOLEAN]

\* Building an outcome, and the updates operations make to a Runtime.
LEMMA OutcomeType ==
  ASSUME NEW r \in RuntimeRecord, NEW b \in BOOLEAN
  PROVE  Outcome(r, b) \in OutcomeRecord
BY DEF Outcome, OutcomeRecord

\* Ending a motion.
LEMMA TerminateType ==
  ASSUME NEW r \in RuntimeRecord, NEW s \in MotionState
  PROVE  Terminate(r, s) \in RuntimeRecord
BY DEF Terminate, RuntimeRecord

\* Entering a lifecycle state.
LEMMA StateType ==
  ASSUME NEW r \in RuntimeRecord, NEW s \in LifecycleState
  PROVE  [r EXCEPT !.state = s] \in RuntimeRecord
BY DEF RuntimeRecord

\* No lease is a possible owner of the streaming target.
LEMMA NoStream == 0 \in 0..MaxLease
BY LeaseAssumption

\* Entering a lifecycle state without a streaming target.
LEMMA OffType ==
  ASSUME NEW r \in RuntimeRecord, NEW s \in LifecycleState
  PROVE  [r EXCEPT !.state = s, !.stream = 0] \in RuntimeRecord
BY NoStream DEF RuntimeRecord

\* A Runtime just created.
LEMMA FreshType ==
  ASSUME NEW s \in LifecycleState
  PROVE  FreshRuntime(s) \in RuntimeRecord
<1>1. NoRuntime \in RuntimeRecord
  BY NoStream DEF NoRuntime, RuntimeRecord, LifecycleState, MotionState
<1>2. QED
  BY <1>1, StateType DEF FreshRuntime

\* stop_motion and disable, which both threads call, keep the Runtime's type.
LEMMA StopType ==
  ASSUME NEW r \in RuntimeRecord, NEW o \in StopOutcomes(r)
  PROVE  o \in OutcomeRecord
<1>1. Terminate(r, "CANCELLED") \in RuntimeRecord
  BY TerminateType DEF MotionState
<1>2. QED
  BY <1>1, OutcomeType DEF StopOutcomes, Rejected

\* disable.
LEMMA DisableType ==
  ASSUME NEW r \in RuntimeRecord, NEW o \in DisableOutcomes(r)
  PROVE  o \in OutcomeRecord
<1> DEFINE off(s) == [Terminate(r, "CANCELLED") EXCEPT !.state = s,
                                                       !.stream = 0]
<1>1. Terminate(r, "CANCELLED") \in RuntimeRecord
  BY TerminateType DEF MotionState
<1>2. off("FAULT") \in RuntimeRecord /\ off("READY") \in RuntimeRecord
  BY <1>1, OffType DEF LifecycleState
<1>3. \/ o = Outcome(r, FALSE)
      \/ o = Outcome(off("FAULT"), FALSE)
      \/ o = Outcome(off("FAULT"), TRUE)
      \/ o = Outcome(off("READY"), TRUE)
  BY DEF DisableOutcomes, Rejected
<1> HIDE DEF off
<1>4. QED
  BY <1>2, <1>3, OutcomeType

\* So does a stream submission on behalf of a lease.
LEMMA StreamType ==
  ASSUME NEW r \in RuntimeRecord, NEW l \in 0..MaxLease,
         NEW o \in StreamOutcomes(r, l)
  PROVE  o \in OutcomeRecord
<1>1. Terminate(r, "CANCELLED") \in RuntimeRecord
  BY TerminateType DEF MotionState
<1>2. [Terminate(r, "CANCELLED") EXCEPT !.stream = l] \in RuntimeRecord
  BY <1>1 DEF RuntimeRecord
<1>3. QED
  BY <1>1, <1>2, OutcomeType DEF StreamOutcomes, Rejected

\* The operations of the power path.
LEMMA EnableType ==
  ASSUME NEW r \in RuntimeRecord, NEW o \in EnableOutcomes(r)
  PROVE  o \in OutcomeRecord
<1>1. /\ [r EXCEPT !.state = "ENABLED"] \in RuntimeRecord
      /\ [r EXCEPT !.state = "FAULT"] \in RuntimeRecord
  BY StateType DEF LifecycleState
<1>2. QED
  BY <1>1, OutcomeType DEF EnableOutcomes, Rejected

\* estop.
LEMMA EstopType ==
  ASSUME NEW r \in RuntimeRecord, NEW o \in EstopOutcomes(r)
  PROVE  o \in OutcomeRecord
<1> DEFINE stop == [Terminate(r, "FAULT") EXCEPT !.state = "FAULT",
                                                 !.stream = 0]
<1>1. Terminate(r, "FAULT") \in RuntimeRecord
  BY TerminateType DEF MotionState
<1>2. stop \in RuntimeRecord
  BY <1>1, OffType DEF LifecycleState
<1>3. \/ o = Outcome(r, FALSE)
      \/ o = Outcome(stop, TRUE)
      \/ o = Outcome(stop, FALSE)
  BY DEF EstopOutcomes, Rejected
<1> HIDE DEF stop
<1>4. QED
  BY <1>2, <1>3, OutcomeType

\* recover(), whatever it leaves of the motion.
LEMMA RecoverType ==
  ASSUME NEW r \in RuntimeRecord, NEW o \in RecoverOutcomes(r)
  PROVE  o \in OutcomeRecord
<1> DEFINE end(m, s) == [m EXCEPT !.state = s, !.stream = 0]
<1>1. /\ Terminate(r, "CANCELLED") \in RuntimeRecord
      /\ Terminate(r, "FAULT") \in RuntimeRecord
  BY TerminateType, ZenonT(30) DEF MotionState
<1>2. /\ end(r, "FAULT") \in RuntimeRecord
      /\ end(Terminate(r, "CANCELLED"), "FAULT") \in RuntimeRecord
      /\ end(Terminate(r, "FAULT"), "FAULT") \in RuntimeRecord
      /\ end(Terminate(r, "CANCELLED"), "READY") \in RuntimeRecord
  BY <1>1, OffType DEF LifecycleState
<1>3. \/ o = Outcome(r, FALSE)
      \/ o = Outcome(end(r, "FAULT"), FALSE)
      \/ o = Outcome(end(Terminate(r, "CANCELLED"), "FAULT"), FALSE)
      \/ o = Outcome(end(Terminate(r, "FAULT"), "FAULT"), FALSE)
      \/ o = Outcome(end(Terminate(r, "CANCELLED"), "READY"), TRUE)
  BY DEF RecoverOutcomes, Rejected
<1> HIDE DEF end
<1>4. QED
  BY <1>2, <1>3, OutcomeType

\* Maintenance, and the life of the Runtime object.
LEMMA MaintenanceType ==
  ASSUME NEW r \in RuntimeRecord, NEW S, NEW o \in MaintenanceOutcomes(r, S)
  PROVE  o \in OutcomeRecord
<1>1. /\ [r EXCEPT !.state = "READY"] \in RuntimeRecord
      /\ [r EXCEPT !.state = "FAULT"] \in RuntimeRecord
  BY StateType DEF LifecycleState
<1>2. QED
  BY <1>1, OutcomeType DEF MaintenanceOutcomes, Rejected

\* connect on an existing object.
LEMMA ConnectType ==
  ASSUME NEW r \in RuntimeRecord, NEW o \in ConnectOutcomes(r)
  PROVE  o \in OutcomeRecord
<1>1. [r EXCEPT !.state = "READY"] \in RuntimeRecord
  BY StateType DEF LifecycleState
<1>2. CASE r.state = "READY"
  BY <1>2, MaintenanceType DEF ConnectOutcomes
<1>3. CASE r.state # "READY"
  BY <1>1, <1>3, OutcomeType DEF ConnectOutcomes, Rejected
<1>4. QED
  BY <1>2, <1>3

\* disconnect.
LEMMA DisconnectType ==
  ASSUME NEW r \in RuntimeRecord, NEW o \in DisconnectOutcomes(r)
  PROVE  o \in OutcomeRecord
<1>1. FreshRuntime("TERMINAL") \in RuntimeRecord
  BY FreshType DEF LifecycleState
<1>2. QED
  BY <1>1, OutcomeType DEF DisconnectOutcomes

\* A finite motion carries the identity of its request.
LEMMA MoveType ==
  ASSUME NEW r \in RuntimeRecord, NEW i \in MotionId,
         NEW o \in MoveOutcomes(r, i)
  PROVE  o \in OutcomeRecord
<1> DEFINE started == [r EXCEPT !.motion = i, !.mstate = "RUNNING",
                                !.stream = 0]
<1>1. started \in RuntimeRecord
  BY NoStream DEF RuntimeRecord, MotionState
<1>2. o = Outcome(r, FALSE) \/ o = Outcome(started, TRUE)
  BY DEF MoveOutcomes, Rejected
<1> HIDE DEF started
<1>3. QED
  BY <1>1, <1>2, OutcomeType

\* Only a control request is a MOVE, and its identity names a motion.
LEMMA RequestId ==
  ASSUME NEW r \in Request \cup {Query}, r # Query
  PROVE  IdOf(r) \in MotionId
BY DEF Request, IdOf, MotionId

\* Every operation the worker hands to the Runtime keeps its type.
LEMMA OutcomesType ==
  ASSUME TypeOK, NEW o \in Outcomes(wk.req)
  PROVE  o \in OutcomeRecord
<1>1. rt \in RuntimeRecord /\ wk.req \in Request \cup {Query}
  BY DEF TypeOK, WorkerRecord
<1>2. wk.req.op = "MOVE" => IdOf(wk.req) \in MotionId
  BY <1>1, RequestId DEF Query
<1>3. CASE wk.req.op \in {"CLEAR_FAULTS", "CONFIGURE_MODE"}
  BY <1>1, <1>3, MaintenanceType DEF Outcomes
<1>4. CASE wk.req.op \in {"ENABLE", "ESTOP"}
  BY <1>1, <1>4, EnableType, EstopType DEF Outcomes
<1>5. CASE wk.req.op = "RECOVER"
  BY <1>1, <1>5, RecoverType DEF Outcomes
<1>6. CASE wk.req.op = "DISABLE"
  BY <1>1, <1>6, DisableType DEF Outcomes
<1>7. CASE wk.req.op = "STOP_MOTION"
  BY <1>1, <1>7, StopType DEF Outcomes
<1>8. CASE wk.req.op = "MOVE"
  BY <1>1, <1>2, <1>8, MoveType DEF Outcomes
<1>9. CASE wk.req.op \in {"CONNECT", "DISCONNECT"}
  BY <1>1, <1>9, ConnectType, DisconnectType DEF Outcomes
<1>10. CASE wk.req.op \notin LifecycleOps \cup {"MOVE", "STOP_MOTION"}
  BY <1>1, <1>10, OutcomeType DEF Outcomes, LifecycleOps
<1>11. QED
  BY <1>3, <1>4, <1>5, <1>6, <1>7, <1>8, <1>9, <1>10 DEF LifecycleOps

\* What the Runtime's own thread does keeps its type too.
LEMMA RuntimeStepType ==
  ASSUME NEW r \in RuntimeRecord, NEW q \in MotionSteps(r) \cup FaultSteps(r)
  PROVE  q \in RuntimeRecord
<1>1. CASE q \in MotionSteps(r)
  <2>1. \E s \in {"RUNNING", "COMPLETED", "FAULT"} : q = [r EXCEPT !.mstate = s]
    BY <1>1, Zenon DEF MotionSteps
  <2>2. QED
    BY <2>1 DEF RuntimeRecord, MotionState
<1>2. CASE q \in FaultSteps(r)
  <2>1. Terminate(r, "FAULT") \in RuntimeRecord
    BY TerminateType DEF MotionState
  <2>2. q = [Terminate(r, "FAULT") EXCEPT !.state = "FAULT", !.stream = 0]
    BY <1>2 DEF FaultSteps
  <2>3. QED
    BY <2>1, <2>2, OffType DEF LifecycleState
<1>3. QED
  BY <1>1, <1>2

\* The worker moves on, or rests with its locals reset.
LEMMA WorkerGotoType ==
  ASSUME NEW w \in WorkerRecord, NEW pc \in WorkerPc
  PROVE  Rest([w EXCEPT !.pc = pc]) \in WorkerRecord
<1>1. [w EXCEPT !.pc = pc] \in WorkerRecord
  BY DEF WorkerRecord
<1>2. Resting \in WorkerRecord
  BY DEF Resting, WorkerRecord, WorkerPc
<1>3. QED
  BY <1>1, <1>2 DEF Rest

\* The I/O thread moves on.
LEMMA IoGotoType ==
  ASSUME NEW i \in IoRecord, NEW pc \in LoopPc \cup LostPc \cup StopPc
  PROVE  [i EXCEPT !.pc = pc] \in IoRecord
BY DEF IoRecord

\* A terminal event keeps the event table a table of events.
LEMMA FinishType ==
  ASSUME TypeOK, NEW k \in EventKind, FinishPending(k)
  PROVE  /\ pending' \in MotionId \cup {NoMotion}
         /\ events' \in [MotionId -> EventKind]
BY DEF FinishPending, TypeOK

\* Losing the lease keeps types.
LEMMA LoseLeaseType ==
  ASSUME TypeOK, NEW p \in LoopPc \cup StopPc, LoseLease(p)
  PROVE  /\ LeaseTypeOK'
         /\ late' \in Nat
         /\ mailbox' \in Command \cup {NoCommand}
         /\ io' \in IoRecord
<1>1. LeaseTypeOK' /\ late' \in Nat
  BY LeaseAssumption
  DEF TypeOK, LeaseTypeOK, LoseLease, DropLease, ResetSequences
<1>2. mailbox' \in Command \cup {NoCommand}
  BY DEF LoseLease
<1>3. io' \in IoRecord
  <2>1. io \in IoRecord
    BY DEF TypeOK
  <2>2. \E pc \in LostPc : io' = [io EXCEPT !.pc = pc, !.ret = p]
    BY DEF LoseLease, LostPc
  <2>3. QED
    BY <2>1, <2>2 DEF IoRecord
<1>4. QED
  BY <1>1, <1>2, <1>3

\* Type correctness of the loss callback.
LEMMA IoLostType ==
  ASSUME TypeInv, IoLost
  PROVE  TypeInv'
<1> USE DEF TypeInv, MotionRequest
<1>1. CASE LostStop
  <2>1. rt' \in RuntimeRecord
    BY <1>1, StopType DEF LostStop, TypeOK, OutcomeRecord
  <2>2. io' \in IoRecord
    BY <1>1, IoGotoType DEF LostStop, ioGoto, TypeOK, LostPc
  <2>3. QED
    BY <1>1, <2>1, <2>2
    DEF LostStop, TypeOK, LeaseTypeOK, leaseVars, queueVars, history
<1>2. CASE LostDisable
  <2>1. rt' \in RuntimeRecord
    BY <1>2, DisableType DEF LostDisable, TypeOK, OutcomeRecord
  <2>2. io' \in IoRecord
    BY <1>2, IoGotoType DEF LostDisable, ioGoto, TypeOK, LostPc
  <2>3. QED
    BY <1>2, <2>1, <2>2
    DEF LostDisable, TypeOK, LeaseTypeOK, leaseVars, queueVars, history
<1>3. CASE LostCancel
  <2>1. io' \in IoRecord
    BY <1>3 DEF LostCancel, TypeOK, IoRecord, LoopPc
  <2>2. /\ pending' \in MotionId \cup {NoMotion}
        /\ events' \in [MotionId -> EventKind]
    BY <1>3, FinishType DEF LostCancel, EventKind
  <2>3. QED
    BY <1>3, <2>1, <2>2
    DEF LostCancel, TypeOK, LeaseTypeOK, leaseVars, queueVars, runtimeVars,
        history
<1>4. QED
  BY <1>1, <1>2, <1>3 DEF IoLost

\* Type correctness of the I/O loop.
LEMMA IoLoopType ==
  ASSUME TypeInv, IoLoop
  PROVE  TypeInv'
<1> USE DEF TypeInv, MotionRequest
<1>1. CASE ExpireIfNeeded
  <2>1. CASE Expired
    <3>1. /\ LeaseTypeOK' /\ late' \in Nat
          /\ mailbox' \in Command \cup {NoCommand} /\ io' \in IoRecord
      BY <1>1, <2>1, LoseLeaseType DEF ExpireIfNeeded, LoopPc
    <3>2. QED
      BY <1>1, <3>1 DEF ExpireIfNeeded, TypeOK, queueVars, runtimeVars
  <2>2. CASE ~Expired
    <3>1. io' \in IoRecord
      BY <1>1, <2>2, IoGotoType DEF ExpireIfNeeded, ioGoto, TypeOK, LoopPc
    <3>2. QED
      BY <1>1, <2>2, <3>1
      DEF ExpireIfNeeded, TypeOK, LeaseTypeOK, leaseVars, queueVars, runtimeVars
  <2>3. QED
    BY <2>1, <2>2
<1>2. CASE TakeControlDone \/ TakeStreamDone
  <2>1. io \in IoRecord /\ {"stream", "pump"} \subseteq LoopPc
    BY DEF TypeOK, LoopPc
  <2>2. ioGoto("stream") \/ ioGoto("pump")
    BY <1>2 DEF TakeControlDone, TakeStreamDone
  <2>3. io' \in IoRecord
    BY <2>1, <2>2, IoGotoType DEF ioGoto
  <2>4. QED
    BY <1>2, <2>3
    DEF TakeControlDone, TakeStreamDone, TypeOK, LeaseTypeOK, leaseVars,
        queueVars, runtimeVars, history
<1>3. CASE PumpLatest
  <2>1. mailbox' \in Command \cup {NoCommand}
    BY <1>3 DEF PumpLatest, TypeOK
  <2>2. io \in IoRecord
    BY DEF TypeOK
  <2>3. Fresh => mailbox.lease \in 0..MaxLease
    BY LeaseAssumption DEF Fresh, TypeOK, Command, LeaseId
  <2>4. \/ io' = [io EXCEPT !.pc = "state"]
        \/ \E l \in 0..MaxLease : io' = [io EXCEPT !.pc = "submit", !.cmd = l]
    BY <1>3, <2>3, NoStream DEF PumpLatest, ioGoto
  <2>5. io' \in IoRecord
    BY <2>2, <2>4 DEF IoRecord, LoopPc
  <2>6. QED
    BY <1>3, <2>1, <2>5
    DEF PumpLatest, TypeOK, LeaseTypeOK, leaseVars, queueVars, runtimeVars,
        history
<1>4. CASE SubmitStream
  <2>1. rt \in RuntimeRecord /\ io.cmd \in 0..MaxLease
    BY DEF TypeOK, IoRecord
  <2>2. rt' \in RuntimeRecord
    BY <1>4, <2>1, StreamType DEF SubmitStream, OutcomeRecord
  <2>3. io' \in IoRecord
    BY <1>4, NoStream DEF SubmitStream, TypeOK, IoRecord, LoopPc
  <2>4. QED
    BY <1>4, <2>2, <2>3
    DEF SubmitStream, TypeOK, LeaseTypeOK, leaseVars, queueVars, history
<1>5. CASE PublishState
  <2>1. io \in IoRecord /\ rt.motion \in MotionId \cup {NoMotion}
    BY DEF TypeOK, RuntimeRecord
  <2>2. MotionArrived(rt) \in BOOLEAN
    BY DEF MotionArrived
  <2>3. ASSUME NEW b \in BOOLEAN, NEW m \in MotionId \cup {NoMotion}
        PROVE  [io EXCEPT !.pc = "finish", !.arrived = b, !.seen = m]
                 \in IoRecord
    BY <2>1 DEF IoRecord, LoopPc
  <2>4. io' \in IoRecord
    <3>1. CASE io' = [io EXCEPT !.pc = "finish", !.arrived = MotionArrived(rt),
                                !.seen = rt.motion]
      BY <2>1, <2>2, <2>3, <3>1, Zenon
    <3>2. CASE ioGoto("expire")
      BY <2>1, <3>2, IoGotoType DEF ioGoto, LoopPc
    <3>3. QED
      BY <1>5, <3>1, <3>2, Zenon DEF PublishState
  <2>5. QED
    BY <1>5, <2>4
    DEF PublishState, TypeOK, LeaseTypeOK, leaseVars, queueVars, runtimeVars,
        history
<1>6. CASE PublishFinish
  <2>1. io' \in IoRecord
    BY <1>6 DEF PublishFinish, TypeOK, IoRecord, LoopPc
  <2>2. /\ pending' \in MotionId \cup {NoMotion}
        /\ events' \in [MotionId -> EventKind]
    BY <1>6, FinishType DEF PublishFinish, EventKind, TypeOK
  <2>3. QED
    BY <1>6, <2>1, <2>2
    DEF PublishFinish, TypeOK, LeaseTypeOK, leaseVars, queueVars, runtimeVars,
        history
<1>7. QED
  BY <1>1, <1>2, <1>3, <1>4, <1>5, <1>6 DEF IoLoop

\* Type correctness of the shutdown.
LEMMA IoShutdownType ==
  ASSUME TypeInv, IoShutdown
  PROVE  TypeInv'
<1> USE DEF TypeInv, MotionRequest
<1>1. CASE JoinAndRevoke
  <2>1. CASE Active
    <3>1. /\ LeaseTypeOK' /\ late' \in Nat
          /\ mailbox' \in Command \cup {NoCommand} /\ io' \in IoRecord
      BY <1>1, <2>1, LoseLeaseType DEF JoinAndRevoke, StopPc
    <3>2. QED
      BY <1>1, <3>1 DEF JoinAndRevoke, TypeOK, queueVars, runtimeVars
  <2>2. CASE ~Active
    <3>1. io' \in IoRecord
      BY <1>1, <2>2, IoGotoType DEF JoinAndRevoke, ioGoto, TypeOK, StopPc
    <3>2. QED
      BY <1>1, <2>2, <3>1
      DEF JoinAndRevoke, TypeOK, LeaseTypeOK, leaseVars, queueVars, runtimeVars
  <2>3. QED
    BY <2>1, <2>2
<1>2. ASSUME NEW from, NEW to \in StopPc, NEW outcomes,
             ShutdownStep(from, to, outcomes),
             \A o \in outcomes : o \in OutcomeRecord
      PROVE  TypeInv'
  <2>1. rt' \in RuntimeRecord
    BY <1>2 DEF ShutdownStep, OutcomeRecord
  <2>2. io' \in IoRecord
    BY <1>2, IoGotoType DEF ShutdownStep, ioGoto, TypeOK
  <2>3. QED
    BY <1>2, <2>1, <2>2
    DEF ShutdownStep, TypeOK, LeaseTypeOK, leaseVars, queueVars, history
<1>3. rt \in RuntimeRecord
  BY DEF TypeOK
<1>4. CASE ShutdownStop
  BY <1>2, <1>3, <1>4, StopType DEF ShutdownStop, StopPc
<1>5. CASE ShutdownDisable
  BY <1>2, <1>3, <1>5, DisableType DEF ShutdownDisable, StopPc
<1>6. CASE ShutdownDisconnect
  <2>1. NoRuntime \in RuntimeRecord
    BY NoStream DEF NoRuntime, RuntimeRecord, LifecycleState, MotionState
  <2>2. \A o \in {Outcome(NoRuntime, TRUE)} : o \in OutcomeRecord
    BY <2>1, OutcomeType
  <2>3. QED
    BY <1>2, <1>6, <2>2 DEF ShutdownDisconnect, StopPc
<1>7. QED
  BY <1>1, <1>4, <1>5, <1>6 DEF IoShutdown

\* Creating a Runtime, or failing to and backing off.
LEMMA CreateType ==
  ASSUME TypeOK, CreateRuntime
  PROVE  /\ rt' \in RuntimeRecord
         /\ retry' \in [wait : 0..RetryMax, delay : 1..RetryMax]
<1>1. CASE \E s \in {"READY", "FAULT"} :
             /\ rt' = FreshRuntime(s)
             /\ retry' = [wait |-> 0, delay |-> RetryInitial]
  BY <1>1, FreshType, ServiceAssumption DEF LifecycleState
<1>2. CASE /\ retry' = [wait |-> retry.delay,
                        delay |-> IF 2 * retry.delay < RetryMax
                                    THEN 2 * retry.delay ELSE RetryMax]
           /\ UNCHANGED rt
  BY <1>2, ServiceAssumption DEF TypeOK
<1>3. QED
  BY <1>1, <1>2 DEF CreateRuntime

\* Type correctness of the worker up to the call.
LEMMA WorkerStartType ==
  ASSUME TypeInv,
         EnsureRuntime \/ WorkerPop \/ WorkerExit \/ WorkerBusy \/ WorkerCheck
           \/ WorkerExecute
  PROVE  TypeInv'
<1> USE DEF TypeInv, MotionRequest
<1>1. CASE EnsureRuntime
  BY <1>1, CreateType
  DEF EnsureRuntime, TypeOK, LeaseTypeOK, leaseVars, queueVars, history
<1>2. CASE WorkerPop
  <2>1. /\ Head(queue) \in Request \cup {Query}
        /\ Tail(queue) \in Seq(Request \cup {Query})
    BY <1>2 DEF WorkerPop, TypeOK
  <2>2. wk' \in WorkerRecord
    BY <1>2, <2>1 DEF WorkerPop, TypeOK, WorkerRecord, WorkerPc
  <2>3. wk'.pc \notin {"motion", "register"}
    BY <1>2 DEF WorkerPop, TypeOK, WorkerRecord
  <2>4. QED
    BY <1>2, <2>1, <2>2, <2>3
    DEF WorkerPop, TypeOK, LeaseTypeOK, leaseVars, runtimeVars, history
<1>3. ASSUME NEW pc \in WorkerPc \ {"motion", "register"}, wkGoto(pc)
      PROVE  wk' \in WorkerRecord /\ wk'.pc \notin {"motion", "register"}
  <2>1. wk \in WorkerRecord
    BY DEF TypeOK
  <2>2. wk' \in WorkerRecord
    BY <1>3, <2>1, WorkerGotoType DEF wkGoto
  <2>3. wk'.pc \notin {"motion", "register"}
    BY <1>3, <2>1 DEF wkGoto, Rest, Resting, WorkerRecord
  <2>4. QED
    BY <2>2, <2>3
<1>4. CASE WorkerExit \/ WorkerBusy \/ WorkerCheck
  <2>1. wk' \in WorkerRecord /\ wk'.pc \notin {"motion", "register"}
    BY <1>3, <1>4 DEF WorkerExit, WorkerBusy, WorkerCheck, WorkerPc
  <2>2. QED
    BY <1>4, <2>1
    DEF WorkerExit, WorkerBusy, WorkerCheck, TypeOK, LeaseTypeOK, leaseVars,
        queueVars, runtimeVars, history
<1>5. CASE WorkerExecute
  <2>1. wk' \in WorkerRecord /\ wk'.pc \notin {"motion", "register"}
    BY <1>3, <1>5 DEF WorkerExecute, WorkerPc
  <2>2. /\ rt' \in RuntimeRecord
        /\ retry' \in [wait : 0..RetryMax, delay : 1..RetryMax]
        /\ suspended' \in BOOLEAN
    <3>1. CASE wk.req.op = "CONNECT" /\ rt.state = "NONE"
      BY <1>5, <3>1, CreateType DEF WorkerExecute
    <3>2. CASE ~(wk.req.op = "CONNECT" /\ rt.state = "NONE")
      <4>1. rt \in RuntimeRecord
        BY DEF TypeOK
      <4>2. [rt EXCEPT !.state = "RECOVERING", !.stream = 0] \in RuntimeRecord
        BY <4>1, OffType DEF LifecycleState
      <4>3. QED
        BY <1>5, <3>2, <4>1, <4>2 DEF WorkerExecute, TypeOK
    <3>3. QED
      BY <3>1, <3>2
  <2>3. lastExec' \in MotionId \cup {NoMotion} /\ late' \in Nat
    <3>1. wk.req # Query => IdOf(wk.req) \in MotionId
      BY RequestId DEF TypeOK, WorkerRecord
    <3>2. QED
      BY <1>5, <3>1 DEF WorkerExecute, TypeOK, history
  <2>4. QED
    BY <1>5, <2>1, <2>2, <2>3
    DEF WorkerExecute, TypeOK, LeaseTypeOK, leaseVars, queueVars
<1>6. QED
  BY <1>1, <1>2, <1>4, <1>5

\* Type correctness of the worker from the answer of the Runtime on.
LEMMA WorkerFinishType ==
  ASSUME TypeInv,
         WorkerExecuted \/ WorkerRefresh \/ WorkerMotion \/ WorkerRegister
           \/ WorkerRecheck \/ WorkerCancel \/ WorkerDrop
  PROVE  TypeInv'
<1> USE DEF TypeInv, MotionRequest
<1>1. wk \in WorkerRecord
  BY DEF TypeOK
<1>2. CASE WorkerExecuted
  <2>1. PICK o \in Outcomes(wk.req) :
          /\ rt' = o.rt
          /\ wk' = Rest([wk EXCEPT !.pc = IF wk.req = Query THEN "idle"
                                          ELSE "refresh",
                                   !.ok = o.ok])
    BY <1>2 DEF WorkerExecuted
  <2>2. rt' \in RuntimeRecord /\ o.ok \in BOOLEAN
    BY <2>1, OutcomesType DEF OutcomeRecord
  <2>3. ASSUME NEW b \in BOOLEAN, NEW pc \in {"idle", "refresh"}
        PROVE  /\ Rest([wk EXCEPT !.pc = pc, !.ok = b]) \in WorkerRecord
               /\ Rest([wk EXCEPT !.pc = pc, !.ok = b]).pc
                    \notin {"motion", "register"}
    <3>1. [wk EXCEPT !.pc = pc, !.ok = b] \in WorkerRecord
      BY <1>1, <2>3 DEF WorkerRecord, WorkerPc
    <3>2. [wk EXCEPT !.pc = pc, !.ok = b].pc \notin {"motion", "register"}
      BY <1>1, <2>3 DEF WorkerRecord
    <3>3. Resting \in WorkerRecord /\ Resting.pc \notin {"motion", "register"}
      BY DEF Resting, WorkerRecord, WorkerPc
    <3>4. QED
      BY <3>1, <3>2, <3>3 DEF Rest
  <2>4. wk' \in WorkerRecord /\ wk'.pc \notin {"motion", "register"}
    BY <2>1, <2>2, <2>3, Zenon
  <2>5. QED
    BY <1>2, <2>2, <2>4
    DEF WorkerExecuted, TypeOK, LeaseTypeOK, leaseVars, queueVars, history
<1>3. CASE WorkerRefresh
  <2>1. LeaseTypeOK'
    BY <1>3, LeaseAssumption
    DEF WorkerRefresh, RefreshAfterControl, Owns, Active, Refresh, TypeOK,
        LeaseTypeOK, LeaseRecord
  <2>2. Owns(wk.req.client, wk.req.lease) \in BOOLEAN
    BY DEF Owns
  <2>3. ASSUME NEW b \in BOOLEAN, NEW pc \in WorkerPc,
               pc \in {"motion", "register"} => wk.req.op = "MOVE"
        PROVE  LET w == Rest([wk EXCEPT !.leaseOk = b, !.pc = pc])
               IN  /\ w \in WorkerRecord
                   /\ w.pc \in {"motion", "register"} => w.req.op = "MOVE"
    <3>1. [wk EXCEPT !.leaseOk = b, !.pc = pc] \in WorkerRecord
      BY <1>1 DEF WorkerRecord
    <3>2. /\ [wk EXCEPT !.leaseOk = b, !.pc = pc].pc = pc
          /\ [wk EXCEPT !.leaseOk = b, !.pc = pc].req = wk.req
      BY <1>1 DEF WorkerRecord
    <3>3. Resting \in WorkerRecord /\ Resting.pc \notin {"motion", "register"}
      BY DEF Resting, WorkerRecord, WorkerPc
    <3>4. QED
      BY <2>3, <3>1, <3>2, <3>3 DEF Rest
  <2>4. \E pc \in WorkerPc :
          /\ pc \in {"motion", "register"} => wk.req.op = "MOVE"
          /\ wk' = Rest([wk EXCEPT
                     !.leaseOk = Owns(wk.req.client, wk.req.lease), !.pc = pc])
    <3>1. \E pc \in {"motion", "cancel", "drop", "idle"} :
            /\ pc \in {"motion", "register"} => wk.req.op = "MOVE"
            /\ wk' = Rest([wk EXCEPT
                       !.leaseOk = Owns(wk.req.client, wk.req.lease),
                       !.pc = pc])
      BY <1>3 DEF WorkerRefresh
    <3>2. QED
      BY <3>1 DEF WorkerPc
  <2>5. /\ wk' \in WorkerRecord
        /\ wk'.pc \in {"motion", "register"} => wk'.req.op = "MOVE"
    BY <2>2, <2>3, <2>4, Zenon
  <2>6. QED
    BY <1>3, <2>1, <2>5
    DEF WorkerRefresh, TypeOK, queueVars, runtimeVars, history
<1>4. ASSUME NEW pc \in WorkerPc \ {"motion", "register"}, wkGoto(pc)
      PROVE  wk' \in WorkerRecord /\ wk'.pc \notin {"motion", "register"}
  <2>1. wk' \in WorkerRecord
    BY <1>1, <1>4, WorkerGotoType DEF wkGoto
  <2>2. wk'.pc \notin {"motion", "register"}
    BY <1>1, <1>4 DEF wkGoto, Rest, Resting, WorkerRecord
  <2>3. QED
    BY <2>1, <2>2
<1>5. CASE WorkerMotion
  <2>1. wk.req.op = "MOVE" /\ IdOf(wk.req) \in MotionId
    BY <1>1, <1>5, RequestId DEF WorkerMotion, WorkerRecord, Query
  <2>2. wkGoto("register") \/ wkGoto("idle")
    BY <1>5 DEF WorkerMotion
  <2>3. wk' \in WorkerRecord /\ (wk'.pc = "register" => wk'.req = wk.req)
    <3>1. wk' \in WorkerRecord
      BY <1>1, <2>2, WorkerGotoType DEF wkGoto, WorkerPc
    <3>2. wk'.pc = "register" => wk'.req = wk.req
      BY <1>1, <2>2 DEF wkGoto, Rest, Resting, WorkerRecord
    <3>3. QED
      BY <3>1, <3>2
  <2>4. wk'.pc # "motion"
    BY <1>1, <2>2 DEF wkGoto, Rest, Resting, WorkerRecord
  <2>5. events' \in [MotionId -> EventKind]
    BY <1>5, <2>1 DEF WorkerMotion, TypeOK, EventKind
  <2>6. QED
    BY <1>5, <2>1, <2>3, <2>4, <2>5
    DEF WorkerMotion, TypeOK, LeaseTypeOK, leaseVars, queueVars, runtimeVars,
        history
<1>6. CASE WorkerRegister
  <2>1. wk' \in WorkerRecord /\ wk'.pc \notin {"motion", "register"}
    BY <1>4, <1>6 DEF WorkerRegister, WorkerPc
  <2>2. pending' \in MotionId \cup {NoMotion}
    BY <1>1, <1>6, RequestId DEF WorkerRegister, WorkerRecord, Query
  <2>3. QED
    BY <1>6, <2>1, <2>2
    DEF WorkerRegister, TypeOK, LeaseTypeOK, leaseVars, queueVars, runtimeVars,
        history
<1>7. CASE WorkerRecheck \/ WorkerCancel
  <2>1. wk' \in WorkerRecord /\ wk'.pc \notin {"motion", "register"}
    BY <1>4, <1>7 DEF WorkerRecheck, WorkerCancel, WorkerPc
  <2>2. FinishPending("cancelled") \/ UNCHANGED <<pending, events>>
    BY <1>7 DEF WorkerRecheck, WorkerCancel
  <2>3. /\ pending' \in MotionId \cup {NoMotion}
        /\ events' \in [MotionId -> EventKind]
    BY <2>2, FinishType DEF EventKind, TypeOK
  <2>4. QED
    BY <1>7, <2>1, <2>3
    DEF WorkerRecheck, WorkerCancel, TypeOK, LeaseTypeOK, leaseVars, queueVars,
        runtimeVars, history
<1>8. CASE WorkerDrop
  <2>1. wk' \in WorkerRecord /\ wk'.pc \notin {"motion", "register"}
    BY <1>4, <1>8 DEF WorkerDrop, WorkerPc
  <2>2. rt' \in RuntimeRecord
    BY <1>8, NoStream
    DEF WorkerDrop, NoRuntime, RuntimeRecord, LifecycleState, MotionState
  <2>3. QED
    BY <1>8, <2>1, <2>2
    DEF WorkerDrop, TypeOK, LeaseTypeOK, leaseVars, queueVars, history
<1>9. QED
  BY <1>2, <1>3, <1>5, <1>6, <1>7, <1>8

\* Type correctness of what arrives from the clients.
LEMMA RequestsType ==
  ASSUME TypeInv, Requests
  PROVE  TypeInv'
<1> USE DEF TypeInv, MotionRequest
<1>1. ASSUME NEW c \in Clients, HandleAcquire(c)
      PROVE  TypeInv'
  <2>1. LeaseTypeOK'
    BY <1>1, LeaseAssumption
    DEF HandleAcquire, Acquire, Active, Refresh, ResetSequences, leaseVars,
        TypeOK, LeaseTypeOK, LeaseRecord, LeaseId, NoLease
  <2>2. late' \in Nat
    BY <1>1 DEF HandleAcquire, TypeOK
  <2>3. QED
    BY <1>1, <2>1, <2>2 DEF HandleAcquire, TypeOK, queueVars, runtimeVars
<1>2. ASSUME NEW c \in Clients, NEW l \in LeaseId, HandleRelease(c, l)
      PROVE  TypeInv'
  <2>1. /\ LeaseTypeOK' /\ late' \in Nat
        /\ mailbox' \in Command \cup {NoCommand} /\ io' \in IoRecord
    BY <1>2, LoseLeaseType DEF HandleRelease, LoopPc
  <2>2. QED
    BY <1>2, <2>1 DEF HandleRelease, TypeOK, queueVars, runtimeVars
<1>3. ASSUME NEW r \in Request, HandleControl(r)
      PROVE  TypeInv'
  <2>1. LeaseTypeOK'
    BY <1>3 DEF HandleControl, AuthorizeControl, TypeOK, LeaseTypeOK, Request,
                Sequence
  <2>2. queue' \in Seq(Request \cup {Query})
    BY <1>3 DEF HandleControl, Enqueue, TypeOK
  <2>3. QED
    BY <1>3, <2>1, <2>2 DEF HandleControl, TypeOK, runtimeVars, history
<1>4. ASSUME NEW c \in Clients, NEW l \in LeaseId, NEW s \in Sequence,
             HandleHeartbeat(c, l, s)
      PROVE  TypeInv'
  <2>1. LeaseTypeOK'
    BY <1>4, LeaseAssumption
    DEF HandleHeartbeat, Heartbeat, ControlAccepted, Valid, Owns, Active,
        Refresh, TypeOK, LeaseTypeOK, LeaseRecord, Sequence
  <2>2. QED
    BY <1>4, <2>1
    DEF HandleHeartbeat, TypeOK, queueVars, runtimeVars, history
<1>5. ASSUME NEW c \in Clients, NEW l \in LeaseId, NEW s \in Sequence,
             TakeStream(c, l, s)
      PROVE  TypeInv'
  <2>1. LeaseTypeOK'
    BY <1>5, LeaseAssumption
    DEF TakeStream, AuthorizeStream, StreamAccepted, Valid, Owns, Active,
        Refresh, TypeOK, LeaseTypeOK, LeaseRecord, Sequence
  <2>2. mailbox' \in Command \cup {NoCommand}
    BY <1>5, ServiceAssumption DEF TakeStream, Store, TypeOK, Command
  <2>3. QED
    BY <1>5, <2>1, <2>2 DEF TakeStream, TypeOK, queueVars, runtimeVars, history
<1>6. CASE HandleQuery
  <2>1. queue' \in Seq(Request \cup {Query})
    BY <1>6 DEF HandleQuery, Enqueue, TypeOK
  <2>2. QED
    BY <1>6, <2>1
    DEF HandleQuery, TypeOK, LeaseTypeOK, leaseVars, runtimeVars, history
<1>7. CASE StopService
  <2>1. io' \in IoRecord
    BY <1>7, IoGotoType DEF StopService, ioGoto, TypeOK, StopPc
  <2>2. QED
    BY <1>7, <2>1
    DEF StopService, TypeOK, LeaseTypeOK, leaseVars, runtimeVars, history
<1>8. QED
  BY <1>1, <1>2, <1>3, <1>4, <1>5, <1>6, <1>7 DEF Requests

\* Type correctness of the passage of time and of the Runtime's own thread.
LEMMA EnvironmentType ==
  ASSUME TypeInv, Tick \/ RuntimeStep
  PROVE  TypeInv'
<1> USE DEF TypeInv, MotionRequest
<1>1. CASE Tick
  <2>1. LeaseTypeOK'
    <3>1. CASE lease = NoLease
      <4>1. lease' = NoLease
        BY <1>1, <3>1 DEF Tick, LeaseTick, NoLease
      <4>2. QED
        BY <1>1, <4>1 DEF Tick, LeaseTick, TypeOK, LeaseTypeOK
    <3>2. CASE lease \in LeaseRecord
      <4>1. lease' \in LeaseRecord
        BY <1>1, <3>2, LeaseAssumption DEF Tick, LeaseTick, LeaseRecord
      <4>2. QED
        BY <1>1, <4>1 DEF Tick, LeaseTick, TypeOK, LeaseTypeOK
    <3>3. QED
      BY <3>1, <3>2 DEF TypeOK, LeaseTypeOK
  <2>2. mailbox' \in Command \cup {NoCommand}
    BY <1>1, ServiceAssumption DEF Tick, TypeOK, Command
  <2>3. retry' \in [wait : 0..RetryMax, delay : 1..RetryMax]
    BY <1>1, ServiceAssumption DEF Tick, TypeOK
  <2>4. QED
    BY <1>1, <2>1, <2>2, <2>3 DEF Tick, TypeOK, queueVars, history
<1>2. CASE RuntimeStep
  <2>1. rt' \in RuntimeRecord
    BY <1>2, RuntimeStepType DEF RuntimeStep, TypeOK
  <2>2. QED
    BY <1>2, <2>1
    DEF RuntimeStep, TypeOK, LeaseTypeOK, leaseVars, queueVars, history
<1>3. QED
  BY <1>1, <1>2

\* The initial state is typed.
LEMMA InitType == Init => TypeInv
<1> SUFFICES ASSUME Init PROVE TypeInv
  OBVIOUS
<1>1. LeaseTypeOK
  BY LeaseAssumption DEF Init, LeaseInit, LeaseTypeOK
<1>2. rt \in RuntimeRecord
  BY NoStream DEF Init, NoRuntime, RuntimeRecord, LifecycleState, MotionState
<1>3. io \in IoRecord
  BY NoStream DEF Init, IoRecord, LoopPc
<1>4. wk \in WorkerRecord /\ wk.pc \notin {"motion", "register"}
  BY DEF Init, Resting, WorkerRecord, WorkerPc
<1>5. retry \in [wait : 0..RetryMax, delay : 1..RetryMax]
  BY ServiceAssumption DEF Init
<1>6. events \in [MotionId -> EventKind]
  BY DEF Init, EventKind
<1>7. queue \in Seq(Request \cup {Query}) /\ late \in Nat
  BY DEF Init
<1>8. stopWorker \in BOOLEAN /\ suspended \in BOOLEAN
  BY DEF Init
<1>9. /\ mailbox \in Command \cup {NoCommand}
      /\ pending \in MotionId \cup {NoMotion}
      /\ lastExec \in MotionId \cup {NoMotion}
  BY DEF Init
<1>10. QED
  BY <1>1, <1>2, <1>3, <1>4, <1>5, <1>6, <1>7, <1>8, <1>9
  DEF TypeInv, TypeOK, MotionRequest

\* Every step keeps types.
LEMMA StepType == TypeInv /\ [Next]_vars => TypeInv'
<1> SUFFICES ASSUME TypeInv, [Next]_vars PROVE TypeInv'
  OBVIOUS
<1>1. CASE Next
  BY <1>1, IoLostType, IoLoopType, IoShutdownType, WorkerStartType,
     WorkerFinishType, RequestsType, EnvironmentType
  DEF Next, Worker
<1>2. CASE UNCHANGED vars
  BY <1>2 DEF vars, TypeInv, TypeOK, LeaseTypeOK, MotionRequest
<1>3. QED
  BY <1>1, <1>2

\* Every reachable state is typed, for every instance: in particular the retry
\* delay of ensure_runtime never exceeds can_retry_max, and every event is
\* published for the request of an authorized control operation.
THEOREM TypeCorrect == Spec => []TypeOK
<1>1. TypeInv => TypeOK
  BY DEF TypeInv
<1>2. QED
  BY <1>1, InitType, StepType, PTL DEF Spec

-----------------------------------------------------------------------------
(* Streaming under one's own lease *)

\* A command in the mailbox is stale, or of the current lease.  The second
\* half is what makes this inductive: the command was stored together with a
\* refresh, so the lease outlives the lifespan of the command, and a lease
\* that acquire may replace without clearing the mailbox leaves only stale
\* commands behind.
MailboxInv ==
  mailbox # NoCommand =>
    \/ mailbox.age > StreamLifespan
    \/ lease.id = mailbox.lease /\ lease.ttl + mailbox.age >= LeaseTicks

\* Between take and submission the I/O thread does not look at the lease, and
\* nobody else changes its owner.
CommandInv == io.cmd # 0 => io.pc = "submit" /\ lease.id = io.cmd

StreamInv == MailboxInv /\ CommandInv

\* A step of the I/O thread that holds no command.
LEMMA CommandlessStep ==
  ASSUME TypeOK, StreamInv, NEW p, p # "submit", io' = [io EXCEPT !.pc = p],
         io.pc # "submit", UNCHANGED <<lease, mailbox>>
  PROVE  StreamInv'
<1>1. io.cmd = 0 /\ io'.cmd = 0
  BY DEF StreamInv, CommandInv, TypeOK, IoRecord
<1>2. QED
  BY <1>1 DEF StreamInv, MailboxInv, CommandInv

\* A step of anybody else that leaves the lease and the mailbox alone.
LEMMA ForeignStep ==
  ASSUME StreamInv, UNCHANGED <<lease, mailbox, io>>
  PROVE  StreamInv'
BY DEF StreamInv, MailboxInv, CommandInv

\* A refresh gives the lease its full period.
LEMMA RefreshStep ==
  ASSUME TypeOK, StreamInv, Active, Refresh, UNCHANGED <<mailbox, io>>
  PROVE  StreamInv'
<1>1. lease'.id = lease.id /\ lease'.ttl = LeaseTicks
  BY DEF Refresh, Active, TypeOK, LeaseTypeOK, LeaseRecord
<1>2. mailbox # NoCommand => mailbox.age \in Nat
  BY ServiceAssumption DEF TypeOK, Command
<1>3. QED
  BY <1>1, <1>2, LeaseAssumption DEF StreamInv, MailboxInv, CommandInv

\* Losing the lease empties the mailbox, and only while no command is held.
LEMMA LoseLeaseStep ==
  ASSUME TypeOK, StreamInv, NEW p, LoseLease(p), io.pc # "submit"
  PROVE  StreamInv'
<1>1. mailbox' = NoCommand
  BY DEF LoseLease
<1>2. io.cmd = 0 /\ io'.cmd = 0
  BY DEF LoseLease, StreamInv, CommandInv, TypeOK, IoRecord
<1>3. QED
  BY <1>1, <1>2 DEF StreamInv, MailboxInv, CommandInv

\* The loss callback.
LEMMA IoLostStream ==
  ASSUME TypeOK, StreamInv, IoLost
  PROVE  StreamInv'
<1>1. CASE LostStop
  BY <1>1, CommandlessStep DEF LostStop, ioGoto, leaseVars
<1>2. CASE LostDisable
  BY <1>2, CommandlessStep DEF LostDisable, ioGoto, leaseVars
<1>3. CASE LostCancel
  <2>1. io.cmd = 0 /\ io'.cmd = 0
    BY <1>3 DEF LostCancel, StreamInv, CommandInv, TypeOK, IoRecord
  <2>2. QED
    BY <1>3, <2>1 DEF LostCancel, leaseVars, StreamInv, MailboxInv, CommandInv
<1>4. QED
  BY <1>1, <1>2, <1>3 DEF IoLost

\* The I/O loop; PumpLatest is where the mailbox becomes a command.
LEMMA IoLoopStream ==
  ASSUME TypeOK, StreamInv, IoLoop
  PROVE  StreamInv'
<1>1. CASE ExpireIfNeeded
  <2>1. CASE Expired
    BY <1>1, <2>1, LoseLeaseStep DEF ExpireIfNeeded
  <2>2. CASE ~Expired
    BY <1>1, <2>2, CommandlessStep DEF ExpireIfNeeded, ioGoto, leaseVars
  <2>3. QED
    BY <2>1, <2>2
<1>2. CASE TakeControlDone
  BY <1>2, CommandlessStep DEF TakeControlDone, ioGoto, leaseVars
<1>3. CASE TakeStreamDone
  BY <1>3, CommandlessStep DEF TakeStreamDone, ioGoto, leaseVars
<1>4. CASE PumpLatest
  <2>1. CASE ControlBusy
    BY <1>4, <2>1, CommandlessStep DEF PumpLatest, ioGoto, leaseVars
  <2>2. CASE ~ControlBusy
    <3>1. /\ mailbox' = NoCommand /\ lease' = lease
          /\ io'.pc = "submit"
          /\ io'.cmd = IF Fresh THEN mailbox.lease ELSE 0
      BY <1>4, <2>2 DEF PumpLatest, leaseVars, TypeOK, IoRecord
    <3>2. Fresh => lease.id = mailbox.lease
      BY ServiceAssumption DEF Fresh, StreamInv, MailboxInv, TypeOK, Command
    <3>3. QED
      BY <3>1, <3>2 DEF StreamInv, MailboxInv, CommandInv
  <2>3. QED
    BY <2>1, <2>2
<1>5. CASE SubmitStream
  <2>1. io'.cmd = 0 /\ UNCHANGED <<lease, mailbox>>
    BY <1>5 DEF SubmitStream, leaseVars, TypeOK, IoRecord
  <2>2. QED
    BY <2>1 DEF StreamInv, MailboxInv, CommandInv
<1>6. CASE PublishState \/ PublishFinish
  <2>1. io.cmd = 0 /\ io'.cmd = 0
    BY <1>6 DEF PublishState, PublishFinish, ioGoto, StreamInv, CommandInv,
                TypeOK, IoRecord
  <2>2. UNCHANGED <<lease, mailbox>>
    BY <1>6 DEF PublishState, PublishFinish, leaseVars
  <2>3. QED
    BY <2>1, <2>2 DEF StreamInv, MailboxInv, CommandInv
<1>7. QED
  BY <1>1, <1>2, <1>3, <1>4, <1>5, <1>6 DEF IoLoop

\* The shutdown.
LEMMA IoShutdownStream ==
  ASSUME TypeOK, StreamInv, IoShutdown
  PROVE  StreamInv'
<1>1. CASE JoinAndRevoke
  <2>1. CASE Active
    BY <1>1, <2>1, LoseLeaseStep DEF JoinAndRevoke
  <2>2. CASE ~Active
    <3>1. /\ mailbox' = NoCommand
          /\ io.cmd = 0 /\ io'.cmd = 0
      BY <1>1, <2>2 DEF JoinAndRevoke, ioGoto, StreamInv, CommandInv, TypeOK,
                        IoRecord
    <3>2. QED
      BY <3>1 DEF StreamInv, MailboxInv, CommandInv
  <2>3. QED
    BY <2>1, <2>2
<1>2. CASE ShutdownStop
  BY <1>2, CommandlessStep DEF ShutdownStop, ShutdownStep, ioGoto, leaseVars
<1>3. CASE ShutdownDisable
  BY <1>3, CommandlessStep DEF ShutdownDisable, ShutdownStep, ioGoto, leaseVars
<1>4. CASE ShutdownDisconnect
  BY <1>4, CommandlessStep
  DEF ShutdownDisconnect, ShutdownStep, ioGoto, leaseVars
<1>5. QED
  BY <1>1, <1>2, <1>3, <1>4 DEF IoShutdown

\* The worker touches neither the mailbox nor the I/O thread, and the lease
\* only to prolong it.
LEMMA WorkerStream ==
  ASSUME TypeOK, StreamInv, Worker
  PROVE  StreamInv'
<1>1. CASE WorkerRefresh
  <2>1. CASE Owns(wk.req.client, wk.req.lease)
    BY <1>1, <2>1, RefreshStep
    DEF WorkerRefresh, RefreshAfterControl, Owns
  <2>2. CASE ~Owns(wk.req.client, wk.req.lease)
    BY <1>1, <2>2, ForeignStep DEF WorkerRefresh, RefreshAfterControl
  <2>3. QED
    BY <2>1, <2>2
<1>2. CASE EnsureRuntime \/ WorkerPop \/ WorkerExit \/ WorkerBusy \/ WorkerCheck
  BY <1>2, ForeignStep
  DEF EnsureRuntime, WorkerPop, WorkerExit, WorkerBusy, WorkerCheck, leaseVars
<1>3. CASE WorkerExecute \/ WorkerExecuted
  BY <1>3, ForeignStep DEF WorkerExecute, WorkerExecuted, leaseVars
<1>4. CASE WorkerMotion \/ WorkerRegister \/ WorkerRecheck \/ WorkerCancel
             \/ WorkerDrop
  BY <1>4, ForeignStep
  DEF WorkerMotion, WorkerRegister, WorkerRecheck, WorkerCancel, WorkerDrop,
      leaseVars
<1>5. QED
  BY <1>1, <1>2, <1>3, <1>4 DEF Worker

\* What the clients send: acquire may replace an expired lease and leave the
\* mailbox as it is.
LEMMA RequestsStream ==
  ASSUME TypeOK, StreamInv, Requests
  PROVE  StreamInv'
<1>1. ASSUME NEW c \in Clients, HandleAcquire(c)
      PROVE  StreamInv'
  <2>1. UNCHANGED <<mailbox, io>> /\ io.pc = "control"
    BY <1>1 DEF HandleAcquire
  <2>2. CASE lease' = lease
    BY <2>1, <2>2, ForeignStep
  <2>3. CASE Active /\ Refresh
    BY <2>1, <2>3, RefreshStep
  <2>4. CASE ~Active \/ lease.ttl = 0
    <3>1. lease.ttl = 0
      BY <2>4 DEF Active, NoLease
    <3>2. mailbox # NoCommand => mailbox.age > StreamLifespan
      BY <3>1, LeaseAssumption, ServiceAssumption
      DEF StreamInv, MailboxInv, TypeOK, Command
    <3>3. io.cmd = 0
      BY <2>1 DEF StreamInv, CommandInv
    <3>4. QED
      BY <2>1, <3>2, <3>3 DEF StreamInv, MailboxInv, CommandInv
  <2>5. QED
    BY <1>1, <2>2, <2>3, <2>4 DEF HandleAcquire, Acquire, leaseVars
<1>2. ASSUME NEW c \in Clients, NEW l \in LeaseId, HandleRelease(c, l)
      PROVE  StreamInv'
  BY <1>2, LoseLeaseStep DEF HandleRelease
<1>3. ASSUME NEW r \in Request, HandleControl(r)
      PROVE  StreamInv'
  BY <1>3, ForeignStep DEF HandleControl, AuthorizeControl
<1>4. ASSUME NEW c \in Clients, NEW l \in LeaseId, NEW s \in Sequence,
             HandleHeartbeat(c, l, s)
      PROVE  StreamInv'
  BY <1>4, RefreshStep
  DEF HandleHeartbeat, Heartbeat, ControlAccepted, Valid, Owns
<1>5. ASSUME NEW c \in Clients, NEW l \in LeaseId, NEW s \in Sequence,
             TakeStream(c, l, s)
      PROVE  StreamInv'
  <2>1. /\ Active /\ lease.id = l /\ Refresh /\ UNCHANGED io
        /\ Store(l, s)
    BY <1>5 DEF TakeStream, AuthorizeStream, StreamAccepted, Valid, Owns
  <2>2. CASE mailbox' = mailbox
    BY <2>1, <2>2, RefreshStep
  <2>3. CASE mailbox' = [lease |-> l, seq |-> s, age |-> 0]
    <3>1. lease'.id = lease.id /\ lease'.ttl = LeaseTicks
      BY <2>1 DEF Refresh, Active, TypeOK, LeaseTypeOK, LeaseRecord
    <3>2. mailbox'.lease = l /\ mailbox'.age = 0
      BY <2>3
    <3>3. QED
      BY <2>1, <3>1, <3>2, LeaseAssumption DEF StreamInv, MailboxInv, CommandInv
  <2>4. QED
    BY <2>1, <2>2, <2>3 DEF Store
<1>6. CASE HandleQuery
  BY <1>6, ForeignStep DEF HandleQuery, leaseVars
<1>7. CASE StopService
  BY <1>7, CommandlessStep DEF StopService, ioGoto, leaseVars
<1>8. QED
  BY <1>1, <1>2, <1>3, <1>4, <1>5, <1>6, <1>7 DEF Requests

\* Time: what the lease loses the command gains in age.
LEMMA TickStream ==
  ASSUME TypeOK, StreamInv, Tick
  PROVE  StreamInv'
<1>1. /\ lease'.id = lease.id
      /\ lease'.ttl = IF lease.ttl > 0 THEN lease.ttl - 1 ELSE 0
      /\ lease.ttl \in Nat
  BY LeaseAssumption
  DEF Tick, LeaseTick, TypeOK, LeaseTypeOK, LeaseRecord, NoLease
<1>2. CommandInv'
  BY <1>1 DEF Tick, StreamInv, CommandInv
<1>3. CASE mailbox = NoCommand
  BY <1>2, <1>3 DEF Tick, StreamInv, MailboxInv
<1>4. CASE mailbox # NoCommand
  <2>1. /\ mailbox'.lease = mailbox.lease
        /\ mailbox'.age = IF mailbox.age > StreamLifespan THEN mailbox.age
                          ELSE mailbox.age + 1
        /\ mailbox.age \in Nat
    BY <1>4, ServiceAssumption DEF Tick, TypeOK, Command
  <2>2. QED
    BY <1>1, <1>2, <1>4, <2>1, LeaseAssumption, ServiceAssumption
    DEF StreamInv, MailboxInv
<1>5. QED
  BY <1>3, <1>4

\* No stream command ever reaches the Runtime under another lease than the one
\* it was sent with, for every lease period longer than the stream lifespan.
THEOREM StreamOwned == Spec => []StreamUnderOwnLease
<1>1. Init => StreamInv
  BY DEF Init, StreamInv, MailboxInv, CommandInv
<1>2. TypeInv /\ StreamInv /\ [Next]_vars => StreamInv'
  <2> SUFFICES ASSUME TypeInv, StreamInv, [Next]_vars PROVE StreamInv'
    OBVIOUS
  <2>1. TypeOK
    BY DEF TypeInv
  <2>2. CASE IoLost \/ IoLoop \/ IoShutdown
    BY <2>1, <2>2, IoLostStream, IoLoopStream, IoShutdownStream
  <2>3. CASE Worker \/ Requests \/ Tick
    BY <2>1, <2>3, WorkerStream, RequestsStream, TickStream
  <2>4. CASE RuntimeStep
    BY <2>4, ForeignStep DEF RuntimeStep, leaseVars
  <2>5. CASE UNCHANGED vars
    BY <2>5, ForeignStep DEF vars
  <2>6. QED
    BY <2>2, <2>3, <2>4, <2>5 DEF Next
<1>3. TypeInv /\ StreamInv => StreamUnderOwnLease
  BY ServiceAssumption
  DEF TypeInv, TypeOK, Command, StreamInv, MailboxInv, CommandInv,
      StreamUnderOwnLease, Fresh
<1>4. QED
  BY <1>1, <1>2, <1>3, InitType, StepType, PTL DEF Spec

-----------------------------------------------------------------------------
(* A live lease is not taken over *)

\* What a step that ends a live lease must do.
KeepsLease ==
  Active /\ lease.ttl > 0 /\ lease'.id # lease.id =>
    lease' = NoLease /\ io'.pc \in LostPc

\* Losing the lease always starts the loss callback.
LEMMA LoseLeaseCallback ==
  ASSUME TypeOK, NEW p, LoseLease(p)
  PROVE  KeepsLease
BY DEF KeepsLease, LoseLease, DropLease, LostPc, TypeOK, IoRecord

\* Prolonging it keeps its identity.
LEMMA RefreshIdentity ==
  ASSUME TypeOK, Active, Refresh
  PROVE  KeepsLease
BY DEF KeepsLease, Refresh, Active, TypeOK, LeaseTypeOK, LeaseRecord

\* Of the I/O thread's own steps only the reaping of an expired lease and the
\* revocation at shutdown end a lease.
LEMMA IoKeepsLease ==
  ASSUME TypeOK, IoLost \/ IoLoop \/ IoShutdown
  PROVE  KeepsLease
<1>1. CASE IoLost
  BY <1>1
  DEF IoLost, LostStop, LostDisable, LostCancel, leaseVars, KeepsLease
<1>2. CASE ExpireIfNeeded
  BY <1>2, LoseLeaseCallback DEF ExpireIfNeeded, leaseVars, KeepsLease
<1>3. CASE TakeControlDone \/ TakeStreamDone \/ PumpLatest \/ SubmitStream
             \/ PublishState \/ PublishFinish
  BY <1>3
  DEF TakeControlDone, TakeStreamDone, PumpLatest, SubmitStream, PublishState,
      PublishFinish, leaseVars, KeepsLease
<1>4. CASE JoinAndRevoke
  BY <1>4, LoseLeaseCallback DEF JoinAndRevoke, leaseVars, KeepsLease
<1>5. CASE ShutdownStop \/ ShutdownDisable \/ ShutdownDisconnect
  BY <1>5
  DEF ShutdownStop, ShutdownDisable, ShutdownDisconnect, ShutdownStep,
      leaseVars, KeepsLease
<1>6. QED
  BY <1>1, <1>2, <1>3, <1>4, <1>5 DEF IoLoop, IoShutdown

\* The worker only prolongs a lease.
LEMMA WorkerKeepsLease ==
  ASSUME TypeOK, Worker
  PROVE  KeepsLease
<1>1. CASE WorkerRefresh
  <2>1. CASE Owns(wk.req.client, wk.req.lease)
    BY <1>1, <2>1, RefreshIdentity
    DEF WorkerRefresh, RefreshAfterControl, Owns
  <2>2. CASE ~Owns(wk.req.client, wk.req.lease)
    BY <1>1, <2>2 DEF WorkerRefresh, RefreshAfterControl, KeepsLease
  <2>3. QED
    BY <2>1, <2>2
<1>2. CASE ~WorkerRefresh
  BY <1>2
  DEF Worker, EnsureRuntime, WorkerPop, WorkerExit, WorkerBusy, WorkerCheck,
      WorkerExecute, WorkerExecuted, WorkerMotion, WorkerRegister,
      WorkerRecheck, WorkerCancel, WorkerDrop, leaseVars, KeepsLease
<1>3. QED
  BY <1>1, <1>2

\* Of the requests only release, by the owner, ends a live lease: acquire
\* answers Busy to everybody else.
LEMMA RequestsKeepLease ==
  ASSUME TypeOK, Requests
  PROVE  KeepsLease
<1>1. ASSUME NEW c \in Clients, HandleAcquire(c)
      PROVE  KeepsLease
  BY <1>1, RefreshIdentity DEF HandleAcquire, Acquire, leaseVars, KeepsLease
<1>2. ASSUME NEW c \in Clients, NEW l \in LeaseId, HandleRelease(c, l)
      PROVE  KeepsLease
  BY <1>2, LoseLeaseCallback DEF HandleRelease
<1>3. ASSUME NEW r \in Request, HandleControl(r)
      PROVE  KeepsLease
  BY <1>3 DEF HandleControl, AuthorizeControl, KeepsLease
<1>4. ASSUME NEW c \in Clients, NEW l \in LeaseId, NEW s \in Sequence,
             HandleHeartbeat(c, l, s) \/ TakeStream(c, l, s)
      PROVE  KeepsLease
  BY <1>4, RefreshIdentity
  DEF HandleHeartbeat, Heartbeat, ControlAccepted, TakeStream, AuthorizeStream,
      StreamAccepted, Valid, Owns
<1>5. CASE HandleQuery \/ StopService
  BY <1>5 DEF HandleQuery, StopService, leaseVars, KeepsLease
<1>6. QED
  BY <1>1, <1>2, <1>3, <1>4, <1>5 DEF Requests

\* Time takes ticks from a lease, never its identity.
LEMMA TickKeepsLease ==
  ASSUME TypeOK, Tick
  PROVE  KeepsLease
BY DEF Tick, LeaseTick, Active, KeepsLease, TypeOK, LeaseTypeOK, LeaseRecord

\* Whatever the other clients send and however late, a lease that has not
\* expired ends only through its owner's release or the shutdown, and then
\* through the loss callback.
THEOREM LiveLeaseKept == Spec => LiveLeaseNotTakenOver
<1>1. TypeOK /\ [Next]_vars => [KeepsLease]_vars
  <2> SUFFICES ASSUME TypeOK, Next PROVE KeepsLease
    OBVIOUS
  <2>1. CASE RuntimeStep
    BY <2>1 DEF RuntimeStep, leaseVars, KeepsLease
  <2>2. QED
    BY <2>1, IoKeepsLease, WorkerKeepsLease, RequestsKeepLease, TickKeepsLease
    DEF Next
<1>2. QED
  BY <1>1, TypeCorrect, PTL DEF Spec, LiveLeaseNotTakenOver, KeepsLease

-----------------------------------------------------------------------------
(* At most one operation starts late *)

\* The request the worker has checked but not yet started may have lost its
\* lease; until it starts nothing else has, because the recheck lets nothing
\* of another lease pass and every change of the lease starts a new count.
LateInv ==
  /\ late <= 1
  /\ wk.pc = "exec" /\ wk.req # Query /\ lease.id # wk.req.lease => late = 0

\* A step that keeps the worker where it is and the lease, or counts anew.
LEMMA LateFrame ==
  ASSUME LateInv, UNCHANGED wk,
         late' = 0 \/ (late' = late /\ lease'.id = lease.id)
  PROVE  LateInv'
BY DEF LateInv

\* A step of the worker that does not come to "exec".
LEMMA LateWorker ==
  ASSUME LateInv, late' = late, wk'.pc # "exec"
  PROVE  LateInv'
BY DEF LateInv

\* Where the worker goes.
LEMMA WorkerGotoPc ==
  ASSUME TypeOK, NEW pc \in WorkerPc, wkGoto(pc)
  PROVE  wk'.pc = pc /\ (pc # "idle" => wk'.req = wk.req)
BY DEF TypeOK, WorkerRecord, wkGoto, Rest, Resting

\* The worker: WorkerCheck lets only a request of the current lease pass, and
\* WorkerExecute counts the one whose lease ended since.
LEMMA WorkerLate ==
  ASSUME TypeOK, LateInv, Worker
  PROVE  LateInv'
<1>1. CASE EnsureRuntime
  BY <1>1, LateFrame DEF EnsureRuntime, leaseVars, history
<1>2. CASE WorkerPop
  <2>1. wk'.pc = "popped" /\ late' = late
    BY <1>2 DEF WorkerPop, history, TypeOK, WorkerRecord
  <2>2. QED
    BY <2>1, LateWorker
<1>3. CASE WorkerExit \/ WorkerBusy \/ WorkerRecheck \/ WorkerCancel
             \/ WorkerDrop \/ WorkerMotion \/ WorkerRegister
  <2>1. \E pc \in WorkerPc \ {"exec"} : wkGoto(pc)
    BY <1>3 DEF WorkerExit, WorkerBusy, WorkerRecheck, WorkerCancel, WorkerDrop,
                WorkerMotion, WorkerRegister, WorkerPc
  <2>2. wk'.pc # "exec"
    BY <2>1, WorkerGotoPc
  <2>3. late' = late
    BY <1>3 DEF WorkerExit, WorkerBusy, WorkerRecheck, WorkerCancel, WorkerDrop,
                WorkerMotion, WorkerRegister, history
  <2>4. QED
    BY <2>2, <2>3, LateWorker
<1>4. CASE WorkerCheck
  <2>1. UNCHANGED <<lease, late>>
    BY <1>4 DEF WorkerCheck, leaseVars, history
  <2>2. CASE wk.req = Query \/ Valid(wk.req.client, wk.req.lease)
    <3>1. wk'.req = wk.req
      BY <1>4, <2>2, WorkerGotoPc DEF WorkerCheck, WorkerPc
    <3>2. QED
      BY <2>1, <2>2, <3>1 DEF Valid, Owns, LateInv
  <2>3. CASE ~(wk.req = Query \/ Valid(wk.req.client, wk.req.lease))
    <3>1. wk'.pc # "exec"
      BY <1>4, <2>3, WorkerGotoPc DEF WorkerCheck, WorkerPc
    <3>2. QED
      BY <2>1, <3>1, LateWorker
  <2>4. QED
    BY <2>2, <2>3
<1>5. CASE WorkerExecute
  <2>1. wk.pc = "exec"
    BY <1>5 DEF WorkerExecute
  <2>2. \E pc \in {"idle", "executing"} : wkGoto(pc)
    BY <1>5 DEF WorkerExecute
  <2>3. wk'.pc # "exec"
    BY <2>2, WorkerGotoPc DEF WorkerPc
  <2>4. \/ late' = late
        \/ wk.req # Query /\ lease.id # wk.req.lease /\ late' = late + 1
    <3>1. \/ wk.req # Query
             /\ late' = IF lease.id = wk.req.lease THEN late ELSE late + 1
          \/ UNCHANGED history
      BY <1>5, Zenon DEF WorkerExecute
    <3>2. QED
      BY <3>1 DEF history
  <2>5. CASE late' = late
    BY <2>3, <2>5, LateWorker
  <2>6. CASE wk.req # Query /\ lease.id # wk.req.lease /\ late' = late + 1
    <3>1. late = 0
      BY <2>1, <2>6 DEF LateInv
    <3>2. QED
      BY <2>3, <2>6, <3>1 DEF LateInv
  <2>7. QED
    BY <2>4, <2>5, <2>6
<1>6. CASE WorkerExecuted
  <2>1. PICK o \in Outcomes(wk.req) :
          wk' = Rest([wk EXCEPT !.pc = IF wk.req = Query THEN "idle"
                                       ELSE "refresh",
                                !.ok = o.ok])
    BY <1>6 DEF WorkerExecuted
  <2>2. wk'.pc # "exec"
    BY <2>1 DEF Rest, Resting, TypeOK, WorkerRecord
  <2>3. late' = late
    BY <1>6 DEF WorkerExecuted, history
  <2>4. QED
    BY <2>2, <2>3, LateWorker
<1>7. CASE WorkerRefresh
  <2>1. \E pc \in {"motion", "cancel", "drop", "idle"} :
          wk' = Rest([wk EXCEPT
                     !.leaseOk = Owns(wk.req.client, wk.req.lease), !.pc = pc])
    BY <1>7 DEF WorkerRefresh
  <2>2. wk'.pc # "exec"
    BY <2>1 DEF Rest, Resting, TypeOK, WorkerRecord
  <2>3. late' = late
    BY <1>7 DEF WorkerRefresh, history
  <2>4. QED
    BY <2>2, <2>3, LateWorker
<1>8. QED
  BY <1>1, <1>2, <1>3, <1>4, <1>5, <1>6, <1>7 DEF Worker

\* The I/O thread: a lost lease starts a new count.
LEMMA IoLate ==
  ASSUME LateInv, IoLost \/ IoLoop \/ IoShutdown
  PROVE  LateInv'
<1>1. UNCHANGED wk
  BY DEF IoLost, IoLoop, IoShutdown, LostStop, LostDisable, LostCancel,
         ExpireIfNeeded, TakeControlDone, TakeStreamDone, PumpLatest,
         SubmitStream, PublishState, PublishFinish, JoinAndRevoke,
         ShutdownStop, ShutdownDisable, ShutdownDisconnect, ShutdownStep
<1>2. CASE IoLost
  BY <1>1, <1>2, LateFrame
  DEF IoLost, LostStop, LostDisable, LostCancel, leaseVars, history
<1>3. CASE IoLoop
  BY <1>1, <1>3, LateFrame
  DEF IoLoop, ExpireIfNeeded, LoseLease, TakeControlDone, TakeStreamDone,
      PumpLatest, SubmitStream, PublishState, PublishFinish, leaseVars, history
<1>4. CASE IoShutdown
  BY <1>1, <1>4, LateFrame
  DEF IoShutdown, JoinAndRevoke, LoseLease, ShutdownStop, ShutdownDisable,
      ShutdownDisconnect, ShutdownStep, leaseVars, history
<1>5. QED
  BY <1>2, <1>3, <1>4

\* The requests: so does a lease granted anew.
LEMMA RequestsLate ==
  ASSUME TypeOK, LateInv, Requests
  PROVE  LateInv'
<1>1. ASSUME NEW c \in Clients, HandleAcquire(c)
      PROVE  LateInv'
  BY <1>1, LateFrame DEF HandleAcquire
<1>2. ASSUME NEW c \in Clients, NEW l \in LeaseId, HandleRelease(c, l)
      PROVE  LateInv'
  BY <1>2, LateFrame DEF HandleRelease, LoseLease
<1>3. ASSUME NEW r \in Request, HandleControl(r)
      PROVE  LateInv'
  BY <1>3, LateFrame DEF HandleControl, AuthorizeControl, history
<1>4. ASSUME NEW c \in Clients, NEW l \in LeaseId, NEW s \in Sequence,
             HandleHeartbeat(c, l, s) \/ TakeStream(c, l, s)
      PROVE  LateInv'
  <2>1. Active /\ Refresh /\ late' = late /\ wk' = wk
    BY <1>4 DEF HandleHeartbeat, Heartbeat, ControlAccepted, TakeStream,
                AuthorizeStream, StreamAccepted, Valid, Owns, history
  <2>2. lease'.id = lease.id
    BY <2>1 DEF Refresh, Active, TypeOK, LeaseTypeOK, LeaseRecord
  <2>3. QED
    BY <2>1, <2>2, LateFrame
<1>5. CASE HandleQuery \/ StopService
  BY <1>5, LateFrame DEF HandleQuery, StopService, leaseVars, history
<1>6. QED
  BY <1>1, <1>2, <1>3, <1>4, <1>5 DEF Requests

\* Time and the Runtime's own thread.
LEMMA EnvironmentLate ==
  ASSUME TypeOK, LateInv, Tick \/ RuntimeStep
  PROVE  LateInv'
<1>1. CASE Tick
  <2>1. lease'.id = lease.id
    BY <1>1 DEF Tick, LeaseTick, TypeOK, LeaseTypeOK, LeaseRecord, NoLease
  <2>2. QED
    BY <1>1, <2>1, LateFrame DEF Tick, history
<1>2. CASE RuntimeStep
  BY <1>2, LateFrame DEF RuntimeStep, leaseVars, history
<1>3. QED
  BY <1>1, <1>2

\* However many requests a client left in the queue, at most one of them is
\* started after its lease has ended.
THEOREM OneLateOperation == Spec => []AtMostOneLateOperation
<1>1. Init => LateInv
  BY DEF Init, LateInv, Resting
<1>2. TypeInv /\ LateInv /\ [Next]_vars => LateInv'
  <2> SUFFICES ASSUME TypeInv, LateInv, [Next]_vars PROVE LateInv'
    OBVIOUS
  <2>1. TypeOK
    BY DEF TypeInv
  <2>2. CASE UNCHANGED vars
    BY <2>2, LateFrame DEF vars
  <2>3. QED
    BY <2>1, <2>2, IoLate, WorkerLate, RequestsLate, EnvironmentLate DEF Next
<1>3. LateInv => AtMostOneLateOperation
  BY DEF LateInv, AtMostOneLateOperation
<1>4. QED
  BY <1>1, <1>2, <1>3, InitType, StepType, PTL DEF Spec

=============================================================================
