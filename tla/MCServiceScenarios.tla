------------------------- MODULE MCServiceScenarios -------------------------
(***************************************************************************)
(* The questions about the service, asked of several scenarios in one run: *)
(* a behaviour is one of ControlService in which clients keep to the       *)
(* traffic of the scenario chosen at the start.                            *)
(***************************************************************************)
EXTENDS MCControlService

CONSTANT Scenarios

VARIABLE scenario

\* What clients do: operations, other traffic, leases granted, sequence
\* numbers used, and how many waiting requests keep them from sending more.
Power    == [ops |-> PowerOps, env |-> {"heartbeat", "stop"},
             leases |-> 2, seqs |-> 2, queue |-> 0]
Stream   == [ops |-> StreamOps, env |-> {"stream"},
             leases |-> 2, seqs |-> 2, queue |-> 0]
Motion   == [ops |-> MotionOps, env |-> {},
             leases |-> 1, seqs |-> 4, queue |-> 0]
Overlap  == [ops |-> MotionOps, env |-> {"stream"},
             leases |-> 1, seqs |-> 3, queue |-> 0]
Handover == [ops |-> MotionOps, env |-> {},
             leases |-> 2, seqs |-> 2, queue |-> 0]
Object   == [ops |-> ObjectOps, env |-> {"query"},
             leases |-> 2, seqs |-> 2, queue |-> 2]
Blocking == [ops |-> BlockingOps, env |-> {"stop"},
             leases |-> 2, seqs |-> 2, queue |-> 1]

SafetyScenarios == {Power, Stream, Motion, Overlap, Handover, Object}
LiveScenarios == {Blocking}

AllOps == UNION {s.ops : s \in Scenarios}
AllEnv == UNION {s.env : s \in Scenarios}

Kept == UNCHANGED scenario

ScenarioAcquire(c) ==
  HandleAcquire(c) /\ nextLease' <= scenario.leases + 1 /\ Kept

ScenarioControl(c, l, s) ==
  /\ Len(queue) <= scenario.queue /\ s <= scenario.seqs
  /\ \E o \in scenario.ops :
       HandleControl([op |-> o, client |-> c, lease |-> l, seq |-> s])
  /\ Kept

ScenarioHeartbeat(c, l, s) ==
  /\ "heartbeat" \in scenario.env /\ s <= scenario.seqs
  /\ HandleHeartbeat(c, l, s) /\ Kept

ScenarioStream(c, l, s) ==
  /\ "stream" \in scenario.env /\ s <= scenario.seqs
  /\ TakeStream(c, l, s) /\ Kept

ScenarioNext ==
  \/ (LostStop /\ Kept) \/ (LostDisable /\ Kept) \/ (LostCancel /\ Kept)
  \/ (ExpireIfNeeded /\ Kept) \/ (TakeControlDone /\ Kept)
  \/ (TakeStreamDone /\ Kept) \/ (PumpLatest /\ Kept)
  \/ (SubmitStream /\ Kept) \/ (PublishState /\ Kept)
  \/ (PublishFinish /\ Kept) \/ (JoinAndRevoke /\ Kept)
  \/ (ShutdownStop /\ Kept) \/ (ShutdownDisable /\ Kept)
  \/ (ShutdownDisconnect /\ Kept) \/ (EnsureRuntime /\ Kept)
  \/ (WorkerPop /\ Kept) \/ (WorkerExit /\ Kept) \/ (WorkerBusy /\ Kept)
  \/ (WorkerCheck /\ Kept) \/ (WorkerExecute /\ Kept)
  \/ (WorkerExecuted /\ Kept) \/ (WorkerRefresh /\ Kept)
  \/ (WorkerMotion /\ Kept) \/ (WorkerRegister /\ Kept)
  \/ (WorkerRecheck /\ Kept) \/ (WorkerCancel /\ Kept) \/ (WorkerDrop /\ Kept)
  \/ (Tick /\ Kept) \/ (RuntimeStep /\ Kept)
  \/ \E c \in Clients : ScenarioAcquire(c)
  \/ \E c \in Clients, l \in LeaseId : HandleRelease(c, l) /\ Kept
  \/ \E c \in Clients, l \in LeaseId, s \in Sequence : ScenarioControl(c, l, s)
  \/ \E c \in Clients, l \in LeaseId, s \in Sequence :
       ScenarioHeartbeat(c, l, s)
  \/ \E c \in Clients, l \in LeaseId, s \in Sequence : ScenarioStream(c, l, s)
  \/ "query" \in scenario.env /\ HandleQuery /\ Kept
  \/ "stop" \in scenario.env /\ StopService /\ Kept

ScenarioInit == Init /\ scenario \in Scenarios

ScenarioSpec == ScenarioInit /\ [][ScenarioNext]_<<vars, scenario>>

ScenarioFairSpec == ScenarioSpec /\ Fairness

=============================================================================
