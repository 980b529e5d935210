--------------------------- MODULE ControlService ---------------------------
(***************************************************************************)
(* The DDS service (dds/src/cyclone_service.cpp) around one Runtime: the   *)
(* I/O thread (run), the control worker (control_worker_loop), the lease,  *)
(* the bounded control queue, the latest-command mailbox and the finite    *)
(* motion whose outcome a client still awaits.                             *)
(*                                                                         *)
(* Clients are the environment: any client may present any request with    *)
(* any identity and sequence number at any moment, so lost, duplicated,    *)
(* delayed and reordered messages are all behaviours of the model.         *)
(***************************************************************************)
EXTENDS LeaseManager, RobotRuntime, Sequences

CONSTANTS
  StreamLifespan,  \* kStreamLifespan (20 ms) in ticks
  QueueCapacity,   \* kControlQueueCapacity
  Ops,             \* the control operations clients issue
  Env,             \* what else happens: "heartbeat", "stream", "query", "stop"
  RetryInitial,    \* can_retry_initial in ticks
  RetryMax         \* can_retry_max in ticks

ASSUME ServiceAssumption ==
  /\ StreamLifespan \in Nat
  /\ StreamLifespan < LeaseTicks
  /\ QueueCapacity \in Nat \ {0}
  /\ RetryInitial \in Nat \ {0}
  /\ RetryMax \in Nat
  /\ RetryInitial <= RetryMax

VARIABLES
  mailbox,    \* latest_: the newest stream command and its age
  queue,      \* control_queue_
  stopWorker, \* control_worker_stop_
  io,         \* I/O thread: pc, where a lost lease resumes, the lease of the
              \* stream command taken, motion_arrived as read (and, history
              \* only, the motion it was read for)
  wk,         \* control worker: pc, request, status, completion lease check
  rt,         \* the Runtime behind runtime_
  suspended,  \* runtime_suspended_
  retry,      \* next_runtime_retry_ (ticks left) and retry_delay_
  pending,    \* pending_motion_request_
  events,     \* history: last event published for each motion request
  lastExec,   \* history: the last control request handed to the Runtime
  late        \* history: operations started for another lease than the
              \* current one since the lease last changed

queueVars == <<queue, stopWorker>>
runtimeVars == <<rt, suspended, retry>>
history == <<lastExec, late>>
vars == <<lease, nextLease, ctlSeq, strSeq, mailbox, queue, stopWorker, io, wk,
          rt, suspended, retry, pending, events, lastExec, late>>

-----------------------------------------------------------------------------
(* Types *)

\* A request is identified by the lease and the sequence number it carries.
MotionId == LeaseId \X Sequence
Request == [op : Ops, client : Clients, lease : LeaseId, seq : Sequence]
Query == [op |-> "QUERY", client |-> NoClient, lease |-> 0, seq |-> 0]
IdOf(r) == <<r.lease, r.seq>>

NoCommand == [lease |-> 0, seq |-> 0, age |-> 0]
Command == [lease : LeaseId, seq : Sequence, age : 0..(StreamLifespan + 1)]

LoopPc == {"expire", "control", "stream", "pump", "submit", "state", "finish"}
LostPc == {"lost_stop", "lost_disable", "lost_cancel"}
StopPc == {"join", "stop_motion", "disable", "disconnect", "stopped"}
WorkerPc == {"idle", "popped", "check", "exec", "executing", "refresh",
             "motion", "register", "recheck", "cancel", "drop", "done"}

EventKind == {"none", "accepted", "completed", "cancelled", "failed"}

RuntimeRecord == [state : LifecycleState, motion : MotionId \cup {NoMotion},
                  mstate : MotionState, stream : 0..MaxLease]
IoRecord == [pc : LoopPc \cup LostPc \cup StopPc, ret : LoopPc \cup StopPc,
             cmd : 0..MaxLease, arrived : BOOLEAN,
             seen : MotionId \cup {NoMotion}]
WorkerRecord == [pc : WorkerPc, req : Request \cup {Query}, ok : BOOLEAN,
                 leaseOk : BOOLEAN]

TypeOK ==
  /\ LeaseTypeOK
  /\ mailbox \in Command \cup {NoCommand}
  /\ queue \in Seq(Request \cup {Query})
  /\ stopWorker \in BOOLEAN
  /\ io \in IoRecord
  /\ wk \in WorkerRecord
  /\ rt \in RuntimeRecord
  /\ suspended \in BOOLEAN
  /\ retry \in [wait : 0..RetryMax, delay : 1..RetryMax]
  /\ pending \in MotionId \cup {NoMotion}
  /\ events \in [MotionId -> EventKind]
  /\ lastExec \in MotionId \cup {NoMotion}
  /\ late \in Nat

\* The worker's locals end with the request.
Resting == [pc |-> "idle", req |-> Query, ok |-> FALSE, leaseOk |-> FALSE]
Rest(w) == IF w.pc = "idle" THEN Resting ELSE w

Init ==
  /\ LeaseInit
  /\ mailbox = NoCommand
  /\ queue = <<>>
  /\ stopWorker = FALSE
  /\ io = [pc |-> "expire", ret |-> "expire", cmd |-> 0, arrived |-> FALSE,
           seen |-> NoMotion]
  /\ wk = Resting
  /\ rt = NoRuntime
  /\ suspended = FALSE
  /\ retry = [wait |-> 0, delay |-> RetryInitial]
  /\ pending = NoMotion
  /\ events = [i \in MotionId |-> "none"]
  /\ lastExec = NoMotion
  /\ late = 0

-----------------------------------------------------------------------------
(* State formulae *)

\* control_busy_ is raised after the pop and lowered when the request is done.
ControlBusy == wk.pc \notin {"idle", "popped", "done"}

\* The worker is inside a call that holds the lock the I/O thread would need.
HoldsLifecycle == wk.pc = "executing" /\ wk.req.op \in LifecycleOps
HoldsMotion == wk.pc = "executing" /\ wk.req.op = "MOVE"
HoldsCommand ==
  wk.pc = "executing" /\ wk.req.op \in {"CLEAR_FAULTS", "CONFIGURE_MODE"}

\* Mutant: the request is not forgotten after its terminal event.
FinishPendingKept(kind) ==
  /\ pending' = pending
  /\ events' = IF pending = NoMotion THEN events
               ELSE [events EXCEPT ![pending] = kind]

\* finish_pending_motion: publish one terminal event and forget the request.
FinishPending(kind) ==
  /\ pending' = NoMotion
  /\ events' = IF pending = NoMotion THEN events
               ELSE [events EXCEPT ![pending] = kind]

ioGoto(pc) == io' = [io EXCEPT !.pc = pc]
wkGoto(pc) == wk' = Rest([wk EXCEPT !.pc = pc])

-----------------------------------------------------------------------------
(* Lease loss: the on_lost callback, run by the I/O thread *)

\* Mutant: on_lost without mailbox_.clear().
LoseLeaseKeepMailbox(resume) ==
  /\ DropLease
  /\ late' = 0
  /\ mailbox' = mailbox
  /\ io' = [io EXCEPT !.pc = IF rt.state = "NONE" THEN "lost_cancel"
                             ELSE "lost_stop",
                      !.ret = resume]

\* release, expire_if_needed and revoke drop the lease and call on_lost, which
\* first clears the mailbox; without a Runtime only the motion is cancelled.
LoseLease(resume) ==
  /\ DropLease
  /\ late' = 0
  /\ mailbox' = NoCommand
  /\ io' = [io EXCEPT !.pc = IF rt.state = "NONE" THEN "lost_cancel"
                             ELSE "lost_stop",
                      !.ret = resume]

\* on_control_lost: stop_motion waits for the motion mutex of a planning move.
LostStop ==
  /\ io.pc = "lost_stop"
  /\ ~HoldsMotion
  /\ \E o \in StopOutcomes(rt) : rt' = o.rt
  /\ ioGoto("lost_disable")
  /\ UNCHANGED <<leaseVars, mailbox, queueVars, wk, suspended, retry, pending,
                 events, history>>

\* on_control_lost: disable waits for the lifecycle mutex and runs whatever
\* stop_motion answered.
LostDisable ==
  /\ io.pc = "lost_disable"
  /\ ~HoldsLifecycle
  /\ \E o \in DisableOutcomes(rt) : rt' = o.rt
  /\ ioGoto("lost_cancel")
  /\ UNCHANGED <<leaseVars, mailbox, queueVars, wk, suspended, retry, pending,
                 events, history>>

LostCancel ==
  /\ io.pc = "lost_cancel"
  /\ FinishPending("cancelled")
  /\ io' = [io EXCEPT !.pc = io.ret, !.ret = "expire"]
  /\ UNCHANGED <<leaseVars, mailbox, queueVars, wk, runtimeVars, history>>

-----------------------------------------------------------------------------
(* I/O thread *)

ExpireIfNeeded ==
  /\ io.pc = "expire"
  /\ IF Expired THEN LoseLease("control")
     ELSE ioGoto("control") /\ UNCHANGED <<leaseVars, mailbox, late>>
  /\ UNCHANGED <<queueVars, wk, runtimeVars, pending, events, lastExec>>

\* handle_request, ACQUIRE_LEASE.
HandleAcquire(c) ==
  /\ io.pc = "control"
  /\ Acquire(c)
  /\ late' = IF lease'.id # lease.id THEN 0 ELSE late
  /\ UNCHANGED <<mailbox, queueVars, io, wk, runtimeVars, pending, events,
                 lastExec>>

\* handle_request, HEARTBEAT.
HandleHeartbeat(c, l, s) ==
  /\ io.pc = "control"
  /\ Heartbeat(c, l, s)
  /\ UNCHANGED <<mailbox, queueVars, io, wk, runtimeVars, pending, events,
                 history>>

\* handle_request, RELEASE_LEASE: expiry is not looked at.
HandleRelease(c, l) ==
  /\ io.pc = "control"
  /\ Owns(c, l)
  /\ LoseLease("control")
  /\ UNCHANGED <<queueVars, wk, runtimeVars, pending, events, lastExec>>

\* enqueue_control_request: a full queue answers Busy.
Enqueue(r) == queue' = IF Len(queue) < QueueCapacity THEN Append(queue, r)
                       ELSE queue

\* handle_request of a control operation: authorized without a refresh, the
\* sequence number is consumed even when the queue is full.
HandleControl(r) ==
  /\ io.pc = "control"
  /\ AuthorizeControl(r.client, r.lease, r.seq)
  /\ Enqueue(r)
  /\ UNCHANGED <<mailbox, stopWorker, io, wk, runtimeVars, pending, events,
                 history>>

\* handle_request of a query: no lease needed.
HandleQuery ==
  /\ io.pc = "control"
  /\ Len(queue) < QueueCapacity
  /\ Enqueue(Query)
  /\ UNCHANGED <<leaseVars, mailbox, stopWorker, io, wk, runtimeVars, pending,
                 events, history>>

TakeControlDone ==
  /\ io.pc = "control"
  /\ ioGoto("stream")
  /\ UNCHANGED <<leaseVars, mailbox, queueVars, wk, runtimeVars, pending,
                 events, history>>

\* LatestCommandMailbox::store keeps the highest sequence number.
Store(l, s) ==
  mailbox' = IF mailbox = NoCommand \/ s > mailbox.seq
               THEN [lease |-> l, seq |-> s, age |-> 0]
               ELSE mailbox

\* take_stream_commands: one authorized sample of the stream topic.
TakeStream(c, l, s) ==
  /\ io.pc = "stream"
  /\ AuthorizeStream(c, l, s)
  /\ Store(l, s)
  /\ UNCHANGED <<queueVars, io, wk, runtimeVars, pending, events, history>>

TakeStreamDone ==
  /\ io.pc = "stream"
  /\ ioGoto("pump")
  /\ UNCHANGED <<leaseVars, mailbox, queueVars, wk, runtimeVars, pending,
                 events, history>>

\* LatestCommandMailbox::take hands out only a command within its lifespan.
Fresh == mailbox # NoCommand /\ mailbox.age <= StreamLifespan

\* pump_latest: nothing while the worker is busy; otherwise the mailbox is
\* emptied and a fresh command kept for submission.
PumpLatest ==
  /\ io.pc = "pump"
  /\ IF ControlBusy
       THEN ioGoto("state") /\ UNCHANGED mailbox
       ELSE /\ mailbox' = NoCommand
            /\ io' = [io EXCEPT !.pc = "submit",
                               !.cmd = IF Fresh THEN mailbox.lease ELSE 0]
  /\ UNCHANGED <<leaseVars, queueVars, wk, runtimeVars, pending, events,
                 history>>

\* pump_latest, the submission: the worker may have become busy meanwhile, and
\* maintenance holds the command mutex from start to end.
SubmitStream ==
  /\ io.pc = "submit"
  /\ io.cmd # 0 => ~HoldsCommand
  /\ IF io.cmd = 0 THEN UNCHANGED rt
     ELSE \E o \in StreamOutcomes(rt, io.cmd) : rt' = o.rt
  /\ io' = [io EXCEPT !.pc = "state", !.cmd = 0]
  /\ UNCHANGED <<leaseVars, mailbox, queueVars, wk, suspended, retry, pending,
                 events, history>>

\* publish_state: motion_arrived is read here and used after the DDS write;
\* between two 2 ms deadlines the loop starts over without publishing.
PublishState ==
  /\ io.pc = "state"
  /\ \/ io' = [io EXCEPT !.pc = "finish", !.arrived = MotionArrived(rt),
                         !.seen = rt.motion]
     \/ ioGoto("expire")
  /\ UNCHANGED <<leaseVars, mailbox, queueVars, wk, runtimeVars, pending,
                 events, history>>

PublishFinish ==
  /\ io.pc = "finish"
  /\ IF io.arrived THEN FinishPending("completed")
     ELSE UNCHANGED <<pending, events>>
  /\ io' = [io EXCEPT !.pc = "expire", !.arrived = FALSE,
                    !.seen = NoMotion]
  /\ UNCHANGED <<leaseVars, mailbox, queueVars, wk, runtimeVars, history>>

-----------------------------------------------------------------------------
(* SIGTERM: the fixed order at the end of run *)

\* Mutant: control_worker_stop_ is not raised.
StopServiceUnsignalled ==
  /\ io.pc = "expire"
  /\ queue' = <<>>
  /\ ioGoto("join")
  /\ UNCHANGED <<leaseVars, mailbox, stopWorker, wk, runtimeVars, pending,
                 events, history>>

\* stop_control_worker: no new request, the queue is dropped.
StopService ==
  /\ io.pc = "expire"
  /\ stopWorker' = TRUE
  /\ queue' = <<>>
  /\ ioGoto("join")
  /\ UNCHANGED <<leaseVars, mailbox, wk, runtimeVars, pending, events, history>>

\* Mutant: revoke without joining the worker first.
RevokeUnjoined ==
  /\ io.pc = "join"
  /\ IF Active THEN LoseLease("stop_motion")
     ELSE /\ ioGoto("stop_motion")
          /\ mailbox' = NoCommand
          /\ UNCHANGED <<leaseVars, late>>
  /\ UNCHANGED <<queueVars, wk, runtimeVars, pending, events, lastExec>>

\* The join of the worker, then revoke and mailbox_.clear().
JoinAndRevoke ==
  /\ io.pc = "join"
  /\ wk.pc = "done"
  /\ IF Active THEN LoseLease("stop_motion")
     ELSE /\ ioGoto("stop_motion")
          /\ mailbox' = NoCommand
          /\ UNCHANGED <<leaseVars, late>>
  /\ UNCHANGED <<queueVars, wk, runtimeVars, pending, events, lastExec>>

ShutdownStep(from, to, outcomes) ==
  /\ io.pc = from
  /\ \E o \in outcomes : rt' = o.rt
  /\ ioGoto(to)
  /\ UNCHANGED <<leaseVars, mailbox, queueVars, wk, suspended, retry, pending,
                 events, history>>

ShutdownStop == ShutdownStep("stop_motion", "disable", StopOutcomes(rt))
ShutdownDisable == ShutdownStep("disable", "disconnect", DisableOutcomes(rt))

\* disconnect, then runtime_.reset() whatever it answered.
ShutdownDisconnect ==
  ShutdownStep("disconnect", "stopped", {Outcome(NoRuntime, TRUE)})

-----------------------------------------------------------------------------
(* Control worker *)

\* Mutant: the retry delay doubles without can_retry_max.
CreateRuntimeUncapped ==
  \/ \E s \in {"READY", "FAULT"} :
       /\ rt' = FreshRuntime(s)
       /\ retry' = [wait |-> 0, delay |-> RetryInitial]
  \/ /\ retry' = [wait |-> retry.delay, delay |-> 2 * retry.delay]
     /\ UNCHANGED rt

\* ensure_runtime: create and connect a Runtime, READY or already FAULT; a
\* failure doubles the delay to the next attempt up to can_retry_max.
CreateRuntime ==
  \/ \E s \in {"READY", "FAULT"} :
       /\ rt' = FreshRuntime(s)
       /\ retry' = [wait |-> 0, delay |-> RetryInitial]
  \/ /\ retry' = [wait |-> retry.delay,
                  delay |-> IF 2 * retry.delay < RetryMax THEN 2 * retry.delay
                            ELSE RetryMax]
     /\ UNCHANGED rt

EnsureRuntime ==
  /\ wk.pc = "idle" /\ ~stopWorker /\ queue = <<>>
  /\ rt.state = "NONE" /\ ~suspended /\ retry.wait = 0
  /\ CreateRuntime
  /\ UNCHANGED <<leaseVars, mailbox, queueVars, io, wk, suspended, pending,
                 events, history>>

WorkerPop ==
  /\ wk.pc = "idle" /\ ~stopWorker /\ queue # <<>>
  /\ wk' = [wk EXCEPT !.pc = "popped", !.req = Head(queue)]
  /\ queue' = Tail(queue)
  /\ UNCHANGED <<leaseVars, mailbox, stopWorker, io, runtimeVars, pending,
                 events, history>>

WorkerExit ==
  /\ wk.pc = "idle" /\ stopWorker
  /\ wkGoto("done")
  /\ UNCHANGED <<leaseVars, mailbox, queueVars, io, runtimeVars, pending,
                 events, history>>

WorkerBusy ==
  /\ wk.pc = "popped"
  /\ wkGoto("check")
  /\ UNCHANGED <<leaseVars, mailbox, queueVars, io, runtimeVars, pending,
                 events, history>>

\* Mutant: no recheck of the lease when the request leaves the queue.
WorkerCheckSkipped ==
  /\ wk.pc = "check"
  /\ wkGoto("exec")
  /\ UNCHANGED <<leaseVars, mailbox, queueVars, io, runtimeVars, pending,
                 events, history>>

\* Mutant: the worker waits for the lease instead of answering NoLease.
WorkerCheckWaits ==
  /\ wk.pc = "check"
  /\ wk.req = Query \/ Valid(wk.req.client, wk.req.lease)
  /\ wkGoto("exec")
  /\ UNCHANGED <<leaseVars, mailbox, queueVars, io, runtimeVars, pending,
                 events, history>>

\* execute_queued_request: the lease of a control operation must still be
\* valid; otherwise NoLease is the reply.
WorkerCheck ==
  /\ wk.pc = "check"
  /\ wkGoto(IF wk.req = Query \/ Valid(wk.req.client, wk.req.lease)
              THEN "exec" ELSE "idle")
  /\ UNCHANGED <<leaseVars, mailbox, queueVars, io, runtimeVars, pending,
                 events, history>>

\* The Runtime snapshot and the call.  CONNECT without a Runtime builds one;
\* any other operation without one answers TransportError.  recover() turns
\* the torque on while it runs.
WorkerExecute ==
  /\ wk.pc = "exec"
  /\ IF wk.req.op = "CONNECT" /\ rt.state = "NONE"
       THEN /\ suspended' = FALSE
            /\ CreateRuntime
            /\ wkGoto(IF rt'.state = "NONE" THEN "idle" ELSE "executing")
       ELSE /\ rt' = IF wk.req.op = "RECOVER"
                          /\ rt.state \notin {"NONE", "TERMINAL"}
                       THEN [rt EXCEPT !.state = "RECOVERING", !.stream = 0]
                       ELSE rt
            /\ wkGoto(IF rt.state = "NONE" THEN "idle" ELSE "executing")
            /\ UNCHANGED <<suspended, retry>>
  /\ IF wk'.pc = "executing" /\ wk.req # Query
       THEN /\ lastExec' = IdOf(wk.req)
            /\ late' = IF lease.id = wk.req.lease THEN late ELSE late + 1
       ELSE UNCHANGED history
  /\ UNCHANGED <<leaseVars, mailbox, queueVars, io, pending, events>>

\* execute: what the operation may leave behind.
Outcomes(r) ==
  CASE r.op = "CONNECT"        -> ConnectOutcomes(rt)
    [] r.op = "DISCONNECT"     -> DisconnectOutcomes(rt)
    [] r.op = "ENABLE"         -> EnableOutcomes(rt)
    [] r.op = "DISABLE"        -> DisableOutcomes(rt)
    [] r.op = "ESTOP"          -> EstopOutcomes(rt)
    [] r.op = "RECOVER"        -> RecoverOutcomes(rt)
    [] r.op = "CLEAR_FAULTS"   -> MaintenanceOutcomes(rt, {"READY", "FAULT"})
    [] r.op = "CONFIGURE_MODE" -> MaintenanceOutcomes(rt, {"READY"})
    [] r.op = "MOVE"           -> MoveOutcomes(rt, IdOf(r))
    [] r.op = "STOP_MOTION"    -> StopOutcomes(rt)
    [] OTHER                   -> {Outcome(rt, TRUE)}

\* Mutant: the operation needs a lock the loss callback holds.
WorkerExecutedInverted ==
  /\ wk.pc = "executing"
  /\ io.pc \notin LostPc
  /\ \E o \in Outcomes(wk.req) :
       /\ rt' = o.rt
       /\ wk' = Rest([wk EXCEPT !.pc = IF wk.req = Query THEN "idle"
                                       ELSE "refresh",
                                !.ok = o.ok])
  /\ UNCHANGED <<leaseVars, mailbox, queueVars, io, suspended, retry, pending,
                 events, history>>

WorkerExecuted ==
  /\ wk.pc = "executing"
  /\ \E o \in Outcomes(wk.req) :
       /\ rt' = o.rt
       /\ wk' = Rest([wk EXCEPT !.pc = IF wk.req = Query THEN "idle"
                                       ELSE "refresh",
                                !.ok = o.ok])
  /\ UNCHANGED <<leaseVars, mailbox, queueVars, io, suspended, retry, pending,
                 events, history>>

\* refresh_after_control, then the part of the reply that depends on the
\* operation.
WorkerRefresh ==
  /\ wk.pc = "refresh"
  /\ RefreshAfterControl(wk.req.client, wk.req.lease)
  /\ wk' = Rest([wk EXCEPT
              !.leaseOk = Owns(wk.req.client, wk.req.lease),
              !.pc = CASE wk.req.op = "MOVE"                   -> "motion"
                       [] wk.req.op = "STOP_MOTION" /\ wk.ok   -> "cancel"
                       [] wk.req.op = "DISCONNECT" /\ wk.ok    -> "drop"
                       [] OTHER                                -> "idle"])
  /\ UNCHANGED <<mailbox, queueVars, io, runtimeVars, pending, events, history>>

\* ACCEPTED or FAILED is published.
WorkerMotion ==
  /\ wk.pc = "motion"
  /\ LET accepted == wk.ok /\ wk.leaseOk
     IN  /\ events' = [events EXCEPT ![IdOf(wk.req)] =
                         IF accepted THEN "accepted" ELSE "failed"]
         /\ wkGoto(IF accepted THEN "register" ELSE "idle")
  /\ UNCHANGED <<leaseVars, mailbox, queueVars, io, runtimeVars, pending,
                 history>>

\* Mutant: a request already pending keeps its place.
WorkerRegisterFirst ==
  /\ wk.pc = "register"
  /\ pending' = IF pending = NoMotion THEN IdOf(wk.req) ELSE pending
  /\ wkGoto("recheck")
  /\ UNCHANGED <<leaseVars, mailbox, queueVars, io, runtimeVars, events,
                 history>>

\* The accepted motion becomes the pending one, whatever was pending before.
WorkerRegister ==
  /\ wk.pc = "register"
  /\ pending' = IdOf(wk.req)
  /\ wkGoto("recheck")
  /\ UNCHANGED <<leaseVars, mailbox, queueVars, io, runtimeVars, events,
                 history>>

\* Mutant: no recheck of the lease after the registration.
WorkerRecheckSkipped ==
  /\ wk.pc = "recheck"
  /\ wkGoto("idle")
  /\ UNCHANGED <<leaseVars, mailbox, queueVars, io, runtimeVars, pending,
                 events, history>>

\* A lease lost while the motion was being registered cancels it.
WorkerRecheck ==
  /\ wk.pc = "recheck"
  /\ IF Valid(wk.req.client, wk.req.lease) THEN UNCHANGED <<pending, events>>
     ELSE FinishPending("cancelled")
  /\ wkGoto("idle")
  /\ UNCHANGED <<leaseVars, mailbox, queueVars, io, runtimeVars, history>>

\* STOP_MOTION succeeded: the awaited motion is reported cancelled.
WorkerCancel ==
  /\ wk.pc = "cancel"
  /\ FinishPending("cancelled")
  /\ wkGoto("idle")
  /\ UNCHANGED <<leaseVars, mailbox, queueVars, io, runtimeVars, history>>

\* DISCONNECT succeeded: forget the Runtime and stop creating new ones.
WorkerDrop ==
  /\ wk.pc = "drop"
  /\ rt' = NoRuntime
  /\ suspended' = TRUE
  /\ wkGoto("idle")
  /\ UNCHANGED <<leaseVars, mailbox, queueVars, io, retry, pending, events,
                 history>>

-----------------------------------------------------------------------------
(* Environment *)

\* Time passes for the lease, the mailbox and the Runtime retry.
Tick ==
  /\ LeaseTick
  /\ mailbox' = IF mailbox = NoCommand THEN mailbox
                ELSE [mailbox EXCEPT !.age = IF @ > StreamLifespan THEN @
                                             ELSE @ + 1]
  /\ retry' = [retry EXCEPT !.wait = IF @ > 0 THEN @ - 1 ELSE 0]
  /\ UNCHANGED <<queueVars, io, wk, rt, suspended, pending, events, history>>

\* The Runtime's own thread moves the motion on, or faults.
RuntimeStep ==
  /\ rt' \in MotionSteps(rt) \cup FaultSteps(rt)
  /\ UNCHANGED <<leaseVars, mailbox, queueVars, io, wk, suspended, retry,
                 pending, events, history>>

-----------------------------------------------------------------------------

IoLost == LostStop \/ LostDisable \/ LostCancel

IoLoop ==
  \/ ExpireIfNeeded \/ TakeControlDone \/ TakeStreamDone
  \/ PumpLatest \/ SubmitStream \/ PublishState \/ PublishFinish

IoShutdown ==
  JoinAndRevoke \/ ShutdownStop \/ ShutdownDisable \/ ShutdownDisconnect

Worker ==
  \/ EnsureRuntime \/ WorkerPop \/ WorkerExit \/ WorkerBusy \/ WorkerCheck
  \/ WorkerExecute \/ WorkerExecuted \/ WorkerRefresh \/ WorkerMotion
  \/ WorkerRegister \/ WorkerRecheck \/ WorkerCancel \/ WorkerDrop

\* Env restricts an instance to the part of the traffic it is about.
Requests ==
  \/ \E c \in Clients : HandleAcquire(c)
  \/ \E c \in Clients, l \in LeaseId : HandleRelease(c, l)
  \/ \E r \in Request : HandleControl(r)
  \/ /\ "heartbeat" \in Env
     /\ \E c \in Clients, l \in LeaseId, s \in Sequence :
          HandleHeartbeat(c, l, s)
  \/ /\ "stream" \in Env
     /\ \E c \in Clients, l \in LeaseId, s \in Sequence : TakeStream(c, l, s)
  \/ "query" \in Env /\ HandleQuery
  \/ "stop" \in Env /\ StopService

Next ==
  IoLost \/ IoLoop \/ IoShutdown \/ Worker \/ Requests \/ Tick \/ RuntimeStep

Spec == Init /\ [][Next]_vars

\* Both threads keep running: neither is ever descheduled for good, every take
\* loop is bounded (32 requests, 64 samples) and every Runtime call returns.
Fairness == WF_vars(IoLost) /\ WF_vars(IoLoop) /\ WF_vars(IoShutdown)
            /\ WF_vars(Worker)

FairSpec == Spec /\ Fairness

-----------------------------------------------------------------------------
(* Properties that hold *)

\* Control requests reach the Runtime in the order (lease, sequence number) in
\* which they were authorized and each at most once, although DDS may deliver
\* them late, twice or out of order and the queue outlives the lease
\* (authorize, enqueue_control_request, execute_queued_request).
ExecutedInOrder ==
  [][wk.pc = "exec" /\ wk'.pc = "executing" /\ wk.req # Query =>
       \/ wk.req.lease > lastExec[1]
       \/ wk.req.lease = lastExec[1] /\ wk.req.seq > lastExec[2]]_vars

\* A stream command handed to the Runtime belongs to the lease that is held at
\* that moment: neither the mailbox nor the command already taken from it
\* survives a change of owner (LatestCommandMailbox, pump_latest).
StreamUnderOwnLease ==
  /\ io.pc = "pump" /\ Fresh => lease.id = mailbox.lease
  /\ io.pc = "submit" /\ io.cmd # 0 => lease.id = io.cmd

\* When a lease ends, at most the one request the worker has already checked
\* still starts: everything queued behind it is answered NoLease
\* (execute_queued_request's recheck).
AtMostOneLateOperation == late <= 1

\* Once the loss of the lease has been handled no finite motion runs, whatever
\* the worker was starting meanwhile (on_control_lost: stop_motion, disable).
NoOrphanMotion ==
  lease = NoLease /\ io.pc \notin LostPc => rt.mstate # "RUNNING"

\* A motion is awaited only on behalf of a lease: when the loss has been
\* handled and the worker rests, no request is left pending
\* (execute_queued_request rechecks the lease after registering the motion).
NothingPendingWithoutLease ==
  lease = NoLease /\ io.pc \notin LostPc /\ wk.pc \in {"idle", "done"} =>
    pending = NoMotion

\* A finite motion that was accepted, is still running and has had no terminal
\* event is the one whose outcome the service awaits, or is about to: a later
\* request never takes its place (pending_motion_request_).
RunningMotionAwaited ==
  rt.mstate = "RUNNING" /\ events[rt.motion] = "accepted" =>
    \/ pending = rt.motion
    \/ wk.pc = "register" /\ IdOf(wk.req) = rt.motion

\* What a client hears about one motion: ACCEPTED once, then at most one of
\* COMPLETED and CANCELLED; or only FAILED.  The worker publishes ACCEPTED, the
\* I/O thread may publish the end of the same motion at any moment
\* (publish_motion_event, pending_motion_request_).
MotionEventOrder ==
  [][\A i \in MotionId : events'[i] # events[i] =>
       \/ events[i] = "none" /\ events'[i] \in {"accepted", "failed"}
       \/ /\ events[i] = "accepted"
          /\ events'[i] \in {"completed", "cancelled"}]_vars

\* A lease that has not expired ends only by its owner's release or by the
\* shutdown, and then always through the loss callback.
LiveLeaseNotTakenOver ==
  [][Active /\ lease.ttl > 0 /\ lease'.id # lease.id =>
       lease' = NoLease /\ io'.pc \in LostPc]_vars

\* The fixed SIGTERM order at the end of run: CAN is closed only when nobody
\* can reach the robot any more (worker joined, queue and mailbox empty, lease
\* revoked, pending motion reported) and it has been told to stop, so that no
\* motion runs, no streaming target is left and it follows targets no more.
\* Whether its torque is off the shutdown does not know: it ignores the answer
\* of disable(), and CAN is closed on a FAULT whose disable was not confirmed.
ClosedInOrder ==
  io.pc \in {"disconnect", "stopped"} =>
    /\ wk.pc = "done" /\ queue = <<>> /\ mailbox = NoCommand
    /\ lease = NoLease /\ pending = NoMotion
    /\ rt.mstate # "RUNNING" /\ rt.stream = 0 /\ ~Operational(rt)

-----------------------------------------------------------------------------
(* Liveness, under FairSpec *)

InService(i) ==
  \/ \E k \in 1..Len(queue) : IdOf(queue[k]) = i
  \/ wk.pc \notin {"idle", "done"} /\ IdOf(wk.req) = i

\* Every request put in the queue leaves the service again: it is executed,
\* refused because its lease is gone, or dropped by the shutdown.
RequestsAnswered == \A i \in MotionId : InService(i) ~> ~InService(i)

\* The loss callback ends: the I/O thread never waits for good behind the
\* worker for the lifecycle or the motion mutex.
LossHandled == io.pc \in LostPc ~> io.pc \notin LostPc

\* SIGTERM always brings run to its end.
ShutdownCompletes == io.pc = "join" ~> io.pc = "stopped"

-----------------------------------------------------------------------------
(* What the repository says and the code does not keep *)

\* README: losing the lease revokes targets, stops and disables the robot, and
\* acquiring it again never enables.  So nobody is granted a lease over a
\* robot whose torque the previous owner left on.
NoInheritedTorque ==
  [][Active /\ lease'.id \notin {0, lease.id} => ~Operational(rt)]_vars

\* on_control_lost: physical disable is the final lease-loss barrier.  So a
\* robot nobody leases is not operational once both threads are done with it.
NoTorqueWithoutLease ==
  lease = NoLease /\ io.pc \in LoopPc /\ wk.pc = "idle" => ~Operational(rt)

\* execute_queued_request: a later CONNECT constructs a fresh Runtime and does
\* not call connect() on the terminal object.
ConnectNeverOnTerminal ==
  wk.pc = "executing" /\ wk.req.op = "CONNECT" => rt.state # "TERMINAL"

\* native_types.hpp: motion_arrived means the most recently accepted motion has
\* physically completed.  So the bit completes the motion it was read for.
CompletionIsOwn ==
  io.pc = "finish" /\ io.arrived /\ pending # NoMotion => pending = io.seen

\* pump_latest: a stream submission does not wait behind lifecycle and
\* maintenance operations on the I/O thread.
SubmissionNeverWaits ==
  ~(io.pc = "submit" /\ io.cmd # 0 /\ HoldsCommand)

\* refresh_after_control: no competing request is processed while an operation
\* executes, so its lease is still the current one when it completes.
LeaseUndisturbedByExecution ==
  wk.pc = "executing" /\ wk.req # Query => lease.id = wk.req.lease

=============================================================================
