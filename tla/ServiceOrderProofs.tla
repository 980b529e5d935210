------------------------- MODULE ServiceOrderProofs -------------------------
(***************************************************************************)
(* Theorems about the order of things in ControlService, for every number  *)
(* of clients, leases and sequence numbers and every queue capacity: in    *)
(* which order requests are executed, what clients hear about a motion,    *)
(* what is left of a motion when its lease is gone, and what the shutdown  *)
(* leaves behind.                                                          *)
(***************************************************************************)
EXTENDS ControlServiceProofs

-----------------------------------------------------------------------------
(* What a step of the worker does to its locals *)

Moved(p, q) ==
  /\ wk.pc = p /\ wk'.pc = q
  /\ wk'.req = IF q = "idle" THEN Query ELSE wk.req
  /\ q # "idle" => wk'.ok = wk.ok

LEMMA GotoMoves ==
  ASSUME TypeOK, NEW p, wk.pc = p, NEW q \in WorkerPc, wkGoto(q)
  PROVE  Moved(p, q)
<1>1. wk \in WorkerRecord
  BY DEF TypeOK
<1>2. CASE q = "idle"
  <2>1. wk' = Resting
    BY <1>1, <1>2 DEF wkGoto, Rest, WorkerRecord
  <2>2. QED
    BY <1>2, <2>1 DEF Moved, Resting
<1>3. CASE q # "idle"
  <2>1. wk' = [wk EXCEPT !.pc = q]
    BY <1>1, <1>3 DEF wkGoto, Rest, WorkerRecord
  <2>2. QED
    BY <1>1, <1>3, <2>1 DEF Moved, WorkerRecord
<1>4. QED
  BY <1>2, <1>3

\* The call returns.
Ran ==
  \E o \in Outcomes(wk.req) :
    /\ rt' = o.rt
    /\ \/ wk.req = Query /\ Moved("executing", "idle")
       \/ /\ wk.req # Query /\ wk.pc = "executing" /\ wk'.pc = "refresh"
          /\ wk'.req = wk.req /\ wk'.ok = o.ok

LEMMA RunMoves ==
  ASSUME TypeOK, WorkerExecuted
  PROVE  Ran
<1>1. PICK o \in Outcomes(wk.req) :
        /\ rt' = o.rt
        /\ wk' = Rest([wk EXCEPT !.pc = IF wk.req = Query THEN "idle"
                                        ELSE "refresh",
                                 !.ok = o.ok])
  BY DEF WorkerExecuted
<1>2. wk \in WorkerRecord /\ wk.pc = "executing"
  BY DEF TypeOK, WorkerExecuted
<1>3. CASE wk.req = Query
  <2>1. wk' = Resting
    BY <1>1, <1>2, <1>3 DEF Rest, WorkerRecord
  <2>2. Moved("executing", "idle")
    BY <1>2, <2>1 DEF Moved, Resting
  <2>3. QED
    BY <1>1, <1>3, <2>2 DEF Ran
<1>4. CASE wk.req # Query
  <2>1. wk' = [wk EXCEPT !.pc = "refresh", !.ok = o.ok]
    BY <1>1, <1>2, <1>4 DEF Rest, WorkerRecord
  <2>2. wk'.pc = "refresh" /\ wk'.req = wk.req /\ wk'.ok = o.ok
    BY <1>2, <2>1 DEF WorkerRecord
  <2>3. QED
    BY <1>1, <1>2, <1>4, <2>2 DEF Ran
<1>5. QED
  BY <1>3, <1>4

LEMMA RefreshMoves ==
  ASSUME TypeOK, WorkerRefresh
  PROVE  \/ wk.req.op = "MOVE" /\ Moved("refresh", "motion")
         \/ wk.req.op # "MOVE" /\ \E q \in {"cancel", "drop", "idle"} :
                                    Moved("refresh", q)
<1>1. wk \in WorkerRecord /\ wk.pc = "refresh"
  BY DEF TypeOK, WorkerRefresh
<1>2. PICK q \in {"motion", "cancel", "drop", "idle"} :
        /\ q = "motion" <=> wk.req.op = "MOVE"
        /\ wk' = Rest([wk EXCEPT
                         !.leaseOk = Owns(wk.req.client, wk.req.lease), !.pc = q])
  BY Zenon DEF WorkerRefresh
<1>3. Moved("refresh", q)
  <2>1. CASE q = "idle"
    <3>1. wk' = Resting
      BY <1>1, <1>2, <2>1 DEF Rest, WorkerRecord
    <3>2. QED
      BY <1>1, <2>1, <3>1 DEF Moved, Resting
  <2>2. CASE q # "idle"
    <3>1. wk' = [wk EXCEPT !.leaseOk = Owns(wk.req.client, wk.req.lease),
                           !.pc = q]
      BY <1>1, <1>2, <2>2 DEF Rest, WorkerRecord
    <3>2. QED
      BY <1>1, <2>2, <3>1 DEF Moved, WorkerRecord
  <2>3. QED
    BY <2>1, <2>2
<1>4. QED
  BY <1>2, <1>3

LEMMA PopMoves ==
  ASSUME TypeOK, WorkerPop
  PROVE  /\ wk.pc = "idle" /\ wk'.pc = "popped" /\ queue # <<>>
         /\ wk'.req = Head(queue) /\ queue' = Tail(queue)
  BY DEF WorkerPop, TypeOK, WorkerRecord

\* All steps of the worker's but the pop and the return of the call.
LEMMA WorkerMoves ==
  ASSUME TypeOK
  PROVE  /\ WorkerExit => Moved("idle", "done")
         /\ WorkerBusy => Moved("popped", "check")
         /\ WorkerCheck =>
              \/ Moved("check", "idle")
              \/ /\ Moved("check", "exec")
                 /\ wk.req = Query \/ Valid(wk.req.client, wk.req.lease)
         /\ WorkerExecute => Moved("exec", "idle") \/ Moved("exec", "executing")
         /\ WorkerMotion => Moved("motion", "register") \/ Moved("motion", "idle")
         /\ WorkerRegister => Moved("register", "recheck")
         /\ WorkerRecheck => Moved("recheck", "idle")
         /\ WorkerCancel => Moved("cancel", "idle")
         /\ WorkerDrop => Moved("drop", "idle")
<1>1. WorkerExit => Moved("idle", "done")
  BY GotoMoves DEF WorkerExit, WorkerPc
<1>2. WorkerBusy => Moved("popped", "check")
  BY GotoMoves DEF WorkerBusy, WorkerPc
<1>3. ASSUME WorkerCheck
      PROVE  \/ Moved("check", "idle")
             \/ /\ Moved("check", "exec")
                /\ wk.req = Query \/ Valid(wk.req.client, wk.req.lease)
  <2>1. CASE wk.req = Query \/ Valid(wk.req.client, wk.req.lease)
    BY <1>3, <2>1, GotoMoves DEF WorkerCheck, WorkerPc
  <2>2. CASE ~(wk.req = Query \/ Valid(wk.req.client, wk.req.lease))
    BY <1>3, <2>2, GotoMoves DEF WorkerCheck, WorkerPc
  <2>3. QED
    BY <2>1, <2>2
<1>4. ASSUME WorkerExecute
      PROVE  Moved("exec", "idle") \/ Moved("exec", "executing")
  <2>1. wk.pc = "exec" /\ \E pc \in {"idle", "executing"} : wkGoto(pc)
    BY <1>4 DEF WorkerExecute
  <2>2. QED
    BY <2>1, GotoMoves DEF WorkerPc
<1>5. ASSUME WorkerMotion
      PROVE  Moved("motion", "register") \/ Moved("motion", "idle")
  <2>1. wk.pc = "motion" /\ \E pc \in {"idle", "register"} : wkGoto(pc)
    BY <1>5 DEF WorkerMotion
  <2>2. QED
    BY <2>1, GotoMoves DEF WorkerPc
<1>6. /\ WorkerRegister => Moved("register", "recheck")
      /\ WorkerRecheck => Moved("recheck", "idle")
  BY GotoMoves DEF WorkerRegister, WorkerRecheck, WorkerPc
<1>7. /\ WorkerCancel => Moved("cancel", "idle")
      /\ WorkerDrop => Moved("drop", "idle")
  BY GotoMoves DEF WorkerCancel, WorkerDrop, WorkerPc
<1>8. QED
  BY <1>1, <1>2, <1>3, <1>4, <1>5, <1>6, <1>7

-----------------------------------------------------------------------------
(* Requests are executed in the order in which they were authorized *)

Ids == MotionId \cup {NoMotion}

\* The order of control requests: by lease, then by sequence number.
Before(i, j) == i[1] < j[1] \/ (i[1] = j[1] /\ i[2] < j[2])

\* A request that authorize has let pass, or may have.
Issued(i) == i[1] < nextLease /\ (i[1] = lease.id => i[2] <= ctlSeq)

\* Where a request waits that the worker has taken and not started.
Early == {"popped", "check", "exec"}

\* The queue is ordered, behind the request in the worker's hands, which is
\* behind what was executed last; and all of them are behind the sequence
\* number that the next request of the current lease must exceed.
Waits(q, w, i) ==
  \A k \in DOMAIN q : q[k] # Query =>
    /\ Before(i, IdOf(q[k]))
    /\ w # Query => Before(IdOf(w), IdOf(q[k]))
    /\ \A j \in DOMAIN q : j < k /\ q[j] # Query =>
         Before(IdOf(q[j]), IdOf(q[k]))

InHand(w, i) ==
  w.req # Query =>
    /\ w.pc \notin {"idle", "done"}
    /\ w.pc \in Early => Before(i, IdOf(w.req))
    /\ w.pc \notin Early => i = IdOf(w.req)

Newest == Active => lease.id = nextLease - 1

AllIssued ==
  /\ Issued(lastExec)
  /\ wk.req # Query => Issued(IdOf(wk.req))
  /\ \A k \in DOMAIN queue : queue[k] # Query => Issued(IdOf(queue[k]))

OrderInv ==
  /\ Newest /\ AllIssued
  /\ Waits(queue, wk.req, lastExec) /\ InHand(wk, lastExec)

LEMMA IdTypes ==
  ASSUME TypeOK
  PROVE  /\ lastExec \in Ids
         /\ wk.req \in Request \cup {Query} /\ (wk.req # Query => IdOf(wk.req) \in Ids)
         /\ queue \in Seq(Request \cup {Query})
         /\ \A k \in DOMAIN queue : queue[k] # Query => IdOf(queue[k]) \in Ids
<1>1. queue \in Seq(Request \cup {Query})
  BY DEF TypeOK
<1>2. \A k \in DOMAIN queue : queue[k] \in Request \cup {Query}
  BY <1>1
<1>3. wk.req \in Request \cup {Query} /\ lastExec \in Ids
  BY DEF TypeOK, WorkerRecord, Ids
<1>4. QED
  BY <1>1, <1>2, <1>3, RequestId DEF Ids

LEMMA IdNumbers ==
  ASSUME NEW i \in Ids
  PROVE  /\ i[1] \in Nat /\ i[2] \in Nat
         /\ i[1] = 0 => i[2] = 0
  BY LeaseAssumption DEF Ids, MotionId, LeaseId, Sequence, NoMotion

LEMMA BeforeTrans ==
  ASSUME NEW i \in Ids, NEW j \in Ids, NEW k \in Ids, Before(i, j), Before(j, k)
  PROVE  Before(i, k)
  BY IdNumbers DEF Before

LEMMA BeforeIrreflexive ==
  ASSUME NEW i \in Ids
  PROVE  ~Before(i, i)
  BY IdNumbers DEF Before

LEMMA ActiveId ==
  ASSUME TypeOK
  PROVE  /\ Active <=> lease.id # 0
         /\ lease.id \in Nat /\ nextLease \in Nat /\ ctlSeq \in Nat
  BY LeaseAssumption DEF TypeOK, LeaseTypeOK, Active, NoLease, LeaseRecord, LeaseId

\* What steps do to the lease.
LeaseKept ==
  /\ lease'.id = lease.id /\ (Active' => Active) /\ nextLease' = nextLease
  /\ ctlSeq' \in Nat /\ ctlSeq' >= ctlSeq
Granted ==
  /\ lease'.id = nextLease /\ nextLease' = nextLease + 1

LEMMA IssuedStays ==
  ASSUME TypeOK, Newest, LeaseKept \/ DropLease \/ Granted
  PROVE  Newest' /\ \A i \in Ids : Issued(i) => Issued(i)'
<1>1. CASE LeaseKept
  BY <1>1, ActiveId, IdNumbers DEF LeaseKept, Newest, Issued
<1>2. CASE DropLease
  <2>1. ~Active' /\ nextLease' = nextLease /\ lease'.id = 0 /\ ctlSeq' = 0
    BY <1>2 DEF DropLease, ResetSequences, Active, NoLease
  <2>2. QED
    BY <2>1, IdNumbers DEF Newest, Issued
<1>3. CASE Granted
  BY <1>3, ActiveId, IdNumbers DEF Granted, Newest, Issued
<1>4. QED
  BY <1>1, <1>2, <1>3

\* A step of nobody who executes or enqueues.
LEMMA OrderFrame ==
  ASSUME TypeOK, OrderInv, LeaseKept \/ DropLease \/ Granted,
         UNCHANGED <<wk, lastExec>>, queue' \in {queue, <<>>}
  PROVE  OrderInv'
<1>1. Newest' /\ \A i \in Ids : Issued(i) => Issued(i)'
  BY IssuedStays DEF OrderInv
<1>2. \A k \in DOMAIN queue' : k \in DOMAIN queue /\ queue'[k] = queue[k]
  OBVIOUS
<1>3. AllIssued'
  BY <1>1, <1>2, IdTypes DEF OrderInv, AllIssued
<1>4. Waits(queue', wk.req, lastExec)
  BY <1>2 DEF OrderInv, Waits
<1>5. QED
  BY <1>1, <1>3, <1>4 DEF OrderInv

\* A request that authorize lets pass comes after everything before it.
LEMMA NewestLast ==
  ASSUME TypeOK, Newest, NEW i \in Ids, Issued(i), Active,
         NEW j \in Ids, j[1] = lease.id, j[2] > ctlSeq
  PROVE  Before(i, j)
  BY ActiveId, IdNumbers DEF Newest, Issued, Before

LEMMA ControlOrder ==
  ASSUME TypeOK, OrderInv, NEW r \in Request, HandleControl(r)
  PROVE  OrderInv'
<1>1. /\ Active /\ r.lease = lease.id /\ r.seq > ctlSeq /\ ctlSeq' = r.seq
      /\ UNCHANGED <<lease, nextLease, wk, lastExec>>
      /\ queue' = queue \/ queue' = Append(queue, r)
  BY DEF HandleControl, AuthorizeControl, ControlAccepted, Valid, Owns, Enqueue,
         history
<1>2. /\ r # Query /\ IdOf(r) \in Ids /\ r.seq \in Nat
      /\ IdOf(r)[1] = lease.id /\ IdOf(r)[2] = r.seq
  <2>1. r.lease \in LeaseId /\ r.seq \in Sequence /\ 0 \notin LeaseId
    BY LeaseAssumption DEF Request, LeaseId
  <2>2. r # Query
    BY <2>1 DEF Query
  <2>3. QED
    BY <1>1, <2>1, <2>2, RequestId, LeaseAssumption DEF Ids, IdOf, Sequence
<1>3. LeaseKept
  BY <1>1, <1>2, ActiveId DEF LeaseKept, Active
<1>4. CASE queue' = queue
  BY <1>1, <1>3, <1>4, OrderFrame
<1>5. CASE queue' = Append(queue, r)
  <2>1. Newest' /\ \A i \in Ids : Issued(i) => Issued(i)'
    BY <1>3, IssuedStays DEF OrderInv
  <2>2. /\ queue \in Seq(Request \cup {Query})
        /\ DOMAIN queue' = 1..(Len(queue) + 1) /\ DOMAIN queue = 1..Len(queue)
        /\ Len(queue) \in Nat /\ queue'[Len(queue) + 1] = r
        /\ \A k \in DOMAIN queue : queue'[k] = queue[k]
    BY <1>5, IdTypes
  <2>3. Issued(IdOf(r))'
    BY <1>1, <1>2, ActiveId DEF Issued, OrderInv, Newest
  <2>4. AllIssued'
    BY <1>1, <2>1, <2>2, <2>3, IdTypes DEF OrderInv, AllIssued
  <2>5. /\ Before(lastExec, IdOf(r))
        /\ wk.req # Query => Before(IdOf(wk.req), IdOf(r))
        /\ \A j \in DOMAIN queue : queue[j] # Query =>
             Before(IdOf(queue[j]), IdOf(r))
    BY <1>1, <1>2, NewestLast, IdTypes DEF OrderInv, AllIssued
  <2>6. Waits(queue', wk.req, lastExec)
    <3> SUFFICES ASSUME NEW k \in DOMAIN queue', queue'[k] # Query
                 PROVE  /\ Before(lastExec, IdOf(queue'[k]))
                        /\ wk.req # Query => Before(IdOf(wk.req), IdOf(queue'[k]))
                        /\ \A j \in DOMAIN queue' : j < k /\ queue'[j] # Query =>
                             Before(IdOf(queue'[j]), IdOf(queue'[k]))
      BY DEF Waits
    <3>1. CASE k \in DOMAIN queue
      BY <2>2, <3>1 DEF OrderInv, Waits
    <3>2. CASE k = Len(queue) + 1
      BY <2>2, <2>5, <3>2
    <3>3. QED
      BY <2>2, <3>1, <3>2
  <2>7. QED
    BY <1>1, <2>1, <2>4, <2>6 DEF OrderInv
<1>6. QED
  BY <1>1, <1>4, <1>5

LEMMA QueryOrder ==
  ASSUME TypeOK, OrderInv, HandleQuery
  PROVE  OrderInv'
<1>1. /\ UNCHANGED <<lease, nextLease, ctlSeq, wk, lastExec>>
      /\ queue' = queue \/ queue' = Append(queue, Query)
  BY DEF HandleQuery, Enqueue, leaseVars, history
<1>2. /\ queue \in Seq(Request \cup {Query})
      /\ \A k \in DOMAIN queue' : queue'[k] # Query =>
           k \in DOMAIN queue /\ queue'[k] = queue[k]
  BY <1>1, IdTypes
<1>3. Newest' /\ AllIssued'
  BY <1>1, <1>2 DEF OrderInv, Newest, Active, AllIssued, Issued
<1>4. Waits(queue', wk.req, lastExec)
  BY <1>2 DEF OrderInv, Waits
<1>5. QED
  BY <1>1, <1>3, <1>4 DEF OrderInv

\* The I/O thread, the clients, time and the Runtime's own thread.
LEMMA OthersOrder ==
  ASSUME TypeOK, OrderInv,
         IoLost \/ IoLoop \/ IoShutdown \/ Requests \/ Tick \/ RuntimeStep
  PROVE  OrderInv'
<1>0. UNCHANGED leaseVars => LeaseKept
  BY ActiveId DEF leaseVars, LeaseKept, Active
<1>1. ASSUME LoseLease("control") \/ LoseLease("stop_motion")
      PROVE  DropLease
  BY <1>1 DEF LoseLease
<1>2. ASSUME Active, Refresh, nextLease' = nextLease, ctlSeq' \in Nat,
             ctlSeq' >= ctlSeq
      PROVE  LeaseKept
  BY <1>2 DEF Active, Refresh, LeaseKept, TypeOK, LeaseTypeOK, LeaseRecord
<1>3. CASE IoLost
  BY <1>0, <1>3, OrderFrame
  DEF IoLost, LostStop, LostDisable, LostCancel, queueVars, history
<1>4. CASE IoLoop
  <2>1. UNCHANGED leaseVars \/ DropLease
    BY <1>1, <1>4 DEF IoLoop, ExpireIfNeeded, TakeControlDone, TakeStreamDone,
                      PumpLatest, SubmitStream, PublishState, PublishFinish
  <2>2. UNCHANGED <<wk, lastExec, queue>>
    BY <1>4 DEF IoLoop, ExpireIfNeeded, TakeControlDone, TakeStreamDone,
                PumpLatest, SubmitStream, PublishState, PublishFinish,
                queueVars, history
  <2>3. QED
    BY <1>0, <2>1, <2>2, OrderFrame
<1>5. CASE IoShutdown
  <2>1. UNCHANGED leaseVars \/ DropLease
    BY <1>1, <1>5 DEF IoShutdown, JoinAndRevoke, ShutdownStop, ShutdownDisable,
                      ShutdownDisconnect, ShutdownStep
  <2>2. UNCHANGED <<wk, lastExec, queue>>
    BY <1>5 DEF IoShutdown, JoinAndRevoke, ShutdownStop, ShutdownDisable,
                ShutdownDisconnect, ShutdownStep, queueVars, history
  <2>3. QED
    BY <1>0, <2>1, <2>2, OrderFrame
<1>6. CASE Requests
  <2>1. ASSUME NEW c \in Clients, HandleAcquire(c)
        PROVE  OrderInv'
    <3>1. UNCHANGED <<wk, lastExec, queue>>
      BY <2>1 DEF HandleAcquire, queueVars
    <3>2. LeaseKept \/ Granted
      BY <1>0, <1>2, <2>1, ActiveId DEF HandleAcquire, Acquire, Granted
    <3>3. QED
      BY <3>1, <3>2, OrderFrame
  <2>2. ASSUME NEW c \in Clients, NEW l \in LeaseId, HandleRelease(c, l)
        PROVE  OrderInv'
    BY <1>1, <2>2, OrderFrame DEF HandleRelease, queueVars
  <2>3. ASSUME NEW c \in Clients, NEW l \in LeaseId, NEW s \in Sequence,
               HandleHeartbeat(c, l, s) \/ TakeStream(c, l, s)
        PROVE  OrderInv'
    <3>1. UNCHANGED <<wk, lastExec, queue>> /\ Active /\ Refresh
          /\ nextLease' = nextLease /\ (ctlSeq' = ctlSeq \/ (s > ctlSeq /\ ctlSeq' = s))
      BY <2>3 DEF HandleHeartbeat, TakeStream, Heartbeat, ControlAccepted,
                  AuthorizeStream, StreamAccepted, Valid, Owns, queueVars, history
    <3>2. LeaseKept
      BY <1>2, <3>1, ActiveId, LeaseAssumption DEF Sequence
    <3>3. QED
      BY <3>1, <3>2, OrderFrame
  <2>4. CASE StopService
    BY <1>0, <2>4, OrderFrame DEF StopService, history
  <2>5. QED
    BY <1>6, <2>1, <2>2, <2>3, <2>4, ControlOrder, QueryOrder DEF Requests
<1>7. CASE Tick
  <2>1. LeaseKept
    <3>1. lease'.id = lease.id /\ nextLease' = nextLease /\ ctlSeq' = ctlSeq
      BY <1>7 DEF Tick, LeaseTick, TypeOK, LeaseTypeOK, LeaseRecord, NoLease
    <3>2. lease = NoLease => lease' = NoLease
      BY <1>7 DEF Tick, LeaseTick, NoLease
    <3>3. QED
      BY <3>1, <3>2, ActiveId DEF LeaseKept, Active
  <2>2. QED
    BY <1>7, <2>1, OrderFrame DEF Tick, queueVars, history
<1>8. CASE RuntimeStep
  BY <1>0, <1>8, OrderFrame DEF RuntimeStep, queueVars, history
<1>9. QED
  BY <1>3, <1>4, <1>5, <1>6, <1>7, <1>8

\* The worker goes on with the same request, or without one.
LEMMA MoveOrder ==
  ASSUME TypeOK, OrderInv, LeaseKept, UNCHANGED <<queue, lastExec>>,
         \/ wk'.req = Query
         \/ /\ wk'.req = wk.req /\ wk'.pc \notin {"idle", "done"}
            /\ wk'.pc \in Early <=> wk.pc \in Early
  PROVE  OrderInv'
<1>1. Newest' /\ \A i \in Ids : Issued(i) => Issued(i)'
  BY IssuedStays DEF OrderInv
<1>2. AllIssued'
  BY <1>1, IdTypes DEF OrderInv, AllIssued
<1>3. Waits(queue, wk'.req, lastExec)
  BY DEF OrderInv, Waits
<1>4. InHand(wk', lastExec)
  BY DEF OrderInv, InHand
<1>5. QED
  BY <1>1, <1>2, <1>3, <1>4 DEF OrderInv

LEMMA PopOrder ==
  ASSUME TypeOK, OrderInv, WorkerPop
  PROVE  OrderInv'
<1>1. /\ wk'.pc = "popped" /\ wk'.req = queue[1] /\ queue' = Tail(queue)
      /\ UNCHANGED <<lease, nextLease, ctlSeq, lastExec>>
      /\ queue \in Seq(Request \cup {Query}) /\ 1 \in DOMAIN queue
  BY PopMoves, IdTypes DEF WorkerPop, leaseVars, history
<1>2. /\ DOMAIN queue = 1..Len(queue) /\ Len(queue) \in Nat
      /\ \A k \in DOMAIN queue' :
           k \in Nat /\ k + 1 > 1 /\ k + 1 \in DOMAIN queue
             /\ queue'[k] = queue[k + 1]
  BY <1>1
<1>3. \A i : Issued(i)' <=> Issued(i)
  BY <1>1 DEF Issued
<1>4. Newest' /\ AllIssued'
  BY <1>1, <1>2, <1>3 DEF OrderInv, Newest, Active, AllIssued
<1>5. Waits(queue', wk'.req, lastExec)
  <2> SUFFICES ASSUME NEW k \in DOMAIN queue', queue'[k] # Query
               PROVE  /\ Before(lastExec, IdOf(queue'[k]))
                      /\ wk'.req # Query => Before(IdOf(wk'.req), IdOf(queue'[k]))
                      /\ \A j \in DOMAIN queue' : j < k /\ queue'[j] # Query =>
                           Before(IdOf(queue'[j]), IdOf(queue'[k]))
    BY DEF Waits
  <2>1. k + 1 \in DOMAIN queue /\ queue'[k] = queue[k + 1] /\ 1 < k + 1
    BY <1>2
  <2>2. Before(lastExec, IdOf(queue'[k]))
    BY <2>1 DEF OrderInv, Waits
  <2>3. wk'.req # Query => Before(IdOf(wk'.req), IdOf(queue'[k]))
    BY <1>1, <2>1 DEF OrderInv, Waits
  <2>4. ASSUME NEW j \in DOMAIN queue', j < k, queue'[j] # Query
        PROVE  Before(IdOf(queue'[j]), IdOf(queue'[k]))
    <3>1. /\ j + 1 \in DOMAIN queue /\ queue'[j] = queue[j + 1] /\ j + 1 < k + 1
      BY <1>2, <2>4
    <3>2. QED
      BY <2>1, <2>4, <3>1 DEF OrderInv, Waits
  <2>5. QED
    BY <2>2, <2>3, <2>4
<1>6. InHand(wk', lastExec)
  BY <1>1 DEF OrderInv, Waits, InHand, Early
<1>7. QED
  BY <1>1, <1>4, <1>5, <1>6 DEF OrderInv

\* What WorkerExecute remembers of the request it starts.
LEMMA ExecuteHistory ==
  ASSUME TypeOK, WorkerExecute
  PROVE  \/ Moved("exec", "idle") /\ UNCHANGED lastExec
         \/ /\ Moved("exec", "executing") /\ wk.req # Query
            /\ lastExec' = IdOf(wk.req)
         \/ Moved("exec", "executing") /\ wk.req = Query /\ UNCHANGED lastExec
<1>1. Moved("exec", "idle") \/ Moved("exec", "executing")
  BY WorkerMoves
<1>2. IF wk'.pc = "executing" /\ wk.req # Query THEN lastExec' = IdOf(wk.req)
      ELSE UNCHANGED lastExec
  BY Zenon DEF WorkerExecute, history
<1>3. QED
  BY <1>1, <1>2 DEF Moved

LEMMA ExecuteOrder ==
  ASSUME TypeOK, OrderInv, WorkerExecute
  PROVE  OrderInv'
<1>1. UNCHANGED <<lease, nextLease, ctlSeq, queue>> /\ LeaseKept
  BY ActiveId DEF WorkerExecute, leaseVars, queueVars, LeaseKept, Active
<1>2. CASE Moved("exec", "idle") /\ UNCHANGED lastExec
  BY <1>1, <1>2, MoveOrder DEF Moved
<1>3. CASE Moved("exec", "executing") /\ wk.req = Query /\ UNCHANGED lastExec
  BY <1>1, <1>3, MoveOrder DEF Moved
<1>4. CASE /\ Moved("exec", "executing") /\ wk.req # Query
           /\ lastExec' = IdOf(wk.req)
  <2>1. wk'.req = wk.req /\ wk'.pc = "executing"
    BY <1>4 DEF Moved
  <2>2. \A i : Issued(i)' <=> Issued(i)
    BY <1>1 DEF Issued
  <2>3. Newest' /\ AllIssued'
    BY <1>1, <1>4, <2>1, <2>2 DEF OrderInv, Newest, Active, AllIssued
  <2>4. Waits(queue, wk.req, IdOf(wk.req))
    BY <1>4 DEF OrderInv, Waits
  <2>5. InHand(wk', lastExec')
    BY <1>4, <2>1 DEF InHand, Early
  <2>6. QED
    BY <1>1, <1>4, <2>1, <2>3, <2>4, <2>5 DEF OrderInv
<1>5. QED
  BY <1>2, <1>3, <1>4, ExecuteHistory

LEMMA WorkerOrder ==
  ASSUME TypeOK, OrderInv, Worker
  PROVE  OrderInv'
<1>0. UNCHANGED leaseVars => LeaseKept
  BY ActiveId DEF leaseVars, LeaseKept, Active
<1>1. CASE EnsureRuntime
  BY <1>0, <1>1, OrderFrame DEF EnsureRuntime, queueVars, history
<1>2. CASE WorkerExit
  <2>1. wk.req = Query
    BY <1>2 DEF WorkerExit, OrderInv, InHand
  <2>2. QED
    BY <1>0, <1>2, <2>1, WorkerMoves, MoveOrder
    DEF WorkerExit, Moved, queueVars, history
<1>3. CASE WorkerBusy \/ WorkerCheck
  BY <1>0, <1>3, WorkerMoves, MoveOrder
  DEF WorkerBusy, WorkerCheck, Moved, Early, queueVars, history
<1>4. CASE WorkerMotion \/ WorkerRegister \/ WorkerRecheck
  BY <1>0, <1>4, WorkerMoves, MoveOrder
  DEF WorkerMotion, WorkerRegister, WorkerRecheck, Moved, Early, queueVars, history
<1>5. CASE WorkerCancel \/ WorkerDrop
  BY <1>0, <1>5, WorkerMoves, MoveOrder
  DEF WorkerCancel, WorkerDrop, Moved, Early, queueVars, history
<1>6. CASE WorkerExecuted
  <2>1. UNCHANGED <<queue, lastExec>> /\ LeaseKept
    BY <1>0, <1>6 DEF WorkerExecuted, queueVars, history
  <2>2. QED
    BY <1>6, <2>1, RunMoves, MoveOrder DEF Ran, Moved, Early
<1>7. CASE WorkerRefresh
  <2>1. UNCHANGED <<queue, lastExec>>
    BY <1>7 DEF WorkerRefresh, queueVars, history
  <2>2. LeaseKept
    <3>1. UNCHANGED <<nextLease, ctlSeq>> /\ (lease' = lease \/ (Active /\ Refresh))
      BY <1>7 DEF WorkerRefresh, RefreshAfterControl, Owns
    <3>2. lease'.id = lease.id /\ (Active' => Active)
      BY <3>1 DEF Active, Refresh, TypeOK, LeaseTypeOK, LeaseRecord
    <3>3. QED
      BY <3>1, <3>2, ActiveId DEF LeaseKept
  <2>3. QED
    BY <1>7, <2>1, <2>2, RefreshMoves, MoveOrder DEF Moved, Early
<1>8. QED
  BY <1>1, <1>2, <1>3, <1>4, <1>5, <1>6, <1>7, PopOrder, ExecuteOrder DEF Worker

LEMMA OrderInit == Init => OrderInv
<1> SUFFICES ASSUME Init PROVE OrderInv
  OBVIOUS
<1>1. /\ lease = NoLease /\ nextLease = 1 /\ ctlSeq = 0 /\ queue = <<>>
      /\ wk.req = Query /\ lastExec = NoMotion
  BY DEF Init, LeaseInit, Resting
<1>2. Newest /\ AllIssued
  BY <1>1 DEF Newest, Active, AllIssued, Issued, NoMotion, NoLease
<1>3. QED
  BY <1>1, <1>2 DEF OrderInv, Waits, InHand

LEMMA OrderStep == TypeInv /\ OrderInv /\ [Next]_vars => OrderInv'
<1> SUFFICES ASSUME TypeInv, OrderInv, [Next]_vars PROVE OrderInv'
  OBVIOUS
<1>1. TypeOK
  BY DEF TypeInv
<1>2. CASE UNCHANGED vars
  <2>1. UNCHANGED <<lease, nextLease, ctlSeq, queue, wk, lastExec>>
    BY <1>2 DEF vars
  <2>2. LeaseKept
    BY <1>1, <2>1, ActiveId DEF LeaseKept, Active
  <2>3. QED
    BY <1>1, <2>1, <2>2, OrderFrame
<1>3. CASE Next
  BY <1>1, <1>3, OthersOrder, WorkerOrder DEF Next
<1>4. QED
  BY <1>2, <1>3

LEMMA OrderKept == Spec => [](TypeInv /\ OrderInv)
  BY InitType, StepType, OrderInit, OrderStep, PTL DEF Spec

\* Control requests reach the Runtime in the order of lease and sequence
\* number, each at most once, for every queue capacity and however late, often
\* or out of order DDS delivers them: authorize consumes the sequence number
\* before enqueue_control_request, and one worker takes from the queue.
THEOREM RequestsInOrder == Spec => ExecutedInOrder
<1>1. ASSUME TypeInv, OrderInv,
             wk.pc = "exec" /\ wk'.pc = "executing" /\ wk.req # Query
      PROVE  \/ wk.req.lease > lastExec[1]
             \/ wk.req.lease = lastExec[1] /\ wk.req.seq > lastExec[2]
  <2>1. Before(lastExec, IdOf(wk.req)) /\ lastExec \in Ids /\ IdOf(wk.req) \in Ids
    BY <1>1, IdTypes DEF TypeInv, OrderInv, InHand, Early
  <2>2. IdOf(wk.req)[1] = wk.req.lease /\ IdOf(wk.req)[2] = wk.req.seq
    BY DEF IdOf
  <2>3. QED
    BY <2>1, <2>2, IdNumbers DEF Before
<1>2. TypeInv /\ OrderInv =>
        [wk.pc = "exec" /\ wk'.pc = "executing" /\ wk.req # Query =>
           \/ wk.req.lease > lastExec[1]
           \/ wk.req.lease = lastExec[1] /\ wk.req.seq > lastExec[2]]_vars
  BY <1>1
<1>3. QED
  BY <1>2, OrderKept, PTL DEF ExecutedInOrder

-----------------------------------------------------------------------------
(* What clients hear about a motion *)

\* Only requests that were handed to the Runtime have events, and the one in
\* the worker's hands none before its ACCEPTED or FAILED; the request whose
\* end is awaited has been accepted and has no other event.
EventInv ==
  /\ \A i \in MotionId : events[i] # "none" =>
       /\ ~Before(lastExec, i)
       /\ wk.pc \in {"executing", "refresh", "motion"} => IdOf(wk.req) # i
  /\ pending # NoMotion => events[pending] = "accepted"
  /\ wk.pc = "register" =>
       events[IdOf(wk.req)] = "accepted" /\ pending # IdOf(wk.req)

\* What a step may do to the table of events.
EventSteps ==
  \A i \in MotionId : events'[i] # events[i] =>
    \/ events[i] = "none" /\ events'[i] \in {"accepted", "failed"}
    \/ events[i] = "accepted" /\ events'[i] \in {"completed", "cancelled"}

\* Neither a request nor an event.
LEMMA EventFrame ==
  ASSUME EventInv, UNCHANGED <<lastExec, events, pending>>,
         \/ wk'.pc \notin {"executing", "refresh", "motion", "register"}
         \/ wk'.req = wk.req /\ (wk'.pc = wk.pc
              \/ {wk.pc, wk'.pc} \subseteq {"executing", "refresh", "motion"})
  PROVE  EventInv' /\ EventSteps
  BY DEF EventInv, EventSteps

LEMMA NoMotionId == NoMotion \notin MotionId
  BY LeaseAssumption DEF NoMotion, MotionId, LeaseId

\* The worker handles a motion: the request has an identity.
LEMMA RegisterId ==
  ASSUME TypeInv, wk.pc \in {"motion", "register"}
  PROVE  wk.req.op = "MOVE" /\ wk.req # Query /\ IdOf(wk.req) \in MotionId
<1>1. wk.req.op = "MOVE" /\ wk.req \in Request \cup {Query}
  BY DEF TypeInv, TypeOK, WorkerRecord, MotionRequest
<1>2. wk.req # Query
  BY <1>1 DEF Query
<1>3. QED
  BY <1>1, <1>2, RequestId

\* The pending request ends.
LEMMA FinishEvents ==
  ASSUME TypeInv, EventInv, NEW k \in {"completed", "cancelled"},
         FinishPending(k), UNCHANGED lastExec,
         \/ wk' = wk
         \/ wk'.pc \notin {"executing", "refresh", "motion", "register"}
  PROVE  EventInv' /\ EventSteps
<1>1. CASE pending = NoMotion
  BY <1>1, EventFrame DEF FinishPending
<1>2. CASE pending # NoMotion
  <2>1. /\ pending \in MotionId /\ pending' = NoMotion
        /\ events \in [MotionId -> EventKind]
        /\ events' = [events EXCEPT ![pending] = k]
    BY <1>2 DEF FinishPending, TypeInv, TypeOK
  <2>2. \A i \in MotionId : events'[i] = IF i = pending THEN k ELSE events[i]
    BY <2>1
  <2>3. events[pending] = "accepted"
    BY <1>2 DEF EventInv
  <2>4. EventSteps
    BY <2>2, <2>3 DEF EventSteps
  <2>5. \A i \in MotionId : events'[i] # "none" => events[i] # "none"
    BY <2>2, <2>3
  <2>6. wk'.pc = "register" =>
          events'[IdOf(wk'.req)] = "accepted" /\ pending' # IdOf(wk'.req)
    <3> SUFFICES ASSUME wk'.pc = "register"
                 PROVE  events'[IdOf(wk.req)] = "accepted"
                        /\ NoMotion # IdOf(wk.req) /\ wk' = wk
      BY <2>1
    <3>1. /\ wk' = wk /\ events[IdOf(wk.req)] = "accepted"
          /\ pending # IdOf(wk.req)
      BY DEF EventInv
    <3>2. IdOf(wk.req) \in MotionId
      BY <3>1, RegisterId
    <3>3. events'[IdOf(wk.req)] = events[IdOf(wk.req)]
      BY <2>1, <3>1, <3>2
    <3>4. QED
      BY <3>1, <3>2, <3>3, NoMotionId
  <2>7. QED
    BY <2>1, <2>4, <2>5, <2>6 DEF EventInv
<1>3. QED
  BY <1>1, <1>2

LEMMA OthersEvents ==
  ASSUME TypeInv, EventInv,
         IoLost \/ IoLoop \/ IoShutdown \/ Requests \/ Tick \/ RuntimeStep
  PROVE  EventInv' /\ EventSteps
<1>1. UNCHANGED <<wk, lastExec>>
  <2>1. CASE IoLost \/ IoLoop \/ IoShutdown
    BY <2>1 DEF IoLost, LostStop, LostDisable, LostCancel, IoLoop, ExpireIfNeeded,
                TakeControlDone, TakeStreamDone, PumpLatest, SubmitStream,
                PublishState, PublishFinish, IoShutdown, JoinAndRevoke,
                ShutdownStop, ShutdownDisable, ShutdownDisconnect, ShutdownStep,
                history
  <2>2. CASE Requests \/ Tick \/ RuntimeStep
    BY <2>2 DEF Requests, HandleAcquire, HandleRelease, HandleControl,
                HandleHeartbeat, TakeStream, HandleQuery, StopService, Tick,
                RuntimeStep, history
  <2>3. QED
    BY <2>1, <2>2
<1>2. \/ UNCHANGED <<events, pending>>
      \/ FinishPending("cancelled") \/ FinishPending("completed")
  <2>1. CASE IoLost \/ IoLoop \/ IoShutdown
    BY <2>1 DEF IoLost, LostStop, LostDisable, LostCancel, IoLoop, ExpireIfNeeded,
                TakeControlDone, TakeStreamDone, PumpLatest, SubmitStream,
                PublishState, PublishFinish, IoShutdown, JoinAndRevoke,
                ShutdownStop, ShutdownDisable, ShutdownDisconnect, ShutdownStep
  <2>2. CASE Requests \/ Tick \/ RuntimeStep
    BY <2>2 DEF Requests, HandleAcquire, HandleRelease, HandleControl,
                HandleHeartbeat, TakeStream, HandleQuery, StopService, Tick,
                RuntimeStep
  <2>3. QED
    BY <2>1, <2>2
<1>3. QED
  BY <1>1, <1>2, EventFrame, FinishEvents

\* A request is executed that has no event yet.
LEMMA ExecuteEvents ==
  ASSUME TypeOK, OrderInv, EventInv, WorkerExecute
  PROVE  EventInv' /\ EventSteps
<1>1. UNCHANGED <<events, pending>>
  BY DEF WorkerExecute
<1>2. CASE Moved("exec", "idle") /\ UNCHANGED lastExec
  BY <1>1, <1>2, EventFrame DEF Moved
<1>3. CASE Moved("exec", "executing") /\ wk.req = Query /\ UNCHANGED lastExec
  <2>1. wk'.pc = "executing" /\ wk'.req = Query
    BY <1>3 DEF Moved
  <2>2. \A i \in MotionId : IdOf(Query) # i
    BY LeaseAssumption DEF IdOf, Query, MotionId, LeaseId, Sequence
  <2>3. QED
    BY <1>1, <1>3, <2>1, <2>2 DEF EventInv, EventSteps
<1>4. CASE /\ Moved("exec", "executing") /\ wk.req # Query
           /\ lastExec' = IdOf(wk.req)
  <2>1. wk'.pc = "executing" /\ wk'.req = wk.req /\ wk.pc = "exec"
    BY <1>4 DEF Moved
  <2>2. /\ Before(lastExec, IdOf(wk.req)) /\ lastExec \in Ids
        /\ IdOf(wk.req) \in Ids
    BY <1>4, <2>1, IdTypes DEF OrderInv, InHand, Early
  <2>3. ASSUME NEW i \in MotionId, events[i] # "none"
        PROVE  ~Before(IdOf(wk.req), i) /\ IdOf(wk.req) # i
    <3>1. ~Before(lastExec, i) /\ i \in Ids
      BY <2>3 DEF EventInv, Ids
    <3>2. QED
      BY <2>2, <3>1, BeforeTrans
  <2>4. QED
    BY <1>1, <1>4, <2>1, <2>3 DEF EventInv, EventSteps
<1>5. QED
  BY <1>2, <1>3, <1>4, ExecuteHistory

\* ACCEPTED or FAILED is the first event of the request.
LEMMA MotionEvents ==
  ASSUME TypeInv, OrderInv, EventInv, WorkerMotion
  PROVE  EventInv' /\ EventSteps
<1>1. /\ wk.pc = "motion" /\ wk.req.op = "MOVE" /\ wk.req # Query
      /\ events \in [MotionId -> EventKind]
      /\ UNCHANGED <<pending, lastExec>>
  BY DEF WorkerMotion, TypeInv, TypeOK, MotionRequest, Query, history
<1> DEFINE id == IdOf(wk.req)
           kind == IF wk.ok /\ wk.leaseOk THEN "accepted" ELSE "failed"
<1>2. id \in MotionId
  BY <1>1, RequestId DEF TypeInv, TypeOK, WorkerRecord
<1>3. events[id] = "none"
  BY <1>1, <1>2 DEF EventInv
<1>4. events' = [events EXCEPT ![id] = kind] /\ kind \in {"accepted", "failed"}
  BY DEF WorkerMotion
<1>5. \/ Moved("motion", "register") /\ kind = "accepted"
      \/ Moved("motion", "idle")
  <2>1. CASE wk.ok /\ wk.leaseOk
    BY <2>1, WorkerMoves DEF TypeInv
  <2>2. CASE ~(wk.ok /\ wk.leaseOk)
    <3>1. wkGoto("idle")
      BY <2>2 DEF WorkerMotion
    <3>2. QED
      BY <1>1, <3>1, GotoMoves DEF TypeInv, WorkerPc
  <2>3. QED
    BY <2>1, <2>2
<1>6. lastExec = id
  BY <1>1 DEF OrderInv, InHand, Early
<1>7. ~Before(lastExec, id)
  BY <1>2, <1>6, BeforeIrreflexive DEF Ids
<1>8. pending # id
  BY <1>2, <1>3, NoMotionId DEF EventInv
<1> HIDE DEF id, kind
<1>9. \A i \in MotionId : events'[i] = IF i = id THEN kind ELSE events[i]
  BY <1>1, <1>2, <1>4
<1>10. EventSteps
  BY <1>3, <1>4, <1>9 DEF EventSteps
<1>11. pending # NoMotion => pending \in MotionId
  BY DEF TypeInv, TypeOK
<1>12. /\ wk'.pc \in {"register", "idle"}
       /\ wk'.pc = "register" => wk'.req = wk.req /\ kind = "accepted"
  BY <1>5 DEF Moved
<1>13. /\ \A i \in MotionId : events'[i] # "none" => ~Before(lastExec', i)
       /\ pending' # NoMotion => events'[pending'] = "accepted"
  BY <1>1, <1>7, <1>8, <1>9, <1>11 DEF EventInv
<1>14. wk'.pc = "register" =>
         events'[IdOf(wk'.req)] = "accepted" /\ pending' # IdOf(wk'.req)
  BY <1>1, <1>2, <1>8, <1>9, <1>12 DEF id
<1>15. QED
  BY <1>10, <1>12, <1>13, <1>14 DEF EventInv

LEMMA WorkerEvents ==
  ASSUME TypeInv, OrderInv, EventInv, Worker
  PROVE  EventInv' /\ EventSteps
<1>0. TypeOK
  BY DEF TypeInv
<1>1. CASE EnsureRuntime
  BY <1>1, EventFrame DEF EnsureRuntime, history
<1>2. CASE WorkerPop
  BY <1>0, <1>2, PopMoves, EventFrame DEF WorkerPop, history
<1>3. CASE WorkerExit \/ WorkerBusy \/ WorkerCheck
  BY <1>0, <1>3, WorkerMoves, EventFrame
  DEF WorkerExit, WorkerBusy, WorkerCheck, Moved, history
<1>4. CASE WorkerExecuted
  BY <1>0, <1>4, RunMoves, EventFrame DEF WorkerExecuted, Ran, Moved, history
<1>5. CASE WorkerRefresh
  BY <1>0, <1>5, RefreshMoves, EventFrame DEF WorkerRefresh, Moved, history
<1>6. CASE WorkerRegister
  <2>1. /\ pending' = IdOf(wk.req) /\ wk.pc = "register" /\ wk'.pc = "recheck"
        /\ UNCHANGED <<events, lastExec>>
    BY <1>0, <1>6, WorkerMoves DEF WorkerRegister, Moved, history
  <2>2. QED
    BY <2>1 DEF EventInv, EventSteps
<1>7. CASE WorkerRecheck \/ WorkerCancel
  <2>1. wk'.pc = "idle" /\ UNCHANGED lastExec
    BY <1>0, <1>7, WorkerMoves DEF WorkerRecheck, WorkerCancel, Moved, history
  <2>2. FinishPending("cancelled") \/ UNCHANGED <<pending, events>>
    BY <1>7 DEF WorkerRecheck, WorkerCancel
  <2>3. QED
    BY <1>0, <2>1, <2>2, EventFrame, FinishEvents
<1>8. CASE WorkerDrop
  BY <1>0, <1>8, WorkerMoves, EventFrame DEF WorkerDrop, Moved, history
<1>9. QED
  BY <1>0, <1>1, <1>2, <1>3, <1>4, <1>5, <1>6, <1>7, <1>8, ExecuteEvents,
     MotionEvents DEF Worker

LEMMA EventStep ==
  TypeInv /\ OrderInv /\ EventInv /\ [Next]_vars => EventInv' /\ [EventSteps]_vars
<1> SUFFICES ASSUME TypeInv, OrderInv, EventInv, [Next]_vars
             PROVE  EventInv' /\ [EventSteps]_vars
  OBVIOUS
<1>1. CASE UNCHANGED vars
  <2>1. EventInv'
    BY <1>1, EventFrame DEF vars
  <2>2. QED
    BY <1>1, <2>1
<1>2. CASE Next
  BY <1>2, OthersEvents, WorkerEvents DEF Next, TypeInv
<1>3. QED
  BY <1>1, <1>2

LEMMA EventInit == Init => EventInv
  BY DEF Init, EventInv, Resting

LEMMA EventsKept == Spec => [](TypeInv /\ OrderInv /\ EventInv)
  BY InitType, StepType, OrderInit, OrderStep, EventInit, EventStep, PTL DEF Spec

\* A client hears ACCEPTED once and then at most one of COMPLETED and
\* CANCELLED, or only FAILED, however publish_state, the loss callback, the
\* shutdown and the worker's own recheck race for the end of the motion.
THEOREM EventsInOrder == Spec => MotionEventOrder
<1>1. EventSteps <=>
        \A i \in MotionId : events'[i] # events[i] =>
          \/ events[i] = "none" /\ events'[i] \in {"accepted", "failed"}
          \/ /\ events[i] = "accepted"
             /\ events'[i] \in {"completed", "cancelled"}
  BY DEF EventSteps
<1>2. TypeInv /\ OrderInv /\ EventInv /\ [Next]_vars =>
        [\A i \in MotionId : events'[i] # events[i] =>
          \/ events[i] = "none" /\ events'[i] \in {"accepted", "failed"}
          \/ /\ events[i] = "accepted"
             /\ events'[i] \in {"completed", "cancelled"}]_vars
  BY <1>1, EventStep
<1>3. QED
  BY <1>2, EventsKept, PTL DEF Spec, MotionEventOrder

-----------------------------------------------------------------------------
(* What operations and the Runtime's own thread leave of the finite motion *)

\* A motion that runs or holds its target has an identity, and a Runtime that
\* is not connected has none.
Sound(r) ==
  /\ r.mstate \in {"RUNNING", "COMPLETED"} => r.motion # NoMotion
  /\ r.state \in {"NONE", "TERMINAL"} => r.mstate = "IDLE" /\ r.stream = 0

Calm(r) == r.mstate \notin {"RUNNING", "COMPLETED"}

\* No motion is started and the robot is not enabled.
Settles(r, q) ==
  /\ Sound(r) => Sound(q)
  /\ Calm(r) => Calm(q)
  /\ q.state = "ENABLED" => r.state = "ENABLED"

\* Nor is the motion replaced.
Keeps(r, q) == Settles(r, q) /\ q.motion = r.motion

LEMMA TerminateFields ==
  ASSUME NEW r \in RuntimeRecord, NEW s \in {"CANCELLED", "FAULT"}
  PROVE  /\ Terminate(r, s) \in RuntimeRecord /\ Calm(Terminate(r, s))
         /\ Terminate(r, s).state = r.state /\ Terminate(r, s).motion = r.motion
         /\ r.mstate = "IDLE" => Terminate(r, s) = r
<1>1. Terminate(r, s) \in RuntimeRecord
  BY TerminateType DEF MotionState
<1>2. QED
  BY <1>1 DEF Terminate, Calm, RuntimeRecord

\* The state of a Runtime that had one is replaced.
InState(m, s) == [m EXCEPT !.state = s]
Off(m, s) == [m EXCEPT !.state = s, !.stream = 0]

LEMMA StateKeeps ==
  ASSUME NEW m \in RuntimeRecord, NEW s \in {"READY", "FAULT", "RECOVERING"},
         m.state \notin {"NONE", "TERMINAL"}, NEW q \in {InState(m, s), Off(m, s)}
  PROVE  Keeps(m, q) /\ q.state = s /\ q.mstate = m.mstate
<1>1. q.state = s /\ q.mstate = m.mstate /\ q.motion = m.motion
  BY DEF RuntimeRecord, InState, Off
<1>2. QED
  BY <1>1 DEF Keeps, Settles, Sound, Calm

\* The motion is ended and the state replaced.
LEMMA EndKeeps ==
  ASSUME NEW r \in RuntimeRecord, NEW q, NEW s \in {"READY", "FAULT"},
         NEW k \in {"CANCELLED", "FAULT"}, r.state \notin {"NONE", "TERMINAL"},
         q = Off(Terminate(r, k), s)
  PROVE  Keeps(r, q) /\ Calm(q) /\ q.state = s
<1> DEFINE m == Terminate(r, k)
<1>1. m \in RuntimeRecord /\ Calm(m) /\ m.state = r.state /\ m.motion = r.motion
  BY TerminateFields
<1>2. q = Off(m, s)
  OBVIOUS
<1> HIDE DEF m
<1>3. Keeps(m, q) /\ q.state = s /\ q.mstate = m.mstate
  BY <1>1, <1>2, StateKeeps
<1>4. QED
  BY <1>1, <1>3 DEF Keeps, Settles, Sound, Calm

LEMMA SameKeeps == \A r : Keeps(r, r)
  BY DEF Keeps, Settles

LEMMA OutcomeFields == \A r, b : Outcome(r, b).rt = r /\ Outcome(r, b).ok = b
  BY DEF Outcome

LEMMA StopKeeps ==
  ASSUME NEW r \in RuntimeRecord, NEW o \in StopOutcomes(r)
  PROVE  Keeps(r, o.rt)
<1>1. \/ o.rt = r
      \/ o.rt = Terminate(r, "CANCELLED") /\ r.state \notin {"NONE", "TERMINAL"}
  BY OutcomeFields DEF StopOutcomes, Rejected
<1>2. QED
  BY <1>1, SameKeeps, TerminateFields DEF Keeps, Settles, Sound, Calm

\* After disable no motion and no target is left, confirmed or not.
LEMMA DisableKeeps ==
  ASSUME NEW r \in RuntimeRecord, NEW o \in DisableOutcomes(r)
  PROVE  /\ Keeps(r, o.rt) /\ ~Operational(o.rt)
         /\ Sound(r) => Calm(o.rt) /\ o.rt.stream = 0
<1>1. CASE r.state \in {"NONE", "TERMINAL"}
  <2>1. o.rt = r
    BY <1>1, OutcomeFields DEF DisableOutcomes, Rejected
  <2>2. QED
    BY <1>1, <2>1, SameKeeps DEF Operational, Sound, Calm
<1>2. CASE r.state \notin {"NONE", "TERMINAL"}
  <2> DEFINE off(s) == Off(Terminate(r, "CANCELLED"), s)
  <2>0. \/ o = Outcome(off("FAULT"), FALSE)
        \/ o = Outcome(off("FAULT"), TRUE)
        \/ o = Outcome(off("READY"), TRUE)
    BY <1>2 DEF DisableOutcomes, Off
  <2> HIDE DEF off
  <2>1. PICK s \in {"READY", "FAULT"} : o.rt = off(s)
    BY <2>0, OutcomeFields
  <2>2. Keeps(r, o.rt) /\ Calm(o.rt) /\ o.rt.state = s
    BY <1>2, <2>1, EndKeeps DEF off
  <2>3. o.rt.stream = 0
    BY <2>1, TerminateFields DEF off, Off, RuntimeRecord
  <2>4. QED
    BY <2>2, <2>3 DEF Operational
<1>3. QED
  BY <1>1, <1>2

LEMMA StreamKeeps ==
  ASSUME NEW r \in RuntimeRecord, NEW l \in 0..MaxLease,
         NEW o \in StreamOutcomes(r, l)
  PROVE  Keeps(r, o.rt)
<1> DEFINE m == Terminate(r, "CANCELLED")
<1>1. /\ m \in RuntimeRecord /\ Calm(m) /\ m.state = r.state
      /\ m.motion = r.motion
  BY TerminateFields
<1> DEFINE n == [m EXCEPT !.stream = l]
<1>2. \/ o = Outcome(r, FALSE)
      \/ Operational(r) /\ (o = Outcome(m, FALSE) \/ o = Outcome(n, TRUE))
  BY DEF StreamOutcomes, Rejected
<1> HIDE DEF m
<1>3. n.state = m.state /\ n.mstate = m.mstate /\ n.motion = m.motion
  BY <1>1 DEF RuntimeRecord
<1> HIDE DEF n
<1>4. o.rt = r \/ (Operational(r) /\ (o.rt = m \/ o.rt = n))
  BY <1>2, OutcomeFields, Zenon
<1>5. CASE o.rt = r
  BY <1>5, SameKeeps
<1>6. CASE Operational(r) /\ (o.rt = m \/ o.rt = n)
  BY <1>1, <1>3, <1>6 DEF Keeps, Settles, Sound, Calm, Operational
<1>7. QED
  BY <1>4, <1>5, <1>6

LEMMA ThreadKeeps ==
  ASSUME NEW r \in RuntimeRecord, NEW q \in MotionSteps(r) \cup FaultSteps(r)
  PROVE  Keeps(r, q) /\ Operational(r)
<1>1. CASE q \in MotionSteps(r)
  <2>1. Operational(r)
    BY <1>1 DEF MotionSteps
  <2>2. PICK s \in {"RUNNING", "COMPLETED", "FAULT"} :
          q = [r EXCEPT !.mstate = s] /\ ~Calm(r)
    BY <1>1, Zenon DEF MotionSteps, Calm
  <2>3. q.mstate = s /\ q.state = r.state /\ q.motion = r.motion
    BY <2>2 DEF RuntimeRecord
  <2>4. QED
    BY <2>1, <2>2, <2>3 DEF Keeps, Settles, Sound, Calm, Operational
<1>2. CASE q \in FaultSteps(r)
  <2>1. /\ r.state = "ENABLED"
        /\ q = Off(Terminate(r, "FAULT"), "FAULT")
    BY <1>2 DEF FaultSteps, Off
  <2>2. QED
    BY <2>1, EndKeeps DEF Operational
<1>3. QED
  BY <1>1, <1>2

\* A new Runtime, and none.
LEMMA FreshSettles ==
  ASSUME NEW r, NEW s \in {"NONE", "READY", "FAULT", "TERMINAL"}
  PROVE  /\ Settles(r, FreshRuntime(s)) /\ FreshRuntime(s).motion = NoMotion
         /\ FreshRuntime(s).mstate = "IDLE" /\ FreshRuntime(s).state = s
         /\ FreshRuntime("NONE") = NoRuntime
  BY DEF Settles, Sound, Calm, FreshRuntime, NoRuntime

\* What the operation in the worker's hands does to the motion.
MotionEffect(o) ==
  \/ /\ wk.req.op # "MOVE"
     /\ Sound(rt) => Sound(o.rt)
     /\ Calm(rt) => Calm(o.rt)
     /\ o.rt.motion \in {rt.motion, NoMotion}
  \/ wk.req.op = "MOVE" /\ o.rt = rt /\ ~o.ok
  \/ /\ wk.req.op = "MOVE" /\ rt.state = "ENABLED"
     /\ Sound(o.rt) /\ o.rt.motion = IdOf(wk.req)

LEMMA SettledEffect ==
  ASSUME NEW o, wk.req.op # "MOVE",
         Keeps(rt, o.rt) \/ (Settles(rt, o.rt) /\ o.rt.motion = NoMotion)
  PROVE  MotionEffect(o)
  BY DEF MotionEffect, Keeps, Settles

LEMMA EnableEffect ==
  ASSUME TypeOK, wk.req.op = "ENABLE", NEW o \in EnableOutcomes(rt)
  PROVE  MotionEffect(o)
<1>1. rt \in RuntimeRecord
  BY DEF TypeOK
<1>2. \/ o = Outcome(rt, FALSE)
      \/ /\ rt.state = "READY"
         /\ \/ o = Outcome(InState(rt, "ENABLED"), TRUE)
            \/ o = Outcome(InState(rt, "FAULT"), FALSE)
  BY DEF EnableOutcomes, Rejected, InState
<1>3. \/ o.rt = rt
      \/ /\ rt.state = "READY"
         /\ o.rt = InState(rt, "ENABLED") \/ o.rt = InState(rt, "FAULT")
  BY <1>2 DEF Outcome
<1>4. CASE o.rt = rt
  BY <1>4 DEF MotionEffect
<1>5. CASE /\ rt.state = "READY"
           /\ o.rt = InState(rt, "ENABLED") \/ o.rt = InState(rt, "FAULT")
  <2>1. /\ o.rt.mstate = rt.mstate /\ o.rt.motion = rt.motion
        /\ o.rt.state \in {"ENABLED", "FAULT"}
    BY <1>1, <1>5 DEF InState, RuntimeRecord
  <2>2. QED
    BY <2>1 DEF MotionEffect, Sound, Calm
<1>6. QED
  BY <1>3, <1>4, <1>5

LEMMA EstopEffect ==
  ASSUME TypeOK, wk.req.op = "ESTOP", NEW o \in EstopOutcomes(rt)
  PROVE  MotionEffect(o)
<1>1. rt \in RuntimeRecord
  BY DEF TypeOK
<1>2. \/ o = Outcome(rt, FALSE)
      \/ /\ rt.state \notin {"NONE", "TERMINAL"}
         /\ \/ o = Outcome(Off(Terminate(rt, "FAULT"), "FAULT"), TRUE)
            \/ o = Outcome(Off(Terminate(rt, "FAULT"), "FAULT"), FALSE)
  BY DEF EstopOutcomes, Rejected, Off
<1>3. \/ o.rt = rt
      \/ /\ rt.state \notin {"NONE", "TERMINAL"}
         /\ o.rt = Off(Terminate(rt, "FAULT"), "FAULT")
  BY <1>2, OutcomeFields, Zenon
<1>4. Keeps(rt, o.rt)
  BY <1>1, <1>3, EndKeeps, SameKeeps
<1>5. QED
  BY <1>4, SettledEffect

LEMMA RecoverEffect ==
  ASSUME TypeOK, wk.req.op = "RECOVER", NEW o \in RecoverOutcomes(rt)
  PROVE  MotionEffect(o)
<1>1. rt \in RuntimeRecord
  BY DEF TypeOK
<1>2. \/ o = Outcome(rt, FALSE)
      \/ /\ rt.state = "RECOVERING"
         /\ \/ o = Outcome(Off(rt, "FAULT"), FALSE)
            \/ o = Outcome(Off(Terminate(rt, "CANCELLED"), "FAULT"), FALSE)
            \/ o = Outcome(Off(Terminate(rt, "FAULT"), "FAULT"), FALSE)
            \/ o = Outcome(Off(Terminate(rt, "CANCELLED"), "READY"), TRUE)
  BY DEF RecoverOutcomes, Rejected, Off
<1>3. \/ o.rt = rt
      \/ /\ rt.state = "RECOVERING"
         /\ \/ o.rt = Off(rt, "FAULT")
            \/ o.rt = Off(Terminate(rt, "CANCELLED"), "FAULT")
            \/ o.rt = Off(Terminate(rt, "FAULT"), "FAULT")
            \/ o.rt = Off(Terminate(rt, "CANCELLED"), "READY")
  BY <1>2 DEF Outcome
<1>4. Keeps(rt, o.rt)
  BY <1>1, <1>3, EndKeeps, StateKeeps, SameKeeps
<1>5. QED
  BY <1>4, SettledEffect

\* Maintenance, and connect on an existing Runtime.
LEMMA MaintenanceEffect ==
  ASSUME TypeOK, wk.req.op # "MOVE", NEW S, "NONE" \notin S, "TERMINAL" \notin S,
         NEW o \in MaintenanceOutcomes(rt, S)
  PROVE  MotionEffect(o)
<1>1. rt \in RuntimeRecord
  BY DEF TypeOK
<1>2. \/ o = Outcome(rt, FALSE)
      \/ /\ rt.state \in S
         /\ \/ o = Outcome(InState(rt, "READY"), TRUE)
            \/ o = Outcome(InState(rt, "FAULT"), FALSE)
  BY DEF MaintenanceOutcomes, Rejected, InState
<1>3. \/ o.rt = rt
      \/ /\ rt.state \in S
         /\ o.rt = InState(rt, "READY") \/ o.rt = InState(rt, "FAULT")
  BY <1>2 DEF Outcome
<1>4. Keeps(rt, o.rt)
  BY <1>1, <1>3, StateKeeps, SameKeeps
<1>5. QED
  BY <1>4, SettledEffect

LEMMA ConnectEffect ==
  ASSUME TypeOK, wk.req.op = "CONNECT", NEW o \in ConnectOutcomes(rt)
  PROVE  MotionEffect(o)
<1>1. rt \in RuntimeRecord
  BY DEF TypeOK
<1>2. CASE rt.state = "READY"
  <2>1. o \in MaintenanceOutcomes(rt, {"READY"})
    BY <1>2 DEF ConnectOutcomes
  <2>2. QED
    BY <2>1, MaintenanceEffect
<1>3. CASE rt.state # "READY"
  <2>1. \/ o = Outcome(rt, FALSE) \/ o = Outcome(rt, TRUE)
        \/ rt.state = "FAULT" /\ o = Outcome(InState(rt, "READY"), TRUE)
    BY <1>3 DEF ConnectOutcomes, Rejected, InState
  <2>2. \/ o.rt = rt
        \/ rt.state = "FAULT" /\ o.rt = InState(rt, "READY")
    BY <2>1, OutcomeFields, Zenon
  <2>3. Keeps(rt, o.rt)
    BY <1>1, <2>2, StateKeeps, SameKeeps
  <2>4. QED
    BY <2>3, SettledEffect
<1>4. QED
  BY <1>2, <1>3

LEMMA DisconnectEffect ==
  ASSUME wk.req.op = "DISCONNECT", NEW o \in DisconnectOutcomes(rt)
  PROVE  MotionEffect(o)
<1>1. \/ o = Outcome(rt, TRUE)
      \/ o = Outcome(FreshRuntime("TERMINAL"), TRUE)
      \/ o = Outcome(FreshRuntime("TERMINAL"), FALSE)
  BY DEF DisconnectOutcomes
<1>2. o.rt = rt \/ o.rt = FreshRuntime("TERMINAL")
  BY <1>1, OutcomeFields, Zenon
<1>3. QED
  BY <1>2, SameKeeps, FreshSettles, SettledEffect

\* Only a move that the Runtime accepts starts a motion, its own.
LEMMA MoveEffect ==
  ASSUME TypeOK, wk.req.op = "MOVE", NEW o \in MoveOutcomes(rt, IdOf(wk.req))
  PROVE  MotionEffect(o)
<1>1. rt \in RuntimeRecord /\ wk.req \in Request \cup {Query}
  BY DEF TypeOK, WorkerRecord
<1>2. IdOf(wk.req) \in MotionId
  BY <1>1, RequestId DEF Query
<1> DEFINE started == [rt EXCEPT !.motion = IdOf(wk.req), !.mstate = "RUNNING",
                                 !.stream = 0]
<1>3. \/ o = Outcome(rt, FALSE)
      \/ rt.state = "ENABLED" /\ o = Outcome(started, TRUE)
  BY DEF MoveOutcomes, Rejected
<1>4. /\ started.state = rt.state /\ started.motion = IdOf(wk.req)
      /\ started.mstate = "RUNNING"
  BY <1>1 DEF RuntimeRecord
<1> HIDE DEF started
<1>5. \/ o.rt = rt /\ o.ok = FALSE
      \/ rt.state = "ENABLED" /\ o.rt = started
  BY <1>3 DEF Outcome
<1>6. QED
  BY <1>2, <1>4, <1>5, NoMotionId DEF MotionEffect, Sound

LEMMA OutcomesEffect ==
  ASSUME TypeOK, NEW o \in Outcomes(wk.req)
  PROVE  MotionEffect(o)
<1>1. rt \in RuntimeRecord
  BY DEF TypeOK
<1>2. CASE wk.req.op \in {"CLEAR_FAULTS", "CONFIGURE_MODE"}
  <2>1. PICK S \in {{"READY", "FAULT"}, {"READY"}} : o \in MaintenanceOutcomes(rt, S)
    BY <1>2 DEF Outcomes
  <2>2. QED
    BY <1>2, <2>1, MaintenanceEffect
<1>3. CASE wk.req.op \in {"ENABLE", "ESTOP"}
  BY <1>3, EnableEffect, EstopEffect DEF Outcomes
<1>4. CASE wk.req.op = "RECOVER"
  BY <1>4, RecoverEffect DEF Outcomes
<1>5. CASE wk.req.op = "DISABLE"
  <2>1. o \in DisableOutcomes(rt)
    BY <1>5 DEF Outcomes
  <2>2. QED
    BY <1>1, <1>5, <2>1, DisableKeeps, SettledEffect
<1>6. CASE wk.req.op = "STOP_MOTION"
  <2>1. o \in StopOutcomes(rt)
    BY <1>6 DEF Outcomes
  <2>2. QED
    BY <1>1, <1>6, <2>1, StopKeeps, SettledEffect
<1>7. CASE wk.req.op = "MOVE"
  BY <1>7, MoveEffect DEF Outcomes
<1>8. CASE wk.req.op \in {"CONNECT", "DISCONNECT"}
  BY <1>8, ConnectEffect, DisconnectEffect DEF Outcomes
<1>9. CASE wk.req.op \notin LifecycleOps \cup {"MOVE", "STOP_MOTION"}
  <2>1. o = Outcome(rt, TRUE)
    BY <1>9 DEF Outcomes, LifecycleOps
  <2>2. o.rt = rt
    BY <2>1, OutcomeFields, Zenon
  <2>3. QED
    BY <1>9, <2>2, SameKeeps, SettledEffect
<1>10. QED
  BY <1>2, <1>3, <1>4, <1>5, <1>6, <1>7, <1>8, <1>9 DEF LifecycleOps

-----------------------------------------------------------------------------
(* The shutdown *)

\* Where the I/O thread is in run, the loss callback aside.
Stopping == IF io.pc \in LostPc THEN io.ret ELSE io.pc

\* The queue is dropped before the worker is joined; behind the join there is
\* no worker, no stream command and no lease; behind the disable no target.
ShutInv ==
  /\ io.pc \in LostPc => lease = NoLease /\ io.ret \in {"control", "stop_motion"}
  /\ Stopping \in StopPc => stopWorker /\ queue = <<>>
  /\ Stopping \in StopPc \ {"join"} =>
       wk.pc = "done" /\ mailbox = NoCommand /\ lease = NoLease
  /\ io.pc \in {"disconnect", "stopped"} => ~Operational(rt) /\ rt.stream = 0

\* In the loop nothing is promised.
LEMMA LoopShut ==
  ASSUME io'.pc \in LoopPc
  PROVE  ShutInv'
  BY DEF ShutInv, Stopping, LoopPc, LostPc, StopPc

LEMMA LoseMoves ==
  ASSUME TypeOK, NEW p, LoseLease(p)
  PROVE  /\ lease' = NoLease /\ mailbox' = NoCommand /\ io'.ret = p
         /\ io'.pc = IF rt.state = "NONE" THEN "lost_cancel" ELSE "lost_stop"
  BY DEF LoseLease, DropLease, TypeOK, IoRecord

LEMMA IoGotoMoves ==
  ASSUME TypeOK, NEW p, ioGoto(p)
  PROVE  io'.pc = p /\ io'.ret = io.ret
  BY DEF ioGoto, TypeOK, IoRecord

LEMMA LoseShut ==
  ASSUME TypeOK, LoseLease("control")
  PROVE  ShutInv'
<1>1. lease' = NoLease /\ io'.ret = "control" /\ io'.pc \in {"lost_stop", "lost_cancel"}
  BY LoseMoves
<1>2. QED
  BY <1>1 DEF ShutInv, Stopping, StopPc, LostPc

LEMMA IoLoopShut ==
  ASSUME TypeOK, IoLoop
  PROVE  ShutInv'
<1>1. CASE ExpireIfNeeded
  <2>1. LoseLease("control") \/ ioGoto("control")
    BY <1>1 DEF ExpireIfNeeded
  <2>2. QED
    BY <2>1, LoseShut, IoGotoMoves, LoopShut DEF LoopPc
<1>2. CASE TakeControlDone \/ TakeStreamDone
  BY <1>2, IoGotoMoves, LoopShut DEF TakeControlDone, TakeStreamDone, LoopPc
<1>3. CASE PumpLatest \/ SubmitStream \/ PublishState \/ PublishFinish
  <2>1. io'.pc \in {"submit", "state", "finish", "expire"}
    BY <1>3, IoGotoMoves
    DEF PumpLatest, SubmitStream, PublishState, PublishFinish, TypeOK, IoRecord
  <2>2. QED
    BY <2>1, LoopShut DEF LoopPc
<1>4. QED
  BY <1>1, <1>2, <1>3 DEF IoLoop

LEMMA IoLostShut ==
  ASSUME TypeOK, ShutInv, IoLost
  PROVE  ShutInv'
<1>1. CASE LostStop \/ LostDisable
  <2>1. /\ io.pc \in LostPc /\ io'.pc \in LostPc /\ io'.ret = io.ret
        /\ io'.pc \notin {"disconnect", "stopped"}
        /\ UNCHANGED <<lease, stopWorker, queue, wk, mailbox>>
    BY <1>1, IoGotoMoves DEF LostStop, LostDisable, LostPc, leaseVars, queueVars
  <2>2. QED
    BY <2>1 DEF ShutInv, Stopping
<1>2. CASE LostCancel
  <2>1. /\ io.pc \in LostPc /\ io'.pc = io.ret
        /\ UNCHANGED <<lease, stopWorker, queue, wk, mailbox>>
    BY <1>2 DEF LostCancel, TypeOK, IoRecord, LostPc, leaseVars, queueVars
  <2>2. io'.pc \in {"control", "stop_motion"} /\ io'.pc = Stopping
        /\ io'.pc \notin LostPc
    BY <2>1 DEF ShutInv, Stopping, LostPc
  <2>3. QED
    BY <2>1, <2>2 DEF ShutInv, Stopping
<1>3. QED
  BY <1>1, <1>2 DEF IoLost

LEMMA IoShutdownShut ==
  ASSUME TypeOK, Sound(rt), ShutInv, IoShutdown
  PROVE  ShutInv'
<1>1. CASE JoinAndRevoke
  <2>1. /\ io.pc = "join" /\ wk.pc = "done"
        /\ UNCHANGED <<stopWorker, queue, wk>>
    BY <1>1 DEF JoinAndRevoke, queueVars
  <2>2. stopWorker /\ queue = <<>>
    BY <2>1 DEF ShutInv, Stopping, LostPc, StopPc
  <2>3. CASE LoseLease("stop_motion")
    <3>1. /\ lease' = NoLease /\ mailbox' = NoCommand /\ io'.ret = "stop_motion"
          /\ io'.pc \in {"lost_stop", "lost_cancel"}
      BY <2>3, LoseMoves
    <3>2. QED
      BY <2>1, <2>2, <3>1 DEF ShutInv, Stopping, LostPc
  <2>4. CASE /\ ~Active /\ ioGoto("stop_motion") /\ mailbox' = NoCommand
             /\ UNCHANGED leaseVars
    <3>1. lease' = NoLease /\ io'.pc = "stop_motion"
      BY <2>4, IoGotoMoves DEF Active, leaseVars
    <3>2. QED
      BY <2>1, <2>2, <2>4, <3>1 DEF ShutInv, Stopping, LostPc
  <2>5. QED
    BY <1>1, <2>3, <2>4 DEF JoinAndRevoke
<1>2. ASSUME NEW p \in {"stop_motion", "disable", "disconnect"},
             NEW q \in {"disable", "disconnect", "stopped"}, NEW outcomes,
             ShutdownStep(p, q, outcomes),
             q \in {"disconnect", "stopped"} =>
               ~Operational(rt') /\ rt'.stream = 0
      PROVE  ShutInv'
  <2>1. /\ io.pc = p /\ io'.pc = q
        /\ UNCHANGED <<lease, stopWorker, queue, wk, mailbox>>
    BY <1>2, IoGotoMoves DEF ShutdownStep, leaseVars, queueVars
  <2>2. /\ stopWorker /\ queue = <<>> /\ wk.pc = "done" /\ mailbox = NoCommand
        /\ lease = NoLease
    BY <2>1 DEF ShutInv, Stopping, LostPc, StopPc
  <2>3. QED
    BY <1>2, <2>1, <2>2 DEF ShutInv, Stopping, LostPc
<1>3. CASE ShutdownStop
  BY <1>2, <1>3 DEF ShutdownStop
<1>4. CASE ShutdownDisable
  <2>1. PICK o \in DisableOutcomes(rt) : rt' = o.rt
    BY <1>4 DEF ShutdownDisable, ShutdownStep
  <2>2. ~Operational(rt') /\ rt'.stream = 0
    BY <2>1, DisableKeeps DEF TypeOK
  <2>3. QED
    BY <1>2, <1>4, <2>2 DEF ShutdownDisable
<1>5. CASE ShutdownDisconnect
  <2>1. rt' = NoRuntime
    BY <1>5 DEF ShutdownDisconnect, ShutdownStep, Outcome
  <2>2. ~Operational(rt') /\ rt'.stream = 0
    BY <2>1 DEF Operational, NoRuntime
  <2>3. QED
    BY <1>2, <1>5, <2>2 DEF ShutdownDisconnect
<1>6. QED
  BY <1>1, <1>3, <1>4, <1>5 DEF IoShutdown

LEMMA RequestsShut ==
  ASSUME TypeOK, Requests
  PROVE  ShutInv'
<1>1. \/ io' = io /\ io.pc \in {"control", "stream"}
      \/ LoseLease("control")
      \/ StopService
  BY DEF Requests, HandleAcquire, HandleRelease, HandleControl, HandleHeartbeat,
         TakeStream, HandleQuery
<1>2. CASE io' = io /\ io.pc \in {"control", "stream"}
  BY <1>2, LoopShut DEF LoopPc
<1>3. CASE StopService
  <2>1. io'.pc = "join" /\ stopWorker' /\ queue' = <<>>
    BY <1>3, IoGotoMoves DEF StopService
  <2>2. QED
    BY <2>1 DEF ShutInv, Stopping, LostPc
<1>4. QED
  BY <1>1, <1>2, <1>3, LoseShut

\* A worker that was joined does nothing more.
LEMMA WorkerShut ==
  ASSUME TypeOK, ShutInv, Worker
  PROVE  ShutInv'
<1>1. wk.pc # "done" /\ UNCHANGED io
  BY DEF Worker, EnsureRuntime, WorkerPop, WorkerExit, WorkerBusy, WorkerCheck,
         WorkerExecute, WorkerExecuted, WorkerRefresh, WorkerMotion,
         WorkerRegister, WorkerRecheck, WorkerCancel, WorkerDrop
<1>2. UNCHANGED stopWorker /\ (stopWorker => UNCHANGED queue)
  BY DEF Worker, EnsureRuntime, WorkerPop, WorkerExit, WorkerBusy, WorkerCheck,
         WorkerExecute, WorkerExecuted, WorkerRefresh, WorkerMotion,
         WorkerRegister, WorkerRecheck, WorkerCancel, WorkerDrop, queueVars
<1>3. lease = NoLease => lease' = NoLease
  BY DEF Worker, EnsureRuntime, WorkerPop, WorkerExit, WorkerBusy, WorkerCheck,
         WorkerExecute, WorkerExecuted, WorkerRefresh, WorkerMotion,
         WorkerRegister, WorkerRecheck, WorkerCancel, WorkerDrop, leaseVars,
         RefreshAfterControl, Owns, Active
<1>4. Stopping \notin StopPc \ {"join"}
  BY <1>1 DEF ShutInv
<1>5. QED
  BY <1>1, <1>2, <1>3, <1>4 DEF ShutInv, Stopping, StopPc, LostPc

LEMMA EnvironmentShut ==
  ASSUME TypeOK, ShutInv, Tick \/ RuntimeStep
  PROVE  ShutInv'
<1>1. UNCHANGED <<io, wk, stopWorker, queue>>
  BY DEF Tick, RuntimeStep, queueVars
<1>2. lease = NoLease => lease' = NoLease
  BY DEF Tick, RuntimeStep, LeaseTick, leaseVars, NoLease
<1>3. mailbox = NoCommand => mailbox' = NoCommand
  BY DEF Tick, RuntimeStep
<1>4. ~Operational(rt) => rt' = rt
  BY ThreadKeeps DEF Tick, RuntimeStep, TypeOK
<1>5. QED
  BY <1>1, <1>2, <1>3, <1>4 DEF ShutInv, Stopping, StopPc, LostPc

LEMMA ShutStep == TypeInv /\ Sound(rt) /\ ShutInv /\ [Next]_vars => ShutInv'
<1> SUFFICES ASSUME TypeInv, Sound(rt), ShutInv, [Next]_vars PROVE ShutInv'
  OBVIOUS
<1>1. CASE UNCHANGED vars
  BY <1>1 DEF vars, ShutInv, Stopping
<1>2. CASE Next
  BY <1>2, IoLoopShut, IoLostShut, IoShutdownShut, RequestsShut, WorkerShut,
     EnvironmentShut DEF Next, TypeInv
<1>3. QED
  BY <1>1, <1>2

LEMMA ShutInit == Init => ShutInv
  BY DEF Init, ShutInv, Stopping, LostPc, StopPc

-----------------------------------------------------------------------------
(* What the steps of the other threads do to the motion *)

LosingPc == {"lost_stop", "lost_disable"}

\* The callback is called.
Losing ==
  /\ \E p \in {"control", "stop_motion"} : LoseLease(p)
  /\ UNCHANGED <<rt, pending, events>>

\* Neither the callback nor a lease comes to an end.
Undisturbed ==
  /\ lease' = NoLease => lease = NoLease
  /\ io'.pc \in LostPc <=> io.pc \in LostPc
  /\ io.pc \in LosingPc => io'.pc \in LosingPc
  /\ Settles(rt, rt')
  /\ rt'.motion = rt.motion \/ (wk.pc = "done" /\ rt'.motion = NoMotion)
  /\ \/ UNCHANGED <<pending, events>>
     \/ FinishPending("completed")

LEMMA RefreshHolds ==
  ASSUME TypeOK, Active, Refresh
  PROVE  lease' # NoLease
<1>1. lease \in LeaseRecord
  BY DEF TypeOK, LeaseTypeOK, Active
<1>2. lease'.id = lease.id /\ lease.id \in 1..MaxLease
  BY <1>1 DEF Refresh, LeaseRecord, LeaseId
<1>3. QED
  BY <1>2, LeaseAssumption DEF NoLease

LEMMA IoMotion ==
  ASSUME TypeOK, ShutInv, IoLost \/ IoLoop \/ IoShutdown
  PROVE  Losing \/ LostDisable \/ LostCancel \/ Undisturbed
<1>1. CASE LostStop
  <2>1. PICK o \in StopOutcomes(rt) : rt' = o.rt
    BY <1>1 DEF LostStop
  <2>2. Keeps(rt, rt')
    BY <2>1, StopKeeps DEF TypeOK
  <2>3. io.pc = "lost_stop" /\ io'.pc = "lost_disable"
    BY <1>1, IoGotoMoves DEF LostStop
  <2>4. UNCHANGED <<lease, pending, events>>
    BY <1>1 DEF LostStop, leaseVars
  <2>5. QED
    BY <2>2, <2>3, <2>4 DEF Undisturbed, Keeps, LostPc, LosingPc
<1>2. CASE ExpireIfNeeded
  <2>1. UNCHANGED <<rt, pending, events>> /\ io.pc = "expire"
    BY <1>2 DEF ExpireIfNeeded, runtimeVars
  <2>2. CASE LoseLease("control")
    BY <2>1, <2>2 DEF Losing
  <2>3. CASE ioGoto("control") /\ UNCHANGED leaseVars
    BY <2>1, <2>3, IoGotoMoves, SameKeeps
    DEF Undisturbed, Keeps, LostPc, LosingPc, leaseVars
  <2>4. QED
    BY <1>2, <2>2, <2>3 DEF ExpireIfNeeded
<1>3. CASE TakeControlDone \/ TakeStreamDone \/ PumpLatest \/ PublishState
  <2>1. UNCHANGED <<lease, rt, pending, events>>
    BY <1>3 DEF TakeControlDone, TakeStreamDone, PumpLatest, PublishState,
                leaseVars, runtimeVars
  <2>2. /\ io.pc \in {"control", "stream", "pump", "state"}
        /\ io'.pc \in {"stream", "pump", "state", "submit", "finish", "expire"}
    <3>1. CASE TakeControlDone \/ TakeStreamDone
      BY <3>1, IoGotoMoves DEF TakeControlDone, TakeStreamDone
    <3>2. CASE PumpLatest
      BY <3>2, IoGotoMoves DEF PumpLatest, TypeOK, IoRecord
    <3>3. CASE PublishState
      BY <3>3, IoGotoMoves DEF PublishState, TypeOK, IoRecord
    <3>4. QED
      BY <1>3, <3>1, <3>2, <3>3
  <2>3. QED
    BY <2>1, <2>2, SameKeeps DEF Undisturbed, Keeps, LostPc, LosingPc
<1>4. CASE SubmitStream
  <2>1. /\ rt' = rt \/ \E o \in StreamOutcomes(rt, io.cmd) : rt' = o.rt
        /\ io.pc = "submit" /\ io'.pc = "state"
        /\ UNCHANGED <<lease, pending, events>>
    BY <1>4 DEF SubmitStream, TypeOK, IoRecord, leaseVars
  <2>2. rt \in RuntimeRecord /\ io.cmd \in 0..MaxLease
    BY DEF TypeOK, IoRecord
  <2>3. Keeps(rt, rt')
    BY <2>1, <2>2, StreamKeeps, SameKeeps
  <2>4. QED
    BY <2>1, <2>3 DEF Undisturbed, Keeps, LostPc, LosingPc
<1>5. CASE PublishFinish
  <2>1. /\ UNCHANGED <<lease, rt>> /\ io.pc = "finish" /\ io'.pc = "expire"
        /\ UNCHANGED <<pending, events>> \/ FinishPending("completed")
    BY <1>5 DEF PublishFinish, TypeOK, IoRecord, leaseVars, runtimeVars
  <2>2. QED
    BY <2>1, SameKeeps DEF Undisturbed, Keeps, LostPc, LosingPc
<1>6. CASE JoinAndRevoke
  <2>1. UNCHANGED <<rt, pending, events>> /\ io.pc = "join"
    BY <1>6 DEF JoinAndRevoke, runtimeVars
  <2>2. CASE LoseLease("stop_motion")
    BY <2>1, <2>2 DEF Losing
  <2>3. CASE ioGoto("stop_motion") /\ UNCHANGED leaseVars
    BY <2>1, <2>3, IoGotoMoves, SameKeeps
    DEF Undisturbed, Keeps, LostPc, LosingPc, leaseVars
  <2>4. QED
    BY <1>6, <2>2, <2>3 DEF JoinAndRevoke
<1>7. CASE ShutdownStop \/ ShutdownDisable \/ ShutdownDisconnect
  <2>1. /\ UNCHANGED <<lease, pending, events>>
        /\ io.pc \in {"stop_motion", "disable", "disconnect"}
        /\ io'.pc \in {"disable", "disconnect", "stopped"}
        /\ \/ \E o \in StopOutcomes(rt) : rt' = o.rt
           \/ \E o \in DisableOutcomes(rt) : rt' = o.rt
           \/ rt' = NoRuntime
    BY <1>7, IoGotoMoves DEF ShutdownStop, ShutdownDisable, ShutdownDisconnect,
                             ShutdownStep, leaseVars, Outcome
  <2>2. wk.pc = "done"
    BY <2>1 DEF ShutInv, Stopping, LostPc, StopPc
  <2>3. Keeps(rt, rt') \/ rt' = NoRuntime
    BY <2>1, StopKeeps, DisableKeeps DEF TypeOK
  <2>4. Settles(rt, NoRuntime) /\ NoRuntime.motion = NoMotion
    BY FreshSettles
  <2>5. QED
    BY <2>1, <2>2, <2>3, <2>4 DEF Undisturbed, Keeps, LostPc, LosingPc
<1>8. QED
  BY <1>1, <1>2, <1>3, <1>4, <1>5, <1>6, <1>7 DEF IoLost, IoLoop, IoShutdown

LEMMA RestMotion ==
  ASSUME TypeOK, Requests \/ Tick \/ RuntimeStep
  PROVE  Losing \/ Undisturbed
<1>1. CASE Requests
  <2>1. UNCHANGED <<rt, pending, events>>
    BY <1>1 DEF Requests, HandleAcquire, HandleRelease, HandleControl,
                HandleHeartbeat, TakeStream, HandleQuery, StopService, runtimeVars
  <2>2. \/ LoseLease("control")
        \/ io' = io
        \/ io.pc = "expire" /\ ioGoto("join")
    BY <1>1 DEF Requests, HandleAcquire, HandleRelease, HandleControl,
                HandleHeartbeat, TakeStream, HandleQuery, StopService
  <2>3. \/ LoseLease("control")
        \/ lease' = lease
        \/ Active /\ Refresh
        \/ \E c \in Clients : lease' = [id |-> nextLease, client |-> c,
                                        ttl |-> LeaseTicks]
    BY <1>1 DEF Requests, HandleAcquire, Acquire, HandleRelease, HandleControl,
                AuthorizeControl, HandleHeartbeat, Heartbeat, TakeStream,
                AuthorizeStream, HandleQuery, StopService, leaseVars,
                ControlAccepted, StreamAccepted, Valid, Owns
  <2>4. LoseLease("control") \/ (lease' = NoLease => lease = NoLease)
    BY <2>3, RefreshHolds, LeaseAssumption DEF NoLease
  <2>5. CASE LoseLease("control")
    BY <2>1, <2>5 DEF Losing
  <2>6. CASE ~LoseLease("control")
    BY <2>1, <2>2, <2>4, <2>6, IoGotoMoves, SameKeeps
    DEF Undisturbed, Keeps, LostPc, LosingPc
  <2>7. QED
    BY <2>5, <2>6
<1>2. CASE Tick
  <2>1. UNCHANGED <<io, rt, pending, events>>
    BY <1>2 DEF Tick
  <2>2. lease' = NoLease => lease = NoLease
    <3> SUFFICES ASSUME lease # NoLease PROVE lease' # NoLease
      OBVIOUS
    <3>1. lease \in LeaseRecord
      BY DEF TypeOK, LeaseTypeOK
    <3>2. lease'.id = lease.id /\ lease.id \in 1..MaxLease
      BY <1>2, <3>1 DEF Tick, LeaseTick, LeaseRecord, LeaseId
    <3>3. QED
      BY <3>2, LeaseAssumption DEF NoLease
  <2>3. QED
    BY <2>1, <2>2, SameKeeps DEF Undisturbed, Keeps
<1>3. CASE RuntimeStep
  <2>1. /\ UNCHANGED <<lease, io, pending, events>>
        /\ rt' \in MotionSteps(rt) \cup FaultSteps(rt)
    BY <1>3 DEF RuntimeStep, leaseVars
  <2>2. Keeps(rt, rt')
    BY <2>1, ThreadKeeps DEF TypeOK
  <2>3. QED
    BY <2>1, <2>2 DEF Undisturbed, Keeps
<1>4. QED
  BY <1>1, <1>2, <1>3

LEMMA OthersMotion ==
  ASSUME TypeOK, ShutInv,
         IoLost \/ IoLoop \/ IoShutdown \/ Requests \/ Tick \/ RuntimeStep
  PROVE  /\ UNCHANGED wk
         /\ Losing \/ LostDisable \/ LostCancel \/ Undisturbed
<1>1. CASE IoLost \/ IoLoop \/ IoShutdown
  <2>1. UNCHANGED wk
    BY <1>1 DEF IoLost, LostStop, LostDisable, LostCancel, IoLoop, ExpireIfNeeded,
                TakeControlDone, TakeStreamDone, PumpLatest, SubmitStream,
                PublishState, PublishFinish, IoShutdown, JoinAndRevoke,
                ShutdownStop, ShutdownDisable, ShutdownDisconnect, ShutdownStep
  <2>2. QED
    BY <1>1, <2>1, IoMotion
<1>2. CASE Requests \/ Tick \/ RuntimeStep
  <2>1. UNCHANGED wk
    BY <1>2 DEF Requests, HandleAcquire, HandleRelease, HandleControl,
                HandleHeartbeat, TakeStream, HandleQuery, StopService, Tick,
                RuntimeStep
  <2>2. QED
    BY <1>2, <2>1, RestMotion
<1>3. QED
  BY <1>1, <1>2

\* The worker's steps but the return of the call: a new Runtime, none, or the
\* recovering one, and only where no motion is being handled.
WorkerQuiet ==
  /\ Settles(rt, rt') /\ rt'.motion \in {rt.motion, NoMotion}
  /\ wk'.pc \in {"refresh", "motion", "register"} => rt' = rt
  /\ wk'.pc = "executing" /\ wk.req.op = "MOVE" => rt' = rt

LEMMA WorkerMotionQuiet ==
  ASSUME TypeOK, Worker, ~WorkerExecuted
  PROVE  WorkerQuiet
<1>1. CASE WorkerPop \/ WorkerExit \/ WorkerBusy \/ WorkerCheck \/ WorkerRefresh
           \/ WorkerMotion \/ WorkerRegister \/ WorkerRecheck \/ WorkerCancel
  <2>1. rt' = rt
    BY <1>1 DEF WorkerPop, WorkerExit, WorkerBusy, WorkerCheck, WorkerRefresh,
                WorkerMotion, WorkerRegister, WorkerRecheck, WorkerCancel,
                runtimeVars
  <2>2. QED
    BY <2>1, SameKeeps DEF WorkerQuiet, Keeps
<1>2. ASSUME CreateRuntime
      PROVE  Settles(rt, rt') /\ rt'.motion \in {rt.motion, NoMotion}
  BY <1>2, FreshSettles, SameKeeps DEF CreateRuntime, Keeps
<1>3. CASE EnsureRuntime
  BY <1>2, <1>3 DEF EnsureRuntime, WorkerQuiet
<1>4. CASE WorkerDrop
  <2>1. rt' = NoRuntime /\ wk'.pc = "idle"
    BY <1>4, WorkerMoves DEF WorkerDrop, Moved
  <2>2. QED
    BY <2>1, FreshSettles DEF WorkerQuiet
<1>5. CASE WorkerExecute
  <2>1. wk'.pc \in {"idle", "executing"}
    BY <1>5, WorkerMoves DEF Moved
  <2>2. CASE wk.req.op = "CONNECT" /\ rt.state = "NONE"
    BY <1>2, <1>5, <2>1, <2>2 DEF WorkerExecute, WorkerQuiet
  <2>3. CASE ~(wk.req.op = "CONNECT" /\ rt.state = "NONE")
    <3>1. \/ rt' = rt
          \/ /\ wk.req.op = "RECOVER" /\ rt.state \notin {"NONE", "TERMINAL"}
             /\ rt' = Off(rt, "RECOVERING")
      BY <1>5, <2>3 DEF WorkerExecute, Off
    <3>2. Keeps(rt, rt')
      BY <3>1, StateKeeps, SameKeeps DEF TypeOK
    <3>3. QED
      BY <2>1, <3>1, <3>2 DEF WorkerQuiet, Keeps
  <2>4. QED
    BY <2>2, <2>3
<1>6. QED
  BY <1>1, <1>3, <1>4, <1>5 DEF Worker

-----------------------------------------------------------------------------
(* The motion whose end is awaited *)

\* An accepted motion that the Runtime still knows and that has not ended is
\* the awaited one or about to be; from the return of a successful move to its
\* registration the Runtime's motion is the one in the worker's hands.
Awaited ==
  rt.motion # NoMotion /\ events[rt.motion] = "accepted" =>
    \/ pending = rt.motion
    \/ wk.pc = "register" /\ IdOf(wk.req) = rt.motion

InProgress ==
  /\ wk.pc \in {"refresh", "motion"} /\ wk.req.op = "MOVE" /\ wk.ok =>
       rt.motion = IdOf(wk.req)
  /\ wk.pc = "register" => rt.motion = IdOf(wk.req)

AwaitInv == Sound(rt) /\ Awaited /\ InProgress

\* Publishing the end of the awaited motion.
LEMMA FinishAwaited ==
  ASSUME TypeOK, Awaited, NEW k \in {"completed", "cancelled"}, FinishPending(k),
         rt' = rt, wk' = wk \/ wk.pc # "register"
  PROVE  Awaited'
<1>1. rt.motion # NoMotion => rt.motion \in MotionId
  BY DEF TypeOK, RuntimeRecord
<1>2. CASE pending = NoMotion
  <2>1. events' = events /\ pending' = pending
    BY <1>2 DEF FinishPending
  <2>2. QED
    BY <2>1 DEF Awaited
<1>3. CASE pending # NoMotion
  <2>1. \A i \in MotionId : events'[i] = IF i = pending THEN k ELSE events[i]
    BY <1>3 DEF FinishPending, TypeOK
  <2>2. QED
    BY <1>1, <2>1 DEF Awaited
<1>4. QED
  BY <1>2, <1>3

LEMMA OthersAwait ==
  ASSUME TypeOK, ShutInv, AwaitInv,
         IoLost \/ IoLoop \/ IoShutdown \/ Requests \/ Tick \/ RuntimeStep
  PROVE  AwaitInv'
<1>1. UNCHANGED wk
  BY OthersMotion
<1>2. CASE Losing
  BY <1>1, <1>2 DEF Losing, AwaitInv, Awaited, InProgress
<1>3. CASE LostDisable
  <2>1. PICK o \in DisableOutcomes(rt) : rt' = o.rt
    BY <1>3 DEF LostDisable
  <2>2. Keeps(rt, rt') /\ UNCHANGED <<pending, events>>
    BY <1>3, <2>1, DisableKeeps DEF TypeOK, LostDisable
  <2>3. QED
    BY <1>1, <2>2 DEF Keeps, Settles, AwaitInv, Awaited, InProgress
<1>4. CASE LostCancel
  <2>1. rt' = rt /\ FinishPending("cancelled")
    BY <1>4 DEF LostCancel, runtimeVars
  <2>2. QED
    BY <1>1, <2>1, FinishAwaited DEF AwaitInv, InProgress
<1>5. CASE Undisturbed
  <2>1. Sound(rt')
    BY <1>5 DEF Undisturbed, Settles, AwaitInv
  <2>2. InProgress'
    BY <1>1, <1>5 DEF Undisturbed, AwaitInv, InProgress
  <2>3. CASE UNCHANGED <<pending, events>>
    BY <1>1, <1>5, <2>1, <2>2, <2>3 DEF Undisturbed, AwaitInv, Awaited
  <2>4. CASE FinishPending("completed")
    <3>1. CASE rt'.motion = NoMotion
      BY <2>1, <2>2, <3>1 DEF AwaitInv, Awaited
    <3>2. CASE rt'.motion # NoMotion
      <4>1. rt'.motion = rt.motion /\ rt.motion \in MotionId
        BY <1>5, <3>2 DEF Undisturbed, TypeOK, RuntimeRecord
      <4>2. \/ events' = events /\ pending' = pending
            \/ \A i \in MotionId :
                 events'[i] = IF i = pending THEN "completed" ELSE events[i]
        BY <2>4 DEF FinishPending, TypeOK
      <4>3. Awaited'
        BY <1>1, <4>1, <4>2 DEF AwaitInv, Awaited
      <4>4. QED
        BY <2>1, <2>2, <4>3 DEF AwaitInv
    <3>3. QED
      BY <3>1, <3>2
  <2>5. QED
    BY <1>5, <2>3, <2>4 DEF Undisturbed
<1>6. QED
  BY <1>2, <1>3, <1>4, <1>5, OthersMotion

\* The call returns: a motion that was started has had no event.
LEMMA ExecutedAwait ==
  ASSUME TypeInv, EventInv, AwaitInv, WorkerExecuted
  PROVE  AwaitInv'
<1>1. /\ Ran /\ UNCHANGED <<pending, events>> /\ wk.pc = "executing"
      /\ rt.motion # NoMotion => rt.motion \in MotionId
  BY RunMoves DEF TypeInv, TypeOK, WorkerExecuted, RuntimeRecord
<1>2. PICK o \in Outcomes(wk.req) :
        /\ rt' = o.rt
        /\ \/ wk.req = Query /\ Moved("executing", "idle")
           \/ /\ wk.req # Query /\ wk.pc = "executing" /\ wk'.pc = "refresh"
              /\ wk'.req = wk.req /\ wk'.ok = o.ok
  BY <1>1 DEF Ran
<1>3. MotionEffect(o)
  BY OutcomesEffect DEF TypeInv
<1>4. /\ wk'.pc \in {"idle", "refresh"}
      /\ wk'.pc = "refresh" => wk'.req = wk.req /\ wk'.ok = o.ok
  BY <1>2 DEF Moved
<1>5. CASE wk.req.op # "MOVE"
  <2>1. Sound(rt') /\ rt'.motion \in {rt.motion, NoMotion}
    BY <1>2, <1>3, <1>5 DEF MotionEffect, AwaitInv
  <2>2. QED
    BY <1>1, <1>4, <1>5, <2>1 DEF AwaitInv, Awaited, InProgress
<1>6. CASE wk.req.op = "MOVE"
  <2>1. \/ rt' = rt /\ ~o.ok
        \/ Sound(rt') /\ rt'.motion = IdOf(wk.req)
    BY <1>2, <1>3, <1>6 DEF MotionEffect
  <2>2. IdOf(wk.req) \in MotionId
    BY <1>6, RequestId DEF TypeInv, TypeOK, WorkerRecord, Query
  <2>3. events[IdOf(wk.req)] = "none"
    BY <1>1, <2>2 DEF EventInv
  <2>4. CASE rt' = rt /\ ~o.ok
    BY <1>1, <1>4, <2>4 DEF AwaitInv, Awaited, InProgress
  <2>5. CASE Sound(rt') /\ rt'.motion = IdOf(wk.req)
    BY <1>1, <1>4, <2>3, <2>5 DEF AwaitInv, Awaited, InProgress
  <2>6. QED
    BY <2>1, <2>4, <2>5
<1>7. QED
  BY <1>5, <1>6

LEMMA MotionAwait ==
  ASSUME TypeInv, EventInv, AwaitInv, WorkerMotion
  PROVE  AwaitInv'
<1>1. /\ wk.pc = "motion" /\ UNCHANGED <<rt, pending>> /\ wk.req.op = "MOVE"
      /\ IdOf(wk.req) \in MotionId /\ events \in [MotionId -> EventKind]
      /\ rt.motion # NoMotion => rt.motion \in MotionId
  BY RegisterId DEF WorkerMotion, runtimeVars, TypeInv, TypeOK, RuntimeRecord
<1> DEFINE id == IdOf(wk.req)
           kind == IF wk.ok /\ wk.leaseOk THEN "accepted" ELSE "failed"
<1>2. events' = [events EXCEPT ![id] = kind]
  BY DEF WorkerMotion
<1>3. \/ Moved("motion", "register") /\ kind = "accepted" /\ wk.ok
      \/ Moved("motion", "idle") /\ kind = "failed"
  <2>1. wkGoto(IF wk.ok /\ wk.leaseOk THEN "register" ELSE "idle")
    BY DEF WorkerMotion
  <2>2. QED
    BY <1>1, <2>1, GotoMoves DEF WorkerPc, TypeInv
<1>4. wk.ok => rt.motion = id
  BY <1>1 DEF AwaitInv, InProgress
<1>5. /\ wk'.pc \in {"register", "idle"}
      /\ wk'.pc = "register" => wk'.req = wk.req
      /\ \/ wk'.pc = "register" /\ kind = "accepted" /\ wk.ok
         \/ wk'.pc = "idle" /\ kind = "failed"
  BY <1>3 DEF Moved
<1>6. wk'.pc = "register" => IdOf(wk'.req) = id
  BY <1>5
<1> HIDE DEF id, kind
<1>7. \A i \in MotionId : events'[i] = IF i = id THEN kind ELSE events[i]
  BY <1>1, <1>2 DEF id
<1>8. Awaited'
  BY <1>1, <1>4, <1>5, <1>6, <1>7 DEF AwaitInv, Awaited
<1>9. InProgress'
  BY <1>1, <1>4, <1>5, <1>6 DEF InProgress
<1>10. QED
  BY <1>1, <1>8, <1>9 DEF AwaitInv

LEMMA WorkerAwait ==
  ASSUME TypeInv, EventInv, AwaitInv, Worker
  PROVE  AwaitInv'
<1>0. TypeOK
  BY DEF TypeInv
<1>1. CASE WorkerExecuted \/ WorkerMotion
  BY <1>1, ExecutedAwait, MotionAwait
<1>2. CASE ~(WorkerExecuted \/ WorkerMotion)
  <2>1. WorkerQuiet
    BY <1>0, <1>2, WorkerMotionQuiet
  <2>2. Sound(rt') /\ rt'.motion \in {rt.motion, NoMotion}
    BY <2>1 DEF WorkerQuiet, Settles, AwaitInv
  <2>3. CASE EnsureRuntime \/ WorkerPop \/ WorkerExit \/ WorkerBusy \/ WorkerCheck
             \/ WorkerExecute \/ WorkerDrop
    <3>1. UNCHANGED <<pending, events>>
      BY <2>3 DEF EnsureRuntime, WorkerPop, WorkerExit, WorkerBusy, WorkerCheck,
                  WorkerExecute, WorkerDrop
    <3>2. /\ wk'.pc \notin {"refresh", "motion", "register"}
          /\ wk.pc # "register"
      BY <1>0, <2>3, WorkerMoves, PopMoves DEF EnsureRuntime, Moved
    <3>3. QED
      BY <2>2, <3>1, <3>2 DEF AwaitInv, Awaited, InProgress
  <2>4. CASE WorkerRefresh
    <3>1. rt' = rt /\ UNCHANGED <<pending, events>>
      BY <2>4 DEF WorkerRefresh, runtimeVars
    <3>2. /\ wk.pc = "refresh" /\ wk'.pc \in {"motion", "cancel", "drop", "idle"}
          /\ wk'.pc = "motion" => wk'.req = wk.req /\ wk'.ok = wk.ok
      BY <1>0, <2>4, RefreshMoves DEF Moved
    <3>3. QED
      BY <3>1, <3>2 DEF AwaitInv, Awaited, InProgress
  <2>5. CASE WorkerRegister
    <3>1. /\ rt' = rt /\ events' = events /\ pending' = IdOf(wk.req)
          /\ wk.pc = "register" /\ wk'.pc = "recheck"
      BY <1>0, <2>5, WorkerMoves DEF WorkerRegister, runtimeVars, Moved
    <3>2. QED
      BY <3>1 DEF AwaitInv, Awaited, InProgress
  <2>6. CASE WorkerRecheck \/ WorkerCancel
    <3>1. /\ rt' = rt /\ wk.pc # "register" /\ wk'.pc = "idle"
          /\ UNCHANGED <<pending, events>> \/ FinishPending("cancelled")
      BY <1>0, <2>6, WorkerMoves
      DEF WorkerRecheck, WorkerCancel, runtimeVars, Moved
    <3>2. Awaited'
      BY <1>0, <3>1, FinishAwaited DEF AwaitInv, Awaited
    <3>3. QED
      BY <2>2, <3>1, <3>2 DEF AwaitInv, InProgress
  <2>7. QED
    BY <1>2, <2>3, <2>4, <2>5, <2>6 DEF Worker
<1>3. QED
  BY <1>1, <1>2

LEMMA AwaitStep ==
  TypeInv /\ EventInv /\ ShutInv /\ AwaitInv /\ [Next]_vars => AwaitInv'
<1> SUFFICES ASSUME TypeInv, EventInv, ShutInv, AwaitInv, [Next]_vars
             PROVE  AwaitInv'
  OBVIOUS
<1>1. CASE UNCHANGED vars
  BY <1>1 DEF vars, AwaitInv, Awaited, InProgress
<1>2. CASE Next
  BY <1>2, OthersAwait, WorkerAwait DEF Next, TypeInv
<1>3. QED
  BY <1>1, <1>2

LEMMA AwaitInit == Init => AwaitInv
  BY DEF Init, AwaitInv, Awaited, InProgress, Sound, NoRuntime, Resting

\* Everything above, together.
ServiceInv ==
  TypeInv /\ OrderInv /\ EventInv /\ ShutInv /\ AwaitInv

LEMMA ServiceInvariant == Spec => []ServiceInv
<1>1. Init => ServiceInv
  BY InitType, OrderInit, EventInit, ShutInit, AwaitInit DEF ServiceInv
<1>2. ServiceInv /\ [Next]_vars => ServiceInv'
  BY StepType, OrderStep, EventStep, ShutStep, AwaitStep DEF ServiceInv, AwaitInv
<1>3. QED
  BY <1>1, <1>2, PTL DEF Spec

\* A motion that was accepted and is still running is the one whose end the
\* service awaits, or is about to: neither a later request nor a motion event
\* takes its place in pending_motion_request_.
THEOREM RunningIsAwaited == Spec => []RunningMotionAwaited
<1>1. ServiceInv => RunningMotionAwaited
  BY DEF ServiceInv, AwaitInv, Awaited, Sound, RunningMotionAwaited
<1>2. QED
  BY <1>1, ServiceInvariant, PTL

-----------------------------------------------------------------------------
(* What is left without a lease *)

\* Once disable has run for a lost lease no motion runs, and the one move that
\* the worker may still be starting finds the robot not enabled.
QuietInv ==
  lease = NoLease /\ io.pc \notin LosingPc =>
    /\ Calm(rt)
    /\ wk.pc \in {"exec", "executing"} /\ wk.req.op = "MOVE" =>
         rt.state # "ENABLED"

\* Once the callback has run nothing is awaited but what the worker has just
\* registered and will check against the lease again.
PendingInv ==
  lease = NoLease /\ io.pc \notin LostPc =>
    pending = NoMotion \/ wk.pc = "recheck"

LEMMA OthersQuiet ==
  ASSUME ServiceInv, QuietInv,
         IoLost \/ IoLoop \/ IoShutdown \/ Requests \/ Tick \/ RuntimeStep
  PROVE  QuietInv'
<1>1. /\ TypeOK /\ ShutInv /\ Sound(rt) /\ UNCHANGED wk
      /\ Losing \/ LostDisable \/ LostCancel \/ Undisturbed
  BY OthersMotion DEF ServiceInv, TypeInv, AwaitInv
<1>2. CASE Losing
  <2>1. /\ rt' = rt
        /\ io'.pc = IF rt.state = "NONE" THEN "lost_cancel" ELSE "lost_stop"
    BY <1>1, <1>2, LoseMoves DEF Losing
  <2>2. QED
    BY <1>1, <2>1 DEF QuietInv, LosingPc, Sound, Calm
<1>3. CASE LostDisable
  <2>1. PICK o \in DisableOutcomes(rt) : rt' = o.rt
    BY <1>3 DEF LostDisable
  <2>2. Calm(rt') /\ ~Operational(rt')
    BY <1>1, <2>1, DisableKeeps DEF TypeOK
  <2>3. QED
    BY <2>2 DEF QuietInv, Operational
<1>4. CASE LostCancel
  <2>1. io.pc = "lost_cancel" /\ UNCHANGED <<lease, rt>>
    BY <1>4 DEF LostCancel, leaseVars, runtimeVars
  <2>2. QED
    BY <1>1, <2>1 DEF QuietInv, LosingPc
<1>5. CASE Undisturbed
  BY <1>1, <1>5 DEF QuietInv, Undisturbed, Settles
<1>6. QED
  BY <1>1, <1>2, <1>3, <1>4, <1>5

LEMMA OthersPending ==
  ASSUME ServiceInv, PendingInv,
         IoLost \/ IoLoop \/ IoShutdown \/ Requests \/ Tick \/ RuntimeStep
  PROVE  PendingInv'
<1>1. /\ TypeOK /\ UNCHANGED wk
      /\ Losing \/ LostDisable \/ LostCancel \/ Undisturbed
  BY OthersMotion DEF ServiceInv, TypeInv
<1>2. CASE Losing
  <2>1. io'.pc \in {"lost_cancel", "lost_stop"}
    BY <1>1, <1>2, LoseMoves DEF Losing
  <2>2. QED
    BY <2>1 DEF PendingInv, LostPc
<1>3. CASE LostDisable
  <2>1. io'.pc = "lost_cancel"
    BY <1>1, <1>3, IoGotoMoves DEF LostDisable
  <2>2. QED
    BY <2>1 DEF PendingInv, LostPc
<1>4. CASE LostCancel
  BY <1>4 DEF PendingInv, LostCancel, FinishPending
<1>5. CASE Undisturbed
  BY <1>1, <1>5 DEF PendingInv, Undisturbed, FinishPending
<1>6. QED
  BY <1>1, <1>2, <1>3, <1>4, <1>5

\* The worker neither moves the I/O thread nor ends a lease.
LEMMA WorkerHolds ==
  ASSUME TypeOK, Worker
  PROVE  UNCHANGED io /\ (lease' = NoLease => lease = NoLease)
<1>1. UNCHANGED io
  BY DEF Worker, EnsureRuntime, WorkerPop, WorkerExit, WorkerBusy, WorkerCheck,
         WorkerExecute, WorkerExecuted, WorkerRefresh, WorkerMotion,
         WorkerRegister, WorkerRecheck, WorkerCancel, WorkerDrop
<1>2. lease' = lease \/ (Active /\ Refresh)
  BY DEF Worker, EnsureRuntime, WorkerPop, WorkerExit, WorkerBusy, WorkerCheck,
         WorkerExecute, WorkerExecuted, WorkerRefresh, WorkerMotion,
         WorkerRegister, WorkerRecheck, WorkerCancel, WorkerDrop, leaseVars,
         RefreshAfterControl, Owns
<1>3. QED
  BY <1>1, <1>2, RefreshHolds

LEMMA WorkerPending ==
  ASSUME ServiceInv, PendingInv, Worker
  PROVE  PendingInv'
<1>1. TypeOK
  BY DEF ServiceInv, TypeInv
<1>2. UNCHANGED io /\ (lease' = NoLease => lease = NoLease)
  BY <1>1, WorkerHolds
<1>3. CASE WorkerRegister
  BY <1>1, <1>3, WorkerMoves DEF PendingInv, Moved
<1>4. CASE WorkerRecheck
  BY <1>2, <1>4 DEF PendingInv, WorkerRecheck, FinishPending, Valid, Owns, Active
<1>5. CASE WorkerCancel
  BY <1>5 DEF PendingInv, WorkerCancel, FinishPending
<1>6. CASE ~(WorkerRegister \/ WorkerRecheck \/ WorkerCancel)
  <2>1. pending' = pending /\ wk.pc # "recheck"
    BY <1>6 DEF Worker, EnsureRuntime, WorkerPop, WorkerExit, WorkerBusy,
                WorkerCheck, WorkerExecute, WorkerExecuted, WorkerRefresh,
                WorkerMotion, WorkerDrop
  <2>2. QED
    BY <1>2, <2>1 DEF PendingInv
<1>7. QED
  BY <1>3, <1>4, <1>5, <1>6

LEMMA WorkerCalm ==
  ASSUME ServiceInv, QuietInv, Worker
  PROVE  QuietInv'
<1>1. TypeOK
  BY DEF ServiceInv, TypeInv
<1> SUFFICES ASSUME lease' = NoLease, io'.pc \notin LosingPc
             PROVE  /\ Calm(rt')
                    /\ wk'.pc \in {"exec", "executing"} /\ wk'.req.op = "MOVE" =>
                         rt'.state # "ENABLED"
  BY DEF QuietInv
<1>2. /\ lease = NoLease /\ Calm(rt)
      /\ wk.pc \in {"exec", "executing"} /\ wk.req.op = "MOVE" =>
           rt.state # "ENABLED"
  BY <1>1, WorkerHolds DEF QuietInv
<1>3. CASE WorkerExecuted
  <2>1. Ran /\ wk.pc = "executing"
    BY <1>1, <1>3, RunMoves DEF WorkerExecuted
  <2>2. PICK o \in Outcomes(wk.req) :
          rt' = o.rt /\ wk'.pc \in {"idle", "refresh"}
    BY <2>1 DEF Ran, Moved
  <2>3. MotionEffect(o)
    BY <1>1, OutcomesEffect
  <2>4. QED
    BY <1>2, <2>1, <2>2, <2>3 DEF MotionEffect
<1>4. CASE ~WorkerExecuted
  <2>1. WorkerQuiet
    BY <1>1, <1>4, WorkerMotionQuiet
  <2>2. Calm(rt')
    BY <1>2, <2>1 DEF WorkerQuiet, Settles
  <2>3. ASSUME wk'.pc \in {"exec", "executing"}, wk'.req.op = "MOVE"
        PROVE  rt'.state # "ENABLED"
    <3>1. CASE WorkerExecute
      BY <1>1, <1>2, <2>1, <2>3, <3>1, WorkerMoves DEF WorkerQuiet, Settles, Moved
    <3>2. CASE WorkerCheck
      BY <1>1, <1>2, <2>3, <3>2, WorkerMoves DEF Moved, Valid, Owns, Active, Query
    <3>3. CASE ~(WorkerExecute \/ WorkerCheck)
      <4>1. wk'.pc \notin {"exec", "executing"}
        BY <1>1, <1>4, <3>3, WorkerMoves, PopMoves, RefreshMoves
        DEF Worker, EnsureRuntime, Moved
      <4>2. QED
        BY <2>3, <4>1
    <3>4. QED
      BY <3>1, <3>2, <3>3
  <2>4. QED
    BY <2>2, <2>3
<1>5. QED
  BY <1>3, <1>4

LEMMA RestInvariant == Spec => [](ServiceInv /\ QuietInv /\ PendingInv)
<1>1. Init => QuietInv /\ PendingInv
  BY DEF Init, QuietInv, PendingInv, Calm, NoRuntime, Resting
<1>2. ServiceInv /\ QuietInv /\ PendingInv /\ [Next]_vars
        => QuietInv' /\ PendingInv'
  <2> SUFFICES ASSUME ServiceInv, QuietInv, PendingInv, [Next]_vars
               PROVE  QuietInv' /\ PendingInv'
    OBVIOUS
  <2>1. CASE UNCHANGED vars
    BY <2>1 DEF vars, QuietInv, PendingInv
  <2>2. CASE Next
    BY <2>2, OthersQuiet, OthersPending, WorkerCalm, WorkerPending DEF Next
  <2>3. QED
    BY <2>1, <2>2
<1>3. QED
  BY <1>1, <1>2, ServiceInvariant, PTL DEF Spec

\* Once the loss of a lease has been handled no finite motion runs, however
\* the worker's move interleaves with the stop_motion and the disable of
\* on_control_lost.
THEOREM NoMotionWithoutLease == Spec => []NoOrphanMotion
<1>1. QuietInv => NoOrphanMotion
  BY DEF QuietInv, NoOrphanMotion, LosingPc, LostPc, Calm
<1>2. QED
  BY <1>1, RestInvariant, PTL

\* When the loss has been handled and the worker rests, no request is pending:
\* the callback cancels what was registered before it and the worker's recheck
\* what was registered after.
THEOREM NoneLeftPending == Spec => []NothingPendingWithoutLease
<1>1. PendingInv => NothingPendingWithoutLease
  BY DEF PendingInv, NothingPendingWithoutLease
<1>2. QED
  BY <1>1, RestInvariant, PTL

\* The fixed SIGTERM order of run: CAN is closed only behind a joined worker,
\* with nothing queued, mailed or awaited, the lease revoked, the motion ended
\* and the streaming target gone, on a robot that follows targets no more.  It
\* says nothing of the torque, which a disable that was not confirmed may have
\* left on: the shutdown ignores that answer.
THEOREM ShutdownOrder == Spec => []ClosedInOrder
<1>1. ServiceInv /\ QuietInv /\ PendingInv => ClosedInOrder
  <2> SUFFICES ASSUME ServiceInv, QuietInv, PendingInv,
                      io.pc \in {"disconnect", "stopped"}
               PROVE  /\ wk.pc = "done" /\ queue = <<>> /\ mailbox = NoCommand
                      /\ lease = NoLease /\ pending = NoMotion
                      /\ rt.mstate # "RUNNING" /\ rt.stream = 0
                      /\ ~Operational(rt)
    BY DEF ClosedInOrder
  <2>1. /\ wk.pc = "done" /\ queue = <<>> /\ mailbox = NoCommand
        /\ lease = NoLease /\ ~Operational(rt) /\ rt.stream = 0
    BY DEF ServiceInv, ShutInv, Stopping, StopPc, LostPc
  <2>2. pending = NoMotion /\ rt.mstate # "RUNNING"
    BY <2>1 DEF PendingInv, QuietInv, Calm, LostPc, LosingPc
  <2>3. QED
    BY <2>1, <2>2
<1>2. QED
  BY <1>1, RestInvariant, PTL

=============================================================================
