----------------------- MODULE ControllerGroupProofs -----------------------
(***************************************************************************)
(* Theorems about ControllerGroup for every set of controllers and of      *)
(* calling threads and any number of dispatches: frames are written only   *)
(* inside the call they belong to, and generation and completion counters  *)
(* implement the barrier of BatchSend.                                     *)
(***************************************************************************)
EXTENDS ControllerGroup, FiniteSetTheorems, TLAPS

-----------------------------------------------------------------------------
(* The inductive invariant *)

\* The transmit threads that have done their share of the current generation.
Rests(c) == worker[c].pc \in {"wait", "gone"} /\ worker[c].seen = generation
Done == {c \in Controllers : Rests(c)}

\* call_mutex is held by the one thread that is inside a dispatch, and a
\* dispatch that has not been published leaves room for one more generation.
OneCall ==
  /\ \A k \in Callers : caller[k] # "idle" <=> call_mutex = k
  /\ \A k \in Callers : caller[k] = "dispatch" => generation < MaxGeneration

\* completed counts the threads that are done while somebody waits for them;
\* otherwise all of them are done.
Counted ==
  /\ Awaiting => completed = Cardinality(Done)
  /\ ~Awaiting => \A c \in Controllers : Rests(c)

\* A thread that has not seen the generation waits for it.
Unseen ==
  \A c \in Controllers : worker[c].seen # generation => worker[c].pc = "wait"

\* Threads leave only when no call uses the group any more.
Leaving ==
  /\ stopping => \A k \in Callers : caller[k] = "idle"
  /\ \A c \in Controllers : worker[c].pc = "gone" => stopping

\* Whoever writes frames holds the controller's lock and found the port open.
Locked ==
  \A c \in Controllers :
    /\ worker[c].pc = "frames" <=> lifecycle[c] = "worker"
    /\ worker[c].pc = "frames" => ~bus_closed[c]
    /\ lifecycle[c] = "closer" => ~bus_closed[c]

\* The published batches, and the share a thread took, are of the current
\* generation.
Current ==
  /\ Awaiting => \A c \in Controllers : batches[kind][c] \in {0, generation}
  /\ \A c \in Controllers :
       worker[c].pc \in {"batch", "frames"} => worker[c].job \in {0, generation}

GroupInv ==
  /\ TypeOK /\ OneCall /\ Counted /\ Unseen /\ Leaving /\ Locked /\ Current

-----------------------------------------------------------------------------
(* Lemmas *)

\* The number of threads that are done is a number up to that of controllers,
\* and equal to it only when all are.
LEMMA DoneCount ==
  /\ IsFiniteSet(Done)
  /\ Cardinality(Done) \in 0..Cardinality(Controllers)
  /\ Cardinality(Done) = Cardinality(Controllers) => Done = Controllers
<1>1. Done \in SUBSET Controllers
  BY DEF Done
<1>2. /\ IsFiniteSet(Done)
      /\ Cardinality(Done) <= Cardinality(Controllers)
      /\ Cardinality(Controllers) = Cardinality(Done) => Controllers = Done
  BY <1>1, FS_Subset, GroupAssumption
<1>3. Cardinality(Done) \in Nat /\ Cardinality(Controllers) \in Nat
  BY <1>2, FS_CardinalityType, GroupAssumption
<1>4. QED
  BY <1>2, <1>3

\* Types are kept by every step: the one count that could leave its range,
\* completed, counts the threads that are done.
LEMMA CallerTypes ==
  ASSUME GroupInv, NEW k \in Callers, Enter(k) \/ Calls(k)
  PROVE  TypeOK'
<1> USE DEF GroupInv, TypeOK
<1>0. Cardinality(Controllers) \in Nat
  BY FS_CardinalityType, GroupAssumption
<1>1. CASE Enter(k)
  BY <1>1, GroupAssumption DEF Enter
<1>2. CASE Publish(k)
  <2>1. generation + 1 \in 0..MaxGeneration
    BY <1>2, GroupAssumption DEF Publish, OneCall
  <2>2. batches' \in [Kinds -> [Controllers -> 0..(MaxGeneration + 1)]]
    BY <1>2, <2>1, GroupAssumption DEF Publish, Kinds
  <2>3. QED
    BY <1>0, <1>2, <2>1, <2>2 DEF Publish
<1>3. CASE Reject(k)
  <2>1. generation + 1 \in 0..(MaxGeneration + 1)
    BY GroupAssumption
  <2>2. batches' \in [Kinds -> [Controllers -> 0..(MaxGeneration + 1)]]
    BY <1>3, <2>1, GroupAssumption DEF Reject, Kinds
  <2>3. QED
    BY <1>3, <2>2 DEF Reject
<1>4. CASE Collect(k)
  BY <1>4 DEF Collect
<1>5. QED
  BY <1>1, <1>2, <1>3, <1>4 DEF Calls

\* A transmit thread that is busy is one a dispatch waits for, and it is not
\* among those counted.
LEMMA BusyIsAwaited ==
  ASSUME GroupInv, NEW c \in Controllers,
         worker[c].pc \in {"batch", "frames", "report"}
  PROVE  /\ Awaiting /\ ~stopping /\ worker[c].seen = generation
         /\ c \notin Done /\ completed < Cardinality(Controllers)
<1>1. ~Rests(c) /\ Awaiting /\ worker[c].seen = generation
  BY DEF GroupInv, Rests, Counted, Unseen
<1>2. ~stopping
  BY <1>1 DEF GroupInv, Leaving, Awaiting
<1>3. c \notin Done
  BY <1>1 DEF Done
<1>4. completed < Cardinality(Controllers)
  <2>1. completed = Cardinality(Done)
    BY <1>1 DEF GroupInv, Counted
  <2>2. Cardinality(Done) # Cardinality(Controllers)
    BY <1>3, DoneCount
  <2>3. Cardinality(Controllers) \in Nat
    BY FS_CardinalityType, GroupAssumption
  <2>4. QED
    BY <2>1, <2>2, <2>3, DoneCount
<1>5. QED
  BY <1>1, <1>2, <1>3, <1>4

Threads == [pc : {"wait", "batch", "frames", "report", "gone"},
            seen : 0..MaxGeneration, job : 0..MaxGeneration, error : BOOLEAN]

\* Steps of the transmit threads, of closes and of the destructor keep types.
LEMMA WorkerTypes ==
  ASSUME GroupInv, NEW c \in Controllers, Works(c)
  PROVE  TypeOK'
<1> USE DEF GroupInv, TypeOK
<1>1. CASE Take(c)
  <2>1. worker[c].seen # generation
    BY <1>1 DEF Take
  <2>2. Awaiting
    BY <2>1 DEF Counted, Rests
  <2>3. batches[kind][c] \in 0..MaxGeneration
    BY <2>2, GroupAssumption DEF Current
  <2>4. QED
    BY <1>1, <2>3 DEF Take
<1>2. CASE Lock(c)
  <2>1. worker[c] \in Threads /\ lifecycle[c] \in {"free", "worker", "closer"}
    BY DEF Threads
  <2>2. CASE bus_closed[c]
    <3>1. worker' = [worker EXCEPT ![c] = [@ EXCEPT !.pc = "report", !.error = TRUE]]
      BY <1>2, <2>2 DEF Lock
    <3>2. [worker[c] EXCEPT !.pc = "report", !.error = TRUE] \in Threads
      BY <2>1 DEF Threads
    <3>3. worker' \in [Controllers -> Threads]
      BY <3>1, <3>2 DEF Threads
    <3>4. QED
      BY <1>2, <2>2, <3>3 DEF Lock, Threads
  <2>3. CASE ~bus_closed[c]
    <3>1. worker' \in [Controllers -> Threads]
      BY <1>2, <2>1, <2>3 DEF Lock, Threads
    <3>2. lifecycle' \in [Controllers -> {"free", "worker", "closer"}]
      BY <1>2, <2>1, <2>3 DEF Lock
    <3>3. QED
      BY <1>2, <2>3, <3>1, <3>2 DEF Lock, Threads
  <2>4. QED
    BY <2>2, <2>3
<1>3. CASE Frames(c)
  <2>1. PICK failed \in BOOLEAN :
          worker' = [worker EXCEPT ![c] = [@ EXCEPT !.pc = "report", !.error = failed]]
    BY <1>3 DEF Frames
  <2>2. [worker[c] EXCEPT !.pc = "report", !.error = failed] \in Threads
    BY ZenonT(60) DEF Threads
  <2>3. worker' \in [Controllers -> Threads]
    BY <2>1, <2>2 DEF Threads
  <2>4. QED
    BY <1>3, <2>3 DEF Frames, Threads
<1>4. CASE Report(c)
  <2>1. completed + 1 \in 0..Cardinality(Controllers)
    <3>1. Cardinality(Controllers) \in Nat
      BY FS_CardinalityType, GroupAssumption
    <3>2. completed < Cardinality(Controllers)
      BY <1>4, BusyIsAwaited DEF Report
    <3>3. QED
      BY <3>1, <3>2
  <2>2. errors' \in [Controllers -> BOOLEAN]
    <3>1. worker[c].error \in BOOLEAN
      OBVIOUS
    <3>2. errors' = [errors EXCEPT ![c] = worker[c].error]
      BY <1>4 DEF Report
    <3> HIDE DEF GroupInv, TypeOK
    <3>3. errors \in [Controllers -> BOOLEAN]
      BY DEF GroupInv, TypeOK
    <3>4. QED
      BY <3>1, <3>2, <3>3, Zenon
  <2>3. worker' = [worker EXCEPT ![c] = [@ EXCEPT !.pc = "wait", !.job = 0,
                                                  !.error = FALSE]]
    BY <1>4 DEF Report
  <2>4. [worker[c] EXCEPT !.pc = "wait", !.job = 0, !.error = FALSE] \in Threads
    <3>1. worker[c] \in Threads /\ 0 \in 0..MaxGeneration
      BY GroupAssumption DEF Threads
    <3> HIDE DEF GroupInv, TypeOK
    <3>2. QED
      BY <3>1 DEF Threads
  <2>5. worker' \in [Controllers -> Threads]
    BY <2>3, <2>4 DEF Threads
  <2>6. QED
    BY <1>4, <2>1, <2>2, <2>5 DEF Report, Threads
<1>5. CASE Exit(c)
  BY <1>5 DEF Exit
<1>6. QED
  BY <1>1, <1>2, <1>3, <1>4, <1>5 DEF Works

LEMMA OtherTypes ==
  ASSUME TypeOK,
         \/ \E c \in Controllers : CloseBegin(c) \/ CloseEnd(c)
         \/ Stop \/ Terminated \/ UNCHANGED vars
  PROVE  TypeOK'
<1> USE DEF TypeOK
<1>1. CASE \E c \in Controllers : CloseBegin(c) \/ CloseEnd(c)
  BY <1>1 DEF CloseBegin, CloseEnd
<1>2. CASE Stop
  BY <1>2 DEF Stop
<1>3. CASE Terminated \/ UNCHANGED vars
  BY <1>3 DEF Terminated, vars
<1>4. QED
  BY <1>1, <1>2, <1>3

-----------------------------------------------------------------------------
(* The invariant is kept: the calling threads *)

\* A thread inside a dispatch that does not wait yet is alone, and every
\* transmit thread is at rest.
LEMMA DispatchAlone ==
  ASSUME GroupInv, NEW k \in Callers, caller[k] = "dispatch"
  PROVE  /\ ~Awaiting /\ ~stopping /\ call_mutex = k
         /\ \A j \in Callers : j # k => caller[j] = "idle"
         /\ \A c \in Controllers :
              worker[c].pc = "wait" /\ worker[c].seen = generation
<1>1. call_mutex = k /\ \A j \in Callers : j # k => caller[j] = "idle"
  BY DEF GroupInv, OneCall
<1>2. ~Awaiting /\ ~stopping
  BY <1>1 DEF Awaiting, GroupInv, Leaving
<1>3. \A c \in Controllers : Rests(c) /\ worker[c].pc # "gone"
  BY <1>2 DEF GroupInv, Counted, Leaving
<1>4. QED
  BY <1>1, <1>2, <1>3 DEF Rests

LEMMA EnterStep ==
  ASSUME GroupInv, NEW k \in Callers, Enter(k)
  PROVE  GroupInv'
<1>1. TypeOK'
  BY CallerTypes
<1>2. OneCall'
  BY GroupAssumption DEF GroupInv, TypeOK, OneCall, Enter
<1>3. Awaiting' = Awaiting
  BY DEF GroupInv, TypeOK, Enter, Awaiting
<1>4. Counted'
  BY <1>3 DEF GroupInv, Counted, Enter, Done, Rests
<1>5. Unseen' /\ Leaving' /\ Locked'
  BY DEF GroupInv, Unseen, Leaving, Locked, Enter
<1>6. Current'
  BY <1>3 DEF GroupInv, Current, Enter
<1>7. QED
  BY <1>1, <1>2, <1>4, <1>5, <1>6 DEF GroupInv

\* A new generation: nobody has seen it, so nobody is counted.
LEMMA PublishStep ==
  ASSUME GroupInv, NEW k \in Callers, Publish(k)
  PROVE  GroupInv'
<1>0. caller[k] = "dispatch" /\ generation' = generation + 1
  BY DEF Publish
<1>1. TypeOK'
  BY CallerTypes DEF Calls
<1>2. OneCall'
  BY <1>0, DispatchAlone DEF GroupInv, TypeOK, OneCall, Publish
<1>3. Awaiting'
  BY DEF GroupInv, TypeOK, Publish, Awaiting
<1>4. \A c \in Controllers : ~Rests(c)'
  <2>1. \A c \in Controllers : worker[c].seen # generation + 1
    BY <1>0, DispatchAlone DEF GroupInv, TypeOK
  <2>2. QED
    BY <1>0, <2>1 DEF Publish, Rests
<1>5. Counted'
  <2>1. Done' = {}
    BY <1>4 DEF Done
  <2>2. QED
    BY <1>3, <2>1, FS_EmptySet DEF Counted, Publish
<1>6. Unseen' /\ Leaving' /\ Locked'
  BY <1>0, DispatchAlone DEF GroupInv, Unseen, Leaving, Locked, Publish
<1>7. Current'
  <2>1. \A c \in Controllers : (batches[kind][c])' \in {0, generation + 1}
    BY DEF GroupInv, TypeOK, Publish
  <2>2. QED
    BY <1>0, <2>1, DispatchAlone DEF Current, Publish
<1>8. QED
  BY <1>1, <1>2, <1>5, <1>6, <1>7 DEF GroupInv

\* A rejected dispatch leaves every transmit thread at rest.
LEMMA RejectStep ==
  ASSUME GroupInv, NEW k \in Callers, Reject(k)
  PROVE  GroupInv'
<1>0. caller[k] = "dispatch"
  BY DEF Reject
<1>1. TypeOK'
  BY CallerTypes DEF Calls
<1>2. OneCall'
  BY <1>0, DispatchAlone, GroupAssumption DEF GroupInv, TypeOK, OneCall, Reject
<1>3. ~Awaiting'
  BY <1>0, DispatchAlone DEF GroupInv, TypeOK, Reject, Awaiting
<1>4. Counted'
  BY <1>0, <1>3, DispatchAlone DEF Counted, Reject, Rests
<1>5. Unseen' /\ Leaving' /\ Locked'
  BY <1>0, DispatchAlone DEF GroupInv, Unseen, Leaving, Locked, Reject
<1>6. Current'
  BY <1>0, <1>3, DispatchAlone DEF Current, Reject
<1>7. QED
  BY <1>1, <1>2, <1>4, <1>5, <1>6 DEF GroupInv

\* The caller goes when completed has reached the number of controllers: all
\* of them are done.
LEMMA CollectFindsAllDone ==
  ASSUME GroupInv, NEW k \in Callers, Collect(k)
  PROVE  /\ Awaiting
         /\ \A j \in Callers : j # k => caller[j] = "idle"
         /\ \A c \in Controllers :
              worker[c].pc = "wait" /\ worker[c].seen = generation
<1>1. Awaiting /\ ~stopping
  BY DEF Collect, Awaiting, GroupInv, Leaving
<1>2. Done = Controllers
  BY <1>1, DoneCount DEF GroupInv, Counted, Collect
<1>3. \A j \in Callers : j # k => caller[j] = "idle"
  BY DEF GroupInv, OneCall, Collect
<1>4. QED
  BY <1>1, <1>2, <1>3 DEF Done, Rests, GroupInv, Leaving

LEMMA CollectStep ==
  ASSUME GroupInv, NEW k \in Callers, Collect(k)
  PROVE  GroupInv'
<1>1. TypeOK'
  BY CallerTypes DEF Calls
<1>2. OneCall'
  BY CollectFindsAllDone, GroupAssumption DEF GroupInv, TypeOK, OneCall, Collect
<1>3. ~Awaiting'
  BY CollectFindsAllDone DEF GroupInv, TypeOK, Collect, Awaiting
<1>4. Counted'
  BY <1>3, CollectFindsAllDone DEF Counted, Collect, Rests
<1>5. Unseen' /\ Leaving' /\ Locked'
  BY CollectFindsAllDone DEF GroupInv, Unseen, Leaving, Locked, Collect, TypeOK
<1>6. Current'
  BY <1>3, CollectFindsAllDone DEF Current, Collect
<1>7. QED
  BY <1>1, <1>2, <1>4, <1>5, <1>6 DEF GroupInv

-----------------------------------------------------------------------------
(* The invariant is kept: transmit threads, closing, the destructor *)

\* A step of a transmit thread changes no caller, and only its own record.
LEMMA WorkerLocal ==
  ASSUME GroupInv, NEW c \in Controllers, Works(c)
  PROVE  /\ UNCHANGED <<caller, call_mutex, kind, batches, generation,
                        bus_closed, stopping, result>>
         /\ Awaiting' = Awaiting
         /\ \A d \in Controllers : d # c =>
              worker'[d] = worker[d] /\ lifecycle'[d] = lifecycle[d]
<1>1. UNCHANGED <<caller, call_mutex, kind, batches, generation,
                  bus_closed, stopping, result>>
  BY DEF Works, Take, Lock, Frames, Report, Exit
<1>2. ASSUME NEW d \in Controllers, d # c
      PROVE  worker'[d] = worker[d] /\ lifecycle'[d] = lifecycle[d]
  <2> USE <1>2 DEF GroupInv, TypeOK
  <2>1. CASE Take(c)
    BY <2>1 DEF Take
  <2>2. CASE Lock(c)
    BY <2>2 DEF Lock
  <2>3. CASE Frames(c)
    BY <2>3 DEF Frames
  <2>4. CASE Report(c)
    BY <2>4 DEF Report
  <2>5. CASE Exit(c)
    BY <2>5 DEF Exit
  <2>6. QED
    BY <2>1, <2>2, <2>3, <2>4, <2>5 DEF Works
<1>3. QED
  BY <1>1, <1>2 DEF Awaiting

\* What the step does to the thread's own record.
LEMMA WorkerOwn ==
  ASSUME GroupInv, NEW c \in Controllers
  PROVE  /\ Take(c) => /\ worker'[c].pc = "batch"
                       /\ worker'[c].seen = generation
                       /\ worker'[c].job = batches[kind][c]
                       /\ UNCHANGED <<lifecycle, completed>>
         /\ Lock(c) => /\ worker'[c].seen = worker[c].seen
                       /\ worker'[c].job = worker[c].job
                       /\ UNCHANGED completed
                       /\ \/ /\ ~bus_closed[c]
                             /\ worker'[c].pc = "frames"
                             /\ lifecycle'[c] = "worker"
                          \/ /\ bus_closed[c]
                             /\ worker'[c].pc = "report"
                             /\ lifecycle'[c] = lifecycle[c]
         /\ Frames(c) => /\ worker'[c].pc = "report"
                         /\ worker'[c].seen = worker[c].seen
                         /\ lifecycle'[c] = "free"
                         /\ UNCHANGED completed
         /\ Report(c) => /\ worker'[c].pc = "wait"
                         /\ worker'[c].seen = worker[c].seen
                         /\ completed' = completed + 1
                         /\ UNCHANGED lifecycle
         /\ Exit(c) => /\ worker'[c].pc = "gone"
                       /\ worker'[c].seen = worker[c].seen
                       /\ UNCHANGED <<lifecycle, completed>>
<1> USE DEF GroupInv, TypeOK
<1>1. ASSUME Take(c)
      PROVE  /\ worker'[c].pc = "batch" /\ worker'[c].seen = generation
             /\ worker'[c].job = batches[kind][c]
             /\ UNCHANGED <<lifecycle, completed>>
  BY <1>1 DEF Take
<1>2. ASSUME Lock(c)
      PROVE  /\ worker'[c].seen = worker[c].seen
             /\ worker'[c].job = worker[c].job
             /\ UNCHANGED completed
             /\ \/ /\ ~bus_closed[c] /\ worker'[c].pc = "frames"
                   /\ lifecycle'[c] = "worker"
                \/ /\ bus_closed[c] /\ worker'[c].pc = "report"
                   /\ lifecycle'[c] = lifecycle[c]
  <2>1. CASE bus_closed[c]
    BY <1>2, <2>1 DEF Lock
  <2>2. CASE ~bus_closed[c]
    BY <1>2, <2>2 DEF Lock
  <2>3. QED
    BY <2>1, <2>2
<1>3. ASSUME Frames(c)
      PROVE  /\ worker'[c].pc = "report" /\ worker'[c].seen = worker[c].seen
             /\ lifecycle'[c] = "free" /\ UNCHANGED completed
  BY <1>3 DEF Frames
<1>4. ASSUME Report(c)
      PROVE  /\ worker'[c].pc = "wait" /\ worker'[c].seen = worker[c].seen
             /\ completed' = completed + 1 /\ UNCHANGED lifecycle
  BY <1>4 DEF Report
<1>5. ASSUME Exit(c)
      PROVE  /\ worker'[c].pc = "gone" /\ worker'[c].seen = worker[c].seen
             /\ UNCHANGED <<lifecycle, completed>>
  BY <1>5 DEF Exit
<1> HIDE DEF GroupInv, TypeOK
<1>6. QED
  BY <1>1, <1>2, <1>3, <1>4, <1>5

\* The count follows the threads: only Report adds one to either.
LEMMA WorkerCounted ==
  ASSUME GroupInv, NEW c \in Controllers, Works(c)
  PROVE  Counted'
<1>1. \A d \in Controllers : d # c => (Rests(d)' <=> Rests(d))
  BY WorkerLocal DEF Rests
<1>2. CASE Report(c)
  <2>1. Awaiting /\ c \notin Done /\ worker[c].seen = generation
    BY <1>2, BusyIsAwaited DEF Report
  <2>2. Rests(c)'
    BY <1>2, <2>1, WorkerOwn, WorkerLocal DEF Rests
  <2>3. Done' = Done \cup {c}
    BY <1>1, <2>2 DEF Done
  <2>4. Cardinality(Done') = Cardinality(Done) + 1
    BY <2>1, <2>3, DoneCount, FS_AddElement
  <2>5. completed' = Cardinality(Done')
    BY <1>2, <2>1, <2>4, WorkerOwn DEF GroupInv, Counted
  <2>6. QED
    BY <2>1, <2>5, WorkerLocal DEF Counted
<1>3. CASE ~Report(c)
  <2>1. Rests(c)' <=> Rests(c)
    <3>1. CASE Take(c)
      BY <3>1, WorkerOwn DEF Take, Rests
    <3>2. CASE Lock(c)
      BY <3>2, WorkerOwn DEF Lock, Rests
    <3>3. CASE Frames(c)
      BY <3>3, WorkerOwn DEF Frames, Rests
    <3>4. CASE Exit(c)
      BY <3>4, WorkerOwn, WorkerLocal DEF Exit, Rests
    <3>5. QED
      BY <1>3, <3>1, <3>2, <3>3, <3>4 DEF Works
  <2>2. Done' = Done /\ (\A d \in Controllers : Rests(d)' <=> Rests(d))
    BY <1>1, <2>1 DEF Done
  <2>3. completed' = completed
    BY <1>3, WorkerOwn DEF Works
  <2>4. QED
    BY <2>2, <2>3, WorkerLocal DEF GroupInv, Counted
<1>4. QED
  BY <1>2, <1>3

LEMMA WorkerStep ==
  ASSUME GroupInv, NEW c \in Controllers, Works(c)
  PROVE  GroupInv'
<1>1. OneCall'
  BY WorkerLocal DEF GroupInv, OneCall
<1>2. Unseen'
  <2>1. (worker[c].seen # generation => worker[c].pc = "wait")'
    <3>1. CASE Take(c) \/ Report(c)
      BY <3>1, WorkerOwn, WorkerLocal
    <3>2. CASE Lock(c) \/ Frames(c) \/ Exit(c)
      <4>1. worker[c].seen = generation
        <5>1. CASE Exit(c)
          BY <5>1 DEF GroupInv, Counted, Leaving, Awaiting, Exit, Rests
        <5>2. CASE Lock(c) \/ Frames(c)
          BY <5>2, BusyIsAwaited DEF Lock, Frames
        <5>3. QED
          BY <3>2, <5>1, <5>2
      <4>2. QED
        BY <3>2, <4>1, WorkerOwn, WorkerLocal
    <3>3. QED
      BY <3>1, <3>2 DEF Works
  <2>2. QED
    BY <2>1, WorkerLocal DEF GroupInv, Unseen
<1>3. Leaving'
  <2>1. (worker[c].pc = "gone" => stopping)'
    BY WorkerOwn, WorkerLocal DEF Works, Exit
  <2>2. QED
    BY <2>1, WorkerLocal DEF GroupInv, Leaving
<1>4. Locked'
  <2>1. /\ worker'[c].pc = "frames" <=> lifecycle'[c] = "worker"
        /\ worker'[c].pc = "frames" => ~bus_closed'[c]
        /\ lifecycle'[c] = "closer" => ~bus_closed'[c]
    <3>1. /\ worker[c].pc = "frames" <=> lifecycle[c] = "worker"
          /\ worker[c].pc = "frames" => ~bus_closed[c]
          /\ lifecycle[c] = "closer" => ~bus_closed[c]
          /\ bus_closed'[c] = bus_closed[c]
      BY WorkerLocal DEF GroupInv, Locked
    <3>2. CASE Take(c)
      BY <3>1, <3>2, WorkerOwn DEF Take
    <3>3. CASE Lock(c)
      BY <3>1, <3>3, WorkerOwn DEF Lock
    <3>4. CASE Frames(c)
      BY <3>1, <3>4, WorkerOwn DEF Frames
    <3>5. CASE Report(c) \/ Exit(c)
      BY <3>1, <3>5, WorkerOwn DEF Report, Exit
    <3>6. QED
      BY <3>2, <3>3, <3>4, <3>5 DEF Works
  <2>2. QED
    BY <2>1, WorkerLocal DEF GroupInv, Locked
<1>5. Current'
  <2>1. worker'[c].pc \in {"batch", "frames"} => worker'[c].job \in {0, generation}
    <3>1. CASE Take(c)
      <4>1. Awaiting
        BY <3>1 DEF Take, GroupInv, Counted, Rests
      <4>2. QED
        BY <3>1, <4>1, WorkerOwn DEF GroupInv, Current
    <3>2. CASE Lock(c)
      BY <3>2, WorkerOwn DEF Lock, GroupInv, Current
    <3>3. CASE Frames(c) \/ Report(c) \/ Exit(c)
      BY <3>3, WorkerOwn
    <3>4. QED
      BY <3>1, <3>2, <3>3 DEF Works
  <2>2. QED
    BY <2>1, WorkerLocal DEF GroupInv, Current
<1>6. QED
  BY <1>1, <1>2, <1>3, <1>4, <1>5, WorkerTypes, WorkerCounted DEF GroupInv

\* Closing a port takes its lock, so nobody writes frames through it.
LEMMA OtherStep ==
  ASSUME GroupInv,
         \/ \E c \in Controllers : CloseBegin(c) \/ CloseEnd(c)
         \/ Stop \/ Terminated \/ UNCHANGED vars
  PROVE  GroupInv'
<1>1. TypeOK'
  BY OtherTypes DEF GroupInv
<1>2. UNCHANGED <<caller, call_mutex, kind, batches, generation, completed,
                  worker>>
  BY DEF CloseBegin, CloseEnd, Stop, Terminated, vars
<1>3. Awaiting' = Awaiting /\ Done' = Done
      /\ \A c \in Controllers : Rests(c)' = Rests(c)
  BY <1>2 DEF Awaiting, Done, Rests
<1>4. OneCall' /\ Counted' /\ Unseen' /\ Current'
  BY <1>2, <1>3 DEF GroupInv, OneCall, Counted, Unseen, Current
<1>5. Leaving'
  BY <1>2 DEF GroupInv, Leaving, CloseBegin, CloseEnd, Stop, Terminated, vars
<1>6. Locked'
  BY <1>2 DEF GroupInv, TypeOK, Locked, CloseBegin, CloseEnd, Stop,
              Terminated, vars
<1>7. QED
  BY <1>1, <1>4, <1>5, <1>6 DEF GroupInv

LEMMA GroupStep == GroupInv /\ [Next]_vars => GroupInv'
  BY EnterStep, PublishStep, RejectStep, CollectStep, WorkerStep, OtherStep
     DEF Next, Calls

LEMMA GroupInit == Init => GroupInv
<1> SUFFICES ASSUME Init PROVE GroupInv
  OBVIOUS
<1>1. Cardinality(Controllers) \in Nat
  BY FS_CardinalityType, GroupAssumption
<1>2. TypeOK
  <2>1. /\ 0 \in 0..MaxGeneration /\ 0 \in 0..(MaxGeneration + 1)
        /\ 0 \in 0..Cardinality(Controllers)
    BY <1>1, GroupAssumption
  <2>2. [pc |-> "wait", seen |-> 0, job |-> 0, error |-> FALSE] \in Threads
    BY <2>1 DEF Threads
  <2>3. worker \in [Controllers -> Threads]
    BY <2>2 DEF Init, Threads
  <2>4. batches \in [Kinds -> [Controllers -> 0..(MaxGeneration + 1)]]
    BY <2>1 DEF Init
  <2>5. QED
    BY <2>1, <2>3, <2>4 DEF Init, TypeOK, Kinds, Threads
<1>3. ~Awaiting
  BY DEF Awaiting, Init
<1>4. QED
  BY <1>2, <1>3, GroupAssumption
     DEF GroupInv, Init, OneCall, Counted, Rests, Unseen, Leaving, Locked, Current

-----------------------------------------------------------------------------
(* The theorems *)

LEMMA GroupInvariant == Spec => []GroupInv
  BY GroupInit, GroupStep, PTL DEF Spec

\* For any controllers and calling threads, a transmit thread of worker_loop
\* writes frames only while the dispatch it took them from waits for it and
\* its port is open, and never those of a rejected batch.
THEOREM FramesInside == Spec => []FramesInsideCall
<1>1. GroupInv => FramesInsideCall
  <2> SUFFICES ASSUME GroupInv, NEW c \in Controllers, worker[c].pc = "frames"
               PROVE  /\ \E k \in Callers : caller[k] = "await"
                      /\ worker[c].job \in {0, generation}
                      /\ ~bus_closed[c]
    BY DEF FramesInsideCall
  <2>1. Awaiting
    BY BusyIsAwaited
  <2>2. QED
    BY <2>1 DEF Awaiting, GroupInv, Current, Locked
<1>2. QED
  BY <1>1, GroupInvariant, PTL

-----------------------------------------------------------------------------
(* The barrier *)

\* BatchSend's view of the shares.
Part == [c \in Controllers |-> IF Awaiting THEN PartOf(c) ELSE "none"]

\* A step that keeps the view of every share is a stutter of BatchSend.
LEMMA SameView ==
  ASSUME Awaiting' = Awaiting, UNCHANGED result,
         \A c \in Controllers : Awaiting => PartOf(c)' = PartOf(c)
  PROVE  UNCHANGED Barrier!vars
<1>1. Part' = Part
  BY DEF Part
<1>2. QED
  BY <1>1 DEF Part, Barrier!vars

\* A transmit thread's step changes no other share.
LEMMA OtherShares ==
  ASSUME GroupInv, NEW c \in Controllers, Works(c),
         NEW d \in Controllers, d # c
  PROVE  PartOf(d)' = PartOf(d)
<1>1. errors'[d] = errors[d]
  BY DEF Works, Take, Lock, Frames, Report, Exit, GroupInv, TypeOK
<1>2. QED
  BY <1>1, WorkerLocal DEF PartOf

\* Publish starts the abstract dispatch.
LEMMA PublishBegins ==
  ASSUME GroupInv, NEW k \in Callers, Publish(k)
  PROVE  Barrier!Begin
<1>1. caller[k] = "dispatch"
  BY DEF Publish
<1>2. ~Awaiting
  BY <1>1, DispatchAlone
<1>3. Awaiting'
  BY DEF GroupInv, TypeOK, Publish, Awaiting
<1>4. \A c \in Controllers : PartOf(c)' = "todo"
  <2>1. \A c \in Controllers : worker[c].seen # generation + 1
    BY <1>1, DispatchAlone DEF GroupInv, TypeOK
  <2>2. QED
    BY <2>1 DEF Publish, PartOf
<1>5. Part' = [c \in Controllers |-> "todo"]
  BY <1>3, <1>4 DEF Part
<1>6. UNCHANGED result
  BY DEF Publish
<1>7. QED
  BY <1>2, <1>3, <1>5, <1>6 DEF Barrier!Begin, Part

\* Collect ends it: every share is done, and errors says how.
LEMMA CollectEnds ==
  ASSUME GroupInv, NEW k \in Callers, Collect(k)
  PROVE  Barrier!End
<1>1. Awaiting
  BY CollectFindsAllDone
<1>2. ~Awaiting'
  BY CollectFindsAllDone DEF GroupInv, TypeOK, Collect, Awaiting
<1>3. \A c \in Controllers : PartOf(c) = IF errors[c] THEN "failed" ELSE "sent"
  BY CollectFindsAllDone DEF PartOf
<1>4. \A c \in Controllers : Part[c] # "todo" /\ (Part[c] = "sent" <=> ~errors[c])
  BY <1>1, <1>3 DEF Part
<1>5. result' = (\A c \in Controllers : Part[c] = "sent")
  <2>1. (\A c \in Controllers : ~errors[c]) = (\A c \in Controllers : Part[c] = "sent")
    BY <1>4
  <2>2. result' = (\A c \in Controllers : ~errors[c])
    BY DEF Collect
  <2>3. QED
    BY <2>1, <2>2
<1>6. Part' = [c \in Controllers |-> "none"]
  BY <1>2 DEF Part
<1>7. QED
  BY <1>1, <1>2, <1>4, <1>5, <1>6 DEF Barrier!End, Part

\* A share is done when its outcome is known: the port was found closed, or
\* the frames were written.
LEMMA ShareStep ==
  ASSUME GroupInv, NEW c \in Controllers, Works(c),
         worker[c].pc \in {"batch", "frames"}, worker'[c].pc = "report"
  PROVE  Barrier!Share(c)
<1>1. Awaiting /\ Awaiting' /\ worker[c].seen = generation
  BY BusyIsAwaited, WorkerLocal
<1>2. PartOf(c) = "todo"
  BY DEF PartOf
<1>3. worker'[c].seen = generation'
  BY <1>1, WorkerOwn, WorkerLocal DEF Works, Take, Report, Exit
<1>4. PartOf(c)' \in {"sent", "failed"}
  BY <1>3 DEF PartOf
<1>5. Part' = [Part EXCEPT ![c] = PartOf(c)']
  BY <1>1, OtherShares DEF Part
<1>6. UNCHANGED result
  BY WorkerLocal
<1>7. QED
  BY <1>1, <1>2, <1>4, <1>5, <1>6 DEF Barrier!Share, Part

\* Taking a share, locking an open port, reporting and leaving are inside.
LEMMA WorkerImplements ==
  ASSUME GroupInv, NEW c \in Controllers, Works(c)
  PROVE  Barrier!Share(c) \/ UNCHANGED Barrier!vars
<1>1. CASE worker[c].pc \in {"batch", "frames"} /\ worker'[c].pc = "report"
  BY <1>1, ShareStep
<1>2. CASE ~(worker[c].pc \in {"batch", "frames"} /\ worker'[c].pc = "report")
  <2>1. PartOf(c)' = PartOf(c)
    <3>1. CASE Take(c)
      BY <3>1, WorkerOwn DEF Take, PartOf
    <3>2. CASE Lock(c) \/ Frames(c)
      BY <1>2, <3>2, WorkerOwn DEF Lock, Frames, PartOf
    <3>3. CASE Report(c)
      <4>1. errors'[c] = worker[c].error
        BY <3>3 DEF Report, GroupInv, TypeOK
      <4>2. worker[c].seen = generation
        BY <3>3, BusyIsAwaited DEF Report
      <4>3. QED
        BY <3>3, <4>1, <4>2, WorkerOwn, WorkerLocal DEF Report, PartOf
    <3>4. CASE Exit(c)
      BY <3>4, WorkerOwn, WorkerLocal DEF Exit, PartOf
    <3>5. QED
      BY <3>1, <3>2, <3>3, <3>4 DEF Works
  <2>2. QED
    BY <2>1, OtherShares, SameView, WorkerLocal
<1>3. QED
  BY <1>1, <1>2

LEMMA StepImplements == GroupInv /\ [Next]_vars => [Barrier!Next]_(Barrier!vars)
<1> SUFFICES ASSUME GroupInv, [Next]_vars
             PROVE  Barrier!Next \/ UNCHANGED Barrier!vars
  OBVIOUS
<1>1. ASSUME NEW k \in Callers, Enter(k)
      PROVE  UNCHANGED Barrier!vars
  <2>1. Awaiting' = Awaiting
    BY <1>1 DEF GroupInv, TypeOK, Enter, Awaiting
  <2>2. \A c \in Controllers : PartOf(c)' = PartOf(c)
    BY <1>1 DEF Enter, PartOf
  <2>3. QED
    BY <1>1, <2>1, <2>2, SameView DEF Enter
<1>2. ASSUME NEW k \in Callers, Reject(k)
      PROVE  UNCHANGED Barrier!vars
  <2>1. ~Awaiting
    BY <1>2, DispatchAlone DEF Reject
  <2>2. ~Awaiting'
    BY <1>2, DispatchAlone DEF GroupInv, TypeOK, Reject, Awaiting
  <2>3. Awaiting' = Awaiting
    BY <2>1, <2>2 DEF Awaiting
  <2>4. QED
    BY <1>2, <2>1, <2>3, SameView DEF Reject
<1>3. ASSUME NEW k \in Callers, Publish(k) \/ Collect(k)
      PROVE  Barrier!Next
  BY <1>3, PublishBegins, CollectEnds DEF Barrier!Next
<1>4. ASSUME NEW c \in Controllers, Works(c)
      PROVE  Barrier!Next \/ UNCHANGED Barrier!vars
  BY <1>4, WorkerImplements DEF Barrier!Next
<1>5. ASSUME \/ \E c \in Controllers : CloseBegin(c) \/ CloseEnd(c)
             \/ Stop \/ Terminated \/ UNCHANGED vars
      PROVE  UNCHANGED Barrier!vars
  <2>1. UNCHANGED <<caller, generation, errors, worker, result>>
    BY <1>5 DEF CloseBegin, CloseEnd, Stop, Terminated, vars
  <2>2. Awaiting' = Awaiting /\ \A c \in Controllers : PartOf(c)' = PartOf(c)
    BY <2>1 DEF Awaiting, PartOf
  <2>3. QED
    BY <2>1, <2>2, SameView
<1>6. QED
  BY <1>1, <1>2, <1>3, <1>4, <1>5 DEF Next, Calls

\* The mutexes, the generation number and the completion count of
\* ControllerGroup implement the barrier for any number of controllers: every
\* transmit thread does its share of each dispatch once, and send_mit and
\* send_pos_vel report exactly the errors of their own dispatch.
THEOREM GroupIsBarrier == Spec => ImplementsBarrier
<1>1. Init => Barrier!Init
  <2> SUFFICES ASSUME Init PROVE Barrier!Init
    OBVIOUS
  <2>1. ~Awaiting
    BY DEF Init, Awaiting
  <2>2. Part = [c \in Controllers |-> "none"]
    BY <2>1 DEF Part
  <2>3. QED
    BY <2>1, <2>2 DEF Init, Barrier!Init, Part
<1>2. QED
  BY <1>1, GroupInvariant, StepImplements, PTL
     DEF Spec, ImplementsBarrier, Barrier!Spec

=============================================================================
