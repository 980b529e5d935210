----------------------- MODULE GravityControlProofs -----------------------
(***************************************************************************)
(* Theorems about GravityControl for any joint range and any length of the *)
(* transition: a follow owns the arm's target and stays inside the limits, *)
(* and the gravity scale never jumps.                                      *)
(***************************************************************************)
EXTENDS GravityControl, TLAPS

Phases == {"INACTIVE", "ENTERING", "ACTIVE", "EXITING"}
Gravities ==
  [phase : Phases, start : 0..Transition, age : 0..Transition, active : BOOLEAN]
Follows ==
  [active : BOOLEAN, leader0 : Positions, follower0 : Positions, ref : Positions]
Mailboxes == [kind : {"none", "joint", "raw"}, leader : Positions]
Workers == [pc : {"idle", "gravity", "arm"}, gravity : Gravities,
            follow : Follows, gap : 0..Transition]

-----------------------------------------------------------------------------
(* The inductive invariant of the follow *)

Types ==
  /\ run \in {"ENABLED", "PARTIAL", "STOPPED", "READY"}
  /\ transition \in BOOLEAN /\ arms \in BOOLEAN
  /\ gravity \in Gravities /\ follow \in Follows
  /\ mailbox \in Mailboxes /\ pending \in BOOLEAN
  /\ arm \in [leader : Positions, follower : Positions]
  /\ worker \in Workers
  /\ scale \in 0..Full /\ since \in 0..Transition

\* A follow that is on has an ordinary target and no frame waiting; one that
\* is off holds nothing.
OwnTarget ==
  IF follow.active THEN mailbox.kind = "joint" /\ ~pending ELSE follow = NoFollow

\* The two modes exclude each other, the worker's copies included: while the
\* worker holds command_mutex_ a follow can end but not begin.
Exclusive ==
  /\ follow.active => gravity.phase = "INACTIVE" /\ worker.pc # "gravity"
  /\ worker.pc = "arm" /\ follow.active => worker.follow = follow

FollowInv == Types /\ OwnTarget /\ Exclusive

-----------------------------------------------------------------------------
(* Types are kept *)

LEMMA Ranges ==
  /\ Transition \in Nat /\ Transition > 0 /\ Limit \in Nat
  /\ 0 \in 0..Transition /\ Transition \in 0..Transition
  /\ 0 \in Positions /\ Full \in Nat /\ 0 \in 0..Full
<1>1. Transition \in Nat /\ Transition > 0 /\ Limit \in Nat
  BY GravityAssumption
<1>2. Transition * Transition \in Nat
  BY <1>1
<1>3. QED
  BY <1>1, <1>2 DEF Positions, Full

LEMMA ConstantTypes ==
  /\ NoGravity \in Gravities /\ NoFollow \in Follows /\ NoMailbox \in Mailboxes
  /\ IdleWorker \in Workers
<1>1. NoGravity \in Gravities
  BY Ranges DEF NoGravity, Gravities, Phases
<1>2. NoFollow \in Follows
  BY Ranges DEF NoFollow, Follows
<1>3. NoMailbox \in Mailboxes
  BY Ranges DEF NoMailbox, Mailboxes
<1>4. QED
  BY <1>1, <1>2, <1>3, Ranges DEF IdleWorker, Workers

LEMMA ResetType ==
  ASSUME Types, Reset
  PROVE  gravity' \in Gravities /\ follow' \in Follows
  BY ConstantTypes DEF Types, Reset, Gravities, Phases

LEMMA CallerTypes ==
  ASSUME Types, \/ StartGravity \/ StopGravity \/ SetTarget \/ SubmitRaw
                \/ StartFollow \/ StopFollow
  PROVE  Types'
<1> USE DEF Types
<1>1. CASE StartGravity
  <2>1. gravity' \in Gravities
    BY <1>1, Ranges DEF StartGravity, Gravities, Phases
  <2>2. QED
    BY <1>1, <2>1, ConstantTypes, Ranges DEF StartGravity
<1>2. CASE StopGravity
  <2>1. ExitStart \in 0..Transition
    BY Ranges DEF ExitStart, Gravities
  <2>2. gravity' \in Gravities
    BY <1>2, <2>1, Ranges DEF StopGravity, Gravities, Phases
  <2>3. QED
    BY <1>2, <2>2 DEF StopGravity, frames
<1>3. CASE SetTarget
  <2>1. mailbox' \in Mailboxes
    BY <1>3 DEF SetTarget, Mailboxes
  <2>2. QED
    BY <1>3, <2>1 DEF SetTarget, frames
<1>4. CASE SubmitRaw
  BY <1>4 DEF SubmitRaw, frames
<1>5. CASE StartFollow
  <2>1. follow' \in Follows
    BY <1>5 DEF StartFollow, Follows
  <2>2. QED
    BY <1>5, <2>1 DEF StartFollow, PendingCleared, frames
<1>6. CASE StopFollow
  <2>1. mailbox' \in Mailboxes
    BY <1>6 DEF StopFollow, Mailboxes
  <2>2. QED
    BY <1>6, <2>1, ConstantTypes DEF StopFollow, frames
<1>7. QED
  BY <1>1, <1>2, <1>3, <1>4, <1>5, <1>6

LEMMA ResetTypes ==
  ASSUME Types, BatchDisable \/ BatchDone \/ Stop \/ Restart
  PROVE  Types'
<1>1. CASE BatchDisable
  BY <1>1, ResetType DEF Types, BatchDisable, frames
<1>2. CASE BatchDone
  BY <1>2 DEF Types, BatchDone, frames
<1>3. CASE Stop
  BY <1>3, ResetType, ConstantTypes DEF Types, Stop, Stopped, frames
<1>4. CASE Restart
  <2>1. mailbox' \in Mailboxes
    BY <1>4 DEF Types, Restart, Mailboxes
  <2>2. QED
    BY <1>4, <2>1, ConstantTypes DEF Types, Restart, frames
<1>5. QED
  BY <1>1, <1>2, <1>3, <1>4

\* A product of two numbers up to the transition's length is a scale.
LEMMA ScaleRange ==
  ASSUME NEW a \in 0..Transition, NEW b \in 0..Transition
  PROVE  a * b \in 0..Full
<1>1. a \in Nat /\ b \in Nat /\ Transition \in Nat /\ a <= Transition
      /\ b <= Transition
  BY Ranges
<1>2. a * b \in Nat /\ a * b <= Transition * Transition
  BY <1>1
<1>3. QED
  BY <1>1, <1>2 DEF Full

LEMMA ScaleType ==
  ASSUME NEW g \in Gravities
  PROVE  Scale(g) \in 0..Full
<1>1. /\ g.age \in 0..Transition /\ g.start \in 0..Transition
      /\ Transition - g.age \in 0..Transition
  BY Ranges DEF Gravities
<1>2. g.age * Transition \in 0..Full
  BY <1>1, ScaleRange, Ranges
<1>3. g.start * (Transition - g.age) \in 0..Full
  BY <1>1, ScaleRange
<1>4. Full \in 0..Full
  BY Ranges
<1>5. QED
  BY <1>2, <1>3, <1>4 DEF Scale

LEMMA CommitType ==
  ASSUME NEW g \in Gravities, NEW now \in Gravities
  PROVE  GravityCommit(g, now) \in Gravities
  BY DEF GravityCommit, Gravities, Phases

\* The follower's reference moves towards a target inside the limits.
LEMMA RefInLimits ==
  ASSUME NEW old \in Positions, NEW desired \in Positions,
         NEW ref \in (old - 1) .. (old + 1),
         Distant(ref, desired) <= Distant(old, desired)
  PROVE  ref \in Positions
  BY Ranges DEF Positions, Distant

LEMMA WorkerTypes ==
  ASSUME Types,
         GravityBegin \/ ArmBegin \/ GravitySend \/ ArmSend \/ MissedFrame
  PROVE  Types'
<1>1. CASE GravityBegin
  <2>1. worker' \in Workers
    BY <1>1 DEF GravityBegin, Types, Workers
  <2>2. QED
    BY <1>1, <2>1, Ranges DEF Types, GravityBegin
<1>2. CASE ArmBegin
  <2>1. worker' \in Workers
    BY <1>2, ConstantTypes DEF Types, ArmBegin, Workers, IdleWorker
  <2>2. QED
    BY <1>2, <2>1 DEF Types, ArmBegin, frames
<1>3. CASE GravitySend
  <2>1. CASE ~arms /\ Stopped
    BY <1>3, <2>1, ConstantTypes, ResetType DEF Types, GravitySend, Stopped, frames
  <2>2. CASE ~(~arms /\ Stopped)
    <3>1. worker.gravity \in Gravities
      BY DEF Types, Workers
    <3>2. scale' \in 0..Full /\ gravity' \in Gravities
      BY <1>3, <2>2, <3>1, ScaleType, CommitType DEF Types, GravitySend
    <3>3. mailbox' \in Mailboxes
      BY <1>3, <2>2, Ranges DEF Types, GravitySend, Mailboxes
    <3>4. QED
      BY <1>3, <2>2, <3>2, <3>3, ConstantTypes DEF Types, GravitySend
  <2>3. QED
    BY <2>1, <2>2
<1>4. CASE ArmSend
  <2> DEFINE f == worker.follow
             kind == IF pending THEN "raw" ELSE mailbox.kind
             desired == f.follower0 + (mailbox.leader - f.leader0)
             fails == f.active /\ (~arms \/ kind # "joint" \/ ~InLimits(desired))
  <2>0. f \in Follows
    BY DEF Types, Workers
  <2>1. CASE fails /\ Stopped
    BY <1>4, <2>1, ConstantTypes, ResetType DEF Types, ArmSend, Stopped, frames
  <2>2. CASE ~(fails /\ Stopped)
    <3>1. /\ ~fails
          /\ mailbox' = [mailbox EXCEPT !.kind = kind] /\ pending' = FALSE
          /\ UNCHANGED <<run, transition, arms, gravity, arm, frames>>
          /\ worker' = IdleWorker
          /\ f.active => \E ref \in (f.ref - 1) .. (f.ref + 1) :
                           /\ Distant(ref, desired) <= Distant(f.ref, desired)
                           /\ follow' = FollowCommit(ref)
          /\ ~f.active => follow' = follow
      BY <1>4, <2>2 DEF ArmSend
    <3>2. mailbox' \in Mailboxes
      BY <3>1 DEF Types, Mailboxes
    <3>3. follow' \in Follows
      <4>1. CASE f.active
        <5>1. PICK ref \in (f.ref - 1) .. (f.ref + 1) :
                     /\ Distant(ref, desired) <= Distant(f.ref, desired)
                     /\ follow' = FollowCommit(ref)
          BY <3>1, <4>1
        <5>2. desired \in Positions /\ f.ref \in Positions
          BY <2>0, <3>1, <4>1 DEF InLimits, Follows
        <5>3. ref \in Positions
          BY <5>1, <5>2, RefInLimits
        <5> HIDE DEF f, desired
        <5>4. QED
          BY <5>1, <5>3 DEF FollowCommit, Follows, Types
      <4>2. CASE ~f.active
        BY <3>1, <4>2 DEF Types
      <4>3. QED
        BY <4>1, <4>2
    <3>4. QED
      BY <3>1, <3>2, <3>3, ConstantTypes DEF Types, frames
  <2>3. QED
    BY <2>1, <2>2
<1>5. CASE MissedFrame
  <2>1. since' \in 0..Transition
    <3>1. worker.gap \in 0..Transition
      BY DEF Types, Workers
    <3>2. QED
      BY <1>5, <3>1, Ranges DEF Types, MissedFrame, Least
  <2>2. QED
    BY <1>5, <2>1, ConstantTypes DEF Types, MissedFrame
<1>6. QED
  BY <1>1, <1>2, <1>3, <1>4, <1>5

LEMMA WorldTypes ==
  ASSUME Types, Tick \/ Move \/ UNCHANGED vars
  PROVE  Types'
<1>1. CASE Tick
  <2>1. gravity' \in Gravities
    BY <1>1, Ranges DEF Tick, Types, Gravities, Least
  <2>2. since' \in 0..Transition
    BY <1>1, Ranges DEF Tick, Types
  <2>3. QED
    BY <1>1, <2>1, <2>2 DEF Tick, Types
<1>2. CASE Move
  BY <1>2 DEF Move, Types, frames
<1>3. CASE UNCHANGED vars
  BY <1>3 DEF vars, Types
<1>4. QED
  BY <1>1, <1>2, <1>3

LEMMA TypesInit == Init => Types
<1> SUFFICES ASSUME Init PROVE Types
  OBVIOUS
<1>1. mailbox \in Mailboxes /\ arm \in [leader : Positions, follower : Positions]
  BY Ranges DEF Init, Mailboxes
<1>2. QED
  BY <1>1, ConstantTypes, Ranges DEF Init, Types

LEMMA TypesStep == Types /\ [Next]_vars => Types'
  BY CallerTypes, ResetTypes, WorkerTypes, WorldTypes DEF Next

-----------------------------------------------------------------------------
(* A follow owns the target *)

LEMMA CallerFollow ==
  ASSUME FollowInv, \/ StartGravity \/ StopGravity \/ SetTarget \/ SubmitRaw
                    \/ StartFollow \/ StopFollow
  PROVE  (OwnTarget /\ Exclusive)'
<1> USE DEF FollowInv, OwnTarget, Exclusive, CommandFree
<1>1. CASE StartGravity
  BY <1>1 DEF StartGravity, NoFollow
<1>2. CASE StopGravity
  BY <1>2 DEF StopGravity
<1>3. CASE SetTarget
  BY <1>3 DEF SetTarget
<1>4. CASE SubmitRaw
  BY <1>4 DEF SubmitRaw
<1>5. CASE StartFollow
  BY <1>5 DEF StartFollow, PendingCleared
<1>6. CASE StopFollow
  BY <1>6 DEF StopFollow, NoFollow
<1>7. QED
  BY <1>1, <1>2, <1>3, <1>4, <1>5, <1>6

LEMMA ResetFollow ==
  ASSUME FollowInv, BatchDisable \/ BatchDone \/ Stop \/ Restart
  PROVE  (OwnTarget /\ Exclusive)'
<1>1. CASE BatchDone
  BY <1>1 DEF FollowInv, OwnTarget, Exclusive, BatchDone
<1>2. CASE BatchDisable \/ Stop \/ Restart
  <2>1. follow' = NoFollow
    BY <1>2 DEF BatchDisable, Stop, Stopped, Restart, Reset
  <2>2. QED
    BY <2>1 DEF OwnTarget, Exclusive, NoFollow
<1>3. QED
  BY <1>1, <1>2

LEMMA WorkerFollow ==
  ASSUME FollowInv,
         GravityBegin \/ ArmBegin \/ GravitySend \/ ArmSend \/ MissedFrame
  PROVE  (OwnTarget /\ Exclusive)'
<1>1. CASE GravityBegin
  BY <1>1 DEF FollowInv, OwnTarget, Exclusive, GravityBegin
<1>2. CASE ArmBegin
  BY <1>2 DEF FollowInv, OwnTarget, Exclusive, ArmBegin, IdleWorker
<1>3. CASE GravitySend
  <2>1. CASE Stopped
    BY <2>1 DEF Stopped, Reset, OwnTarget, Exclusive, NoFollow
  <2>2. CASE ~Stopped
    <3>1. ~follow.active /\ follow' = follow
      BY <1>3, <2>2 DEF FollowInv, Exclusive, GravitySend
    <3>2. QED
      BY <3>1 DEF FollowInv, OwnTarget, Exclusive
  <2>3. QED
    BY <2>1, <2>2
<1>4. CASE ArmSend
  <2>1. CASE Stopped
    BY <2>1 DEF Stopped, Reset, OwnTarget, Exclusive, NoFollow
  <2>2. CASE ~Stopped
    <3>1. /\ worker.pc = "arm" /\ worker'.pc = "idle" /\ gravity' = gravity
          /\ pending' = FALSE
          /\ mailbox' = [mailbox EXCEPT !.kind = IF pending THEN "raw" ELSE @]
          /\ worker.follow.active \/ follow' = follow
      BY <1>4, <2>2 DEF ArmSend, IdleWorker
    <3>2. CASE follow.active
      <4>1. worker.follow.active /\ mailbox.kind = "joint" /\ ~pending
        BY <3>1, <3>2 DEF FollowInv, OwnTarget, Exclusive
      <4>2. PICK ref \in (worker.follow.ref - 1) .. (worker.follow.ref + 1) :
                   follow' = FollowCommit(ref)
        BY <1>4, <2>2, <4>1 DEF ArmSend
      <4>3. follow' = [follow EXCEPT !.ref = ref]
        BY <3>2, <4>2 DEF FollowCommit
      <4>4. follow'.active
        BY <3>2, <4>3 DEF FollowInv, Types, Follows
      <4>5. mailbox'.kind = "joint"
        BY <3>1, <4>1 DEF FollowInv, Types, Mailboxes
      <4>6. QED
        BY <3>1, <3>2, <4>4, <4>5 DEF FollowInv, OwnTarget, Exclusive
    <3>3. CASE ~follow.active
      <4>1. follow' = follow
        BY <1>4, <2>2, <3>1, <3>3 DEF ArmSend, FollowCommit
      <4>2. QED
        BY <3>1, <3>3, <4>1 DEF FollowInv, OwnTarget, Exclusive
    <3>4. QED
      BY <3>2, <3>3
  <2>3. QED
    BY <2>1, <2>2
<1>5. CASE MissedFrame
  BY <1>5 DEF FollowInv, OwnTarget, Exclusive, MissedFrame, IdleWorker
<1>6. QED
  BY <1>1, <1>2, <1>3, <1>4, <1>5

LEMMA WorldFollow ==
  ASSUME FollowInv, Tick \/ Move \/ UNCHANGED vars
  PROVE  (OwnTarget /\ Exclusive)'
<1>1. /\ UNCHANGED <<follow, mailbox, pending, worker>>
      /\ follow.active => gravity' = gravity
  BY DEF FollowInv, Exclusive, Tick, Move, vars
<1>2. QED
  BY <1>1 DEF FollowInv, OwnTarget, Exclusive

LEMMA FollowInit == Init => FollowInv
  BY TypesInit DEF Init, FollowInv, OwnTarget, Exclusive, NoFollow, IdleWorker

LEMMA FollowStep == FollowInv /\ [Next]_vars => FollowInv'
  BY TypesStep, CallerFollow, ResetFollow, WorkerFollow, WorldFollow
     DEF Next, FollowInv

\* The steps of the specification, without its fairness.
LEMMA SafetyPart == Spec => Init /\ [][Next]_vars
  BY PTL DEF Spec

LEMMA FollowInvariant == Spec => []FollowInv
  BY FollowInit, FollowStep, SafetyPart, PTL

\* In every state, for any joint range: while bimanual follow is on, the frame
\* run_arm_control_cycle works from is an ordinary target and no raw frame
\* waits; a follow switched off in the middle of a cycle holds nothing; and
\* the follower's reference is inside its joint limits.
THEOREM FollowOwned == Spec => []FollowOwnsTarget
<1>1. FollowInv => FollowOwnsTarget
  <2> SUFFICES ASSUME FollowInv PROVE FollowOwnsTarget
    OBVIOUS
  <2>1. TypeOK
    BY DEF FollowInv, Types, TypeOK, Gravities, Phases, Follows, Mailboxes
  <2>2. QED
    BY <2>1 DEF FollowInv, OwnTarget, FollowOwnsTarget
<1>2. QED
  BY <1>1, FollowInvariant, PTL

-----------------------------------------------------------------------------
(* The inductive invariant of the scale *)

Near(a, b, d) == Distant(a, b) <= d

\* Between cycles: the next frame would be near the last one.  In a cycle:
\* the frame to come is near the last one, the phase is the copy's or was
\* reset, and as time goes on it stays near the frame to come.
ScaleNear ==
  /\ worker.pc # "gravity" /\ gravity.phase # "INACTIVE" =>
       Near(Scale(gravity), scale, since * Transition)
  /\ worker.pc = "gravity" =>
       /\ Near(Scale(worker.gravity), scale, worker.gap * Transition)
       /\ worker.gravity.phase # "INACTIVE"
       /\ gravity.phase # "INACTIVE" =>
            /\ gravity.phase = worker.gravity.phase
            /\ gravity.start = worker.gravity.start
            /\ gravity.age = Least(worker.gravity.age + since, Transition)

ScaleInv == FollowInv /\ ScaleNear

LEMMA NearSelf ==
  ASSUME NEW a \in 0..Full, NEW d \in Nat
  PROVE  Near(a, a, d)
  BY Ranges DEF Near, Distant

LEMMA NearSum ==
  ASSUME NEW a \in 0..Full, NEW b \in 0..Full, NEW c \in 0..Full,
         NEW d \in Nat, NEW e \in Nat, Near(a, b, d), Near(b, c, e)
  PROVE  Near(a, c, d + e)
  BY Ranges DEF Near, Distant

\* After n ticks in the same phase the scale is n steps further at most.
LEMMA ScaleAdvances ==
  ASSUME NEW g \in Gravities, NEW h \in Gravities, NEW n \in 0..Transition,
         h.phase = g.phase, h.start = g.start,
         h.age = Least(g.age + n, Transition)
  PROVE  Near(Scale(h), Scale(g), n * Transition)
<1> DEFINE d == h.age - g.age
<1>1. /\ g.age \in Nat /\ h.age \in Nat /\ g.start \in Nat
      /\ g.start <= Transition /\ g.age <= h.age /\ h.age <= Transition
      /\ d \in Nat /\ d <= n /\ n \in Nat /\ Transition \in Nat
  BY Ranges DEF Gravities, Least
<1>2. n * Transition \in Nat
  BY <1>1
<1>3. CASE g.phase = "ACTIVE"
  <2>1. Scale(h) = Full /\ Scale(g) = Full
    BY <1>3 DEF Scale
  <2>2. QED
    BY <1>2, <2>1, NearSelf, ScaleType
<1>4. CASE g.phase = "ENTERING"
  <2>1. Scale(h) = h.age * Transition /\ Scale(g) = g.age * Transition
    BY <1>4 DEF Scale
  <2>2. h.age * Transition = g.age * Transition + d * Transition
    BY <1>1
  <2>3. d * Transition <= n * Transition /\ d * Transition \in Nat
    BY <1>1
  <2>4. g.age * Transition \in Nat
    BY <1>1
  <2>5. QED
    BY <1>2, <2>1, <2>2, <2>3, <2>4 DEF Near, Distant
<1>5. CASE g.phase \notin {"ACTIVE", "ENTERING"}
  <2>1. /\ Scale(h) = h.start * (Transition - h.age)
        /\ Scale(g) = h.start * (Transition - g.age)
    BY <1>5 DEF Scale
  <2>2. h.start * (Transition - g.age) = h.start * (Transition - h.age) + h.start * d
    BY <1>1
  <2>3. h.start * d <= Transition * n /\ h.start * d \in Nat
    BY <1>1
  <2>4. h.start * (Transition - h.age) \in Nat
    BY <1>1
  <2>5. QED
    BY <1>1, <1>2, <2>1, <2>2, <2>3, <2>4 DEF Near, Distant
<1>6. QED
  BY <1>3, <1>4, <1>5

\* The exit starts at the scale that was reached.
LEMMA StopKeepsScale ==
  ASSUME "restop" \notin Inputs, Types, StopGravity
  PROVE  Scale(gravity') = Scale(gravity)
<1>1. gravity.phase \in {"ENTERING", "ACTIVE"}
  BY DEF StopGravity, Types, Gravities, Phases
<1>2. gravity'.phase = "EXITING" /\ gravity'.start = ExitStart /\ gravity'.age = 0
  BY DEF StopGravity
<1>3. Scale(gravity') = ExitStart * (Transition - 0)
  BY <1>2 DEF Scale
<1>4. ExitStart \in Nat /\ Transition \in Nat
  BY Ranges DEF ExitStart, Types, Gravities
<1>5. ExitStart * (Transition - 0) = ExitStart * Transition
  BY <1>4
<1>6. Scale(gravity) = ExitStart * Transition
  BY <1>1, Ranges DEF Scale, ExitStart, Full
<1>7. QED
  BY <1>3, <1>5, <1>6

LEMMA CallerScale ==
  ASSUME "restop" \notin Inputs, ScaleInv, StartGravity \/ StopGravity
  PROVE  ScaleNear'
<1>1. worker.pc = "idle" /\ worker' = worker
  BY DEF StartGravity, StopGravity, CommandFree
<1>2. CASE StartGravity
  <2>1. Scale(gravity') = 0 * Transition
    BY <1>2 DEF StartGravity, Scale
  <2>2. 0 * Transition = 0
    BY Ranges
  <2>3. scale' = 0 /\ since' * Transition = 0
    BY <1>2, <2>2 DEF StartGravity
  <2>4. QED
    BY <1>1, <2>1, <2>2, <2>3, Ranges, NearSelf DEF ScaleNear
<1>3. CASE StopGravity
  <2>1. Scale(gravity') = Scale(gravity)
    BY <1>3, StopKeepsScale DEF ScaleInv, FollowInv
  <2>2. scale' = scale /\ since' = since /\ gravity.phase # "INACTIVE"
    BY <1>3 DEF StopGravity, frames
  <2>3. QED
    BY <1>1, <2>1, <2>2 DEF ScaleInv, ScaleNear
<1>4. QED
  BY <1>2, <1>3

\* A reset leaves no scale to come, except the one of a cycle under way.
LEMMA ResetScale ==
  ASSUME ScaleInv, gravity'.phase = "INACTIVE", scale' = scale,
         worker' = worker \/ worker'.pc # "gravity"
  PROVE  ScaleNear'
  BY DEF ScaleInv, ScaleNear

LEMMA SameScale ==
  ASSUME ScaleInv, gravity' = gravity, scale' = scale, since' = since,
         worker' = worker \/ (worker.pc # "gravity" /\ worker'.pc # "gravity")
  PROVE  ScaleNear'
  BY DEF ScaleInv, ScaleNear

LEMMA BeginScale ==
  ASSUME ScaleInv, GravityBegin
  PROVE  ScaleNear'
<1>1. /\ worker.pc = "idle" /\ gravity.phase # "INACTIVE" /\ gravity' = gravity
      /\ worker'.gravity = gravity /\ worker'.gap = since /\ since' = 0
      /\ scale' = scale /\ worker'.pc = "gravity"
  BY DEF GravityBegin, Working
<1>2. gravity.age = Least(gravity.age + 0, Transition)
  BY Ranges DEF ScaleInv, FollowInv, Types, Gravities, Least
<1>3. QED
  BY <1>1, <1>2 DEF ScaleInv, ScaleNear

\* What a cycle committed is near the frame it sent.
LEMMA SendScale ==
  ASSUME ScaleInv, GravitySend, ~Stopped
  PROVE  ScaleNear'
<1> DEFINE g == worker.gravity
<1>1. /\ worker.pc = "gravity" /\ worker'.pc = "idle"
      /\ scale' = Scale(g) /\ gravity' = GravityCommit(g, gravity)
      /\ since' = since
  BY DEF GravitySend, IdleWorker
<1>2. /\ g \in Gravities /\ gravity \in Gravities /\ since \in 0..Transition
      /\ g.phase # "INACTIVE"
  BY <1>1 DEF ScaleInv, FollowInv, Types, Workers, ScaleNear
<1>3. since * Transition \in Nat
  BY <1>2, Ranges
<1> SUFFICES ASSUME gravity'.phase # "INACTIVE"
             PROVE  Near(Scale(gravity'), Scale(g), since * Transition)
  BY <1>1 DEF ScaleNear
<1>4. CASE g.phase = "ENTERING" /\ g.age >= Transition
  <2>1. gravity'.phase = "ACTIVE"
    BY <1>1, <1>2, <1>4 DEF GravityCommit, Gravities
  <2>2. g.age = Transition
    BY <1>2, <1>4, Ranges DEF Gravities
  <2>3. Scale(gravity') = Full /\ Scale(g) = Full
    BY <1>4, <2>1, <2>2 DEF Scale, Full
  <2>4. QED
    BY <1>3, <2>3, NearSelf, Ranges
<1>5. CASE g.phase = "EXITING" /\ g.age >= Transition
  <2>1. gravity'.phase = "INACTIVE"
    BY <1>1, <1>2, <1>5 DEF GravityCommit, Gravities
  <2>2. QED
    BY <2>1
<1>6. CASE /\ ~(g.phase = "ENTERING" /\ g.age >= Transition)
           /\ ~(g.phase = "EXITING" /\ g.age >= Transition)
  <2>1. gravity' = gravity
    BY <1>1, <1>6 DEF GravityCommit
  <2>2. /\ gravity.phase = g.phase /\ gravity.start = g.start
        /\ gravity.age = Least(g.age + since, Transition)
    BY <1>1, <2>1 DEF ScaleInv, ScaleNear
  <2>3. QED
    BY <1>2, <2>1, <2>2, ScaleAdvances
<1>7. QED
  BY <1>4, <1>5, <1>6

\* A missed frame's time is added to that of the next one.
LEMMA MissedScale ==
  ASSUME ScaleInv, MissedFrame
  PROVE  ScaleNear'
<1> DEFINE g == worker.gravity
<1>1. /\ worker.pc = "gravity" /\ worker'.pc = "idle" /\ gravity' = gravity
      /\ scale' = scale /\ since' = Least(worker.gap + since, Transition)
  BY DEF MissedFrame, IdleWorker
<1>2. /\ g \in Gravities /\ gravity \in Gravities /\ since \in 0..Transition
      /\ worker.gap \in 0..Transition /\ scale \in 0..Full
  BY DEF ScaleInv, FollowInv, Types, Workers
<1> SUFFICES ASSUME gravity.phase # "INACTIVE"
             PROVE  Near(Scale(gravity), scale, since' * Transition)
  BY <1>1 DEF ScaleNear
<1>3. CASE worker.gap + since <= Transition
  <2>1. since' = since + worker.gap
    BY <1>1, <1>2, <1>3, Ranges DEF Least
  <2>2. Near(Scale(gravity), Scale(g), since * Transition)
    BY <1>1, <1>2, ScaleAdvances DEF ScaleInv, ScaleNear
  <2>3. Near(Scale(g), scale, worker.gap * Transition)
    BY <1>1 DEF ScaleInv, ScaleNear
  <2>4. since * Transition \in Nat /\ worker.gap * Transition \in Nat
    BY <1>2, Ranges
  <2>5. Near(Scale(gravity), scale, since * Transition + worker.gap * Transition)
    BY <1>2, <2>2, <2>3, <2>4, ScaleType, NearSum
  <2>6. since' * Transition = since * Transition + worker.gap * Transition
    BY <1>2, <2>1, Ranges
  <2>7. QED
    BY <2>5, <2>6
<1>4. CASE worker.gap + since > Transition
  <2>1. since' * Transition = Full
    BY <1>1, <1>2, <1>4, Ranges DEF Least, Full
  <2>2. Scale(gravity) \in 0..Full
    BY <1>2, ScaleType
  <2>3. QED
    BY <1>2, <2>1, <2>2, Ranges DEF Near, Distant
<1>5. QED
  BY <1>2, <1>3, <1>4, Ranges

LEMMA TickScale ==
  ASSUME ScaleInv, Tick
  PROVE  ScaleNear'
<1>1. /\ gravity.phase # "INACTIVE" /\ since < Transition /\ since' = since + 1
      /\ UNCHANGED <<worker, scale>>
  BY DEF Tick
<1>2. /\ gravity \in Gravities /\ since \in 0..Transition /\ scale \in 0..Full
      /\ gravity' \in Gravities /\ worker.gravity \in Gravities
  BY WorldTypes DEF ScaleInv, FollowInv, Types, Workers
<1>3. /\ gravity'.phase = gravity.phase /\ gravity'.start = gravity.start
      /\ gravity'.age = Least(gravity.age + 1, Transition)
  BY <1>2 DEF Tick, Gravities
<1>4. CASE worker.pc # "gravity"
  <2>1. 1 \in 0..Transition
    BY Ranges
  <2>2. Near(Scale(gravity'), Scale(gravity), 1 * Transition)
    BY <1>2, <1>3, <2>1, ScaleAdvances
  <2>3. Near(Scale(gravity), scale, since * Transition)
    BY <1>1, <1>4 DEF ScaleInv, ScaleNear
  <2>4. 1 * Transition \in Nat /\ since * Transition \in Nat
    BY <1>2, Ranges
  <2>5. Near(Scale(gravity'), scale, 1 * Transition + since * Transition)
    BY <1>2, <2>2, <2>3, <2>4, ScaleType, NearSum
  <2>6. since' * Transition = 1 * Transition + since * Transition
    BY <1>1, <1>2, Ranges
  <2>7. QED
    BY <1>1, <1>4, <2>5, <2>6 DEF ScaleNear
<1>5. CASE worker.pc = "gravity"
  <2>1. gravity.age = Least(worker.gravity.age + since, Transition)
    BY <1>1, <1>5 DEF ScaleInv, ScaleNear
  <2>2. worker.gravity.age \in Nat /\ since \in Nat /\ Transition \in Nat
    BY <1>2, Ranges DEF Gravities
  <2>3. gravity'.age = Least(worker.gravity.age + since', Transition)
    BY <1>1, <1>3, <2>1, <2>2 DEF Least
  <2>4. QED
    BY <1>1, <1>3, <1>5, <2>3 DEF ScaleInv, ScaleNear
<1>6. QED
  BY <1>4, <1>5

LEMMA ScaleStep ==
  ASSUME "restop" \notin Inputs, ScaleInv, [Next]_vars
  PROVE  ScaleInv'
<1>1. FollowInv'
  BY FollowStep DEF ScaleInv
<1>2. ScaleNear'
  <2>1. CASE StartGravity \/ StopGravity
    BY <2>1, CallerScale
  <2>2. CASE SetTarget \/ SubmitRaw \/ StartFollow \/ StopFollow \/ BatchDone
             \/ Move \/ UNCHANGED vars
    <3>1. /\ gravity' = gravity /\ scale' = scale /\ since' = since
          /\ worker' = worker
      BY <2>2 DEF SetTarget, SubmitRaw, StartFollow, StopFollow, BatchDone,
                  Move, vars, frames
    <3>2. QED
      BY <3>1, SameScale
  <2>3. CASE BatchDisable \/ Stop \/ Restart
    <3>1. gravity'.phase = "INACTIVE"
      <4>1. gravity \in Gravities
        BY DEF ScaleInv, FollowInv, Types
      <4>2. Reset => gravity'.phase = "INACTIVE"
        BY <4>1 DEF Reset, Gravities
      <4>3. QED
        BY <2>3, <4>2 DEF BatchDisable, Stop, Stopped, Restart, NoGravity
    <3>2. scale' = scale /\ worker' = worker
      BY <2>3 DEF BatchDisable, Stop, Stopped, Restart, frames
    <3>3. QED
      BY <3>1, <3>2, ResetScale
  <2>4. CASE GravityBegin
    BY <2>4, BeginScale
  <2>5. CASE ArmBegin
    BY <2>5, SameScale DEF ArmBegin, Working, IdleWorker, frames
  <2>6. CASE (GravitySend \/ ArmSend) /\ Stopped
    <3>1. gravity'.phase = "INACTIVE"
      BY <2>6 DEF Stopped, Reset, ScaleInv, FollowInv, Types, Gravities
    <3>2. scale' = scale /\ worker'.pc # "gravity"
      BY <2>6 DEF Stopped, frames, GravitySend, ArmSend, IdleWorker
    <3>3. QED
      BY <3>1, <3>2, ResetScale
  <2>7. CASE GravitySend /\ ~Stopped
    BY <2>7, SendScale
  <2>8. CASE ArmSend /\ ~Stopped
    BY <2>8, SameScale DEF ArmSend, IdleWorker, frames
  <2>9. CASE MissedFrame
    BY <2>9, MissedScale
  <2>10. CASE Tick
    BY <2>10, TickScale
  <2>11. QED
    BY <2>1, <2>2, <2>3, <2>4, <2>5, <2>6, <2>7, <2>8, <2>9, <2>10 DEF Next
<1>3. QED
  BY <1>1, <1>2 DEF ScaleInv

\* For any length of the transition, as long as stop_gravity_compensation is
\* not called again while an exit is under way: from one gravity frame of
\* run_gravity_compensation_cycle to the next the scale moves no further than
\* the time between them allows, whatever resets, missed frames and stops in
\* the middle of an entry come between.
THEOREM ScaleNeverJumps ==
  ASSUME "restop" \notin Inputs
  PROVE  Spec => ScaleSmooth
<1>1. Init => ScaleInv
  BY FollowInit DEF Init, ScaleInv, ScaleNear, IdleWorker, NoGravity
<1>2. ScaleInv /\ [Next]_vars => ScaleInv'
  BY ScaleStep
<1>3. ScaleInv /\ [Next]_vars =>
        [(worker.pc = "gravity" /\ worker'.pc = "idle" /\ run' = run)
           => Distant(scale', scale) <= worker.gap * Transition]_vars
  <2> SUFFICES ASSUME ScaleInv, Next, worker.pc = "gravity",
                      worker'.pc = "idle", run' = run
               PROVE  Distant(scale', scale) <= worker.gap * Transition
    OBVIOUS
  <2>1. scale \in 0..Full /\ worker.gap * Transition \in Nat
    BY Ranges DEF ScaleInv, FollowInv, Types, Workers
  <2>2. scale' = scale \/ scale' = Scale(worker.gravity)
    <3>1. GravitySend \/ MissedFrame \/ worker' = worker
      BY DEF Next, StartGravity, StopGravity, SetTarget, SubmitRaw,
             StartFollow, StopFollow, BatchDisable, BatchDone, Stop, Restart,
             GravityBegin, ArmBegin, ArmSend, Tick, Move, Working
    <3>2. QED
      BY <3>1 DEF GravitySend, Stopped, MissedFrame, frames
  <2>3. CASE scale' = scale
    BY <2>1, <2>3, NearSelf DEF Near
  <2>4. CASE scale' = Scale(worker.gravity)
    BY <2>4 DEF ScaleInv, ScaleNear, Near
  <2>5. QED
    BY <2>2, <2>3, <2>4
<1>4. QED
  BY <1>1, <1>2, <1>3, SafetyPart, PTL DEF ScaleSmooth

=============================================================================
