---------------------- MODULE TrajectoryControlProofs ----------------------
(***************************************************************************)
(* Theorems about finite motions, for every set of operations, every bound *)
(* of queue and history and every timeout: the queue is connected and every*)
(* motion accounted for, an end is final, the newest motion is the one that*)
(* arrived, a completion is earned, and the reference never jumps.         *)
(***************************************************************************)
EXTENDS TrajectoryControl, FiniteSetTheorems, SequenceTheorems, TLAPS

-----------------------------------------------------------------------------
(* Types *)

Active == {"RUNNING", "COMPLETED"}
MotionStates == {"IDLE", "QUEUED", "RUNNING", "COMPLETED"} \union Terminal
Entry == [id : Nat, state : MotionStates]
Mails == [ref : Pos, goal : Pos, joint : BOOLEAN] \union {NoMail}

LEMMA Constants ==
  /\ MaxIds \in Nat /\ Stable \in Nat /\ Stable > 0 /\ Unstable \in Nat
  /\ ArrivalTimeout \in Nat /\ PauseTimeout \in Nat
  /\ Unset \in Unset .. Stable /\ Unset \in Unset .. Unstable
  /\ Unset \in Unset .. PauseTimeout /\ 0 \in Unset .. Stable
  /\ 0 \in Unset .. Unstable /\ 0 \in Unset .. PauseTimeout
  BY BoundsAssumption DEF Unset

LEMMA Scenario ==
  ASSUME scenario \in Scenarios
  PROVE  /\ Pos \subseteq Nat /\ \A p, q \in Pos : p .. q \subseteq Pos
         /\ scenario.ids \in 0 .. MaxIds /\ MaxQueue \in Nat /\ MaxQueue >= 1
         /\ MaxHistory \in Nat /\ MaxHistory >= 1 /\ Slacks \subseteq Nat
         /\ MaxStep \in Nat /\ Mode \in {"PV", "MIT"} /\ NoPos \notin Pos
  BY BoundsAssumption DEF Pos, MaxQueue, MaxHistory, Slacks, MaxStep, Mode, NoPos

LEMMA SameScenario ==
  ASSUME scenario' = scenario
  PROVE  /\ Pos' = Pos /\ MaxQueue' = MaxQueue /\ MaxHistory' = MaxHistory
         /\ Inputs' = Inputs /\ Motion' = Motion /\ Mails' = Mails
         /\ Mode' = Mode /\ Slacks' = Slacks
  BY DEF Pos, MaxQueue, MaxHistory, Inputs, Motion, Mails, Mode, Slacks

-----------------------------------------------------------------------------
(* Identifiers in sequences *)

IdsOf(s) == {s[i].id : i \in DOMAIN s}
Unique(s) == \A i, j \in DOMAIN s : s[i].id = s[j].id => i = j

LEMMA AppendIds ==
  ASSUME NEW S, NEW s \in Seq(S), NEW e \in S
  PROVE  /\ Append(s, e) \in Seq(S) /\ Len(Append(s, e)) = Len(s) + 1
         /\ IdsOf(Append(s, e)) = IdsOf(s) \union {e.id}
         /\ Unique(s) /\ e.id \notin IdsOf(s) => Unique(Append(s, e))
<1> DEFINE t == Append(s, e)
           n == Len(s)
<1>1. /\ t \in Seq(S) /\ n \in Nat /\ Len(t) = n + 1 /\ DOMAIN s = 1 .. n
      /\ DOMAIN t = 1 .. n + 1
      /\ \A i \in 1 .. n : t[i] = s[i]
      /\ t[n + 1] = e
  BY AppendProperties, LenProperties
<1> HIDE DEF t, n
<1>2. \A i \in 1 .. n + 1 : i \in 1 .. n \/ i = n + 1
  BY <1>1
<1>3. IdsOf(t) = IdsOf(s) \union {e.id}
  <2>1. \A x \in IdsOf(t) : x \in IdsOf(s) \union {e.id}
    BY <1>1, <1>2 DEF IdsOf
  <2>2. IdsOf(s) \subseteq IdsOf(t)
    <3>1. 1 .. n \subseteq 1 .. n + 1
      BY <1>1
    <3>2. QED
      BY <1>1, <3>1 DEF IdsOf
  <2>3. e.id \in IdsOf(t)
    <3>1. n + 1 \in 1 .. n + 1
      BY <1>1
    <3>2. QED
      BY <1>1, <3>1 DEF IdsOf
  <2>4. QED
    BY <2>1, <2>2, <2>3
<1>4. ASSUME Unique(s), e.id \notin IdsOf(s)
      PROVE  Unique(t)
  BY <1>1, <1>2, <1>4 DEF Unique, IdsOf
<1>5. QED
  BY <1>1, <1>3, <1>4 DEF t, n

LEMMA ConcatIds ==
  ASSUME NEW S, NEW s \in Seq(S), NEW u \in Seq(S)
  PROVE  /\ s \o u \in Seq(S) /\ Len(s \o u) = Len(s) + Len(u)
         /\ IdsOf(s \o u) = IdsOf(s) \union IdsOf(u)
         /\ Unique(s) /\ Unique(u) /\ IdsOf(s) \cap IdsOf(u) = {} => Unique(s \o u)
<1> DEFINE t == s \o u
           n == Len(s)
           k == Len(u)
<1>1. /\ t \in Seq(S) /\ n \in Nat /\ k \in Nat /\ Len(t) = n + k
      /\ DOMAIN s = 1 .. n /\ DOMAIN u = 1 .. k /\ DOMAIN t = 1 .. n + k
      /\ \A i \in 1 .. n + k : t[i] = IF i <= n THEN s[i] ELSE u[i - n]
  BY ConcatProperties, LenProperties
<1> HIDE DEF t, n, k
<1>2. /\ \A i \in 1 .. n : i \in 1 .. n + k /\ t[i] = s[i]
      /\ \A i \in 1 .. k : i + n \in 1 .. n + k /\ t[i + n] = u[i]
      /\ \A i \in 1 .. n + k : \/ i \in 1 .. n /\ t[i] = s[i]
                               \/ i - n \in 1 .. k /\ t[i] = u[i - n] /\ i > n
  BY <1>1
<1>3. IdsOf(t) = IdsOf(s) \union IdsOf(u)
  <2>1. ASSUME NEW x \in IdsOf(t)
        PROVE  x \in IdsOf(s) \union IdsOf(u)
    <3>1. PICK i \in 1 .. n + k : x = t[i].id
      BY <1>1 DEF IdsOf
    <3>2. \/ \E j \in 1 .. n : x = s[j].id
          \/ \E j \in 1 .. k : x = u[j].id
      BY <1>2, <3>1
    <3>3. QED
      BY <1>1, <3>2 DEF IdsOf
  <2>2. IdsOf(s) \subseteq IdsOf(t) /\ IdsOf(u) \subseteq IdsOf(t)
    <3>1. /\ \A i \in 1 .. n : \E j \in 1 .. n + k : s[i].id = t[j].id
          /\ \A i \in 1 .. k : \E j \in 1 .. n + k : u[i].id = t[j].id
      BY <1>2
    <3>2. ASSUME NEW x \in IdsOf(s) PROVE x \in IdsOf(t)
      <4>1. PICK i \in 1 .. n : x = s[i].id
        BY <1>1 DEF IdsOf
      <4>2. PICK j \in 1 .. n + k : x = t[j].id
        BY <3>1, <4>1
      <4>3. QED
        BY <1>1, <4>2 DEF IdsOf
    <3>3. ASSUME NEW x \in IdsOf(u) PROVE x \in IdsOf(t)
      <4>1. PICK i \in 1 .. k : x = u[i].id
        BY <1>1 DEF IdsOf
      <4>2. PICK j \in 1 .. n + k : x = t[j].id
        BY <3>1, <4>1
      <4>3. QED
        BY <1>1, <4>2 DEF IdsOf
    <3>4. QED
      BY <3>2, <3>3
  <2>3. QED
    BY <2>1, <2>2
<1>4. ASSUME Unique(s), Unique(u), IdsOf(s) \cap IdsOf(u) = {}
      PROVE  Unique(t)
  <2> SUFFICES ASSUME NEW i \in 1 .. n + k, NEW j \in 1 .. n + k, t[i].id = t[j].id
               PROVE  i = j
    BY <1>1 DEF Unique
  <2>1. CASE i \in 1 .. n /\ t[i] = s[i] /\ j \in 1 .. n /\ t[j] = s[j]
    BY <1>1, <1>4, <2>1 DEF Unique
  <2>2. CASE i - n \in 1 .. k /\ t[i] = u[i - n] /\ j - n \in 1 .. k /\ t[j] = u[j - n]
    <3>1. i - n = j - n
      BY <1>1, <1>4, <2>2 DEF Unique
    <3>2. QED
      BY <1>1, <3>1
  <2>3. CASE \/ i \in 1 .. n /\ t[i] = s[i] /\ j - n \in 1 .. k /\ t[j] = u[j - n]
             \/ j \in 1 .. n /\ t[j] = s[j] /\ i - n \in 1 .. k /\ t[i] = u[i - n]
    BY <1>1, <1>4, <2>3 DEF IdsOf
  <2>4. QED
    BY <1>2, <2>1, <2>2, <2>3
<1>5. QED
  BY <1>1, <1>3, <1>4 DEF t, n, k

LEMMA TailIds ==
  ASSUME NEW S, NEW s \in Seq(S), s # <<>>
  PROVE  /\ Head(s) \in S /\ Head(s) = s[1] /\ Tail(s) \in Seq(S) /\ 1 \in DOMAIN s
         /\ Len(Tail(s)) = Len(s) - 1
         /\ \A i \in DOMAIN Tail(s) : i + 1 \in DOMAIN s /\ Tail(s)[i] = s[i + 1]
         /\ IdsOf(s) = IdsOf(Tail(s)) \union {Head(s).id}
         /\ Unique(s) => Unique(Tail(s)) /\ Head(s).id \notin IdsOf(Tail(s))
<1> DEFINE t == Tail(s)
           n == Len(s)
<1>1. /\ Head(s) \in S /\ Head(s) = s[1] /\ t \in Seq(S) /\ n \in Nat /\ n >= 1
      /\ Len(t) = n - 1 /\ DOMAIN s = 1 .. n /\ DOMAIN t = 1 .. n - 1
      /\ \A i \in 1 .. n - 1 : t[i] = s[i + 1]
  BY HeadTailProperties, LenProperties, EmptySeq
<1> HIDE DEF t, n
<1>2. /\ 1 \in 1 .. n /\ \A i \in 1 .. n - 1 : i + 1 \in 1 .. n
      /\ \A i \in 1 .. n : i = 1 \/ (i - 1 \in 1 .. n - 1 /\ t[i - 1] = s[i])
  BY <1>1
<1>3. IdsOf(s) = IdsOf(t) \union {s[1].id}
  <2>1. ASSUME NEW x \in IdsOf(s)
        PROVE  x \in IdsOf(t) \union {s[1].id}
    <3>1. PICK i \in 1 .. n : x = s[i].id
      BY <1>1 DEF IdsOf
    <3>2. i = 1 \/ \E j \in 1 .. n - 1 : x = t[j].id
      BY <1>2, <3>1
    <3>3. QED
      BY <1>1, <3>1, <3>2 DEF IdsOf
  <2>2. IdsOf(t) \subseteq IdsOf(s) /\ s[1].id \in IdsOf(s)
    <3>1. ASSUME NEW x \in IdsOf(t) PROVE x \in IdsOf(s)
      <4>1. PICK i \in 1 .. n - 1 : x = t[i].id
        BY <1>1 DEF IdsOf
      <4>2. PICK j \in 1 .. n : x = s[j].id
        BY <1>1, <1>2, <4>1
      <4>3. QED
        BY <1>1, <4>2 DEF IdsOf
    <3>2. s[1].id \in IdsOf(s)
      BY <1>1, <1>2 DEF IdsOf
    <3>3. QED
      BY <3>1, <3>2
  <2>3. QED
    BY <2>1, <2>2
<1>4. ASSUME Unique(s)
      PROVE  Unique(t) /\ s[1].id \notin IdsOf(t)
  <2>1. Unique(t)
    <3> SUFFICES ASSUME NEW i \in 1 .. n - 1, NEW j \in 1 .. n - 1, t[i].id = t[j].id
                 PROVE  i = j
      BY <1>1 DEF Unique
    <3>1. i + 1 = j + 1
      <4>1. i + 1 \in 1 .. n /\ j + 1 \in 1 .. n /\ s[i + 1].id = s[j + 1].id
        BY <1>1, <1>2
      <4>2. QED
        BY <1>1, <1>4, <4>1 DEF Unique
    <3>2. QED
      BY <1>1, <3>1
  <2>2. ASSUME NEW i \in 1 .. n - 1, t[i].id = s[1].id
        PROVE  FALSE
    <3>1. i + 1 = 1
      <4>1. i + 1 \in 1 .. n /\ s[i + 1].id = s[1].id
        BY <1>1, <1>2, <2>2
      <4>2. QED
        BY <1>1, <1>2, <1>4, <4>1 DEF Unique
    <3>2. QED
      BY <1>1, <3>1
  <2>3. QED
    BY <1>1, <2>1, <2>2 DEF IdsOf
<1>5. QED
  BY <1>1, <1>2, <1>3, <1>4 DEF t, n

\* The bounded history drops only its oldest entries, and only when it is full.
LEMMA RecentFacts ==
  ASSUME scenario \in Scenarios, NEW S, NEW h \in Seq(S)
  PROVE  LET r == Recent(h)
         IN  /\ r \in Seq(S) /\ Len(r) <= MaxHistory
             /\ \A i \in DOMAIN r : \E j \in DOMAIN h : r[i] = h[j]
             /\ IdsOf(r) \subseteq IdsOf(h)
             /\ Len(r) = MaxHistory \/ r = h
             /\ Unique(h) => Unique(r)
<1> DEFINE r == Recent(h)
           n == Len(h)
<1>1. MaxHistory \in Nat /\ MaxHistory >= 1 /\ n \in Nat /\ DOMAIN h = 1 .. n
  BY Scenario, LenProperties
<1>2. CASE n > MaxHistory
  <2> DEFINE k == n - MaxHistory
  <2>1. r = SubSeq(h, k + 1, n)
    BY <1>1, <1>2 DEF Recent
  <2>2. k \in Nat /\ k >= 1 /\ k + 1 <= n /\ n - (k + 1) + 1 = MaxHistory
        /\ \A i \in k + 1 .. n : h[i] \in S
    BY <1>1, <1>2, ElementOfSeq
  <2>3. /\ r \in Seq(S) /\ Len(r) = MaxHistory
        /\ \A i \in 1 .. MaxHistory : r[i] = h[(k + 1) + i - 1]
    <3> HIDE DEF r, k
    <3>1. k + 1 \in Int /\ n \in Int
      BY <1>1, <2>2
    <3>2. QED
      BY <2>1, <2>2, <3>1, SubSeqProperties
  <2> HIDE DEF r
  <2>4. DOMAIN r = 1 .. MaxHistory
    BY <2>3, LenProperties
  <2>5. \A i \in 1 .. MaxHistory : k + i \in 1 .. n /\ r[i] = h[k + i]
    <3>1. \A i \in 1 .. MaxHistory : (k + 1) + i - 1 = k + i /\ k + i \in 1 .. n
      BY <1>1, <2>2
    <3>2. QED
      BY <2>3, <3>1
  <2> HIDE DEF k
  <2>6. IdsOf(r) \subseteq IdsOf(h)
    BY <1>1, <2>4, <2>5 DEF IdsOf
  <2>7. ASSUME Unique(h)
        PROVE  Unique(r)
    <3> SUFFICES ASSUME NEW i \in 1 .. MaxHistory, NEW j \in 1 .. MaxHistory,
                        r[i].id = r[j].id
                 PROVE  i = j
      BY <2>4 DEF Unique
    <3>1. k + i = k + j
      BY <1>1, <2>5, <2>7 DEF Unique
    <3>2. QED
      BY <1>1, <2>2, <3>1
  <2>8. QED
    BY <1>1, <2>3, <2>4, <2>5, <2>6, <2>7 DEF r
<1>3. CASE ~(n > MaxHistory)
  BY <1>1, <1>3 DEF Recent
<1>4. QED
  BY <1>2, <1>3

-----------------------------------------------------------------------------
(* Motions *)

\* What a motion keeps from its start to its end.
SameMotion(m, n) ==
  n.id = m.id /\ n.path = m.path /\ n.approach = m.approach /\ n.slack = m.slack

LEMMA NoMotionFacts ==
  ASSUME scenario \in Scenarios
  PROVE  NoMotion \in Motion
<1>1. /\ 0 \in 0 .. MaxIds /\ 0 \in 0 .. MaxQueue /\ <<>> \in Seq(Pos)
      /\ 0 \in Slacks \union {0}
  BY Constants, Scenario
<1>2. QED
  BY <1>1, Constants DEF NoMotion, Motion

LEMMA PreparedFacts ==
  ASSUME scenario \in Scenarios, NEW k \in 0 .. MaxIds, NEW p \in Seq(Pos),
         NEW a \in 0 .. MaxQueue, NEW s \in Slacks
  PROVE  LET n == Prepared(k, p, a, s)
         IN  /\ n \in Motion /\ n.id = k /\ n.state = "QUEUED" /\ n.path = p
             /\ n.approach = a
<1>1. NoMotion \in Motion
  BY NoMotionFacts
<1>2. Prepared(k, p, a, s) \in Motion
  BY <1>1 DEF Prepared, Motion
<1>3. QED
  BY <1>1, <1>2 DEF Prepared, Motion

\* An activation keeps nothing of what was measured before.
LEMMA ActivatedFacts ==
  ASSUME scenario \in Scenarios, NEW m \in Motion
  PROVE  LET n == Activated(m)
         IN  /\ n \in Motion /\ SameMotion(m, n) /\ n.state = "RUNNING"
             /\ n.wall = 0 /\ n.stable = Unset
             /\ n.approached = (m.approach = 0)
<1>1. NoMotion \in Motion /\ NoMotion.wall = 0 /\ NoMotion.stable = Unset
  BY NoMotionFacts DEF NoMotion
<1>2. /\ m.id \in 0 .. MaxIds /\ m.path \in Seq(Pos) /\ m.approach \in 0 .. MaxQueue
      /\ m.slack \in Slacks \union {0}
  BY DEF Motion
<1> DEFINE first == (m.approach = 0)
<1>3. first \in BOOLEAN
  OBVIOUS
<1>4. Activated(m) = [NoMotion EXCEPT !.id = m.id, !.state = "RUNNING", !.path = m.path,
                       !.approach = m.approach, !.slack = m.slack, !.approached = first]
  BY DEF Activated
<1> HIDE DEF first
<1>5. Activated(m) \in Motion
  BY <1>1, <1>2, <1>3, <1>4, ZenonT(60) DEF Motion
<1>6. /\ SameMotion(m, Activated(m)) /\ Activated(m).state = "RUNNING"
      /\ Activated(m).wall = 0 /\ Activated(m).stable = Unset
      /\ Activated(m).approached = first
  BY <1>1, <1>4, <1>5 DEF Motion, SameMotion
<1>7. QED
  BY <1>5, <1>6 DEF first

Ended(k, s) == [NoMotion EXCEPT !.id = k, !.state = s]

LEMMA EndedFacts ==
  ASSUME scenario \in Scenarios, NEW k \in 0 .. MaxIds, NEW s \in Terminal
  PROVE  Ended(k, s) \in Motion /\ Ended(k, s).id = k /\ Ended(k, s).state = s
<1>1. NoMotion \in Motion
  BY NoMotionFacts
<1>2. Ended(k, s) \in Motion
  BY <1>1 DEF Ended, Motion
<1>3. QED
  BY <1>1, <1>2 DEF Ended, Motion

LEMMA OlderFacts ==
  ASSUME NEW b \in Nat, NEW a \in Unset .. b, NEW d \in Nat
  PROVE  /\ Older(a, d, b) \in Unset .. b
         /\ a = Unset <=> Older(a, d, b) = Unset
         /\ a # Unset => Older(a, d, b) = Min2(a + d, b)
  BY DEF Older, Min2, Unset

\* One cycle of a motion: only its clocks move, and its sample never goes back.
LEMMA CycleFacts ==
  ASSUME scenario \in Scenarios, ctl \in Motion, Len(ctl.path) = ctl.approach + 2,
         NEW d \in Nat, NEW t \in {"unknown", "small", "lost"}, NEW n,
         n = [Sampled(Aged(ctl, d)) EXCEPT !.tracking = t]
  PROVE  /\ n \in Motion /\ SameMotion(ctl, n) /\ n.state = ctl.state
         /\ n.stable = Older(ctl.stable, d, Stable)
         /\ SampleTime(n) = SampleTime(Sampled(Aged(ctl, d)))
         /\ SampleTime(n) >= SampleTime(ctl) /\ SampleTime(n) \in 0 .. RefDuration(ctl)
         /\ SampleTime(ctl) \in 0 .. RefDuration(ctl)
         /\ Completing(n) <=> Completing(Sampled(Aged(ctl, d)))
         /\ AtApproach(n) <=> AtApproach(Sampled(Aged(ctl, d)))
         /\ Sampled(Aged(ctl, d)).path = ctl.path /\ Sampled(Aged(ctl, d)) \in Motion
<1>1. /\ ctl.wall \in Nat /\ ctl.pause \in Unset .. PauseTimeout /\ ctl.slack \in Nat
      /\ ctl.settling \in Unset .. Stable /\ ctl.stable \in Unset .. Stable
      /\ ctl.path \in Seq(Pos) /\ ctl.approach \in Nat /\ ctl.approached \in BOOLEAN
      /\ RefDuration(ctl) = ctl.approach + 1 /\ RefDuration(ctl) \in Nat
      /\ Duration(ctl) \in Nat /\ Duration(ctl) >= RefDuration(ctl)
  <2>1. /\ ctl.wall \in Nat /\ ctl.pause \in Unset .. PauseTimeout
        /\ ctl.slack \in Slacks \union {0} /\ ctl.approach \in 0 .. MaxQueue
        /\ ctl.settling \in Unset .. Stable /\ ctl.stable \in Unset .. Stable
        /\ ctl.path \in Seq(Pos) /\ ctl.approached \in BOOLEAN
    BY DEF Motion
  <2>2. ctl.slack \in Nat /\ ctl.approach \in Nat
    <3>1. Slacks \subseteq Nat /\ MaxQueue \in Nat
      BY Scenario
    <3>2. QED
      BY <2>1, <3>1
  <2>3. /\ RefDuration(ctl) = ctl.approach + 1 /\ RefDuration(ctl) \in Nat
        /\ Duration(ctl) \in Nat /\ Duration(ctl) >= RefDuration(ctl)
    BY <2>2 DEF RefDuration, Duration
  <2>4. QED
    BY <2>1, <2>2, <2>3
<1> DEFINE w == IF Paused /\ ctl.slack = 0 THEN ctl.wall
                ELSE Older(ctl.wall, d, Duration(ctl) + ArrivalTimeout)
           p == IF ~Paused THEN Unset
                ELSE IF ctl.pause = Unset THEN 0 ELSE Older(ctl.pause, d, PauseTimeout)
           se == Older(ctl.settling, d, Stable)
           st == Older(ctl.stable, d, Stable)
           a == Aged(ctl, d)
           b == Sampled(a)
<1>2. w \in Nat /\ (w >= ctl.wall \/ w >= RefDuration(ctl))
  <2>0. /\ ctl.wall \in Nat /\ RefDuration(ctl) \in Nat /\ Duration(ctl) \in Nat
        /\ Duration(ctl) >= RefDuration(ctl) /\ ArrivalTimeout \in Nat
    BY <1>1, Constants
  <2>1. /\ Older(ctl.wall, d, Duration(ctl) + ArrivalTimeout)
            = Min2(ctl.wall + d, Duration(ctl) + ArrivalTimeout)
        /\ Duration(ctl) + ArrivalTimeout \in Nat
        /\ Duration(ctl) + ArrivalTimeout >= RefDuration(ctl)
    BY <2>0 DEF Older, Unset
  <2>2. w = ctl.wall \/ w = Min2(ctl.wall + d, Duration(ctl) + ArrivalTimeout)
    BY <2>1
  <2> HIDE DEF w
  <2>3. QED
    BY <2>0, <2>1, <2>2 DEF Min2
<1>3. p \in Unset .. PauseTimeout /\ se \in Unset .. Stable /\ st \in Unset .. Stable
  BY <1>1, Constants, OlderFacts
<1>4. a = [ctl EXCEPT !.wall = w, !.pause = p, !.settling = se, !.stable = st]
  BY DEF Aged
<1> HIDE DEF w, p, se, st, a
<1>5. a \in Motion
  BY <1>2, <1>3, <1>4 DEF Motion
<1>6. /\ SameMotion(ctl, a) /\ a.state = ctl.state /\ a.wall = w /\ a.stable = st
      /\ a.approached = ctl.approached
  BY <1>4, <1>5 DEF Motion, SameMotion
<1>7. PICK e \in Nat : b = [a EXCEPT !.elapsed = e]
  <2>1. a.wall \in Nat /\ a.approach \in Nat /\ Duration(a) \in Nat
    BY <1>1, <1>2, <1>6 DEF SameMotion, Duration, RefDuration
  <2>2. Min2(a.wall, a.approach) \in Nat /\ Min2(a.wall, Duration(a)) \in Nat
    BY <2>1 DEF Min2
  <2>3. QED
    BY <2>2 DEF Sampled
<1> HIDE DEF b
<1>8. b \in Motion
  BY <1>5, <1>7 DEF Motion
<1>9. /\ SameMotion(a, b) /\ b.state = a.state /\ b.wall = w /\ b.stable = st
      /\ b.approached = ctl.approached
  BY <1>5, <1>6, <1>7, <1>8 DEF Motion, SameMotion
<1>10. n = [b EXCEPT !.tracking = t]
  BY DEF b, a
<1>11. n \in Motion
  BY <1>8, <1>10 DEF Motion
<1>12. /\ SameMotion(b, n) /\ n.state = b.state /\ n.wall = w /\ n.stable = st
       /\ n.approached = ctl.approached
  BY <1>8, <1>9, <1>10, <1>11 DEF Motion, SameMotion
<1>13. SameMotion(ctl, b) /\ SameMotion(ctl, n) /\ n.state = ctl.state
  BY <1>6, <1>9, <1>12 DEF SameMotion
<1>14. /\ RefDuration(n) = RefDuration(ctl) /\ RefDuration(b) = RefDuration(ctl)
       /\ n.approach = ctl.approach /\ b.approach = ctl.approach
  BY <1>13 DEF SameMotion, RefDuration
<1>15. /\ AtApproach(n) <=> AtApproach(b)
       /\ SampleTime(n) = SampleTime(b)
       /\ Completing(n) <=> Completing(b)
  BY <1>9, <1>12, <1>14 DEF AtApproach, SampleTime, Completing
<1>16. /\ SampleTime(n) >= SampleTime(ctl) /\ SampleTime(n) \in 0 .. RefDuration(ctl)
       /\ SampleTime(ctl) \in 0 .. RefDuration(ctl)
  <2> DEFINE R == RefDuration(ctl)
             A == ctl.approach
             lead == ~ctl.approached
  <2>1. /\ SampleTime(ctl) = IF lead /\ A # 0 /\ Min2(ctl.wall, R) >= A THEN A
                             ELSE Min2(ctl.wall, R)
        /\ SampleTime(n) = IF lead /\ A # 0 /\ Min2(w, R) >= A THEN A ELSE Min2(w, R)
    BY <1>12, <1>14 DEF AtApproach, SampleTime
  <2>2. /\ A \in Nat /\ R = A + 1 /\ ctl.wall \in Nat /\ w \in Nat
        /\ (w >= ctl.wall \/ w >= R)
    BY <1>1, <1>2
  <2> HIDE DEF R, A, lead
  <2>3. QED
    BY <2>1, <2>2 DEF Min2, R
<1>17. b.path = ctl.path
  BY <1>13 DEF SameMotion
<1>18. QED
  BY <1>8, <1>11, <1>12, <1>13, <1>15, <1>16, <1>17 DEF b, a, st

\* The clock and the sample that goes with it are left alone.
SameClock(m, n) == n.wall = m.wall /\ n.approached = m.approached

LEMMA ClockFacts ==
  ASSUME NEW m, NEW n, SameMotion(m, n), SameClock(m, n)
  PROVE  /\ RefDuration(n) = RefDuration(m) /\ SampleTime(n) = SampleTime(m)
         /\ AtApproach(n) <=> AtApproach(m)
         /\ Completing(n) <=> Completing(m)
         /\ \A e : Sample(n, e) = Sample(m, e)
<1>1. RefDuration(n) = RefDuration(m)
  BY DEF SameMotion, RefDuration
<1>2. AtApproach(n) <=> AtApproach(m)
  BY <1>1 DEF SameMotion, SameClock, AtApproach
<1>3. SampleTime(n) = SampleTime(m)
  BY <1>1, <1>2 DEF SameMotion, SameClock, SampleTime
<1>4. QED
  BY <1>1, <1>2, <1>3 DEF Completing, Sample, SameMotion

\* The first section of the arrival check.
LEMMA AssessFacts ==
  ASSUME scenario \in Scenarios, ctl \in Motion, NEW n,
         n = [ctl EXCEPT !.settling = 0, !.stable = Unset, !.unstable = Unset,
                         !.init = FALSE]
  PROVE  /\ n \in Motion /\ SameMotion(ctl, n) /\ SameClock(ctl, n)
         /\ n.state = ctl.state /\ n.stable = Unset
<1>1. n \in Motion
  BY Constants DEF Motion
<1>2. QED
  BY <1>1 DEF Motion, SameMotion, SameClock

\* The monitored hold of a completed motion.
LEMMA UnstableFacts ==
  ASSUME ctl \in Motion, NEW u \in Unset .. Unstable, NEW n,
         n = [ctl EXCEPT !.unstable = u]
  PROVE  /\ n \in Motion /\ SameMotion(ctl, n) /\ SameClock(ctl, n)
         /\ n.state = ctl.state
<1>1. n \in Motion
  BY DEF Motion
<1>2. QED
  BY <1>1 DEF Motion, SameMotion, SameClock

LEMMA HoldFacts ==
  ASSUME scenario \in Scenarios, ctl \in Motion, ctl.state = "COMPLETED",
         NEW new, NEW f, NEW steady, NEW n, n = HoldVerdict(new, f, steady)
  PROVE  /\ n \in Motion /\ SameMotion(ctl, n) /\ SameClock(ctl, n)
         /\ n.state = "COMPLETED" \/ (n.state = "RUNNING" /\ n.stable = Unset)
<1> DEFINE h == ("near" \in f)
<1>1. h \in BOOLEAN
  OBVIOUS
<1>2. \/ n = ctl
      \/ \E u \in Unset .. Unstable : n = [ctl EXCEPT !.unstable = u]
      \/ n = [ctl EXCEPT !.state = "RUNNING", !.settling = 0, !.stable = Unset,
                         !.unstable = Unset, !.hold = h]
  BY Constants DEF HoldVerdict
<1> HIDE DEF h
<1>3. CASE n = ctl
  BY <1>3 DEF SameMotion, SameClock
<1>4. CASE \E u \in Unset .. Unstable : n = [ctl EXCEPT !.unstable = u]
  BY <1>4, UnstableFacts
<1>5. CASE n = [ctl EXCEPT !.state = "RUNNING", !.settling = 0, !.stable = Unset,
                           !.unstable = Unset, !.hold = h]
  <2>1. n \in Motion
    BY <1>1, <1>5, Constants, ZenonT(60) DEF Motion
  <2>2. QED
    BY <1>5, <2>1 DEF Motion, SameMotion, SameClock
<1>6. QED
  BY <1>2, <1>3, <1>4, <1>5

\* The stable window opens, stays or closes with what the snapshot shows.
LEMMA SettledFacts ==
  ASSUME scenario \in Scenarios, ctl \in Motion, NEW new \in BOOLEAN, NEW f, NEW n,
         n = Settled(new, f)
  PROVE  /\ n \in Motion /\ SameMotion(ctl, n) /\ SameClock(ctl, n)
         /\ n.state = ctl.state
         /\ \/ n.stable = Unset
            \/ n.stable = 0 /\ "near" \in f
            \/ n.stable = ctl.stable /\ (~new \/ "near" \in f)
<1> DEFINE i == (ctl.init \/ new)
           m == [ctl EXCEPT !.init = i]
<1>1. i \in BOOLEAN
  BY DEF Motion
<1>2. m \in Motion
  BY <1>1 DEF Motion
<1>3. /\ SameMotion(ctl, m) /\ SameClock(ctl, m) /\ m.state = ctl.state
      /\ m.stable = ctl.stable
  BY <1>2 DEF Motion, SameMotion, SameClock
<1>4. \/ n = m /\ ~new
      \/ n = [m EXCEPT !.hold = FALSE, !.stable = Unset]
      \/ n = [m EXCEPT !.hold = TRUE, !.settling = 0, !.stable = 0] /\ "near" \in f
      \/ /\ n = [m EXCEPT !.stable = IF m.stable = Unset THEN 0 ELSE m.stable]
         /\ "near" \in f
  BY DEF Settled, FinalSeen
<1> HIDE DEF m
<1>5. CASE n = m /\ ~new
  BY <1>2, <1>3, <1>5
<1>6. CASE n = [m EXCEPT !.hold = FALSE, !.stable = Unset]
  <2>1. n \in Motion
    BY <1>2, <1>6, Constants DEF Motion
  <2>2. SameMotion(m, n) /\ SameClock(m, n) /\ n.state = m.state /\ n.stable = Unset
    BY <1>2, <1>6, <2>1 DEF Motion, SameMotion, SameClock
  <2>3. QED
    BY <1>3, <2>1, <2>2 DEF SameMotion, SameClock
<1>7. CASE n = [m EXCEPT !.hold = TRUE, !.settling = 0, !.stable = 0] /\ "near" \in f
  <2>1. n \in Motion
    BY <1>2, <1>7, Constants DEF Motion
  <2>2. SameMotion(m, n) /\ SameClock(m, n) /\ n.state = m.state /\ n.stable = 0
    BY <1>2, <1>7, <2>1 DEF Motion, SameMotion, SameClock
  <2>3. QED
    BY <1>3, <1>7, <2>1, <2>2 DEF SameMotion, SameClock
<1>8. CASE /\ n = [m EXCEPT !.stable = IF m.stable = Unset THEN 0 ELSE m.stable]
           /\ "near" \in f
  <2> DEFINE s == IF m.stable = Unset THEN 0 ELSE m.stable
  <2>1. s \in Unset .. Stable
    BY <1>2, Constants DEF Motion
  <2>2. n = [m EXCEPT !.stable = s]
    BY <1>8
  <2>3. s \in {0, m.stable}
    OBVIOUS
  <2> HIDE DEF s
  <2>4. n \in Motion
    BY <1>2, <2>1, <2>2 DEF Motion
  <2>5. SameMotion(m, n) /\ SameClock(m, n) /\ n.state = m.state /\ n.stable = s
    BY <1>2, <2>2, <2>4 DEF Motion, SameMotion, SameClock
  <2>6. QED
    BY <1>3, <1>8, <2>3, <2>4, <2>5 DEF SameMotion, SameClock
<1>9. QED
  BY <1>4, <1>5, <1>6, <1>7, <1>8

LEMMA RestartedFacts ==
  ASSUME NEW m \in Motion, NEW n, n = [m EXCEPT !.stable = 0]
  PROVE  /\ n \in Motion /\ SameMotion(m, n) /\ SameClock(m, n)
         /\ n.state = m.state /\ n.stable = 0
<1>1. n \in Motion
  BY Constants DEF Motion
<1>2. QED
  BY <1>1 DEF Motion, SameMotion, SameClock

LEMMA ApproachFacts ==
  ASSUME scenario \in Scenarios, NEW m \in Motion, NEW n, n = ApproachDone(m)
  PROVE  /\ n \in Motion /\ SameMotion(m, n) /\ n.state = m.state /\ n.stable = Unset
         /\ n.approached /\ n.wall = Min2(m.wall, m.approach)
<1> DEFINE w == Min2(m.wall, m.approach)
<1>1. w \in Nat
  <2>1. m.wall \in Nat /\ m.approach \in 0 .. MaxQueue
    BY DEF Motion
  <2>2. m.approach \in Nat
    BY <2>1, Scenario
  <2>3. QED
    BY <2>1, <2>2 DEF Min2
<1>2. n = [m EXCEPT !.approached = TRUE, !.wall = w, !.tracking = "unknown",
                    !.pause = Unset, !.settling = Unset, !.stable = Unset,
                    !.unstable = Unset, !.init = FALSE, !.hold = FALSE]
  BY DEF ApproachDone
<1> HIDE DEF w
<1>3. n \in Motion
  BY <1>1, <1>2, Constants, ZenonT(60) DEF Motion
<1>4. /\ SameMotion(m, n) /\ n.state = m.state /\ n.stable = Unset
      /\ n.approached = TRUE /\ n.wall = w
  BY <1>2, <1>3, ZenonT(60) DEF Motion, SameMotion
<1>5. QED
  BY <1>3, <1>4 DEF w

LEMMA DoneFacts ==
  ASSUME scenario \in Scenarios, NEW m \in Motion, NEW n,
         n = [m EXCEPT !.state = "COMPLETED", !.hold = TRUE, !.unstable = Unset]
  PROVE  /\ n \in Motion /\ SameMotion(m, n) /\ SameClock(m, n)
         /\ n.state = "COMPLETED"
<1>1. n \in Motion
  BY Constants DEF Motion
<1>2. QED
  BY <1>1 DEF Motion, SameMotion, SameClock

-----------------------------------------------------------------------------
(* The motions and their identifiers *)

Motions ==
  /\ scenario \in Scenarios /\ ctl \in Motion /\ queue \in Seq(Motion)
  /\ history \in Seq(Entry) /\ Len(history) <= MaxHistory
  /\ nextId \in 1 .. MaxIds + 1 /\ Len(queue) <= MaxQueue

\* Every path has one knot per segment, also after a queued motion has got
\* another approach, and there is room for as many as there are motions ahead.
Shapes ==
  /\ ctl.state # "QUEUED"
  /\ ctl.state \in Active => Len(ctl.path) = ctl.approach + 2
  /\ \A i \in DOMAIN queue :
       /\ Len(queue[i].path) = queue[i].approach + 2
       /\ queue[i].approach + i <= MaxQueue + 1
       /\ queue[i].state = "QUEUED"

Chain ==
  /\ queue # <<>> => ctl.state = "RUNNING"
  /\ \A i \in DOMAIN queue : queue[i].path[1] = Final(Predecessor(i))

Known == {ctl.id} \union IdsOf(queue) \union IdsOf(history)

Ids ==
  /\ ctl.id < nextId /\ (ctl.id = 0 <=> ctl.state = "IDLE")
  /\ ctl.id = 0 => nextId = 1
  /\ IdsOf(queue) \subseteq 1 .. nextId - 1 /\ IdsOf(history) \subseteq 1 .. nextId - 1
  /\ Unique(queue) /\ Unique(history)
  /\ ctl.id \notin IdsOf(queue) /\ ctl.id \notin IdsOf(history)
  /\ IdsOf(queue) \cap IdsOf(history) = {}
  /\ Len(history) = MaxHistory \/ 1 .. nextId - 1 \subseteq Known

\* Without cancel_motion the newest motion is the last of the queue, or active.
Newest ==
  "cancel_motion" \notin Inputs =>
    /\ queue # <<>> => Last(queue).id = nextId - 1
    /\ queue = <<>> /\ ctl.state \in Active => ctl.id = nextId - 1

QueueInv == Motions /\ Shapes /\ Chain /\ Ids /\ Newest

\* What a step can do to the motions.
Kept == UNCHANGED <<ctl, queue, history, nextId>>

Tended ==
  /\ ctl' \in Motion /\ SameMotion(ctl, ctl')
  /\ ctl.state \in Active /\ ctl'.state \in Active
  /\ ctl'.state = "COMPLETED" => queue = <<>>
  /\ UNCHANGED <<queue, history, nextId>>

Terminated == (\E s \in Terminal : terminate_trajectory(s)) /\ UNCHANGED nextId

Advanced ==
  /\ queue # <<>> /\ ctl.state = "RUNNING"
  /\ history' = Recent(Append(history, [id |-> ctl.id, state |-> "COMPLETED"]))
  /\ ctl' = Activated(Head(queue)) /\ queue' = Tail(queue) /\ UNCHANGED nextId

Replaced ==
  /\ ctl.state # "RUNNING" /\ nextId <= MaxIds /\ nextId' = nextId + 1
  /\ history' = Archive(history, ctl) /\ UNCHANGED queue
  /\ \E m \in Motion : /\ m.id = nextId /\ Len(m.path) = m.approach + 2
                       /\ ctl' = Activated(m)

Enqueued ==
  /\ ctl.state = "RUNNING" /\ nextId <= MaxIds /\ nextId' = nextId + 1
  /\ Len(queue) < MaxQueue /\ UNCHANGED <<ctl, history>>
  /\ \E m \in Motion :
       /\ m.id = nextId /\ m.state = "QUEUED" /\ m.approach <= 1
       /\ Len(m.path) = m.approach + 2
       /\ m.path[1] = IF queue = <<>> THEN Final(ctl) ELSE Final(Last(queue))
       /\ queue' = Append(queue, m)

Dropped ==
  /\ "cancel_motion" \in Inputs /\ UNCHANGED <<ctl, nextId>>
  /\ \E i \in DOMAIN queue :
       /\ history' = Archive(history, [queue[i] EXCEPT !.state = "CANCELLED"])
       /\ queue' = Detached(i)

LEMMA TendedStep ==
  ASSUME QueueInv, scenario' = scenario, Kept \/ Tended
  PROVE  QueueInv'
<1>1. /\ ctl' \in Motion /\ SameMotion(ctl, ctl')
      /\ UNCHANGED <<queue, history, nextId>>
      /\ ctl'.state = ctl.state
         \/ (ctl.state \in Active /\ ctl'.state \in Active
               /\ (ctl'.state = "COMPLETED" => queue = <<>>))
  BY DEF Kept, Tended, QueueInv, Motions, SameMotion
<1>2. /\ Motion' = Motion /\ MaxHistory' = MaxHistory /\ MaxQueue' = MaxQueue
      /\ Inputs' = Inputs
  BY SameScenario
<1>3. Motions'
  BY <1>1, <1>2 DEF QueueInv, Motions
<1>4. Shapes'
  BY <1>1, <1>2 DEF QueueInv, Shapes, SameMotion, Active
<1>5. Final(ctl') = Final(ctl)
  BY <1>1 DEF SameMotion, Final, Last
<1>6. Chain'
  <2>1. queue' # <<>> => ctl'.state = "RUNNING"
    BY <1>1 DEF QueueInv, Chain, Active
  <2>2. \A i \in DOMAIN queue : Final(Predecessor(i)') = Final(Predecessor(i))
    BY <1>1, <1>5 DEF Predecessor
  <2>3. QED
    BY <1>1, <2>1, <2>2 DEF QueueInv, Chain, Final
<1>7. Ids'
  BY <1>1, <1>2 DEF QueueInv, Ids, Known, SameMotion, Active
<1>8. Newest'
  BY <1>1, <1>2 DEF QueueInv, Newest, SameMotion, Active
<1>9. QED
  BY <1>3, <1>4, <1>6, <1>7, <1>8 DEF QueueInv

\* The cancelled queue on its way into the history.
LEMMA CancelledFacts ==
  ASSUME Motions, NEW c,
         c = [i \in DOMAIN queue |-> [id |-> queue[i].id, state |-> "CANCELLED"]]
  PROVE  /\ c \in Seq(Entry) /\ IdsOf(c) = IdsOf(queue)
         /\ Unique(queue) => Unique(c)
         /\ \A i \in DOMAIN c : c[i].state = "CANCELLED"
<1>1. /\ DOMAIN queue = 1 .. Len(queue) /\ Len(queue) \in Nat
      /\ \A i \in DOMAIN queue : queue[i] \in Motion
  BY LenProperties, ElementOfSeq DEF Motions
<1>2. \A i \in DOMAIN queue : queue[i].id \in Nat
  <2>1. \A i \in DOMAIN queue : queue[i].id \in 0 .. MaxIds
    BY <1>1 DEF Motion
  <2>2. QED
    BY <2>1, Constants
<1>3. \A i \in DOMAIN queue : c[i] \in Entry
  BY <1>2 DEF Entry, MotionStates, Terminal
<1>4. c \in [1 .. Len(queue) -> Entry]
  BY <1>1, <1>3
<1>5. c \in Seq(Entry)
  BY <1>1, <1>4, SeqDef
<1>6. /\ DOMAIN c = DOMAIN queue
      /\ \A i \in DOMAIN queue : c[i].id = queue[i].id /\ c[i].state = "CANCELLED"
  OBVIOUS
<1>7. QED
  BY <1>5, <1>6 DEF IdsOf, Unique

LEMMA TerminatedStep ==
  ASSUME QueueInv, scenario' = scenario, Terminated
  PROVE  QueueInv'
<1> DEFINE c == [i \in DOMAIN queue |-> [id |-> queue[i].id, state |-> "CANCELLED"]]
<1>1. PICK s \in Terminal :
        /\ ctl' = IF ctl.state \in Active THEN Ended(ctl.id, s) ELSE ctl
        /\ history' = Recent(history \o c) /\ queue' = <<>> /\ nextId' = nextId
  BY DEF Terminated, terminate_trajectory, QueueCancelled, Active, Ended
<1>2. /\ Motion' = Motion /\ MaxHistory' = MaxHistory /\ MaxQueue' = MaxQueue
      /\ Inputs' = Inputs /\ MaxQueue \in Nat
  BY SameScenario, Scenario DEF QueueInv, Motions
<1>3. /\ c \in Seq(Entry) /\ IdsOf(c) = IdsOf(queue) /\ Unique(c)
  BY CancelledFacts DEF QueueInv, Ids
<1> HIDE DEF c
<1>4. /\ history \o c \in Seq(Entry)
      /\ IdsOf(history \o c) = IdsOf(history) \union IdsOf(queue)
      /\ Unique(history \o c)
  BY <1>3, ConcatIds DEF QueueInv, Motions, Ids
<1>5. /\ history' \in Seq(Entry) /\ Len(history') <= MaxHistory
      /\ IdsOf(history') \subseteq IdsOf(history) \union IdsOf(queue)
      /\ Len(history') = MaxHistory
         \/ IdsOf(history') = IdsOf(history) \union IdsOf(queue)
      /\ Unique(history')
  BY <1>1, <1>4, RecentFacts DEF QueueInv, Motions
<1>6. /\ ctl' \in Motion /\ ctl'.id = ctl.id /\ ctl'.state \notin Active
      /\ ctl'.state # "QUEUED" /\ (ctl'.state = "IDLE" <=> ctl.state = "IDLE")
  <2>1. ctl \in Motion /\ ctl.id \in 0 .. MaxIds
    BY DEF QueueInv, Motions, Motion
  <2>2. CASE ctl.state \in Active
    BY <1>1, <2>1, <2>2, EndedFacts DEF QueueInv, Motions, Active, Terminal
  <2>3. CASE ctl.state \notin Active
    BY <1>1, <2>1, <2>3 DEF QueueInv, Shapes
  <2>4. QED
    BY <2>2, <2>3
<1>7. /\ queue' \in Seq(Motion) /\ DOMAIN queue' = {} /\ IdsOf(queue') = {}
      /\ Len(queue') = 0
  BY <1>1 DEF IdsOf
<1>8. Motions'
  BY <1>1, <1>2, <1>5, <1>6, <1>7 DEF QueueInv, Motions
<1>9. Shapes' /\ Chain' /\ Newest'
  BY <1>1, <1>6, <1>7 DEF Shapes, Chain, Newest
<1>10. Ids'
  <2>1. Unique(queue')
    BY <1>7 DEF Unique
  <2>2. ctl.id \notin IdsOf(history')
    BY <1>5 DEF QueueInv, Ids
  <2>3. Len(history') = MaxHistory \/ 1 .. nextId - 1 \subseteq Known'
    <3>1. CASE Len(history') = MaxHistory
      BY <3>1
    <3>2. CASE Len(history') # MaxHistory
      <4>1. IdsOf(history') = IdsOf(history) \union IdsOf(queue)
        BY <1>5, <3>2
      <4>2. Len(history) # MaxHistory
        <5>1. history' = history \o c
          BY <1>1, <1>4, <3>2, RecentFacts DEF QueueInv, Motions
        <5>2. Len(history') = Len(history) + Len(c) /\ Len(c) \in Nat
              /\ Len(history) \in Nat /\ MaxHistory \in Nat
          BY <1>3, <5>1, ConcatIds, LenProperties, Scenario DEF QueueInv, Motions
        <5>3. QED
          BY <1>5, <3>2, <5>2
      <4>3. 1 .. nextId - 1 \subseteq Known
        BY <4>2 DEF QueueInv, Ids
      <4>4. Known' = Known
        BY <1>6, <1>7, <4>1 DEF Known
      <4>5. QED
        BY <4>3, <4>4
    <3>3. QED
      BY <3>1, <3>2
  <2>4. QED
    BY <1>1, <1>2, <1>5, <1>6, <1>7, <2>1, <2>2, <2>3 DEF QueueInv, Ids
<1>11. QED
  BY <1>8, <1>9, <1>10 DEF QueueInv

\* One more entry in the history.
LEMMA ArchivedFacts ==
  ASSUME QueueInv, NEW e \in Entry, e.id \notin IdsOf(history), NEW r,
         r = Recent(Append(history, e))
  PROVE  /\ r \in Seq(Entry) /\ Len(r) <= MaxHistory /\ Unique(r)
         /\ IdsOf(r) \subseteq IdsOf(history) \union {e.id}
         /\ \/ Len(r) = MaxHistory
            \/ /\ Len(history) # MaxHistory
               /\ IdsOf(r) = IdsOf(history) \union {e.id}
<1>1. history \in Seq(Entry) /\ Unique(history) /\ scenario \in Scenarios
      /\ MaxHistory \in Nat /\ Len(history) \in Nat /\ Len(history) <= MaxHistory
  BY Scenario, LenProperties DEF QueueInv, Motions, Ids
<1> DEFINE t == Append(history, e)
<1>2. /\ t \in Seq(Entry) /\ Len(t) = Len(history) + 1 /\ Unique(t)
      /\ IdsOf(t) = IdsOf(history) \union {e.id}
  BY <1>1, AppendIds
<1> HIDE DEF t
<1>3. r = Recent(t)
  BY DEF t
<1>4. /\ r \in Seq(Entry) /\ Len(r) <= MaxHistory /\ Unique(r)
      /\ IdsOf(r) \subseteq IdsOf(t) /\ (Len(r) = MaxHistory \/ r = t)
  BY <1>1, <1>2, <1>3, RecentFacts
<1>5. r = t /\ Len(r) # MaxHistory => Len(history) # MaxHistory
  BY <1>1, <1>2, <1>4
<1>6. QED
  BY <1>2, <1>4, <1>5

LEMMA StatusEntry ==
  ASSUME NEW m \in Motion
  PROVE  StatusOf(m) \in Entry /\ StatusOf(m).id = m.id /\ StatusOf(m).state = m.state
         /\ m.id \in Nat
<1>1. m.id \in 0 .. MaxIds /\ m.state \in MotionStates
  BY DEF Motion, MotionStates
<1>2. m.id \in Nat
  BY <1>1, Constants
<1>3. QED
  BY <1>1, <1>2 DEF StatusOf, Entry

\* The head of the queue becomes the active motion.
LEMMA AdvancedStep ==
  ASSUME QueueInv, scenario' = scenario, Advanced
  PROVE  QueueInv'
<1> DEFINE e == [id |-> ctl.id, state |-> "COMPLETED"]
<1>1. /\ queue # <<>> /\ ctl.state = "RUNNING" /\ history' = Recent(Append(history, e))
      /\ ctl' = Activated(Head(queue)) /\ queue' = Tail(queue) /\ nextId' = nextId
  BY DEF Advanced
<1>2. /\ Motion' = Motion /\ MaxHistory' = MaxHistory /\ MaxQueue' = MaxQueue
      /\ Inputs' = Inputs /\ MaxQueue \in Nat /\ scenario \in Scenarios
      /\ queue \in Seq(Motion) /\ ctl \in Motion /\ nextId \in Nat
      /\ Len(queue) \in Nat /\ Len(queue) <= MaxQueue
  BY SameScenario, Scenario, Constants, LenProperties DEF QueueInv, Motions
<1>3. e \in Entry /\ e.id = ctl.id /\ e.id \notin IdsOf(history)
  <2>1. ctl.id \in Nat
    BY <1>2, StatusEntry
  <2>2. QED
    BY <2>1 DEF Entry, MotionStates, QueueInv, Ids
<1> HIDE DEF e
<1>4. /\ history' \in Seq(Entry) /\ Len(history') <= MaxHistory /\ Unique(history')
      /\ IdsOf(history') \subseteq IdsOf(history) \union {ctl.id}
      /\ \/ Len(history') = MaxHistory
         \/ /\ Len(history) # MaxHistory
            /\ IdsOf(history') = IdsOf(history) \union {ctl.id}
  BY <1>1, <1>3, ArchivedFacts
<1>5. /\ Head(queue) \in Motion /\ Head(queue) = queue[1] /\ queue' \in Seq(Motion)
      /\ 1 \in DOMAIN queue /\ Len(queue') = Len(queue) - 1
      /\ \A i \in DOMAIN queue' : i + 1 \in DOMAIN queue /\ queue'[i] = queue[i + 1]
      /\ IdsOf(queue) = IdsOf(queue') \union {Head(queue).id}
      /\ Unique(queue') /\ Head(queue).id \notin IdsOf(queue')
  BY <1>1, <1>2, TailIds DEF QueueInv, Ids
<1>6. DOMAIN queue' = 1 .. Len(queue) - 1 /\ DOMAIN queue = 1 .. Len(queue)
  BY <1>2, <1>5, LenProperties
<1>7. /\ ctl' \in Motion /\ SameMotion(queue[1], ctl') /\ ctl'.state = "RUNNING"
  BY <1>1, <1>2, <1>5, ActivatedFacts
<1>8. Motions'
  BY <1>1, <1>2, <1>4, <1>5, <1>7 DEF QueueInv, Motions
<1>9. Shapes'
  <2>1. Len(ctl'.path) = ctl'.approach + 2
    BY <1>5, <1>7 DEF QueueInv, Shapes, SameMotion
  <2>2. ASSUME NEW i \in DOMAIN queue'
        PROVE  /\ Len(queue'[i].path) = queue'[i].approach + 2
               /\ queue'[i].approach + i <= MaxQueue + 1
               /\ queue'[i].state = "QUEUED"
    <3>1. /\ i + 1 \in DOMAIN queue /\ queue'[i] = queue[i + 1] /\ i \in Nat
          /\ queue[i + 1].approach \in Nat
      <4>1. i + 1 \in DOMAIN queue /\ queue'[i] = queue[i + 1] /\ i \in Nat
        BY <1>5, <1>6
      <4>2. queue[i + 1] \in Motion
        BY <1>2, <1>6, <4>1, ElementOfSeq
      <4>3. queue[i + 1].approach \in 0 .. MaxQueue
        BY <4>2 DEF Motion
      <4>4. QED
        BY <1>2, <4>1, <4>3
    <3>2. /\ Len(queue[i + 1].path) = queue[i + 1].approach + 2
          /\ queue[i + 1].approach + (i + 1) <= MaxQueue + 1
          /\ queue[i + 1].state = "QUEUED"
      BY <3>1 DEF QueueInv, Shapes
    <3>3. QED
      BY <1>2, <3>1, <3>2
  <2>3. QED
    BY <1>2, <1>7, <2>1, <2>2 DEF Shapes, Active
<1>10. Chain'
  <2>1. ASSUME NEW i \in DOMAIN queue'
        PROVE  queue'[i].path[1] = Final(Predecessor(i)')
    <3>1. i + 1 \in DOMAIN queue /\ queue'[i] = queue[i + 1] /\ i \in 1 .. Len(queue) - 1
      BY <1>5, <1>6
    <3>2. queue[i + 1].path[1] = Final(Predecessor(i + 1))
      BY <3>1 DEF QueueInv, Chain
    <3>3. Predecessor(i + 1) = queue[i]
      BY <1>2, <3>1 DEF Predecessor
    <3>4. Final(Predecessor(i)') = Final(queue[i])
      <4>1. CASE i = 1
        BY <1>7, <4>1 DEF Predecessor, Final, Last, SameMotion
      <4>2. CASE i # 1
        <5>1. i - 1 \in DOMAIN queue' /\ (i - 1) + 1 = i
          BY <1>2, <1>6, <3>1, <4>2
        <5>2. queue'[i - 1] = queue[i]
          BY <1>5, <5>1
        <5>3. QED
          BY <4>2, <5>2 DEF Predecessor
      <4>3. QED
        BY <4>1, <4>2
    <3>5. QED
      BY <3>1, <3>2, <3>3, <3>4
  <2>2. QED
    BY <1>7, <2>1 DEF Chain, Final
<1>11. Ids'
  <2>1. ctl'.id = Head(queue).id /\ Head(queue).id \in IdsOf(queue)
    BY <1>5, <1>7 DEF SameMotion
  <2>2. ctl'.id \in 1 .. nextId - 1 /\ IdsOf(queue') \subseteq 1 .. nextId - 1
    BY <1>5, <2>1 DEF QueueInv, Ids
  <2>3. ctl.id \in 1 .. nextId - 1
    <3>1. ctl.id \in Nat /\ ctl.id # 0
      BY <1>1, <1>2, StatusEntry DEF QueueInv, Ids
    <3>2. QED
      BY <1>2, <3>1 DEF QueueInv, Ids
  <2>4. IdsOf(history') \subseteq 1 .. nextId - 1
    BY <1>4, <2>3 DEF QueueInv, Ids
  <2>5. /\ ctl'.id \notin IdsOf(queue') /\ ctl'.id \notin IdsOf(history')
        /\ IdsOf(queue') \cap IdsOf(history') = {}
    BY <1>4, <1>5, <2>1 DEF QueueInv, Ids
  <2>6. Len(history') = MaxHistory \/ 1 .. nextId - 1 \subseteq Known'
    <3>1. Known' = IdsOf(queue) \union IdsOf(history')
      BY <1>5, <2>1 DEF Known
    <3>2. QED
      BY <1>4, <3>1 DEF QueueInv, Ids, Known
  <2>7. ctl'.id # 0 /\ ctl'.id < nextId
    BY <1>2, <2>2
  <2>8. QED
    BY <1>1, <1>2, <1>4, <1>5, <1>7, <2>2, <2>4, <2>5, <2>6, <2>7 DEF Ids
<1>12. Newest'
  <2>1. ASSUME "cancel_motion" \notin Inputs, queue' # <<>>
        PROVE  Last(queue').id = nextId - 1
    <3>1. Len(queue) - 1 \in DOMAIN queue'
      BY <1>2, <1>5, <1>6, <2>1, EmptySeq
    <3>2. Last(queue') = Last(queue)
      BY <1>2, <1>5, <3>1 DEF Last
    <3>3. QED
      BY <1>1, <2>1, <3>2 DEF QueueInv, Newest
  <2>2. ASSUME "cancel_motion" \notin Inputs, queue' = <<>>
        PROVE  ctl'.id = nextId - 1
    <3>1. Len(queue') = 0
      BY <2>2
    <3>2. Len(queue) = 1
      BY <1>2, <1>5, <3>1
    <3>3. Last(queue) = queue[1]
      BY <3>2 DEF Last
    <3>4. QED
      BY <1>1, <1>7, <2>2, <3>3 DEF QueueInv, Newest, SameMotion
  <2>3. QED
    BY <1>1, <1>2, <2>1, <2>2 DEF Newest
<1>13. QED
  BY <1>8, <1>9, <1>10, <1>11, <1>12 DEF QueueInv

\* A new motion takes the place of one that has ended.
LEMMA ReplacedStep ==
  ASSUME QueueInv, scenario' = scenario, Replaced
  PROVE  QueueInv'
<1>1. PICK m \in Motion :
        /\ m.id = nextId /\ Len(m.path) = m.approach + 2 /\ ctl' = Activated(m)
  BY DEF Replaced
<1>2. /\ ctl.state # "RUNNING" /\ nextId <= MaxIds /\ nextId' = nextId + 1
      /\ history' = Archive(history, ctl) /\ queue' = queue
  BY DEF Replaced
<1>3. /\ Motion' = Motion /\ MaxHistory' = MaxHistory /\ MaxQueue' = MaxQueue
      /\ Inputs' = Inputs /\ MaxQueue \in Nat /\ scenario \in Scenarios
      /\ ctl \in Motion /\ nextId \in Nat /\ nextId >= 1 /\ MaxIds \in Nat
  BY SameScenario, Scenario, Constants DEF QueueInv, Motions
<1>4. queue = <<>> /\ DOMAIN queue = {} /\ IdsOf(queue) = {}
  BY <1>2 DEF QueueInv, Chain, IdsOf
<1>5. /\ ctl' \in Motion /\ ctl'.id = nextId /\ ctl'.state = "RUNNING"
      /\ Len(ctl'.path) = ctl'.approach + 2
  BY <1>1, <1>3, ActivatedFacts DEF SameMotion
<1>6. /\ history' \in Seq(Entry) /\ Len(history') <= MaxHistory /\ Unique(history')
      /\ IdsOf(history') \subseteq 1 .. nextId - 1
      /\ Len(history') = MaxHistory \/ 1 .. nextId - 1 \subseteq IdsOf(history')
  <2>1. CASE ctl.id = 0
    <3>1. history' = history /\ nextId = 1
      BY <1>2, <2>1 DEF Archive, QueueInv, Ids
    <3>2. 1 .. nextId - 1 = {}
      BY <3>1
    <3>3. QED
      BY <3>1, <3>2 DEF QueueInv, Motions, Ids
  <2>2. CASE ctl.id # 0
    <3>1. history' = Recent(Append(history, StatusOf(ctl)))
      BY <1>2, <2>2 DEF Archive
    <3>2. StatusOf(ctl) \in Entry /\ StatusOf(ctl).id = ctl.id /\ ctl.id \in Nat
          /\ ctl.id \notin IdsOf(history)
      BY <1>3, StatusEntry DEF QueueInv, Ids
    <3>3. /\ history' \in Seq(Entry) /\ Len(history') <= MaxHistory /\ Unique(history')
          /\ IdsOf(history') \subseteq IdsOf(history) \union {ctl.id}
          /\ \/ Len(history') = MaxHistory
             \/ /\ Len(history) # MaxHistory
                /\ IdsOf(history') = IdsOf(history) \union {ctl.id}
      BY <3>1, <3>2, ArchivedFacts
    <3>4. ctl.id \in 1 .. nextId - 1
      BY <1>3, <2>2, <3>2 DEF QueueInv, Ids
    <3>5. Len(history) # MaxHistory =>
            1 .. nextId - 1 \subseteq IdsOf(history) \union {ctl.id}
      BY <1>4 DEF QueueInv, Ids, Known
    <3>6. QED
      BY <3>3, <3>4, <3>5 DEF QueueInv, Ids
  <2>3. QED
    BY <2>1, <2>2
<1>7. Motions'
  BY <1>2, <1>3, <1>5, <1>6 DEF QueueInv, Motions
<1>8. Shapes' /\ Chain'
  BY <1>2, <1>4, <1>5 DEF Shapes, Chain
<1>9. Ids'
  <2>1. nextId \notin 1 .. nextId - 1 /\ 1 .. nextId - 1 \subseteq 1 .. (nextId + 1) - 1
        /\ nextId < nextId + 1 /\ nextId # 0
        /\ 1 .. (nextId + 1) - 1 \subseteq (1 .. nextId - 1) \union {nextId}
    BY <1>3
  <2>2. nextId \notin IdsOf(history')
    BY <1>6, <2>1
  <2>3. Len(history') = MaxHistory \/ 1 .. nextId' - 1 \subseteq Known'
    BY <1>2, <1>5, <1>6, <2>1 DEF Known
  <2>4. QED
    BY <1>2, <1>3, <1>4, <1>5, <1>6, <2>1, <2>2, <2>3 DEF QueueInv, Ids
<1>10. Newest'
  BY <1>2, <1>3, <1>4, <1>5 DEF Newest
<1>11. QED
  BY <1>7, <1>8, <1>9, <1>10 DEF QueueInv

\* An accepted motion waits at the end of the queue.
LEMMA EnqueuedStep ==
  ASSUME QueueInv, scenario' = scenario, Enqueued
  PROVE  QueueInv'
<1>1. PICK m \in Motion :
        /\ m.id = nextId /\ m.state = "QUEUED" /\ m.approach <= 1
        /\ Len(m.path) = m.approach + 2
        /\ m.path[1] = IF queue = <<>> THEN Final(ctl) ELSE Final(Last(queue))
        /\ queue' = Append(queue, m)
  BY DEF Enqueued
<1>2. /\ ctl.state = "RUNNING" /\ nextId <= MaxIds /\ nextId' = nextId + 1
      /\ Len(queue) < MaxQueue /\ ctl' = ctl /\ history' = history
  BY DEF Enqueued
<1>3. /\ Motion' = Motion /\ MaxHistory' = MaxHistory /\ MaxQueue' = MaxQueue
      /\ Inputs' = Inputs /\ MaxQueue \in Nat /\ scenario \in Scenarios
      /\ queue \in Seq(Motion) /\ nextId \in Nat /\ nextId >= 1 /\ MaxIds \in Nat
      /\ Len(queue) \in Nat
  BY SameScenario, Scenario, Constants, LenProperties DEF QueueInv, Motions
<1>4. nextId \notin 1 .. nextId - 1 /\ 1 .. nextId - 1 \subseteq 1 .. (nextId + 1) - 1
      /\ nextId \in 1 .. (nextId + 1) - 1
      /\ 1 .. (nextId + 1) - 1 \subseteq (1 .. nextId - 1) \union {nextId}
  BY <1>3
<1>5. /\ queue' \in Seq(Motion) /\ Len(queue') = Len(queue) + 1
      /\ IdsOf(queue') = IdsOf(queue) \union {nextId} /\ Unique(queue')
  <2>1. Unique(queue) /\ m.id \notin IdsOf(queue)
    BY <1>1, <1>4 DEF QueueInv, Ids
  <2>2. QED
    BY <1>1, <1>3, <2>1, AppendIds
<1>6. /\ DOMAIN queue = 1 .. Len(queue) /\ DOMAIN queue' = 1 .. Len(queue) + 1
      /\ \A i \in 1 .. Len(queue) : queue'[i] = queue[i]
      /\ queue'[Len(queue) + 1] = m
  BY <1>1, <1>3, <1>5, AppendProperties, LenProperties
<1>7. Motions'
  BY <1>2, <1>3, <1>5 DEF QueueInv, Motions
<1>8. Shapes'
  <2>1. ASSUME NEW i \in DOMAIN queue'
        PROVE  /\ Len(queue'[i].path) = queue'[i].approach + 2
               /\ queue'[i].approach + i <= MaxQueue + 1
               /\ queue'[i].state = "QUEUED"
    <3>1. CASE i \in 1 .. Len(queue)
      BY <1>6, <3>1 DEF QueueInv, Shapes
    <3>2. CASE i = Len(queue) + 1
      <4>1. m.approach \in Nat
        <5>1. m.approach \in 0 .. MaxQueue
          BY <1>1 DEF Motion
        <5>2. QED
          BY <1>3, <5>1
      <4>2. m.approach + (Len(queue) + 1) <= MaxQueue + 1
        BY <1>1, <1>2, <1>3, <4>1
      <4>3. QED
        BY <1>1, <1>6, <3>2, <4>2
    <3>3. QED
      BY <1>3, <1>6, <3>1, <3>2
  <2>2. QED
    BY <1>2, <1>3, <2>1 DEF QueueInv, Shapes
<1>9. Chain'
  <2>1. ASSUME NEW i \in DOMAIN queue'
        PROVE  queue'[i].path[1] = Final(Predecessor(i)')
    <3>1. CASE i \in 1 .. Len(queue)
      <4>1. Predecessor(i)' = Predecessor(i)
        <5>1. i = 1 \/ i - 1 \in 1 .. Len(queue)
          BY <1>3, <3>1
        <5>2. QED
          BY <1>2, <1>6, <5>1 DEF Predecessor
      <4>2. QED
        BY <1>6, <3>1, <4>1 DEF QueueInv, Chain
    <3>2. CASE i = Len(queue) + 1
      <4>1. CASE queue = <<>>
        BY <1>1, <1>2, <1>6, <3>2, <4>1 DEF Predecessor
      <4>2. CASE queue # <<>>
        <5>1. Len(queue) \in 1 .. Len(queue)
          BY <1>3, <4>2, EmptySeq
        <5>2. i # 1 /\ i - 1 = Len(queue)
          BY <1>3, <3>2, <5>1
        <5>3. Predecessor(i)' = Last(queue)
          BY <1>6, <5>1, <5>2 DEF Predecessor, Last
        <5>4. QED
          BY <1>1, <1>6, <3>2, <4>2, <5>3
      <4>3. QED
        BY <4>1, <4>2
    <3>3. QED
      BY <1>3, <1>6, <3>1, <3>2
  <2>2. QED
    BY <1>2, <2>1 DEF Chain, Final
<1>10. Ids'
  <2>1. ctl'.id < nextId' /\ (ctl'.id = 0 => nextId' = 1)
        /\ (ctl'.id = 0 <=> ctl'.state = "IDLE")
    <3>1. ctl.id \in Nat /\ ctl.id # 0
      BY <1>2, StatusEntry DEF QueueInv, Motions, Ids
    <3>2. QED
      BY <1>2, <1>3, <3>1 DEF QueueInv, Ids
  <2>2. IdsOf(queue') \subseteq 1 .. nextId' - 1 /\ IdsOf(history') \subseteq 1 .. nextId' - 1
    BY <1>2, <1>4, <1>5 DEF QueueInv, Ids
  <2>3. ctl'.id \notin IdsOf(queue') /\ ctl'.id \notin IdsOf(history')
    <3>1. ctl.id # nextId
      <4>1. ctl.id \in Nat /\ ctl.id < nextId
        BY StatusEntry DEF QueueInv, Motions, Ids
      <4>2. QED
        BY <1>3, <4>1
    <3>2. QED
      BY <1>2, <1>5, <3>1 DEF QueueInv, Ids
  <2>4. IdsOf(queue') \cap IdsOf(history') = {}
    BY <1>2, <1>4, <1>5 DEF QueueInv, Ids
  <2>5. Len(history') = MaxHistory \/ 1 .. nextId' - 1 \subseteq Known'
    BY <1>2, <1>4, <1>5 DEF QueueInv, Ids, Known
  <2>6. QED
    BY <1>2, <1>3, <1>5, <2>1, <2>2, <2>3, <2>4, <2>5 DEF QueueInv, Ids
<1>11. Newest'
  <2>1. queue' # <<>> /\ Last(queue').id = nextId' - 1
    <3>1. Last(queue') = m /\ Len(queue') # 0
      BY <1>3, <1>5, <1>6 DEF Last
    <3>2. QED
      BY <1>1, <1>2, <1>3, <1>5, <3>1, EmptySeq
  <2>2. QED
    BY <2>1 DEF Newest
<1>12. QED
  BY <1>7, <1>8, <1>9, <1>10, <1>11 DEF QueueInv

LEMMA RemoveFacts ==
  ASSUME NEW S, NEW s \in Seq(S), NEW i \in 1 .. Len(s)
  PROVE  LET t == RemoveAt(s, i)
         IN  /\ t \in Seq(S) /\ Len(t) = Len(s) - 1
             /\ \A j \in 1 .. Len(s) - 1 : t[j] = IF j < i THEN s[j] ELSE s[j + 1]
<1> DEFINE n == Len(s)
           a == SubSeq(s, 1, i - 1)
           b == SubSeq(s, i + 1, n)
<1>1. n \in Nat /\ \A j \in 1 .. n : s[j] \in S
  BY LenProperties, ElementOfSeq
<1>2. i \in Nat /\ i >= 1 /\ i <= n
  BY <1>1
<1>3. /\ a \in Seq(S) /\ Len(a) = i - 1
      /\ \A j \in 1 .. i - 1 : a[j] = s[j]
  <2> HIDE DEF n
  <2>1. i - 1 \in Int /\ 1 \in Int /\ \A j \in 1 .. i - 1 : s[j] \in S
    BY <1>1, <1>2
  <2>2. /\ a \in Seq(S) /\ Len(a) = IF 1 <= i - 1 THEN i - 1 - 1 + 1 ELSE 0
        /\ \A j \in 1 .. i - 1 - 1 + 1 : a[j] = s[1 + j - 1]
    BY <2>1, SubSeqProperties
  <2>3. QED
    <3> HIDE DEF a
    <3>1. \A j \in 1 .. i - 1 : j \in 1 .. i - 1 - 1 + 1 /\ 1 + j - 1 = j
      BY <1>2
    <3>2. Len(a) = i - 1
      BY <1>2, <2>2
    <3>3. QED
      BY <2>2, <3>1, <3>2
<1>4. /\ b \in Seq(S) /\ Len(b) = n - i
      /\ \A j \in 1 .. n - i : b[j] = s[i + j]
  <2> HIDE DEF n
  <2>1. i + 1 \in Int /\ n \in Int /\ \A j \in i + 1 .. n : s[j] \in S
    BY <1>1, <1>2
  <2>2. /\ b \in Seq(S) /\ Len(b) = IF i + 1 <= n THEN n - (i + 1) + 1 ELSE 0
        /\ \A j \in 1 .. n - (i + 1) + 1 : b[j] = s[(i + 1) + j - 1]
    BY <2>1, SubSeqProperties
  <2>3. QED
    <3> HIDE DEF b
    <3>1. \A j \in 1 .. n - i : j \in 1 .. n - (i + 1) + 1 /\ (i + 1) + j - 1 = i + j
      BY <1>1, <1>2
    <3>2. Len(b) = n - i
      BY <1>1, <1>2, <2>2
    <3>3. QED
      BY <2>2, <3>1, <3>2
<1>5. RemoveAt(s, i) = a \o b
  BY DEF RemoveAt
<1> HIDE DEF a, b, n
<1> DEFINE t == a \o b
<1>6. /\ t \in Seq(S) /\ Len(t) = (i - 1) + (n - i)
      /\ \A j \in 1 .. (i - 1) + (n - i) :
           t[j] = IF j <= i - 1 THEN a[j] ELSE b[j - (i - 1)]
  <2>1. /\ t \in Seq(S) /\ Len(t) = Len(a) + Len(b)
        /\ \A j \in 1 .. Len(a) + Len(b) :
             t[j] = IF j <= Len(a) THEN a[j] ELSE b[j - Len(a)]
    BY <1>3, <1>4, ConcatProperties
  <2> HIDE DEF t
  <2>2. QED
    BY <1>3, <1>4, <2>1
<1> HIDE DEF t
<1>7. ASSUME NEW j \in 1 .. n - 1
      PROVE  t[j] = IF j < i THEN s[j] ELSE s[j + 1]
  <2>1. j \in 1 .. (i - 1) + (n - i)
    BY <1>1, <1>2
  <2>2. CASE j < i
    <3>1. j \in 1 .. i - 1 /\ j <= i - 1
      BY <1>1, <1>2, <2>2
    <3>2. QED
      BY <1>3, <1>6, <2>1, <2>2, <3>1
  <2>3. CASE ~(j < i)
    <3>1. j - (i - 1) \in 1 .. n - i /\ ~(j <= i - 1) /\ i + (j - (i - 1)) = j + 1
      BY <1>1, <1>2, <2>3
    <3>2. QED
      BY <1>4, <1>6, <2>1, <2>3, <3>1
  <2>4. QED
    BY <2>2, <2>3
<1>8. Len(t) = n - 1
  BY <1>1, <1>2, <1>6
<1>9. QED
  BY <1>5, <1>6, <1>7, <1>8 DEF t, n

\* The successor of a cancelled motion gets one more knot in front.
LEMMA ReboundFacts ==
  ASSUME scenario \in Scenarios, NEW m \in Motion, NEW from \in Pos,
         Len(m.path) = m.approach + 2, m.approach + 1 <= MaxQueue
  PROVE  LET n == Rebound(m, from)
         IN  /\ n \in Motion /\ n.id = m.id /\ n.state = m.state
             /\ n.approach = m.approach + 1 /\ Len(n.path) = n.approach + 2
             /\ n.path[1] = from /\ Final(n) = Final(m)
<1> DEFINE p == <<from>> \o m.path
           a == m.approach + 1
<1>1. m.path \in Seq(Pos) /\ m.approach \in Nat /\ MaxQueue \in Nat
  <2>1. m.path \in Seq(Pos) /\ m.approach \in 0 .. MaxQueue
    BY DEF Motion
  <2>2. QED
    BY <2>1, Scenario
<1>2. /\ p \in Seq(Pos) /\ Len(p) = 1 + Len(m.path) /\ p[1] = from
      /\ p[1 + Len(m.path)] = m.path[Len(m.path)]
  <2>1. <<from>> \in Seq(Pos) /\ Len(<<from>>) = 1 /\ <<from>>[1] = from
    OBVIOUS
  <2>2. /\ p \in Seq(Pos) /\ Len(p) = 1 + Len(m.path)
        /\ \A i \in 1 .. 1 + Len(m.path) :
             p[i] = IF i <= 1 THEN <<from>>[i] ELSE m.path[i - 1]
    BY <1>1, <2>1, ConcatProperties
  <2> HIDE DEF p
  <2>3. /\ 1 \in 1 .. 1 + Len(m.path) /\ 1 + Len(m.path) \in 1 .. 1 + Len(m.path)
        /\ ~(1 + Len(m.path) <= 1) /\ (1 + Len(m.path)) - 1 = Len(m.path)
    BY <1>1
  <2>4. p[1 + Len(m.path)] = m.path[(1 + Len(m.path)) - 1]
    BY <2>2, <2>3
  <2>5. p[1] = <<from>>[1]
    BY <2>2, <2>3
  <2>6. p[1] = from
    BY <2>1, <2>5
  <2>7. QED
    BY <2>2, <2>3, <2>4, <2>6
<1>3. a \in 0 .. MaxQueue
  BY <1>1
<1>4. Rebound(m, from) = [m EXCEPT !.path = p, !.approach = a]
  BY DEF Rebound
<1>5. Len(p) = a + 2
  BY <1>1, <1>2
<1> HIDE DEF p, a
<1>6. Rebound(m, from) \in Motion
  BY <1>2, <1>3, <1>4 DEF Motion
<1>7. /\ Rebound(m, from).id = m.id /\ Rebound(m, from).state = m.state
      /\ Rebound(m, from).path = p /\ Rebound(m, from).approach = a
  BY <1>4, <1>6 DEF Motion
<1>8. Final(Rebound(m, from)) = Final(m)
  BY <1>2, <1>7 DEF Final, Last
<1>9. QED
  BY <1>2, <1>5, <1>6, <1>7, <1>8 DEF a

LEMMA PredecessorFacts ==
  ASSUME QueueInv, NEW i \in DOMAIN queue
  PROVE  Final(Predecessor(i)) \in Pos
<1>1. /\ ctl \in Motion /\ queue \in Seq(Motion) /\ DOMAIN queue = 1 .. Len(queue)
      /\ Len(queue) \in Nat /\ scenario \in Scenarios
  BY LenProperties DEF QueueInv, Motions
<1>2. queue # <<>> /\ ctl.state = "RUNNING"
  BY DEF QueueInv, Chain
<1> DEFINE m == Predecessor(i)
<1>3. m \in Motion /\ Len(m.path) = m.approach + 2
  <2>1. CASE i = 1
    BY <1>1, <1>2, <2>1 DEF Predecessor, QueueInv, Shapes, Active
  <2>2. CASE i # 1
    <3>1. i - 1 \in DOMAIN queue
      BY <1>1, <2>2
    <3>2. queue[i - 1] \in Motion
      BY <1>1, <3>1, ElementOfSeq
    <3>3. QED
      BY <2>2, <3>1, <3>2 DEF Predecessor, QueueInv, Shapes
  <2>3. QED
    BY <2>1, <2>2
<1> HIDE DEF m
<1>4. m.path \in Seq(Pos) /\ m.approach \in 0 .. MaxQueue
  BY <1>3 DEF Motion
<1>5. m.approach \in Nat
  BY <1>1, <1>4, Scenario
<1>6. Len(m.path) \in 1 .. Len(m.path)
  BY <1>3, <1>5
<1>7. QED
  BY <1>4, <1>6, ElementOfSeq DEF Final, Last, m

LEMMA DetachedFacts ==
  ASSUME QueueInv, NEW i \in DOMAIN queue, NEW t, t = Detached(i)
  PROVE  LET n == Len(queue)
         IN  /\ n \in Nat /\ i \in 1 .. n
             /\ t \in Seq(Motion) /\ Len(t) = n - 1
             /\ \A j \in 1 .. n - 1 : j < i => t[j] = queue[j]
             /\ \A j \in 1 .. n - 1 : j > i => t[j] = queue[j + 1]
             /\ i < n => t[i] = Rebound(queue[i + 1], Final(Predecessor(i)))
<1> DEFINE n == Len(queue)
           q == queue[i + 1]
           r == Rebound(q, Final(Predecessor(i)))
<1>1. /\ queue \in Seq(Motion) /\ DOMAIN queue = 1 .. n /\ n \in Nat
      /\ scenario \in Scenarios /\ i \in 1 .. n /\ MaxQueue \in Nat
      /\ \A j \in 1 .. n : queue[j] \in Motion
  <2>1. queue \in Seq(Motion) /\ scenario \in Scenarios
    BY DEF QueueInv, Motions
  <2>2. DOMAIN queue = 1 .. n /\ n \in Nat
    BY <2>1, LenProperties
  <2>3. MaxQueue \in Nat
    BY <2>1, Scenario, Zenon
  <2>4. QED
    BY <2>1, <2>2, <2>3, ElementOfSeq
<1>2. CASE i = n
  <2>1. t = SubSeq(queue, 1, n - 1)
    BY <1>2 DEF Detached, Front
  <2> HIDE DEF n
  <2>2. 1 \in Int /\ n - 1 \in Int /\ \A j \in 1 .. n - 1 : queue[j] \in Motion
    BY <1>1
  <2>3. /\ t \in Seq(Motion) /\ Len(t) = IF 1 <= n - 1 THEN n - 1 - 1 + 1 ELSE 0
        /\ \A j \in 1 .. n - 1 - 1 + 1 : t[j] = queue[1 + j - 1]
    BY <2>1, <2>2, SubSeqProperties
  <2>4. \A j \in 1 .. n - 1 : j \in 1 .. n - 1 - 1 + 1 /\ 1 + j - 1 = j /\ ~(j > i)
    BY <1>1, <1>2
  <2>5. Len(t) = n - 1 /\ ~(i < n)
    BY <1>1, <1>2, <2>3
  <2>6. QED
    BY <1>1, <2>3, <2>4, <2>5 DEF n
<1>3. CASE i # n
  <2>1. i \in Nat /\ i >= 1 /\ i + 1 \in 1 .. n /\ i < n /\ i \in 1 .. n - 1
    <3> HIDE DEF n
    <3>1. QED
      BY <1>1, <1>3
  <2>2. q \in Motion /\ Len(q.path) = q.approach + 2 /\ q.approach + (i + 1) <= MaxQueue + 1
    BY <1>1, <2>1 DEF QueueInv, Shapes
  <2>3. q.approach + 1 <= MaxQueue
    <3>1. q.approach \in 0 .. MaxQueue
      BY <2>2 DEF Motion
    <3>2. q.approach \in Nat
      BY <1>1, <3>1
    <3>3. QED
      BY <1>1, <2>1, <2>2, <3>2
  <2>4. r \in Motion
    BY <1>1, <2>2, <2>3, PredecessorFacts, ReboundFacts
  <2> DEFINE s == [queue EXCEPT ![i + 1] = r]
  <2>5. t = RemoveAt(s, i)
    BY <1>3 DEF Detached
  <2> HIDE DEF r, q
  <2>6. /\ s \in Seq(Motion) /\ Len(s) = n
        /\ \A j \in 1 .. n : s[j] = IF j = i + 1 THEN r ELSE queue[j]
    BY <1>1, <2>1, <2>4, ExceptSeq
  <2> HIDE DEF s, n
  <2>7. /\ t \in Seq(Motion) /\ Len(t) = n - 1
        /\ \A j \in 1 .. n - 1 : t[j] = IF j < i THEN s[j] ELSE s[j + 1]
    <3>1. i \in 1 .. Len(s)
      BY <1>1, <2>6
    <3>2. /\ t \in Seq(Motion) /\ Len(t) = Len(s) - 1
          /\ \A j \in 1 .. Len(s) - 1 : t[j] = IF j < i THEN s[j] ELSE s[j + 1]
      BY <2>5, <2>6, <3>1, RemoveFacts
    <3>3. QED
      BY <2>6, <3>2
  <2>8. ASSUME NEW j \in 1 .. n - 1, j < i
        PROVE  t[j] = queue[j]
    <3>1. j \in 1 .. n /\ j # i + 1
      BY <1>1, <2>1, <2>8
    <3>2. QED
      BY <2>6, <2>7, <2>8, <3>1
  <2>9. ASSUME NEW j \in 1 .. n - 1, j > i
        PROVE  t[j] = queue[j + 1]
    <3>1. j + 1 \in 1 .. n /\ j + 1 # i + 1 /\ ~(j < i)
      BY <1>1, <2>1, <2>9
    <3>2. QED
      BY <2>6, <2>7, <2>9, <3>1
  <2>10. t[i] = r
    <3>1. ~(i < i)
      BY <2>1
    <3>2. QED
      BY <2>1, <2>6, <2>7, <3>1
  <2>11. QED
    BY <1>1, <2>7, <2>8, <2>9, <2>10 DEF n, r, q
<1>4. QED
  BY <1>2, <1>3

\* The place in the queue from which a motion came when the i-th was taken out.
Before(i, j) == IF j < i THEN j ELSE j + 1

LEMMA DetachedIds ==
  ASSUME QueueInv, NEW i \in DOMAIN queue, NEW t, t = Detached(i)
  PROVE  /\ IdsOf(t) = IdsOf(queue) \ {queue[i].id} /\ Unique(t)
         /\ \A j \in DOMAIN t : t[j].id = queue[Before(i, j)].id
                                /\ t[j].state = "QUEUED"
                                /\ Len(t[j].path) = t[j].approach + 2
                                /\ t[j].approach + j <= MaxQueue + 1
                                /\ Final(t[j]) = Final(queue[Before(i, j)])
<1> DEFINE n == Len(queue)
<1>1. /\ n \in Nat /\ i \in 1 .. n /\ t \in Seq(Motion) /\ Len(t) = n - 1
      /\ \A j \in 1 .. n - 1 : j < i => t[j] = queue[j]
      /\ \A j \in 1 .. n - 1 : j > i => t[j] = queue[j + 1]
      /\ i < n => t[i] = Rebound(queue[i + 1], Final(Predecessor(i)))
  BY DetachedFacts
<1>2. /\ queue \in Seq(Motion) /\ DOMAIN queue = 1 .. n /\ scenario \in Scenarios
      /\ \A j \in 1 .. n : queue[j] \in Motion /\ queue[j].approach \in Nat
      /\ DOMAIN t = 1 .. n - 1 /\ MaxQueue \in Nat
      /\ \A j \in 1 .. n : /\ Len(queue[j].path) = queue[j].approach + 2
                           /\ queue[j].approach + j <= MaxQueue + 1
                           /\ queue[j].state = "QUEUED"
  <2>1. /\ queue \in Seq(Motion) /\ DOMAIN queue = 1 .. n /\ scenario \in Scenarios
        /\ \A j \in 1 .. n : queue[j] \in Motion
    BY LenProperties, ElementOfSeq DEF QueueInv, Motions
  <2>2. DOMAIN t = 1 .. n - 1
    BY <1>1, LenProperties
  <2>3. \A j \in 1 .. n : queue[j].approach \in 0 .. MaxQueue
    BY <2>1 DEF Motion
  <2>4. MaxQueue \in Nat
    BY <2>1, Scenario
  <2>5. \A j \in 1 .. n : queue[j].approach \in Nat
    BY <2>3, <2>4
  <2>6. QED
    BY <2>1, <2>2, <2>4, <2>5 DEF QueueInv, Shapes
<1> HIDE DEF n
<1>3. ASSUME NEW j \in 1 .. n - 1
      PROVE  /\ t[j].id = queue[Before(i, j)].id /\ t[j].state = "QUEUED"
             /\ Len(t[j].path) = t[j].approach + 2
             /\ t[j].approach + j <= MaxQueue + 1
             /\ Final(t[j]) = Final(queue[Before(i, j)])
  <2>1. CASE j < i
    <3>1. t[j] = queue[j] /\ j \in 1 .. n /\ Before(i, j) = j
      BY <1>1, <2>1 DEF Before
    <3>2. QED
      BY <1>2, <3>1
  <2>2. CASE j > i
    <3>1. t[j] = queue[j + 1] /\ j + 1 \in 1 .. n /\ Before(i, j) = j + 1
      BY <1>1, <2>2 DEF Before
    <3>2. queue[j + 1].approach + (j + 1) <= MaxQueue + 1 /\ queue[j + 1].approach \in Nat
      BY <1>2, <3>1
    <3>3. queue[j + 1].approach + j <= MaxQueue + 1
      BY <1>1, <1>2, <3>2
    <3>4. QED
      BY <1>2, <3>1, <3>3
  <2>3. CASE j = i
    <3>1. i < n /\ i + 1 \in 1 .. n /\ Before(i, j) = i + 1 /\ i \in Nat /\ i >= 1
      BY <1>1, <2>3 DEF Before
    <3> DEFINE q == queue[i + 1]
    <3>2. q \in Motion /\ q.approach \in Nat /\ Len(q.path) = q.approach + 2
          /\ q.approach + (i + 1) <= MaxQueue + 1 /\ q.state = "QUEUED"
      BY <1>2, <3>1
    <3>3. q.approach + 1 <= MaxQueue /\ (q.approach + 1) + i <= MaxQueue + 1
      BY <1>2, <3>1, <3>2
    <3>4. Final(Predecessor(i)) \in Pos
      BY PredecessorFacts
    <3>5. t[i] = Rebound(q, Final(Predecessor(i)))
      BY <1>1, <3>1
    <3> HIDE DEF q
    <3>6. /\ t[i].id = q.id /\ t[i].state = q.state /\ t[i].approach = q.approach + 1
          /\ Len(t[i].path) = t[i].approach + 2 /\ Final(t[i]) = Final(q)
      BY <1>2, <3>2, <3>3, <3>4, <3>5, ReboundFacts
    <3>7. t[i].approach + i <= MaxQueue + 1
      BY <3>3, <3>6
    <3>8. QED
      BY <2>3, <3>1, <3>2, <3>6, <3>7 DEF q
  <2>4. QED
    BY <1>1, <2>1, <2>2, <2>3
<1>4. /\ \A j \in 1 .. n - 1 : Before(i, j) \in 1 .. n /\ Before(i, j) # i
      /\ \A j, k \in 1 .. n - 1 : Before(i, j) = Before(i, k) => j = k
      /\ \A k \in 1 .. n : k # i => \E j \in 1 .. n - 1 : Before(i, j) = k
  <2>1. \A k \in 1 .. n : k # i =>
          \/ k < i /\ k \in 1 .. n - 1 /\ Before(i, k) = k
          \/ k - 1 \in 1 .. n - 1 /\ Before(i, k - 1) = k
    BY <1>1 DEF Before
  <2>2. QED
    BY <1>1, <2>1 DEF Before
<1>5. Unique(queue) /\ IdsOf(queue) = {queue[j].id : j \in 1 .. n}
      /\ IdsOf(t) = {t[j].id : j \in 1 .. n - 1}
  BY <1>2 DEF QueueInv, Ids, IdsOf
<1>6. Unique(t)
  <2> SUFFICES ASSUME NEW j \in 1 .. n - 1, NEW k \in 1 .. n - 1, t[j].id = t[k].id
               PROVE  j = k
    BY <1>2 DEF Unique
  <2>1. queue[Before(i, j)].id = queue[Before(i, k)].id
    BY <1>3
  <2>2. Before(i, j) = Before(i, k)
    BY <1>2, <1>4, <1>5, <2>1 DEF Unique
  <2>3. QED
    BY <1>4, <2>2
<1>7. ASSUME NEW x \in IdsOf(t)
      PROVE  x \in IdsOf(queue) \ {queue[i].id}
  <2>1. PICK j \in 1 .. n - 1 : x = t[j].id
    BY <1>5
  <2>2. x = queue[Before(i, j)].id /\ Before(i, j) \in 1 .. n /\ Before(i, j) # i
    BY <1>3, <1>4, <2>1
  <2>3. x # queue[i].id
    BY <1>1, <1>2, <1>5, <2>2 DEF Unique
  <2>4. QED
    BY <1>5, <2>2, <2>3
<1>8. ASSUME NEW x \in IdsOf(queue) \ {queue[i].id}
      PROVE  x \in IdsOf(t)
  <2>1. PICK k \in 1 .. n : x = queue[k].id
    BY <1>5
  <2>2. PICK j \in 1 .. n - 1 : Before(i, j) = k
    BY <1>4, <1>8, <2>1
  <2>3. x = t[j].id
    BY <1>3, <2>1, <2>2
  <2>4. QED
    BY <1>5, <2>3
<1>9. QED
  BY <1>2, <1>3, <1>6, <1>7, <1>8

\* A queued motion is cancelled and its successor bound to its predecessor.
LEMMA DroppedStep ==
  ASSUME QueueInv, scenario' = scenario, Dropped
  PROVE  QueueInv'
<1>1. PICK i \in DOMAIN queue :
        /\ history' = Archive(history, [queue[i] EXCEPT !.state = "CANCELLED"])
        /\ queue' = Detached(i)
  BY DEF Dropped
<1>2. "cancel_motion" \in Inputs /\ ctl' = ctl /\ nextId' = nextId
  BY DEF Dropped
<1> DEFINE n == Len(queue)
           t == queue'
           k == queue[i].id
<1>3. /\ Motion' = Motion /\ MaxHistory' = MaxHistory /\ MaxQueue' = MaxQueue
      /\ Inputs' = Inputs /\ MaxQueue \in Nat /\ scenario \in Scenarios
      /\ n \in Nat /\ n <= MaxQueue /\ DOMAIN queue = 1 .. n /\ queue[i] \in Motion
  BY SameScenario, Scenario, LenProperties, ElementOfSeq DEF QueueInv, Motions
<1>4. /\ i \in 1 .. n /\ t \in Seq(Motion) /\ Len(t) = n - 1
      /\ \A j \in 1 .. n - 1 : j < i => t[j] = queue[j]
      /\ \A j \in 1 .. n - 1 : j > i => t[j] = queue[j + 1]
      /\ i < n => t[i] = Rebound(queue[i + 1], Final(Predecessor(i)))
  BY <1>1, DetachedFacts
<1>5. /\ IdsOf(t) = IdsOf(queue) \ {k} /\ Unique(t)
      /\ \A j \in DOMAIN t : t[j].id = queue[Before(i, j)].id
                             /\ t[j].state = "QUEUED"
                             /\ Len(t[j].path) = t[j].approach + 2
                             /\ t[j].approach + j <= MaxQueue + 1
                             /\ Final(t[j]) = Final(queue[Before(i, j)])
  BY <1>1, DetachedIds
<1>6. DOMAIN t = 1 .. n - 1
  BY <1>4, LenProperties
<1>7. k \in IdsOf(queue) /\ k \in 1 .. nextId - 1 /\ k # 0
  <2>1. k \in IdsOf(queue)
    BY DEF IdsOf
  <2>2. k \in 1 .. nextId - 1 /\ nextId \in Int
    BY <2>1, Constants DEF QueueInv, Ids, Motions
  <2>3. QED
    BY <2>1, <2>2
<1>8. /\ history' \in Seq(Entry) /\ Len(history') <= MaxHistory /\ Unique(history')
      /\ IdsOf(history') \subseteq IdsOf(history) \union {k}
      /\ \/ Len(history') = MaxHistory
         \/ /\ Len(history) # MaxHistory
            /\ IdsOf(history') = IdsOf(history) \union {k}
  <2> DEFINE c == [queue[i] EXCEPT !.state = "CANCELLED"]
  <2>1. c \in Motion
    BY <1>3 DEF Motion, Terminal
  <2>2. c.id = k
    BY <1>3, <2>1 DEF Motion
  <2>3. history' = Archive(history, c)
    BY <1>1
  <2> HIDE DEF c, k
  <2>4. history' = Recent(Append(history, StatusOf(c)))
    BY <1>7, <2>2, <2>3 DEF Archive
  <2>5. StatusOf(c) \in Entry /\ StatusOf(c).id = k
    BY <2>1, <2>2, StatusEntry
  <2>6. k \notin IdsOf(history)
    BY <1>7 DEF QueueInv, Ids
  <2>7. QED
    BY <2>4, <2>5, <2>6, ArchivedFacts
<1>9. Motions'
  <2>1. Len(t) <= MaxQueue
    <3> HIDE DEF t, n
    <3>1. QED
      BY <1>3, <1>4
  <2>2. QED
    BY <1>2, <1>3, <1>4, <1>8, <2>1 DEF QueueInv, Motions
<1>10. Shapes'
  BY <1>2, <1>3, <1>5 DEF QueueInv, Shapes
<1>11. Chain'
  <2>1. ASSUME NEW j \in 1 .. n - 1
        PROVE  t[j].path[1] = Final(Predecessor(j)')
    <3>0. Predecessor(j)' = IF j = 1 THEN ctl ELSE t[j - 1]
      BY <1>2 DEF Predecessor
    <3>1. CASE j <= i
      <4>1. Predecessor(j)' = Predecessor(j)
        <5>1. CASE j = 1
          BY <3>0, <5>1 DEF Predecessor
        <5>2. CASE j # 1
          <6>1. j - 1 \in 1 .. n - 1 /\ j - 1 < i
            <7> HIDE DEF n
            <7>1. QED
              BY <1>3, <1>4, <3>1, <5>2
          <6>2. QED
            BY <1>4, <3>0, <5>2, <6>1 DEF Predecessor
        <5>3. QED
          BY <5>1, <5>2
      <4>2. t[j].path[1] = Final(Predecessor(j))
        <5>1. CASE j < i
          <6>1. t[j] = queue[j] /\ j \in DOMAIN queue
            <7> HIDE DEF n
            <7>1. QED
              BY <1>3, <1>4, <5>1
          <6>2. QED
            BY <6>1 DEF QueueInv, Chain
        <5>2. CASE j = i
          <6>1. i < n /\ i + 1 \in 1 .. n /\ i \in Nat /\ i >= 1
            <7> HIDE DEF n
            <7>1. QED
              BY <1>3, <1>4, <5>2
          <6> DEFINE q == queue[i + 1]
          <6>2. /\ q \in Motion /\ Len(q.path) = q.approach + 2
                /\ q.approach + (i + 1) <= MaxQueue + 1
            BY <1>3, <6>1, ElementOfSeq DEF QueueInv, Shapes, Motions
          <6>3. q.approach + 1 <= MaxQueue
            <7>1. q.approach \in 0 .. MaxQueue
              BY <6>2 DEF Motion
            <7>2. q.approach \in Nat
              BY <1>3, <7>1
            <7>3. QED
              BY <1>3, <6>1, <6>2, <7>2
          <6>4. Final(Predecessor(i)) \in Pos
            BY PredecessorFacts
          <6>5. t[i] = Rebound(q, Final(Predecessor(i)))
            BY <1>4, <6>1
          <6> HIDE DEF q
          <6>6. t[i].path[1] = Final(Predecessor(i))
            BY <1>3, <6>2, <6>3, <6>4, <6>5, ReboundFacts
          <6>7. QED
            BY <5>2, <6>6
        <5>3. QED
          <6> HIDE DEF n
          <6>1. j < i \/ j = i
            BY <1>3, <1>4, <3>1
          <6>2. QED
            BY <5>1, <5>2, <6>1
      <4>3. QED
        BY <4>1, <4>2
    <3>2. CASE ~(j <= i)
      <4>1. /\ j > i /\ j # 1 /\ j - 1 \in 1 .. n - 1 /\ Before(i, j - 1) = j
            /\ j + 1 \in 1 .. n /\ j + 1 # 1 /\ (j + 1) - 1 = j
        <5> HIDE DEF n
        <5>1. QED
          BY <1>3, <1>4, <3>2 DEF Before
      <4>2. Final(t[j - 1]) = Final(queue[j])
        BY <1>5, <1>6, <4>1
      <4>3. queue[j + 1].path[1] = Final(Predecessor(j + 1)) /\ Predecessor(j + 1) = queue[j]
        BY <1>3, <4>1 DEF QueueInv, Chain, Predecessor
      <4>4. t[j] = queue[j + 1]
        BY <1>4, <4>1
      <4>5. QED
        BY <3>0, <4>1, <4>2, <4>3, <4>4
    <3>3. QED
      BY <3>1, <3>2
  <2>2. ctl.state = "RUNNING"
    BY DEF QueueInv, Chain
  <2>3. QED
    BY <1>2, <1>6, <2>1, <2>2 DEF Chain, Final
<1>12. Ids'
  <2>1. /\ IdsOf(t) \subseteq 1 .. nextId - 1 /\ IdsOf(history') \subseteq 1 .. nextId - 1
        /\ ctl.id \notin IdsOf(t)
    BY <1>5, <1>7, <1>8 DEF QueueInv, Ids
  <2>2. ctl.id \notin IdsOf(history') /\ IdsOf(t) \cap IdsOf(history') = {}
    BY <1>5, <1>7, <1>8 DEF QueueInv, Ids
  <2>3. Len(history') = MaxHistory \/ 1 .. nextId - 1 \subseteq Known'
    <3>1. CASE Len(history') = MaxHistory
      BY <3>1
    <3>2. CASE Len(history') # MaxHistory
      <4>1. IdsOf(t) \union IdsOf(history') = IdsOf(queue) \union IdsOf(history)
        BY <1>5, <1>7, <1>8, <3>2
      <4>2. Known' = Known
        BY <1>2, <4>1 DEF Known
      <4>3. QED
        BY <1>8, <3>2, <4>2 DEF QueueInv, Ids
    <3>3. QED
      BY <3>1, <3>2
  <2>4. QED
    BY <1>2, <1>3, <1>5, <1>8, <2>1, <2>2, <2>3 DEF QueueInv, Ids
<1>13. Newest'
  BY <1>2, <1>3 DEF Newest
<1>14. QED
  BY <1>9, <1>10, <1>11, <1>12, <1>13 DEF QueueInv

-----------------------------------------------------------------------------
(* The reference, the arrival check and the commands *)

Controls ==
  /\ mailbox \in Mails /\ pending \in Mails
  /\ plan.at = "planning" =>
       plan.enqueue \in BOOLEAN /\ plan.ref # <<>> /\ nextId <= scenario.ids
  /\ power \in {"on", "stopping", "off"}
  /\ origin \in Pos \union {NoPos} /\ nearFor \in Unset .. Stable

\* Only a Runtime that takes commands has a motion.
Powered == ctl.state \in Active => power = "on"

\* What the worker carries across its unlocked measurement is still true: the
\* frame of the end of the path (or of its approach) was sent, and the verdict
\* will be about the motion that is still active, unless it ended meanwhile.
Carried ==
  /\ job.at # "idle" /\ ctl.state = "RUNNING" =>
       /\ Completing(ctl) /\ origin = Sample(ctl, SampleTime(ctl))
       /\ mailbox = Mail(origin)
  /\ job.at = "measured" /\ ctl.state \in Active =>
       /\ ctl.id = job.id /\ (job.monitor <=> ctl.state = "COMPLETED")
       /\ (job.waiting <=> ctl.state = "RUNNING" /\ AtApproach(ctl))

\* The stable window is never longer than the time spent near the target.
Windowed == ctl.state = "RUNNING" /\ ctl.stable # Unset => nearFor >= ctl.stable

\* The reference is on the part of the path that was already sampled; a
\* completed motion's reference is its end.
Placed ==
  /\ ctl.state = "RUNNING" /\ "submit" \notin Inputs =>
       \E i \in 1 .. SampleTime(ctl) + 1 : ctl.path[i] = origin
  /\ ctl.state = "COMPLETED" =>
       ~AtApproach(ctl) /\ SampleTime(ctl) = RefDuration(ctl)
  /\ "submit" \notin Inputs =>
       /\ pending = NoMail /\ mailbox.ref \in {NoPos, origin}
       /\ ctl.state = "COMPLETED" => mailbox = Mail(origin) /\ origin = Final(ctl)

RefInv == Controls /\ Powered /\ Carried /\ Windowed /\ Placed
Inv == QueueInv /\ RefInv

LEMMA MailFacts ==
  ASSUME scenario \in Scenarios, NEW b \in Mails
  PROVE  /\ b = NoMail \/ (b.ref \in Pos /\ b.goal \in Pos /\ b.joint \in BOOLEAN)
         /\ b.ref = NoPos <=> b = NoMail
         /\ b.joint => b.ref \in Pos
         /\ b.ref \in Pos \union {NoPos}
<1>1. /\ NoMail.ref = NoPos /\ NoMail.joint = FALSE /\ NoPos \notin Pos
  BY Scenario DEF NoMail, Mail
<1>2. QED
  BY <1>1 DEF Mails

LEMMA MailOf ==
  ASSUME scenario \in Scenarios, NEW p \in Pos
  PROVE  /\ Mail(p) \in Mails /\ Mail(p).ref = p /\ Mail(p).goal = p
         /\ NoMail \in Mails /\ NoMail.ref = NoPos
  BY DEF Mail, Mails, NoMail

LEMMA StepFacts ==
  ASSUME scenario \in Scenarios, NEW b \in Mails, b.ref # NoPos
  PROVE  /\ StepTo(b) \in Mails
         /\ StepTo(b).ref \in Pos
         /\ b = Mail(b.ref) => StepTo(b) = b
<1> DEFINE r == IF Mode = "PV" \/ b.ref = b.goal THEN b.goal
                ELSE IF b.ref < b.goal THEN b.ref + 1 ELSE b.ref - 1
<1>1. /\ b \in [ref : Pos, goal : Pos, joint : BOOLEAN]
      /\ b.ref \in Pos /\ b.goal \in Pos /\ b.ref \in Nat /\ b.goal \in Nat
      /\ b.ref .. b.goal \subseteq Pos /\ b.goal .. b.ref \subseteq Pos
  <2>1. NoMail.ref = NoPos
    BY DEF NoMail, Mail
  <2>2. b \in [ref : Pos, goal : Pos, joint : BOOLEAN]
    BY <2>1 DEF Mails
  <2>3. b.ref \in Pos /\ b.goal \in Pos
    BY <2>2
  <2>4. QED
    BY <2>2, <2>3, Scenario
<1>2. r \in Pos
  <2>1. b.ref < b.goal => b.ref + 1 \in b.ref .. b.goal
    BY <1>1
  <2>2. b.ref # b.goal /\ ~(b.ref < b.goal) => b.ref - 1 \in b.goal .. b.ref
    BY <1>1
  <2>3. QED
    BY <1>1, <2>1, <2>2
<1>3. StepTo(b) = [b EXCEPT !.ref = r]
  BY DEF StepTo
<1>4. b = Mail(b.ref) => r = b.ref
  <2>1. Mail(b.ref).goal = b.ref
    BY DEF Mail
  <2>2. QED
    BY <2>1
<1> HIDE DEF r
<1>5. StepTo(b) \in [ref : Pos, goal : Pos, joint : BOOLEAN] /\ StepTo(b).ref = r
  BY <1>1, <1>2, <1>3
<1>6. r = b.ref => StepTo(b) = b
  BY <1>1, <1>3
<1>7. QED
  BY <1>2, <1>4, <1>5, <1>6 DEF Mails

LEMMA FieldFacts ==
  ASSUME scenario \in Scenarios, NEW m \in Motion
  PROVE  /\ m.wall \in Nat /\ m.approach \in Nat /\ m.slack \in Nat
         /\ m.stable \in Unset .. Stable /\ m.path \in Seq(Pos) /\ m.approached \in BOOLEAN
<1>1. /\ m.wall \in Nat /\ m.approach \in 0 .. MaxQueue /\ m.slack \in Slacks \union {0}
      /\ m.stable \in Unset .. Stable /\ m.path \in Seq(Pos) /\ m.approached \in BOOLEAN
  BY DEF Motion
<1>2. QED
  BY <1>1, Scenario

\* Where the reference is when the sample waits or is at the end.
LEMMA SampleFacts ==
  ASSUME scenario \in Scenarios, NEW m \in Motion, Len(m.path) = m.approach + 2
  PROVE  /\ RefDuration(m) = m.approach + 1 /\ m.approach \in Nat
         /\ SampleTime(m) \in 0 .. RefDuration(m)
         /\ Sample(m, SampleTime(m)) = m.path[SampleTime(m) + 1]
         /\ Sample(m, SampleTime(m)) \in Pos
         /\ AtApproach(m) => SampleTime(m) = m.approach /\ m.wall >= m.approach
         /\ ~AtApproach(m) /\ Completing(m) => SampleTime(m) = RefDuration(m)
         /\ SampleTime(m) = RefDuration(m) => Sample(m, SampleTime(m)) = Final(m)
<1>1. /\ m.wall \in Nat /\ m.approach \in Nat /\ m.path \in Seq(Pos)
      /\ RefDuration(m) = m.approach + 1
  <2>1. m.wall \in Nat /\ m.approach \in Nat /\ m.path \in Seq(Pos)
    BY FieldFacts
  <2>2. QED
    BY <2>1 DEF RefDuration
<1>2. /\ SampleTime(m) \in 0 .. RefDuration(m)
      /\ AtApproach(m) => SampleTime(m) = m.approach /\ m.wall >= m.approach
  BY <1>1 DEF SampleTime, AtApproach, Min2
<1>3. ~AtApproach(m) /\ Completing(m) => SampleTime(m) = RefDuration(m)
  <2>1. ~AtApproach(m) /\ Completing(m) => SampleTime(m) >= RefDuration(m)
    BY DEF Completing
  <2>2. QED
    BY <1>1, <1>2, <2>1
<1>4. Sample(m, SampleTime(m)) = m.path[SampleTime(m) + 1]
  BY <1>1, <1>2 DEF Sample, Min2
<1>5. SampleTime(m) + 1 \in 1 .. Len(m.path)
  BY <1>1, <1>2
<1>6. Sample(m, SampleTime(m)) \in Pos
  BY <1>1, <1>4, <1>5, ElementOfSeq
<1>7. SampleTime(m) = RefDuration(m) => SampleTime(m) + 1 = Len(m.path)
  BY <1>1
<1>8. QED
  BY <1>1, <1>2, <1>3, <1>4, <1>6, <1>7 DEF Final, Last

Classified ==
  Kept \/ Tended \/ Terminated \/ Advanced \/ Replaced \/ Enqueued \/ Dropped

LEMMA QueueStep ==
  ASSUME QueueInv, scenario' = scenario, Classified
  PROVE  QueueInv'
  BY TendedStep, TerminatedStep, AdvancedStep, ReplacedStep, EnqueuedStep, DroppedStep
     DEF Classified

\* Without an active motion only the ordinary reference is left.
LEMMA IdleRef ==
  ASSUME scenario' = scenario, ctl'.state \notin Active, Controls',
         "submit" \notin Inputs => pending' = NoMail /\ mailbox'.ref \in {NoPos, origin'}
  PROVE  RefInv'
<1>1. Inputs' = Inputs
  BY SameScenario
<1>2. QED
  BY <1>1 DEF RefInv, Powered, Carried, Windowed, Placed, Active, NoMail, Mail

LEMMA TerminatedState ==
  ASSUME QueueInv, NEW s \in Terminal, terminate_trajectory(s)
  PROVE  ctl'.state \notin Active
<1>1. scenario \in Scenarios /\ ctl.id \in 0 .. MaxIds
  BY DEF QueueInv, Motions, Motion
<1>2. ctl' = IF ctl.state \in Active THEN Ended(ctl.id, s) ELSE ctl
  BY DEF terminate_trajectory, Active, Ended
<1>3. QED
  BY <1>1, <1>2, EndedFacts DEF Active, Terminal

\* Whatever ends the motion and leaves or empties the mailboxes.
LEMMA TerminatedRef ==
  ASSUME Inv, scenario' = scenario, NEW s \in Terminal, terminate_trajectory(s),
         UNCHANGED <<nextId, plan, nearFor>>, power' \in {"on", "stopping", "off"},
         \/ UNCHANGED <<mailbox, pending, origin>>
         \/ mailbox' = NoMail /\ pending' = NoMail /\ origin' = NoPos
  PROVE  Classified /\ RefInv'
<1>1. Terminated
  BY DEF Terminated
<1>2. ctl'.state \notin Active
  BY TerminatedState DEF Inv
<1>3. Pos' = Pos /\ Mails' = Mails /\ NoMail \in Mails /\ NoMail.ref = NoPos
  BY SameScenario DEF Mails, NoMail, Mail
<1>4. Controls'
  BY <1>3 DEF Inv, RefInv, Controls
<1>5. "submit" \notin Inputs => pending' = NoMail /\ mailbox'.ref \in {NoPos, origin'}
  BY <1>3 DEF Inv, RefInv, Placed
<1>6. QED
  BY <1>1, <1>2, <1>4, <1>5, IdleRef DEF Classified

\* Nothing the arrival check or the reference depends on has changed.
LEMMA SameRef ==
  ASSUME RefInv, scenario' = scenario,
         UNCHANGED <<ctl, mailbox, pending, power, job, origin, nearFor>>, Controls'
  PROVE  RefInv'
<1>1. Inputs' = Inputs
  BY SameScenario
<1>2. QED
  BY <1>1 DEF RefInv, Powered, Carried, Windowed, Placed, Completing, AtApproach,
              SampleTime, Sample, RefDuration, Final

LEMMA PlanStep ==
  ASSUME Inv, NEW e \in BOOLEAN, PlanBegin(e) \/ PlanFails
  PROVE  scenario' = scenario /\ Classified /\ RefInv'
<1>1. UNCHANGED <<ctl, queue, history, nextId, mailbox, pending, power, moving, job,
                  fb, origin, nearFor, scenario>>
  BY DEF PlanBegin, PlanFails
<1>2. plan'.at = "planning" =>
        plan'.enqueue \in BOOLEAN /\ plan'.ref # <<>> /\ nextId <= scenario.ids
  <2>1. CASE PlanBegin(e)
    BY <2>1 DEF PlanBegin
  <2>2. CASE PlanFails
    BY <2>2 DEF PlanFails, PlanningOver, NoPlan
  <2>3. QED
    BY <2>1, <2>2
<1>3. Controls'
  <2>1. Pos' = Pos /\ Mails' = Mails
    BY <1>1, SameScenario
  <2>2. QED
    BY <1>1, <1>2, <2>1 DEF Inv, RefInv, Controls
<1>4. QED
  BY <1>1, <1>3, SameRef DEF Inv, Classified, Kept

LEMMA SubmitStep ==
  ASSUME Inv, NEW p \in Pos, SubmitRaw(p)
  PROVE  scenario' = scenario /\ Classified /\ RefInv'
<1>1. UNCHANGED <<ctl, queue, history, nextId, mailbox, plan, token, power,
                  moving, job, fb, origin, nearFor, scenario>>
      /\ "submit" \in Inputs /\ pending' = Mail(p)
  BY DEF SubmitRaw
<1>2. Mail(p) \in Mails /\ Mails' = Mails /\ Pos' = Pos /\ Inputs' = Inputs
  BY <1>1, MailOf, SameScenario DEF Inv, QueueInv, Motions
<1>3. Controls'
  BY <1>1, <1>2 DEF Inv, RefInv, Controls
<1>4. Powered' /\ Carried' /\ Windowed'
  BY <1>1 DEF Inv, RefInv, Powered, Carried, Windowed, Completing, AtApproach,
              SampleTime, Sample, RefDuration
<1>5. Placed'
  BY <1>1, <1>2 DEF Inv, RefInv, Placed, AtApproach, SampleTime, RefDuration
<1>6. QED
  BY <1>1, <1>3, <1>4, <1>5 DEF RefInv, Classified, Kept

LEMMA CancelStep ==
  ASSUME Inv, CancelAll \/ CancelActive \/ LifecycleStops \/ Protect
              \/ (\E d \in 1 .. MaxStep : TrackingFails(d))
  PROVE  scenario' = scenario /\ Classified /\ RefInv'
<1>1. \E s \in Terminal : terminate_trajectory(s)
  BY DEF CancelAll, CancelActive, LifecycleStops, Protect, TrackingFails, Terminal
<1>2. scenario' = scenario /\ UNCHANGED <<nextId, plan, nearFor>>
  BY DEF CancelAll, CancelActive, LifecycleStops, Protect, TrackingFails
<1>3. \/ UNCHANGED <<mailbox, pending, origin>>
      \/ mailbox' = NoMail /\ pending' = NoMail /\ origin' = NoPos
  BY DEF CancelAll, CancelActive, LifecycleStops, Protect, TrackingFails
<1>4. power' \in {"on", "stopping", "off"}
  BY DEF CancelAll, CancelActive, LifecycleStops, Protect, TrackingFails, Inv, RefInv,
         Controls
<1>5. QED
  BY <1>1, <1>2, <1>3, <1>4, TerminatedRef

LEMMA CancelQueuedStep ==
  ASSUME Inv, NEW i \in DOMAIN queue, CancelQueued(i)
  PROVE  scenario' = scenario /\ Classified /\ RefInv'
<1>1. /\ UNCHANGED <<ctl, nextId, mailbox, pending, plan, token, power, moving,
                     job, fb, origin, nearFor, scenario>>
      /\ Dropped
  BY DEF CancelQueued, Dropped
<1>2. Controls'
  <2>1. Pos' = Pos /\ Mails' = Mails
    BY <1>1, SameScenario
  <2>2. QED
    BY <1>1, <2>1 DEF Inv, RefInv, Controls
<1>3. QED
  BY <1>1, <1>2, SameRef DEF Inv, Classified

LEMMA PowerStep ==
  ASSUME Inv, LifecycleStopped \/ (\E p \in Pos, m \in BOOLEAN : Enable(p, m))
  PROVE  scenario' = scenario /\ Classified /\ RefInv'
<1>1. /\ UNCHANGED <<ctl, queue, history, nextId, plan, job, nearFor, scenario>>
      /\ power \in {"stopping", "off"} /\ power' \in {"on", "off"}
  BY DEF LifecycleStopped, Enable
<1>2. ctl'.state \notin Active
  BY <1>1 DEF Inv, RefInv, Powered
<1>3. /\ Pos' = Pos /\ Mails' = Mails /\ NoMail \in Mails /\ NoMail.ref = NoPos
      /\ Inputs' = Inputs
  BY <1>1, SameScenario DEF Mails, NoMail, Mail
<1>4. /\ mailbox' \in Mails /\ mailbox'.ref \in {NoPos, origin'}
      /\ origin' \in Pos \union {NoPos} /\ pending' \in {NoMail, pending}
  <2>1. CASE LifecycleStopped
    BY <1>3, <2>1 DEF LifecycleStopped
  <2>2. CASE \E p \in Pos, m \in BOOLEAN : Enable(p, m)
    <3>1. PICK p \in Pos : /\ mailbox' = [Mail(p) EXCEPT !.joint = TRUE]
                           /\ origin' = p /\ pending' = pending
      BY <2>2 DEF Enable
    <3>2. mailbox' = [ref |-> p, goal |-> p, joint |-> TRUE]
      BY <3>1 DEF Mail
    <3>3. mailbox' \in Mails /\ mailbox'.ref = p
      BY <3>2 DEF Mails
    <3>4. QED
      BY <3>1, <3>3
  <2>3. QED
    BY <2>1, <2>2
<1>5. Controls'
  BY <1>1, <1>3, <1>4 DEF Inv, RefInv, Controls
<1>6. "submit" \notin Inputs => pending' = NoMail /\ mailbox'.ref \in {NoPos, origin'}
  BY <1>4 DEF Inv, RefInv, Placed
<1>7. QED
  BY <1>1, <1>2, <1>5, <1>6, IdleRef DEF Classified, Kept

LEMMA InstallStep ==
  ASSUME Inv, NEW p \in Pos, NEW m \in Pos, InstallJointPosition(p, m)
  PROVE  scenario' = scenario /\ Classified /\ RefInv'
<1> DEFINE ref == IF mailbox.joint THEN mailbox.ref ELSE m
<1>1. /\ scenario' = scenario /\ UNCHANGED <<nextId, plan, nearFor, power>>
      /\ mailbox' = [ref |-> ref, goal |-> p, joint |-> TRUE]
      /\ origin' = ref /\ pending' = NoMail /\ ctl.state # "RUNNING"
      /\ IF ctl.state = "COMPLETED" THEN terminate_trajectory("CANCELLED")
         ELSE UNCHANGED <<ctl, queue, history>>
  BY DEF InstallJointPosition, MayCommand
<1>2. ref \in Pos
  BY MailFacts DEF Inv, RefInv, Controls, QueueInv, Motions
<1> HIDE DEF ref
<1>3. /\ mailbox' \in Mails /\ mailbox'.ref = origin' /\ pending' \in Mails
      /\ Mails' = Mails /\ Pos' = Pos /\ Inputs' = Inputs
  BY <1>1, <1>2, SameScenario DEF Mails
<1>4. Controls'
  BY <1>1, <1>2, <1>3 DEF Inv, RefInv, Controls
<1>5. Classified /\ ctl'.state \notin Active
  <2>1. CASE ctl.state = "COMPLETED"
    <3>1. terminate_trajectory("CANCELLED") /\ "CANCELLED" \in Terminal
      BY <1>1, <2>1 DEF Terminal
    <3>2. Terminated
      BY <1>1, <3>1 DEF Terminated, terminate_trajectory
    <3>3. ctl'.state \notin Active
      BY <3>1, TerminatedState DEF Inv
    <3>4. QED
      BY <3>2, <3>3 DEF Classified
  <2>2. CASE ctl.state # "COMPLETED"
    BY <1>1, <2>2 DEF Classified, Kept, Active
  <2>3. QED
    BY <2>1, <2>2
<1>6. QED
  BY <1>1, <1>3, <1>4, <1>5, IdleRef

LEMMA FinalFacts ==
  ASSUME scenario \in Scenarios, NEW m \in Motion, Len(m.path) = m.approach + 2
  PROVE  Final(m) \in Pos
<1>1. m.path \in Seq(Pos) /\ m.approach \in Nat
  BY FieldFacts
<1>2. Len(m.path) \in 1 .. Len(m.path)
  BY <1>1
<1>3. QED
  BY <1>1, <1>2, ElementOfSeq DEF Final, Last

\* The reference a motion is planned from is where the arm will be.
LEMMA ReferenceFacts ==
  ASSUME Inv, NEW e \in BOOLEAN, MayCommand(e), Reference(e) # <<>>
  PROVE  /\ Reference(e)[2] \in Pos
         /\ ctl.state = "RUNNING" =>
              Reference(e)[2] = IF queue = <<>> THEN Final(ctl) ELSE Final(Last(queue))
         /\ ctl.state # "RUNNING" /\ "submit" \notin Inputs => Reference(e)[2] = origin
<1>1. /\ scenario \in Scenarios /\ ctl \in Motion /\ queue \in Seq(Motion)
      /\ mailbox \in Mails /\ Len(queue) \in Nat
      /\ DOMAIN queue = 1 .. Len(queue)
  BY LenProperties DEF Inv, QueueInv, Motions, RefInv, Controls
<1>2. ASSUME queue # <<>>
      PROVE  Final(Last(queue)) \in Pos
  <2>1. Len(queue) \in 1 .. Len(queue)
    BY <1>1, <1>2, EmptySeq
  <2>2. Last(queue) \in Motion
    BY <1>1, <2>1, ElementOfSeq DEF Last
  <2>3. Len(Last(queue).path) = Last(queue).approach + 2
    BY <1>1, <2>1 DEF Last, Inv, QueueInv, Shapes
  <2>4. QED
    BY <1>1, <2>2, <2>3, FinalFacts
<1>3. ASSUME ctl.state \in Active
      PROVE  Final(ctl) \in Pos
  BY <1>1, <1>3, FinalFacts DEF Inv, QueueInv, Shapes
<1>4. queue # <<>> => ctl.state = "RUNNING"
  BY DEF Inv, QueueInv, Chain
<1>5. e \/ ctl.state # "RUNNING"
  BY DEF MayCommand
<1>6. CASE ctl.state = "RUNNING"
  <2>1. Reference(e) = IF queue # <<>> THEN <<Last(queue).id, Final(Last(queue))>>
                       ELSE <<ctl.id, Final(ctl)>>
    BY <1>5, <1>6 DEF Reference, PlannedTail
  <2>2. Reference(e)[2] = IF queue = <<>> THEN Final(ctl) ELSE Final(Last(queue))
    BY <2>1
  <2>3. QED
    BY <1>2, <1>3, <1>6, <2>2 DEF Active
<1>7. CASE ctl.state # "RUNNING"
  <2>1. queue = <<>>
    BY <1>4, <1>7
  <2>2. \/ Reference(e) = <<ctl.id, Final(ctl)>> /\ ctl.state = "COMPLETED"
        \/ Reference(e) = <<0, mailbox.ref>> /\ mailbox.ref # NoPos
    BY <1>7, <2>1 DEF Reference, PlannedTail, PlannedArm
  <2>3. \/ Reference(e)[2] = Final(ctl) /\ ctl.state = "COMPLETED"
        \/ Reference(e)[2] = mailbox.ref /\ mailbox.ref # NoPos
    BY <2>2
  <2>4. mailbox.ref # NoPos => mailbox.ref \in Pos
    BY <1>1, MailFacts
  <2>5. "submit" \notin Inputs =>
          /\ mailbox.ref \in {NoPos, origin}
          /\ ctl.state = "COMPLETED" => origin = Final(ctl)
    BY DEF Inv, RefInv, Placed
  <2>6. QED
    BY <1>3, <1>7, <2>3, <2>4, <2>5 DEF Active
<1>8. QED
  BY <1>6, <1>7

LEMMA WaypointFacts ==
  ASSUME scenario \in Scenarios, NEW p \in Pos, NEW g \in Pos, NEW v \in Pos \union {NoPos}
  PROVE  LET w == Waypoints(p, v, g)
             a == IF v = NoPos THEN 0 ELSE 1
         IN  w \in Seq(Pos) /\ Len(w) = a + 2 /\ w[1] = p /\ a \in 0 .. MaxQueue /\ a <= 1
<1>1. 0 \in 0 .. MaxQueue /\ 1 \in 0 .. MaxQueue
  BY Scenario
<1>2. CASE v = NoPos
  <2>1. Waypoints(p, v, g) = <<p, g>>
    BY <1>2 DEF Waypoints
  <2>2. <<p, g>> \in Seq(Pos) /\ Len(<<p, g>>) = 2 /\ <<p, g>>[1] = p
    OBVIOUS
  <2>3. QED
    BY <1>1, <1>2, <2>1, <2>2
<1>3. CASE v # NoPos
  <2>1. Waypoints(p, v, g) = <<p, v, g>>
    BY <1>3 DEF Waypoints
  <2>2. <<p, v, g>> \in Seq(Pos) /\ Len(<<p, v, g>>) = 3 /\ <<p, v, g>>[1] = p
    BY <1>3
  <2>3. QED
    BY <1>1, <1>3, <2>1, <2>2
<1>4. QED
  BY <1>2, <1>3

LEMMA StartStep ==
  ASSUME Inv, NEW g \in Pos, NEW v \in Vias, NEW s \in Slacks, start_trajectory(g, v, s)
  PROVE  scenario' = scenario /\ Classified /\ RefInv'
<1> DEFINE p == plan.ref[2]
           a == IF v = NoPos THEN 0 ELSE 1
           w == Waypoints(p, v, g)
           m == Prepared(nextId, w, a, s)
<1>1. /\ scenario' = scenario /\ job.at = "idle" /\ plan.at = "planning"
      /\ MayCommand(plan.enqueue) /\ (plan.enqueue => Len(queue) < MaxQueue)
      /\ Reference(plan.enqueue) = plan.ref /\ nextId' = nextId + 1
      /\ IF plan.enqueue /\ ctl.state = "RUNNING"
         THEN /\ queue' = Append(queue, m)
              /\ UNCHANGED <<ctl, history, mailbox, pending, nearFor>>
         ELSE /\ history' = Archive(history, ctl)
              /\ ctl' = Activated(m)
              /\ mailbox' = NoMail /\ pending' = NoMail
              /\ nearFor' = Unset
              /\ UNCHANGED queue
      /\ plan' = NoPlan
      /\ UNCHANGED <<power, moving, job, fb, origin, scenario>>
  BY DEF start_trajectory, WorkerIdle, MayStart, ReferenceUnchanged, PlanningOver
<1>2. /\ plan.enqueue \in BOOLEAN /\ plan.ref # <<>> /\ nextId <= scenario.ids
      /\ scenario \in Scenarios /\ nextId \in 1 .. MaxIds + 1
  BY <1>1 DEF Inv, RefInv, Controls, QueueInv, Motions
<1>3. /\ Mails' = Mails /\ Pos' = Pos /\ Inputs' = Inputs /\ NoMail \in Mails
      /\ NoMail.ref = NoPos
  BY <1>1, SameScenario DEF Mails, NoMail, Mail
<1>4. /\ p \in Pos
      /\ ctl.state = "RUNNING" =>
           p = IF queue = <<>> THEN Final(ctl) ELSE Final(Last(queue))
      /\ ctl.state # "RUNNING" /\ "submit" \notin Inputs => p = origin
  BY <1>1, <1>2, ReferenceFacts
<1>5. v \in Pos \union {NoPos}
  BY DEF Vias
<1>6. w \in Seq(Pos) /\ Len(w) = a + 2 /\ w[1] = p /\ a \in 0 .. MaxQueue /\ a <= 1
  <2> HIDE DEF p
  <2>1. QED
    BY <1>2, <1>4, <1>5, WaypointFacts
<1>7. nextId \in 0 .. MaxIds /\ nextId <= MaxIds /\ nextId >= 1 /\ nextId \in Nat
  <2>1. scenario.ids \in 0 .. MaxIds /\ MaxIds \in Nat
    BY <1>2, Scenario, Constants
  <2>2. QED
    BY <1>2, <2>1
<1>8. m \in Motion /\ m.id = nextId /\ m.state = "QUEUED" /\ m.path = w /\ m.approach = a
  <2> HIDE DEF w, a
  <2>1. QED
    BY <1>2, <1>6, <1>7, PreparedFacts
<1> HIDE DEF p, a, w, m
<1>9. NoPlan.at # "planning"
  BY DEF NoPlan
<1>10. Controls'
  <2>1. nearFor' \in Unset .. Stable
    BY <1>1, Constants DEF Inv, RefInv, Controls, Unset
  <2>2. mailbox' \in Mails /\ pending' \in Mails
    BY <1>1, <1>3 DEF Inv, RefInv, Controls
  <2>3. QED
    BY <1>1, <1>3, <1>9, <2>1, <2>2 DEF Inv, RefInv, Controls
<1>11. CASE plan.enqueue /\ ctl.state = "RUNNING"
  <2>1. /\ queue' = Append(queue, m)
        /\ UNCHANGED <<ctl, history, mailbox, pending, nearFor>>
        /\ Len(queue) < MaxQueue
    BY <1>1, <1>11
  <2>2. m.path[1] = IF queue = <<>> THEN Final(ctl) ELSE Final(Last(queue))
    BY <1>4, <1>6, <1>8, <1>11
  <2>3. Len(m.path) = m.approach + 2 /\ m.approach <= 1
    BY <1>6, <1>8
  <2>4. Enqueued
    BY <1>1, <1>7, <1>8, <1>11, <2>1, <2>2, <2>3 DEF Enqueued
  <2>5. QED
    BY <1>1, <1>10, <2>1, <2>4, SameRef DEF Inv, Classified
<1>12. CASE ~(plan.enqueue /\ ctl.state = "RUNNING")
  <2>1. /\ history' = Archive(history, ctl) /\ ctl' = Activated(m)
        /\ mailbox' = NoMail /\ pending' = NoMail /\ queue' = queue
    BY <1>1, <1>12
  <2>2. ctl.state # "RUNNING" /\ power = "on"
    BY <1>1, <1>12 DEF MayCommand
  <2>3. Len(m.path) = m.approach + 2
    BY <1>6, <1>8
  <2>4. Replaced
    BY <1>1, <1>7, <1>8, <2>1, <2>2, <2>3 DEF Replaced
  <2>5. /\ ctl' \in Motion /\ SameMotion(m, ctl') /\ ctl'.state = "RUNNING"
        /\ ctl'.stable = Unset
    BY <1>2, <1>8, <2>1, ActivatedFacts
  <2>6. Powered' /\ Carried' /\ Windowed'
    BY <1>1, <2>2, <2>5 DEF Powered, Carried, Windowed
  <2>7. Placed'
    <3>1. SampleTime(ctl') \in 0 .. RefDuration(ctl') /\ RefDuration(ctl') \in Nat
      <4>1. Len(ctl'.path) = ctl'.approach + 2
        BY <2>3, <2>5 DEF SameMotion
      <4>2. QED
        BY <1>2, <2>5, <4>1, SampleFacts
    <3>2. 1 \in 1 .. SampleTime(ctl') + 1
      BY <3>1
    <3>3. "submit" \notin Inputs => ctl'.path[1] = origin
      BY <1>4, <1>6, <1>8, <2>2, <2>5 DEF SameMotion
    <3>4. "submit" \notin Inputs => \E i \in 1 .. SampleTime(ctl') + 1 : ctl'.path[i] = origin'
      BY <1>1, <3>2, <3>3
    <3>5. QED
      BY <1>3, <2>1, <2>5, <3>4 DEF Placed, SampleTime, AtApproach, RefDuration
  <2>8. QED
    BY <1>1, <1>10, <2>4, <2>6, <2>7 DEF RefInv, Classified
<1>13. QED
  BY <1>11, <1>12

-----------------------------------------------------------------------------
(* The worker *)

LEMMA CycleStep ==
  ASSUME Inv, NEW d \in 1 .. MaxStep, TrajectoryCycle(d)
  PROVE  /\ scenario' = scenario /\ Classified /\ RefInv'
         /\ SampleTime(ctl') >= SampleTime(ctl)
         /\ SampleTime(ctl') \in 0 .. RefDuration(ctl)
         /\ origin' = ctl.path[SampleTime(ctl') + 1]
<1> DEFINE m == Sampled(Aged(ctl, d))
<1>1. /\ job.at = "idle" /\ power = "on" /\ ctl.state = "RUNNING"
      /\ mailbox' = Mail(Sample(m, SampleTime(m)))
      /\ origin' = Sample(m, SampleTime(m))
      /\ job' = IF Completing(m) THEN [NoJob EXCEPT !.at = "sent"] ELSE job
      /\ nearFor' = Older(nearFor, d, Stable)
      /\ UNCHANGED <<queue, history, nextId, pending, plan, token, power, moving,
                     fb, scenario>>
  BY DEF TrajectoryCycle, WorkerIdle
<1>2. PICK t \in Tracking(m) : ctl' = [m EXCEPT !.tracking = t]
  BY DEF TrajectoryCycle
<1>3. /\ scenario \in Scenarios /\ ctl \in Motion /\ Len(ctl.path) = ctl.approach + 2
      /\ d \in Nat
  <2>1. /\ scenario \in Scenarios /\ ctl \in Motion /\ Len(ctl.path) = ctl.approach + 2
    BY <1>1 DEF Inv, QueueInv, Motions, Shapes, Active
  <2>2. QED
    BY <2>1, Scenario
<1>4. t \in {"unknown", "small", "lost"}
  <2>1. m.tracking \in {"unknown", "small", "lost"}
    <3>1. m \in Motion
      BY <1>3, CycleFacts
    <3>2. QED
      BY <3>1 DEF Motion
  <2>2. QED
    BY <2>1 DEF Tracking
<1>5. /\ ctl' \in Motion /\ SameMotion(ctl, ctl') /\ ctl'.state = ctl.state
      /\ ctl'.stable = Older(ctl.stable, d, Stable)
      /\ SampleTime(ctl') = SampleTime(m)
      /\ SampleTime(ctl') >= SampleTime(ctl) /\ SampleTime(ctl') \in 0 .. RefDuration(ctl)
      /\ Completing(ctl') <=> Completing(m)
      /\ m.path = ctl.path
  BY <1>2, <1>3, <1>4, CycleFacts
<1> HIDE DEF m
<1>6. Sample(m, SampleTime(m)) = Sample(ctl', SampleTime(ctl'))
  BY <1>5 DEF Sample, RefDuration, SameMotion
<1>7. /\ Sample(ctl', SampleTime(ctl')) = ctl'.path[SampleTime(ctl') + 1]
      /\ Sample(ctl', SampleTime(ctl')) \in Pos
      /\ SampleTime(ctl') + 1 \in 1 .. SampleTime(ctl') + 1
  <2>1. Len(ctl'.path) = ctl'.approach + 2
    BY <1>3, <1>5 DEF SameMotion
  <2>2. /\ Sample(ctl', SampleTime(ctl')) = ctl'.path[SampleTime(ctl') + 1]
        /\ Sample(ctl', SampleTime(ctl')) \in Pos
        /\ SampleTime(ctl') \in 0 .. RefDuration(ctl') /\ RefDuration(ctl') \in Nat
    BY <1>3, <1>5, <2>1, SampleFacts
  <2>3. QED
    BY <2>2
<1>8. Tended
  BY <1>1, <1>5 DEF Tended, Active
<1>9. /\ Mails' = Mails /\ Pos' = Pos /\ Inputs' = Inputs
      /\ mailbox' = Mail(origin') /\ origin' \in Pos
      /\ mailbox' \in Mails /\ mailbox'.ref = origin'
  BY <1>1, <1>3, <1>6, <1>7, SameScenario, MailOf
<1>10. /\ nearFor' \in Unset .. Stable
       /\ (ctl'.stable # Unset => nearFor' >= ctl'.stable)
  <2>1. /\ nearFor \in Unset .. Stable /\ ctl.stable \in Unset .. Stable
        /\ (ctl.stable # Unset => nearFor >= ctl.stable) /\ Stable \in Nat
    BY <1>1, <1>3, FieldFacts, Constants DEF Inv, RefInv, Controls, Windowed
  <2>2. /\ nearFor' = Older(nearFor, d, Stable) /\ d \in Nat
        /\ ctl'.stable = Older(ctl.stable, d, Stable)
    BY <1>1, <1>3, <1>5
  <2>3. QED
    BY <2>1, <2>2 DEF Older, Min2, Unset
<1>11. Controls'
  BY <1>1, <1>9, <1>10 DEF Inv, RefInv, Controls
<1>12. Powered' /\ Windowed'
  BY <1>1, <1>10 DEF Powered, Windowed
<1>13. Carried'
  <2>1. job'.at # "measured"
    BY <1>1 DEF NoJob
  <2>2. job'.at # "idle" => Completing(m)
    BY <1>1
  <2>3. QED
    BY <1>1, <1>5, <1>6, <1>9, <2>1, <2>2 DEF Carried, Completing, AtApproach, SampleTime,
                                             Sample, RefDuration
<1>14. Placed'
  <2>1. \E i \in 1 .. SampleTime(ctl') + 1 : ctl'.path[i] = origin'
    BY <1>1, <1>6, <1>7
  <2>2. pending' = pending
    BY <1>1
  <2>3. QED
    BY <1>1, <1>5, <1>9, <2>1, <2>2 DEF Inv, RefInv, Placed, SampleTime, AtApproach, RefDuration
<1>15. QED
  <2>1. origin' = ctl.path[SampleTime(ctl') + 1]
    BY <1>1, <1>5, <1>6, <1>7 DEF SameMotion
  <2>2. QED
    BY <1>1, <1>5, <1>8, <1>11, <1>12, <1>13, <1>14, <2>1 DEF RefInv, Classified

LEMMA OrdinaryStep ==
  ASSUME Inv, NEW d \in 1 .. MaxStep, OrdinaryCycle(d)
  PROVE  scenario' = scenario /\ Classified /\ RefInv'
<1> DEFINE b == Consumed
<1>1. /\ job.at = "idle" /\ power = "on" /\ ctl.state # "RUNNING" /\ b.ref # NoPos
      /\ mailbox' = StepTo(b) /\ origin' = StepTo(b).ref /\ pending' = NoMail
      /\ IF ctl.state = "COMPLETED"
         THEN /\ ctl' = [ctl EXCEPT !.unstable = Older(@, d, Unstable)]
              /\ job' = [NoJob EXCEPT !.at = "sent"]
         ELSE UNCHANGED <<ctl, job>>
      /\ nearFor' = Older(nearFor, d, Stable)
      /\ UNCHANGED <<queue, history, nextId, plan, token, power, moving, fb, scenario>>
  BY DEF OrdinaryCycle, WorkerIdle
<1>2. /\ scenario \in Scenarios /\ ctl \in Motion /\ d \in Nat /\ b \in Mails
      /\ nearFor \in Unset .. Stable
  <2>1. /\ scenario \in Scenarios /\ ctl \in Motion /\ b \in Mails
        /\ nearFor \in Unset .. Stable
    BY DEF Inv, QueueInv, Motions, RefInv, Controls, Consumed
  <2>2. QED
    BY <2>1, Scenario
<1>3. /\ StepTo(b) \in Mails /\ StepTo(b).ref \in Pos /\ (b = Mail(b.ref) => StepTo(b) = b)
  BY <1>1, <1>2, StepFacts
<1>4. /\ Mails' = Mails /\ Pos' = Pos /\ Inputs' = Inputs /\ NoMail \in Mails
  BY <1>1, SameScenario DEF Mails, NoMail, Mail
<1>5. nearFor' \in Unset .. Stable
  BY <1>1, <1>2, Constants, OlderFacts
<1>6. Controls'
  BY <1>1, <1>3, <1>4, <1>5 DEF Inv, RefInv, Controls
<1>7. CASE ctl.state = "COMPLETED"
  <2>1. ctl' = [ctl EXCEPT !.unstable = Older(ctl.unstable, d, Unstable)] /\ job'.at = "sent"
    BY <1>1, <1>7 DEF NoJob
  <2>2. Older(ctl.unstable, d, Unstable) \in Unset .. Unstable
    <3>1. ctl.unstable \in Unset .. Unstable
      BY <1>2 DEF Motion
    <3>2. QED
      BY <1>2, <3>1, Constants, OlderFacts
  <2>3. /\ ctl' \in Motion /\ SameMotion(ctl, ctl') /\ SameClock(ctl, ctl')
        /\ ctl'.state = ctl.state
    BY <1>2, <2>1, <2>2, UnstableFacts
  <2>4. Tended
    BY <1>1, <1>7, <2>3 DEF Tended, Active, Inv, QueueInv, Chain
  <2>5. Powered' /\ Carried' /\ Windowed'
    BY <1>1, <1>7, <2>1, <2>3 DEF Powered, Carried, Windowed
  <2>6. /\ RefDuration(ctl') = RefDuration(ctl) /\ SampleTime(ctl') = SampleTime(ctl)
        /\ (AtApproach(ctl') <=> AtApproach(ctl)) /\ Final(ctl') = Final(ctl)
    BY <2>3, ClockFacts DEF SameMotion, Final
  <2>7. ASSUME "submit" \notin Inputs
        PROVE  mailbox' = Mail(origin') /\ origin' = Final(ctl) /\ mailbox'.ref = origin'
    <3>1. pending = NoMail /\ mailbox = Mail(origin) /\ origin = Final(ctl)
      BY <1>7, <2>7 DEF Inv, RefInv, Placed
    <3>2. b = Mail(origin) /\ b.ref = origin
      BY <3>1 DEF Consumed, Mail
    <3>3. QED
      BY <1>1, <1>3, <3>1, <3>2
  <2>8. Placed'
    <3>1. ~AtApproach(ctl) /\ SampleTime(ctl) = RefDuration(ctl)
      BY <1>7 DEF Inv, RefInv, Placed
    <3>2. /\ ~AtApproach(ctl') /\ SampleTime(ctl') = RefDuration(ctl')
          /\ ("submit" \notin Inputs => mailbox' = Mail(origin') /\ origin' = Final(ctl'))
      BY <2>6, <2>7, <3>1
    <3>3. QED
      BY <1>1, <1>4, <1>7, <2>3, <2>7, <3>2
         DEF Placed, SampleTime, AtApproach, RefDuration, Final, NoMail, Mail
  <2>9. QED
    BY <1>1, <1>6, <2>4, <2>5, <2>8 DEF RefInv, Classified
<1>8. CASE ctl.state # "COMPLETED"
  <2>1. ctl' = ctl /\ ctl'.state \notin Active /\ Kept
    BY <1>1, <1>8 DEF Active, Kept
  <2>2. mailbox'.ref = origin'
    BY <1>1
  <2>3. QED
    BY <1>1, <1>6, <2>1, <2>2, IdleRef DEF Classified
<1>9. QED
  BY <1>7, <1>8

\* When the sample of a running motion is at its end, so is the reference.
LEMMA EndReached ==
  ASSUME Inv, job.at # "idle", ctl.state = "RUNNING", ~AtApproach(ctl)
  PROVE  /\ SampleTime(ctl) = RefDuration(ctl) /\ origin = Final(ctl)
         /\ mailbox = Mail(origin) /\ RefDuration(ctl) \in Nat
<1>1. /\ scenario \in Scenarios /\ ctl \in Motion /\ Len(ctl.path) = ctl.approach + 2
  BY DEF Inv, QueueInv, Motions, Shapes, Active
<1>2. Completing(ctl) /\ origin = Sample(ctl, SampleTime(ctl)) /\ mailbox = Mail(origin)
  BY DEF Inv, RefInv, Carried
<1>3. QED
  BY <1>1, <1>2, SampleFacts

\* The successor starts where the motion before it ended.
LEMMA AdvancedRef ==
  ASSUME Inv, scenario' = scenario, job.at # "idle", ctl.state = "RUNNING",
         ~AtApproach(ctl), queue # <<>>, ctl' = Activated(Head(queue)),
         job'.at = "idle", nearFor' \in Unset .. Stable,
         UNCHANGED <<nextId, mailbox, pending, plan, power, origin>>
  PROVE  RefInv'
<1>1. /\ scenario \in Scenarios /\ queue \in Seq(Motion)
      /\ power = "on" /\ Mails' = Mails /\ Pos' = Pos /\ Inputs' = Inputs
  BY SameScenario DEF Inv, QueueInv, Motions, RefInv, Powered, Active
<1>2. origin = Final(ctl) /\ mailbox = Mail(origin)
  BY EndReached
<1>3. Head(queue) \in Motion /\ Head(queue) = queue[1] /\ 1 \in DOMAIN queue
  BY <1>1, TailIds
<1>4. /\ queue[1].path[1] = Final(ctl) /\ Len(queue[1].path) = queue[1].approach + 2
  BY <1>3 DEF Inv, QueueInv, Chain, Shapes, Predecessor
<1>5. /\ ctl' \in Motion /\ SameMotion(queue[1], ctl') /\ ctl'.state = "RUNNING"
      /\ ctl'.stable = Unset
  BY <1>1, <1>3, ActivatedFacts
<1>6. Controls'
  BY <1>1 DEF Inv, RefInv, Controls
<1>7. Powered' /\ Carried' /\ Windowed'
  BY <1>1, <1>5 DEF Powered, Carried, Windowed
<1>8. Placed'
  <2>1. Len(ctl'.path) = ctl'.approach + 2
    BY <1>4, <1>5 DEF SameMotion
  <2>2. SampleTime(ctl') \in 0 .. RefDuration(ctl') /\ RefDuration(ctl') \in Nat
    BY <1>1, <1>5, <2>1, SampleFacts
  <2>3. 1 \in 1 .. SampleTime(ctl') + 1
    BY <2>2
  <2>4. ctl'.path[1] = origin'
    BY <1>2, <1>4, <1>5 DEF SameMotion
  <2>5. \E i \in 1 .. SampleTime(ctl') + 1 : ctl'.path[i] = origin'
    BY <2>3, <2>4
  <2>6. QED
    BY <1>1, <1>5, <2>5 DEF Inv, RefInv, Placed, SampleTime, AtApproach, RefDuration
<1>9. QED
  BY <1>6, <1>7, <1>8 DEF RefInv

LEMMA CompletedEntry ==
  ASSUME Inv, NEW h, NEW m \in Motion, m.id = ctl.id, m.state = "COMPLETED",
         ctl.state = "RUNNING"
  PROVE  Archive(h, m) = Recent(Append(h, [id |-> ctl.id, state |-> "COMPLETED"]))
<1>1. ctl.id # 0
  BY DEF Inv, QueueInv, Ids
<1>2. StatusOf(m) = [id |-> ctl.id, state |-> "COMPLETED"]
  BY DEF StatusOf
<1>3. QED
  BY <1>1, <1>2 DEF Archive

LEMMA HandOffStep ==
  ASSUME Inv, HandOff
  PROVE  scenario' = scenario /\ Classified /\ RefInv'
<1> DEFINE m == [ctl EXCEPT !.state = "COMPLETED"]
<1>1. /\ job.at = "sent" /\ MayHandOff /\ history' = Archive(history, m)
      /\ ctl' = Activated(Head(queue)) /\ queue' = Tail(queue)
      /\ job' = NoJob /\ nearFor' = Unset
      /\ UNCHANGED <<nextId, mailbox, pending, plan, token, power, moving, fb,
                     origin, scenario>>
  BY DEF HandOff
<1>2. ctl.state = "RUNNING" /\ ~AtApproach(ctl) /\ queue # <<>> /\ job.at # "idle"
  BY <1>1 DEF MayHandOff
<1>3. ctl \in Motion
  BY DEF Inv, QueueInv, Motions
<1>4. m \in Motion
  BY <1>3 DEF Motion
<1>5. m.id = ctl.id /\ m.state = "COMPLETED"
  BY <1>3 DEF Motion
<1> HIDE DEF m
<1>6. Advanced
  BY <1>1, <1>2, <1>4, <1>5, CompletedEntry DEF Advanced
<1>7. job'.at = "idle" /\ nearFor' \in Unset .. Stable
  BY <1>1, Constants DEF NoJob
<1>8. QED
  BY <1>1, <1>2, <1>6, <1>7, AdvancedRef DEF Classified

LEMMA AssessStep ==
  ASSUME Inv, Assess
  PROVE  scenario' = scenario /\ Classified /\ RefInv'
<1>1. /\ job.at = "sent"
      /\ UNCHANGED <<queue, history, nextId, mailbox, pending, plan, token, power,
                     moving, fb, origin, nearFor, scenario>>
  BY DEF Assess
<1>2. /\ Mails' = Mails /\ Pos' = Pos /\ Inputs' = Inputs /\ scenario \in Scenarios
      /\ ctl \in Motion
  BY <1>1, SameScenario DEF Inv, QueueInv, Motions
<1>3. Controls'
  BY <1>1, <1>2 DEF Inv, RefInv, Controls
<1>4. CASE ctl.state \in Active
  <2> DEFINE a == [ctl EXCEPT !.settling = 0, !.stable = Unset, !.unstable = Unset,
                              !.init = FALSE]
  <2>1. /\ ctl' = a \/ ctl' = ctl
        /\ job'.at = "measured" /\ job'.id = ctl'.id
        /\ (job'.monitor <=> ctl'.state = "COMPLETED")
        /\ (job'.waiting <=> ctl'.state = "RUNNING" /\ AtApproach(ctl'))
    <3> DEFINE fresh == ctl.state = "RUNNING" /\ ctl.settling = Unset
               c == IF fresh THEN a ELSE ctl
    <3>1. /\ ctl' = c
          /\ job' = [at |-> "measured", id |-> c.id, monitor |-> c.state = "COMPLETED",
                     waiting |-> c.state = "RUNNING" /\ AtApproach(c),
                     deadline |-> c.elapsed >= Duration(c), init |-> c.init]
      BY <1>4 DEF Assess, Active
    <3>2. c = a \/ c = ctl
      OBVIOUS
    <3> HIDE DEF c
    <3>3. QED
      BY <3>1, <3>2
  <2>2. /\ ctl' \in Motion /\ SameMotion(ctl, ctl') /\ SameClock(ctl, ctl')
        /\ ctl'.state = ctl.state /\ (ctl'.stable = Unset \/ ctl'.stable = ctl.stable)
    <3>1. CASE ctl' = a
      <4> HIDE DEF a
      <4>1. a \in Motion /\ SameMotion(ctl, a) /\ SameClock(ctl, a)
            /\ a.state = ctl.state /\ a.stable = Unset
        BY <1>2, AssessFacts DEF a
      <4>2. QED
        BY <3>1, <4>1
    <3>2. CASE ctl' = ctl
      BY <1>2, <3>2 DEF SameMotion, SameClock
    <3>3. QED
      BY <2>1, <3>1, <3>2
  <2> HIDE DEF a
  <2>3. Tended
    BY <1>1, <1>4, <2>2 DEF Tended, Active, Inv, QueueInv, Chain
  <2>4. /\ RefDuration(ctl') = RefDuration(ctl) /\ SampleTime(ctl') = SampleTime(ctl)
        /\ (AtApproach(ctl') <=> AtApproach(ctl)) /\ Final(ctl') = Final(ctl)
        /\ (Completing(ctl') <=> Completing(ctl))
        /\ Sample(ctl', SampleTime(ctl)) = Sample(ctl, SampleTime(ctl))
        /\ ctl'.path = ctl.path
    BY <2>2, ClockFacts DEF SameMotion, Final
  <2>5. Powered' /\ Windowed'
    BY <1>1, <1>4, <2>2 DEF Inv, RefInv, Powered, Windowed, Active
  <2>6. Carried'
    <3>1. ctl'.state = "RUNNING" =>
            /\ Completing(ctl') /\ origin = Sample(ctl', SampleTime(ctl'))
            /\ mailbox = Mail(origin)
      BY <1>1, <2>2, <2>4 DEF Inv, RefInv, Carried
    <3>2. QED
      BY <1>1, <2>1, <3>1
         DEF Carried, Completing, SampleTime, AtApproach, RefDuration, Sample
  <2>7. Placed'
    <3>1. /\ ctl'.state = "RUNNING" /\ "submit" \notin Inputs =>
               \E i \in 1 .. SampleTime(ctl') + 1 : ctl'.path[i] = origin'
          /\ ctl'.state = "COMPLETED" =>
               ~AtApproach(ctl') /\ SampleTime(ctl') = RefDuration(ctl')
          /\ "submit" \notin Inputs =>
               /\ pending' = NoMail /\ mailbox'.ref \in {NoPos, origin'}
               /\ ctl'.state = "COMPLETED" => mailbox' = Mail(origin') /\ origin' = Final(ctl')
      BY <1>1, <2>2, <2>4 DEF Inv, RefInv, Placed
    <3>2. QED
      BY <1>2, <3>1 DEF Placed, SampleTime, AtApproach, RefDuration, Final, NoMail, Mail
  <2>8. QED
    BY <1>1, <1>3, <2>3, <2>5, <2>6, <2>7 DEF RefInv, Classified
<1>5. CASE ctl.state \notin Active
  <2>1. ctl' = ctl
    BY <1>5 DEF Assess, Active
  <2>2. "submit" \notin Inputs => pending' = NoMail /\ mailbox'.ref \in {NoPos, origin'}
    BY <1>1 DEF Inv, RefInv, Placed
  <2>3. QED
    BY <1>1, <1>3, <1>5, <2>1, <2>2, IdleRef DEF Classified, Kept
<1>6. QED
  BY <1>4, <1>5

LEMMA VerdictFrame ==
  ASSUME Inv, NEW new \in BOOLEAN, NEW f, NEW steady, Verdict(new, f, steady)
  PROVE  /\ job.at = "measured" /\ job.at # "idle" /\ job' = NoJob /\ job'.at = "idle"
         /\ UNCHANGED <<nextId, mailbox, pending, plan, token, power, moving, origin, scenario>>
         /\ scenario \in Scenarios /\ ctl \in Motion
         /\ Controls' /\ nearFor' \in Unset .. Stable
         /\ ctl'.id = ctl.id /\ ctl'.approached = ctl.approached =>
              nearFor' = IF "near" \in f THEN (IF nearFor = Unset THEN 0 ELSE nearFor)
                         ELSE IF new THEN Unset ELSE nearFor
         /\ ctl.state \in Active => StillThere
         /\ Mails' = Mails /\ Pos' = Pos /\ Inputs' = Inputs
<1>1. /\ job.at = "measured" /\ job' = NoJob
      /\ nearFor' = IF ctl'.id # ctl.id \/ ctl'.approached # ctl.approached THEN Unset
                    ELSE IF "near" \in f THEN (IF nearFor = Unset THEN 0 ELSE nearFor)
                    ELSE IF new THEN Unset ELSE nearFor
      /\ UNCHANGED <<nextId, mailbox, pending, plan, token, power, moving, origin, scenario>>
  BY DEF Verdict
<1>2. /\ scenario \in Scenarios /\ ctl \in Motion /\ nearFor \in Unset .. Stable
      /\ job'.at = "idle"
  BY <1>1 DEF Inv, QueueInv, Motions, RefInv, Controls, NoJob
<1>3. nearFor' \in Unset .. Stable
  BY <1>1, <1>2, Constants
<1>4. Mails' = Mails /\ Pos' = Pos /\ Inputs' = Inputs
  BY <1>1, SameScenario
<1>5. Controls'
  BY <1>1, <1>3, <1>4 DEF Inv, RefInv, Controls
<1>6. ctl.state \in Active => StillThere
  BY <1>1 DEF Inv, RefInv, Carried, StillThere, Active
<1>7. QED
  BY <1>1, <1>2, <1>3, <1>4, <1>5, <1>6

\* The motion the verdict was about has ended meanwhile.
LEMMA GoneStep ==
  ASSUME Inv, NEW new \in BOOLEAN, NEW f, NEW steady, Verdict(new, f, steady), ~StillThere
  PROVE  Kept /\ ctl'.state \notin Active /\ RefInv'
<1>1. ctl' = ctl /\ queue' = queue /\ history' = history /\ nextId' = nextId
  BY DEF Verdict
<1>2. ctl'.state \notin Active
  BY <1>1, VerdictFrame
<1>3. /\ UNCHANGED <<mailbox, pending, origin, scenario>> /\ Controls'
  BY VerdictFrame
<1>4. "submit" \notin Inputs => pending' = NoMail /\ mailbox'.ref \in {NoPos, origin'}
  BY <1>3 DEF Inv, RefInv, Placed
<1>5. RefInv'
  BY <1>2, <1>3, <1>4, IdleRef
<1>6. QED
  BY <1>1, <1>2, <1>5 DEF Kept

\* A completed motion is watched; it may run again, at its end.
LEMMA HoldStep ==
  ASSUME Inv, NEW new \in BOOLEAN, NEW f, NEW steady, Verdict(new, f, steady),
         StillThere, job.monitor
  PROVE  Tended /\ ctl.state = "COMPLETED" /\ RefInv'
<1>1. /\ ctl.state = "COMPLETED" /\ ctl' = HoldVerdict(new, f, steady)
      /\ queue' = queue /\ history' = history
  BY DEF Verdict, StillThere
<1>2. /\ job' = NoJob /\ job'.at = "idle" /\ scenario \in Scenarios /\ ctl \in Motion
      /\ UNCHANGED <<nextId, mailbox, pending, plan, token, power, moving, origin, scenario>>
      /\ Controls' /\ Inputs' = Inputs
  BY VerdictFrame
<1>3. /\ ctl' \in Motion /\ SameMotion(ctl, ctl') /\ SameClock(ctl, ctl')
      /\ ctl'.state = "COMPLETED" \/ (ctl'.state = "RUNNING" /\ ctl'.stable = Unset)
  BY <1>1, <1>2, HoldFacts
<1>4. Tended
  BY <1>1, <1>2, <1>3 DEF Tended, Active, Inv, QueueInv, Chain
<1>5. Powered' /\ Carried' /\ Windowed'
  BY <1>1, <1>2, <1>3 DEF Inv, RefInv, Powered, Carried, Windowed, Active
<1>6. /\ RefDuration(ctl') = RefDuration(ctl) /\ SampleTime(ctl') = SampleTime(ctl)
      /\ (AtApproach(ctl') <=> AtApproach(ctl)) /\ Final(ctl') = Final(ctl)
      /\ ctl'.path = ctl.path
  BY <1>3, ClockFacts DEF SameMotion, Final
<1>7. /\ ~AtApproach(ctl) /\ SampleTime(ctl) = RefDuration(ctl)
      /\ ("submit" \notin Inputs => /\ pending = NoMail /\ mailbox = Mail(origin)
                                    /\ mailbox.ref \in {NoPos, origin}
                                    /\ origin = Final(ctl))
  BY <1>1 DEF Inv, RefInv, Placed
<1>8. "submit" \notin Inputs => \E i \in 1 .. SampleTime(ctl') + 1 : ctl'.path[i] = origin'
  <2>1. RefDuration(ctl) + 1 = Len(ctl.path) /\ RefDuration(ctl) \in Nat
    <3>1. Len(ctl.path) = ctl.approach + 2
      BY <1>1 DEF Inv, QueueInv, Shapes, Active
    <3>2. RefDuration(ctl) = ctl.approach + 1 /\ ctl.approach \in Nat
      BY <1>2, <3>1, SampleFacts
    <3>3. QED
      BY <3>1, <3>2
  <2>2. Len(ctl.path) \in 1 .. SampleTime(ctl') + 1
    BY <1>6, <1>7, <2>1
  <2>3. "submit" \notin Inputs => ctl'.path[Len(ctl.path)] = origin'
    BY <1>2, <1>6, <1>7 DEF Final, Last
  <2>4. QED
    BY <2>2, <2>3
<1>9. Placed'
  BY <1>2, <1>6, <1>7, <1>8 DEF Placed, SampleTime, AtApproach, RefDuration, Final,
                                NoMail, Mail
<1>10. QED
  BY <1>1, <1>2, <1>4, <1>5, <1>9 DEF RefInv

\* A running motion goes on settling: the window stays within nearFor.
LEMMA SettlingStep ==
  ASSUME Inv, NEW new \in BOOLEAN, NEW f, NEW steady, Verdict(new, f, steady),
         ctl.state = "RUNNING", NEW m, m = Settled(new \/ ~job.init, f),
         ctl' = m \/ (ctl' = [m EXCEPT !.stable = 0] /\ m.stable # Unset),
         UNCHANGED <<queue, history>>
  PROVE  Tended /\ RefInv'
<1>1. /\ job'.at = "idle" /\ scenario \in Scenarios /\ ctl \in Motion
      /\ UNCHANGED <<nextId, mailbox, pending, plan, token, power, moving, origin, scenario>>
      /\ Controls' /\ Inputs' = Inputs
  BY VerdictFrame
<1> DEFINE fresh == (new \/ ~job.init)
<1>2. fresh \in BOOLEAN /\ (~fresh => ~new)
  OBVIOUS
<1> HIDE DEF fresh
<1>3. /\ m \in Motion /\ SameMotion(ctl, m) /\ SameClock(ctl, m) /\ m.state = ctl.state
      /\ \/ m.stable = Unset
         \/ m.stable = 0 /\ "near" \in f
         \/ m.stable = ctl.stable /\ (~fresh \/ "near" \in f)
  BY <1>1, <1>2, SettledFacts DEF fresh
<1>4. /\ ctl' \in Motion /\ SameMotion(ctl, ctl') /\ SameClock(ctl, ctl')
      /\ ctl'.state = ctl.state
      /\ ctl'.stable = m.stable \/ (ctl'.stable = 0 /\ m.stable # Unset)
  <2>1. CASE ctl' = m
    BY <1>3, <2>1
  <2>2. CASE ctl' = [m EXCEPT !.stable = 0] /\ m.stable # Unset
    <3>1. /\ ctl' \in Motion /\ SameMotion(m, ctl') /\ SameClock(m, ctl')
          /\ ctl'.state = m.state /\ ctl'.stable = 0
      BY <1>3, <2>2, RestartedFacts
    <3>2. QED
      BY <1>3, <2>2, <3>1 DEF SameMotion, SameClock
  <2>3. QED
    BY <2>1, <2>2
<1>5. nearFor' = IF "near" \in f THEN (IF nearFor = Unset THEN 0 ELSE nearFor)
                 ELSE IF new THEN Unset ELSE nearFor
  BY <1>4, VerdictFrame DEF SameMotion, SameClock
<1>6. m.stable # Unset => nearFor' >= m.stable
  <2>1. /\ nearFor \in Unset .. Stable /\ ctl.stable \in Unset .. Stable
        /\ (ctl.stable # Unset => nearFor >= ctl.stable) /\ Stable \in Nat
    BY <1>1, FieldFacts, Constants DEF Inv, RefInv, Controls, Windowed
  <2>2. CASE m.stable = Unset
    BY <2>2
  <2>3. CASE m.stable = 0 /\ "near" \in f
    BY <1>5, <2>1, <2>3 DEF Unset
  <2>4. CASE m.stable = ctl.stable /\ "near" \in f
    BY <1>5, <2>1, <2>4 DEF Unset
  <2>5. CASE m.stable = ctl.stable /\ ~("near" \in f) /\ ~fresh
    BY <1>2, <1>5, <2>1, <2>5
  <2>6. QED
    BY <1>3, <2>2, <2>3, <2>4, <2>5
<1>7. Windowed'
  <2>1. m.stable \in Unset .. Stable /\ nearFor' \in Unset .. Stable /\ Stable \in Nat
    BY <1>1, <1>3, FieldFacts, VerdictFrame, Constants
  <2>2. ctl'.stable # Unset => nearFor' >= ctl'.stable
    BY <1>4, <1>6, <2>1 DEF Unset
  <2>3. QED
    BY <2>2 DEF Windowed
<1>8. Tended
  BY <1>1, <1>4 DEF Tended, Active
<1>9. Powered' /\ Carried'
  BY <1>1, <1>4 DEF Inv, RefInv, Powered, Carried, Active
<1>10. Placed'
  <2>1. SampleTime(ctl') = SampleTime(ctl) /\ ctl'.path = ctl.path
    BY <1>4, ClockFacts DEF SameMotion
  <2>2. "submit" \notin Inputs =>
          /\ \E i \in 1 .. SampleTime(ctl') + 1 : ctl'.path[i] = origin'
          /\ pending' = NoMail /\ mailbox'.ref \in {NoPos, origin'}
    BY <1>1, <2>1 DEF Inv, RefInv, Placed
  <2>3. QED
    BY <1>1, <1>4, <2>2 DEF Placed, SampleTime, AtApproach, RefDuration, NoMail, Mail
<1>11. QED
  BY <1>1, <1>7, <1>8, <1>9, <1>10 DEF RefInv

\* The arm is at the end of the approach: the path starts there.
LEMMA ApproachStep ==
  ASSUME Inv, NEW new \in BOOLEAN, NEW f, NEW steady, Verdict(new, f, steady),
         ctl.state = "RUNNING", NEW m, m = Settled(new \/ ~job.init, f),
         job.waiting, ctl' = ApproachDone(m), UNCHANGED <<queue, history>>
  PROVE  Tended /\ RefInv'
<1>1. /\ job.at = "measured" /\ job'.at = "idle" /\ scenario \in Scenarios /\ ctl \in Motion
      /\ UNCHANGED <<nextId, mailbox, pending, plan, token, power, moving, origin, scenario>>
      /\ Controls' /\ Inputs' = Inputs
  BY VerdictFrame
<1> DEFINE fresh == (new \/ ~job.init)
<1>2. fresh \in BOOLEAN
  OBVIOUS
<1> HIDE DEF fresh
<1>3. m \in Motion /\ SameMotion(ctl, m) /\ SameClock(ctl, m) /\ m.state = ctl.state
  BY <1>1, <1>2, SettledFacts DEF fresh
<1>4. /\ ctl' \in Motion /\ SameMotion(m, ctl') /\ ctl'.state = m.state
      /\ ctl'.stable = Unset /\ ctl'.approached /\ ctl'.wall = Min2(m.wall, m.approach)
  BY <1>1, <1>3, ApproachFacts
<1>5. SameMotion(ctl, ctl') /\ ctl'.wall = Min2(ctl.wall, ctl.approach)
  BY <1>3, <1>4 DEF SameMotion, SameClock
<1>6. AtApproach(ctl) /\ Len(ctl.path) = ctl.approach + 2
  BY <1>1 DEF Inv, RefInv, Carried, Active, QueueInv, Shapes
<1>7. SampleTime(ctl') = SampleTime(ctl) /\ ctl'.path = ctl.path
  <2>1. /\ RefDuration(ctl) = ctl.approach + 1 /\ ctl.approach \in Nat
        /\ SampleTime(ctl) = ctl.approach /\ ctl.wall >= ctl.approach
    BY <1>1, <1>6, SampleFacts
  <2>2. ctl.wall \in Nat
    BY <1>1, FieldFacts
  <2>3. ctl'.wall = ctl.approach /\ RefDuration(ctl') = ctl.approach + 1 /\ ~AtApproach(ctl')
    BY <1>4, <1>5, <2>1, <2>2 DEF Min2, RefDuration, SameMotion, AtApproach
  <2>4. SampleTime(ctl') = Min2(ctl.approach, ctl.approach + 1)
    BY <2>3 DEF SampleTime
  <2>5. QED
    BY <1>5, <2>1, <2>4 DEF Min2, SameMotion
<1>8. Tended
  BY <1>1, <1>3, <1>4, <1>5 DEF Tended, Active
<1>9. Powered' /\ Carried' /\ Windowed'
  BY <1>1, <1>3, <1>4 DEF Inv, RefInv, Powered, Carried, Windowed, Active
<1>10. Placed'
  <2>1. "submit" \notin Inputs =>
          /\ \E i \in 1 .. SampleTime(ctl') + 1 : ctl'.path[i] = origin'
          /\ pending' = NoMail /\ mailbox'.ref \in {NoPos, origin'}
    BY <1>1, <1>7 DEF Inv, RefInv, Placed
  <2>2. QED
    BY <1>1, <1>3, <1>4, <2>1 DEF Placed, SampleTime, AtApproach, RefDuration, NoMail, Mail
<1>11. QED
  BY <1>1, <1>8, <1>9, <1>10 DEF RefInv

\* The motion is over: its reference is its end, and a successor starts there.
LEMMA ArrivedStep ==
  ASSUME Inv, NEW new \in BOOLEAN, NEW f, NEW steady, Verdict(new, f, steady),
         ctl.state = "RUNNING", NEW m, m = Settled(new \/ ~job.init, f),
         ~job.waiting, Arrived(m)
  PROVE  (Tended \/ Advanced) /\ RefInv'
<1>1. /\ job.at = "measured" /\ job.at # "idle" /\ job'.at = "idle"
      /\ scenario \in Scenarios /\ ctl \in Motion
      /\ UNCHANGED <<nextId, mailbox, pending, plan, token, power, moving, origin, scenario>>
      /\ Controls' /\ Inputs' = Inputs /\ nearFor' \in Unset .. Stable
  BY VerdictFrame
<1> DEFINE fresh == (new \/ ~job.init)
           done == [m EXCEPT !.state = "COMPLETED", !.hold = TRUE, !.unstable = Unset]
<1>2. fresh \in BOOLEAN
  OBVIOUS
<1> HIDE DEF fresh
<1>3. m \in Motion /\ SameMotion(ctl, m) /\ SameClock(ctl, m) /\ m.state = ctl.state
  BY <1>1, <1>2, SettledFacts DEF fresh
<1>4. /\ done \in Motion /\ SameMotion(m, done) /\ SameClock(m, done)
      /\ done.state = "COMPLETED"
  BY <1>1, <1>3, DoneFacts
<1>5. IF queue = <<>> THEN ctl' = done /\ UNCHANGED <<queue, history>>
      ELSE /\ history' = Archive(history, done)
           /\ ctl' = Activated(Head(queue)) /\ queue' = Tail(queue)
  BY DEF Arrived
<1> HIDE DEF done
<1>6. SameMotion(ctl, done) /\ SameClock(ctl, done)
  BY <1>3, <1>4 DEF SameMotion, SameClock
<1>7. ~AtApproach(ctl)
  BY <1>1 DEF Inv, RefInv, Carried, Active
<1>8. SampleTime(ctl) = RefDuration(ctl) /\ origin = Final(ctl) /\ mailbox = Mail(origin)
  BY <1>1, <1>7, EndReached
<1>9. CASE queue = <<>>
  <2>1. ctl' = done /\ queue' = queue /\ history' = history
    BY <1>5, <1>9
  <2>2. Tended
    BY <1>1, <1>4, <1>6, <1>9, <2>1 DEF Tended, Active
  <2>3. Powered' /\ Carried' /\ Windowed'
    BY <1>1, <1>4, <2>1 DEF Inv, RefInv, Powered, Carried, Windowed, Active
  <2>4. /\ RefDuration(ctl') = RefDuration(ctl) /\ SampleTime(ctl') = SampleTime(ctl)
        /\ (AtApproach(ctl') <=> AtApproach(ctl)) /\ Final(ctl') = Final(ctl)
    BY <1>6, <2>1, ClockFacts DEF SameMotion, Final
  <2>5. Placed'
    <3>1. /\ ~AtApproach(ctl') /\ SampleTime(ctl') = RefDuration(ctl')
          /\ mailbox' = Mail(origin') /\ origin' = Final(ctl') /\ ctl'.state = "COMPLETED"
      BY <1>1, <1>4, <1>7, <1>8, <2>1, <2>4
    <3>2. "submit" \notin Inputs => pending' = NoMail /\ mailbox'.ref \in {NoPos, origin'}
      BY <1>1 DEF Inv, RefInv, Placed
    <3>3. QED
      BY <1>1, <3>1, <3>2 DEF Placed, SampleTime, AtApproach, RefDuration, Final, NoMail, Mail
  <2>6. QED
    BY <1>1, <2>2, <2>3, <2>5 DEF RefInv
<1>10. CASE queue # <<>>
  <2>1. /\ history' = Archive(history, done)
        /\ ctl' = Activated(Head(queue)) /\ queue' = Tail(queue)
    BY <1>5, <1>10
  <2>2. done.id = ctl.id
    BY <1>6 DEF SameMotion
  <2>3. Advanced
    BY <1>1, <1>4, <1>10, <2>1, <2>2, CompletedEntry DEF Advanced
  <2>4. RefInv'
    BY <1>1, <1>7, <1>10, <2>1, AdvancedRef
  <2>5. QED
    BY <2>3, <2>4
<1>11. QED
  BY <1>9, <1>10

\* What a verdict does to a motion that is still running.
LEMMA RunningCases ==
  ASSUME NEW new \in BOOLEAN, NEW f, NEW steady, Running(new \/ ~job.init, f, steady), NEW m,
         m = Settled(new \/ ~job.init, f)
  PROVE  \/ /\ Completed(m, f, steady) /\ job.waiting
            /\ ctl' = ApproachDone(m) /\ UNCHANGED <<queue, history>>
         \/ Completed(m, f, steady) /\ ~job.waiting /\ Arrived(m)
         \/ terminate_trajectory("FAULT")
         \/ /\ ctl' = m \/ (ctl' = [m EXCEPT !.stable = 0] /\ m.stable # Unset)
            /\ UNCHANGED <<queue, history>>
<1>1. \/ Completed(m, f, steady) /\ job.waiting
         /\ ctl' = ApproachDone(m) /\ UNCHANGED <<queue, history>>
      \/ Completed(m, f, steady) /\ ~job.waiting /\ Arrived(m)
      \/ terminate_trajectory("FAULT")
      \/ /\ ctl' = IF WindowMet(m) /\ ~steady THEN [m EXCEPT !.stable = 0] ELSE m
         /\ UNCHANGED <<queue, history>>
  BY DEF Running
<1>2. WindowMet(m) => m.stable # Unset
  BY DEF WindowMet
<1>3. QED
  BY <1>1, <1>2

LEMMA VerdictStep ==
  ASSUME Inv, NEW new \in BOOLEAN, NEW f, NEW steady, Verdict(new, f, steady)
  PROVE  scenario' = scenario /\ Classified /\ RefInv'
<1>1. scenario' = scenario /\ UNCHANGED <<nextId, plan, mailbox, pending, origin, power>>
      /\ Controls'
  BY VerdictFrame
<1>2. CASE ~StillThere
  BY <1>1, <1>2, GoneStep DEF Classified
<1>3. CASE StillThere /\ job.monitor
  BY <1>1, <1>3, HoldStep DEF Classified
<1>4. CASE StillThere /\ ~job.monitor
  <2> DEFINE m == Settled(new \/ ~job.init, f)
  <2>1. ctl.state = "RUNNING" /\ Running(new \/ ~job.init, f, steady)
    BY <1>4 DEF Verdict, StillThere
  <2>2. \/ /\ Completed(m, f, steady) /\ job.waiting
           /\ ctl' = ApproachDone(m) /\ UNCHANGED <<queue, history>>
        \/ Completed(m, f, steady) /\ ~job.waiting /\ Arrived(m)
        \/ terminate_trajectory("FAULT")
        \/ /\ ctl' = m \/ (ctl' = [m EXCEPT !.stable = 0] /\ m.stable # Unset)
           /\ UNCHANGED <<queue, history>>
    BY <2>1, RunningCases
  <2>3. CASE /\ Completed(m, f, steady) /\ job.waiting
             /\ ctl' = ApproachDone(m) /\ UNCHANGED <<queue, history>>
    BY <1>1, <2>1, <2>3, ApproachStep DEF Classified
  <2>4. CASE Completed(m, f, steady) /\ ~job.waiting /\ Arrived(m)
    BY <1>1, <2>1, <2>4, ArrivedStep DEF Classified
  <2>5. CASE terminate_trajectory("FAULT")
    <3>1. "FAULT" \in Terminal
      BY DEF Terminal
    <3>2. Terminated
      BY <1>1, <2>5, <3>1 DEF Terminated
    <3>3. ctl'.state \notin Active
      BY <2>5, <3>1, TerminatedState DEF Inv
    <3>4. "submit" \notin Inputs => pending' = NoMail /\ mailbox'.ref \in {NoPos, origin'}
      BY <1>1 DEF Inv, RefInv, Placed
    <3>5. QED
      BY <1>1, <3>2, <3>3, <3>4, IdleRef DEF Classified
  <2>6. CASE /\ ctl' = m \/ (ctl' = [m EXCEPT !.stable = 0] /\ m.stable # Unset)
             /\ UNCHANGED <<queue, history>>
    BY <1>1, <2>1, <2>6, SettlingStep DEF Classified
  <2>7. QED
    BY <2>2, <2>3, <2>4, <2>5, <2>6
<1>5. QED
  BY <1>2, <1>3, <1>4

-----------------------------------------------------------------------------
(* The invariant *)

LEMMA InitInv ==
  ASSUME Init
  PROVE  Inv
<1>1. /\ scenario \in Scenarios /\ ctl = NoMotion /\ queue = <<>> /\ history = <<>>
      /\ nextId = 1 /\ mailbox = NoMail /\ pending = NoMail /\ plan = NoPlan
      /\ power = "off" /\ job = NoJob /\ origin = NoPos /\ nearFor = Unset
  BY DEF Init
<1>2. ctl \in Motion /\ ctl.state = "IDLE" /\ ctl.id = 0
  BY <1>1, NoMotionFacts DEF NoMotion
<1>3. /\ DOMAIN queue = {} /\ DOMAIN history = {} /\ IdsOf(queue) = {} /\ IdsOf(history) = {}
      /\ Unique(queue) /\ Unique(history) /\ Len(queue) = 0 /\ Len(history) = 0
      /\ queue \in Seq(Motion) /\ history \in Seq(Entry)
  BY <1>1 DEF IdsOf, Unique
<1>4. Motions
  <2>1. nextId \in 1 .. MaxIds + 1 /\ 0 <= MaxHistory /\ 0 <= MaxQueue
    BY <1>1, Constants, Scenario
  <2>2. QED
    BY <1>1, <1>2, <1>3, <2>1 DEF Motions
<1>5. Shapes /\ Chain /\ Newest
  BY <1>1, <1>2, <1>3 DEF Shapes, Chain, Newest, Active
<1>6. Ids
  <2>1. 1 .. nextId - 1 = {} /\ ctl.id < nextId
    BY <1>1, <1>2
  <2>2. QED
    BY <1>1, <1>2, <1>3, <2>1 DEF Ids
<1>7. RefInv
  BY <1>1, <1>2, Constants
     DEF RefInv, Controls, Powered, Carried, Windowed, Placed, Active, Mails, NoMail, Mail,
         NoPlan, NoJob
<1>8. QED
  BY <1>4, <1>5, <1>6, <1>7 DEF Inv, QueueInv

LEMMA NextStep ==
  ASSUME Inv, Next
  PROVE  scenario' = scenario /\ Classified /\ Inv'
<1>1. scenario' = scenario /\ Classified /\ RefInv'
  <2>1. CASE \E e \in BOOLEAN : PlanBegin(e)
    BY <2>1, PlanStep
  <2>2. CASE PlanFails
    BY <2>2, PlanStep
  <2>3. CASE \E g \in Pos, v \in Vias, s \in Slacks : start_trajectory(g, v, s)
    BY <2>3, StartStep
  <2>4. CASE \E p, m \in Pos : InstallJointPosition(p, m)
    BY <2>4, InstallStep
  <2>5. CASE \E p \in Pos : SubmitRaw(p)
    BY <2>5, SubmitStep
  <2>6. CASE \/ CancelAll \/ CancelActive \/ LifecycleStops \/ Protect
             \/ \E d \in 1 .. MaxStep : TrackingFails(d)
    BY <2>6, CancelStep
  <2>7. CASE \E i \in DOMAIN queue : CancelQueued(i)
    BY <2>7, CancelQueuedStep
  <2>8. CASE \/ LifecycleStopped
             \/ \E p \in Pos, m \in (IF "partial" \in Inputs THEN BOOLEAN ELSE {TRUE}) :
                  Enable(p, m)
    BY <2>8, PowerStep
  <2>9. CASE \E d \in 1 .. MaxStep : TrajectoryCycle(d)
    BY <2>9, CycleStep
  <2>10. CASE \E d \in 1 .. MaxStep : OrdinaryCycle(d)
    BY <2>10, OrdinaryStep
  <2>11. CASE HandOff
    BY <2>11, HandOffStep
  <2>12. CASE Assess
    BY <2>12, AssessStep
  <2>13. CASE \E new \in BOOLEAN, f \in Feedbacks \union {{}} :
                \E steady \in (IF Mode = "PV" THEN BOOLEAN ELSE {TRUE}) :
                  Verdict(new, f, steady)
    BY <2>13, VerdictStep
  <2>14. QED
    BY <2>1, <2>2, <2>3, <2>4, <2>5, <2>6, <2>7, <2>8, <2>9, <2>10, <2>11, <2>12, <2>13
       DEF Next, Callers, Worker
<1>2. QueueInv'
  BY <1>1, QueueStep DEF Inv
<1>3. QED
  BY <1>1, <1>2 DEF Inv

LEMMA StutterStep ==
  ASSUME Inv, UNCHANGED vars
  PROVE  Inv'
<1>1. scenario' = scenario /\ Kept /\ UNCHANGED <<ctl, mailbox, pending, power, job,
                                                   origin, nearFor, plan, nextId>>
  BY DEF vars, Kept
<1>2. Controls'
  BY <1>1, SameScenario DEF Inv, RefInv, Controls
<1>3. RefInv'
  BY <1>1, <1>2, SameRef DEF Inv
<1>4. QED
  BY <1>1, <1>3, QueueStep DEF Inv, Classified

\* The inductive invariant of finite motions.
THEOREM Invariance == Spec => []Inv
<1>1. Init => Inv
  BY InitInv
<1>2. Inv /\ [Next]_vars => Inv'
  BY NextStep, StutterStep
<1>3. QED
  BY <1>1, <1>2, PTL DEF Spec

-----------------------------------------------------------------------------
(* Queue and history *)

LEMMA CountFacts ==
  ASSUME NEW s, NEW k, Unique(s)
  PROVE  Cardinality({i \in DOMAIN s : s[i].id = k}) = IF k \in IdsOf(s) THEN 1 ELSE 0
<1> DEFINE P == {i \in DOMAIN s : s[i].id = k}
<1>1. CASE k \in IdsOf(s)
  <2>1. PICK i \in DOMAIN s : s[i].id = k
    BY <1>1 DEF IdsOf
  <2>2. P = {i}
    BY <2>1 DEF Unique
  <2>3. QED
    BY <1>1, <2>2, FS_Singleton
<1>2. CASE k \notin IdsOf(s)
  <2>1. P = {}
    BY <1>2 DEF IdsOf
  <2>2. QED
    BY <1>2, <2>1, FS_EmptySet
<1>3. QED
  BY <1>1, <1>2

\* The queue is connected and waits behind a running motion, and every motion
\* id handed out is in exactly one place until the bounded history drops it:
\* start_trajectory, cancel_motion and archive_trajectory_locked.
THEOREM QueueIsConsistent == Spec => []QueueConsistent
<1>1. Inv => QueueConsistent
  <2> SUFFICES ASSUME Inv
               PROVE  QueueConsistent
    OBVIOUS
  <2>1. TypeOK
    BY MailFacts DEF TypeOK, Inv, QueueInv, Motions, RefInv, Controls
  <2>2. /\ queue # <<>> => ctl.state = "RUNNING"
        /\ \A i \in DOMAIN queue : queue[i].path[1] = Final(Predecessor(i))
    BY DEF Inv, QueueInv, Chain
  <2> DEFINE a(id) == IF ctl.id = id THEN 1 ELSE 0
             b(id) == Cardinality({i \in DOMAIN queue : queue[i].id = id})
             c(id) == Cardinality({i \in DOMAIN history : history[i].id = id})
  <2>3. ASSUME NEW id \in 1 .. nextId - 1
        PROVE  \/ a(id) + b(id) + c(id) = 1
               \/ a(id) + b(id) + c(id) = 0 /\ Len(history) = MaxHistory
    <3>1. /\ b(id) = IF id \in IdsOf(queue) THEN 1 ELSE 0
          /\ c(id) = IF id \in IdsOf(history) THEN 1 ELSE 0
      BY CountFacts DEF Inv, QueueInv, Ids
    <3> HIDE DEF b, c
    <3>2. /\ ctl.id \notin IdsOf(queue) /\ ctl.id \notin IdsOf(history)
          /\ IdsOf(queue) \cap IdsOf(history) = {}
      BY DEF Inv, QueueInv, Ids
    <3>3. \/ Len(history) = MaxHistory
          \/ id = ctl.id \/ id \in IdsOf(queue) \/ id \in IdsOf(history)
      BY DEF Inv, QueueInv, Ids, Known
    <3>4. \/ a(id) = 1 /\ b(id) = 0 /\ c(id) = 0
          \/ a(id) = 0 /\ b(id) = 1 /\ c(id) = 0
          \/ a(id) = 0 /\ b(id) = 0 /\ c(id) = 1
          \/ a(id) = 0 /\ b(id) = 0 /\ c(id) = 0 /\ Len(history) = MaxHistory
      BY <3>1, <3>2, <3>3
    <3> HIDE DEF a
    <3>5. QED
      BY <3>4
  <2>4. QED
    BY <2>1, <2>2, <2>3 DEF QueueConsistent
<1>2. QED
  BY <1>1, Invariance, PTL

\* The answer of motion_status for given places.
StatusAt(c, q, h, k) ==
  LET old == {i \in DOMAIN h : h[i].id = k} IN
  IF c.id = k THEN c.state
  ELSE IF \E i \in DOMAIN q : q[i].id = k THEN "QUEUED"
  ELSE IF old # {} THEN h[CHOOSE i \in old : \A j \in old : j <= i].state
  ELSE "IDLE"

\* Every history entry of motion k says s.
Says(h, k, s) == \A i \in DOMAIN h : h[i].id = k => h[i].state = s

LEMMA StatusFacts ==
  ASSUME NEW c, NEW q, NEW h \in Seq(Entry), NEW k, Unique(h)
  PROVE  /\ c.id = k => StatusAt(c, q, h, k) = c.state
         /\ c.id # k /\ k \in IdsOf(q) => StatusAt(c, q, h, k) = "QUEUED"
         /\ c.id # k /\ k \notin IdsOf(q) /\ k \notin IdsOf(h) =>
              StatusAt(c, q, h, k) = "IDLE"
         /\ c.id # k /\ k \notin IdsOf(q) /\ k \in IdsOf(h) =>
              Says(h, k, StatusAt(c, q, h, k))
<1> DEFINE old == {i \in DOMAIN h : h[i].id = k}
<1>1. c.id = k => StatusAt(c, q, h, k) = c.state
  BY DEF StatusAt
<1>2. c.id # k /\ k \in IdsOf(q) => StatusAt(c, q, h, k) = "QUEUED"
  BY DEF StatusAt, IdsOf
<1>3. c.id # k /\ k \notin IdsOf(q) /\ k \notin IdsOf(h) => StatusAt(c, q, h, k) = "IDLE"
  <2>1. k \notin IdsOf(h) => old = {}
    BY DEF IdsOf
  <2>2. k \notin IdsOf(q) => ~\E i \in DOMAIN q : q[i].id = k
    BY DEF IdsOf
  <2>3. QED
    BY <2>1, <2>2 DEF StatusAt
<1>4. ASSUME c.id # k, k \notin IdsOf(q), k \in IdsOf(h)
      PROVE  Says(h, k, StatusAt(c, q, h, k))
  <2>1. PICK i \in DOMAIN h : h[i].id = k
    BY <1>4 DEF IdsOf
  <2>2. old = {i} /\ i \in Nat
    BY <2>1, LenProperties DEF Unique
  <2>3. (CHOOSE x \in old : \A j \in old : j <= x) = i
    BY <2>2
  <2>4. ~\E x \in DOMAIN q : q[x].id = k
    BY <1>4 DEF IdsOf
  <2>5. StatusAt(c, q, h, k) = h[i].state
    BY <1>4, <2>2, <2>3, <2>4 DEF StatusAt
  <2>6. QED
    BY <2>1, <2>5 DEF Says, Unique
<1>5. QED
  BY <1>1, <1>2, <1>3, <1>4

LEMMA StatusAgain ==
  ASSUME NEW c, NEW q, NEW h \in Seq(Entry), NEW k, NEW s, Unique(h),
         c.id # k, k \notin IdsOf(q), Says(h, k, s)
  PROVE  StatusAt(c, q, h, k) \in {s, "IDLE"}
<1>1. CASE k \in IdsOf(h)
  <2>1. PICK i \in DOMAIN h : h[i].id = k
    BY <1>1 DEF IdsOf
  <2>2. Says(h, k, StatusAt(c, q, h, k))
    BY <1>1, StatusFacts
  <2>3. QED
    BY <2>1, <2>2 DEF Says
<1>2. CASE k \notin IdsOf(h)
  BY <1>2, StatusFacts
<1>3. QED
  BY <1>1, <1>2

LEMMA SaysRecent ==
  ASSUME scenario \in Scenarios, NEW h \in Seq(Entry), NEW k, NEW s, Says(h, k, s)
  PROVE  Says(Recent(h), k, s)
<1>1. \A i \in DOMAIN Recent(h) : \E j \in DOMAIN h : Recent(h)[i] = h[j]
  BY RecentFacts
<1>2. QED
  BY <1>1 DEF Says

LEMMA SaysMore ==
  ASSUME NEW h \in Seq(Entry), NEW u \in Seq(Entry), NEW k, NEW s,
         Says(h, k, s), Says(u, k, s)
  PROVE  Says(h \o u, k, s)
<1>1. /\ h \o u \in Seq(Entry) /\ Len(h \o u) = Len(h) + Len(u) /\ Len(h) \in Nat
      /\ Len(u) \in Nat /\ DOMAIN h = 1 .. Len(h) /\ DOMAIN u = 1 .. Len(u)
      /\ DOMAIN (h \o u) = 1 .. Len(h) + Len(u)
      /\ \A i \in 1 .. Len(h) + Len(u) :
           (h \o u)[i] = IF i <= Len(h) THEN h[i] ELSE u[i - Len(h)]
  BY ConcatProperties, LenProperties
<1>2. \A i \in 1 .. Len(h) + Len(u) :
        \/ i \in 1 .. Len(h) /\ i <= Len(h)
        \/ i - Len(h) \in 1 .. Len(u) /\ ~(i <= Len(h))
  BY <1>1
<1>3. QED
  BY <1>1, <1>2 DEF Says

LEMMA SaysOne ==
  ASSUME NEW h \in Seq(Entry), NEW e \in Entry, NEW k, NEW s,
         Says(h, k, s), e.id = k => e.state = s
  PROVE  Says(Append(h, e), k, s)
<1>1. /\ Len(h) \in Nat /\ DOMAIN h = 1 .. Len(h)
      /\ DOMAIN Append(h, e) = 1 .. Len(h) + 1
      /\ \A i \in 1 .. Len(h) : Append(h, e)[i] = h[i]
      /\ Append(h, e)[Len(h) + 1] = e
  BY AppendProperties, LenProperties
<1>2. \A i \in 1 .. Len(h) + 1 : i \in 1 .. Len(h) \/ i = Len(h) + 1
  BY <1>1
<1>3. QED
  BY <1>1, <1>2 DEF Says

\* A motion in the history stays what it was, or is forgotten.
LEMMA HistoryStays ==
  ASSUME QueueInv, scenario' = scenario, Classified, NEW k, NEW s,
         k \in IdsOf(history), Says(history, k, s)
  PROVE  ctl'.id # k /\ k \notin IdsOf(queue') /\ Says(history', k, s)
<1>1. /\ scenario \in Scenarios /\ history \in Seq(Entry) /\ queue \in Seq(Motion)
      /\ ctl \in Motion /\ nextId \in Nat
  BY Constants DEF QueueInv, Motions
<1>2. /\ ctl.id # k /\ k \notin IdsOf(queue) /\ k \in 1 .. nextId - 1
  BY DEF QueueInv, Ids
<1>3. k # nextId
  BY <1>1, <1>2
<1>4. CASE Kept
  BY <1>2, <1>4 DEF Kept
<1>5. CASE Tended
  BY <1>2, <1>5 DEF Tended, SameMotion
<1>6. CASE Terminated
  <2> DEFINE c == [i \in DOMAIN queue |-> [id |-> queue[i].id, state |-> "CANCELLED"]]
  <2>1. PICK t \in Terminal :
          /\ ctl' = IF ctl.state \in Active THEN Ended(ctl.id, t) ELSE ctl
          /\ history' = Recent(history \o c) /\ queue' = <<>>
    BY <1>6 DEF Terminated, terminate_trajectory, QueueCancelled, Active, Ended
  <2>2. c \in Seq(Entry) /\ IdsOf(c) = IdsOf(queue)
    BY CancelledFacts DEF QueueInv
  <2> HIDE DEF c
  <2>3. Says(c, k, s)
    BY <1>2, <2>2 DEF Says, IdsOf
  <2>4. history \o c \in Seq(Entry)
    BY <1>1, <2>2, ConcatProperties
  <2>5. Says(history', k, s)
    BY <1>1, <2>1, <2>2, <2>3, <2>4, SaysMore, SaysRecent
  <2>6. ctl'.id = ctl.id
    <3>1. ctl.id \in 0 .. MaxIds
      BY <1>1 DEF Motion
    <3>2. QED
      BY <1>1, <2>1, <3>1, EndedFacts
  <2>7. k \notin IdsOf(queue')
    BY <2>1 DEF IdsOf
  <2>8. QED
    BY <1>2, <2>5, <2>6, <2>7
<1>7. CASE Advanced
  <2> DEFINE e == [id |-> ctl.id, state |-> "COMPLETED"]
  <2>1. /\ queue # <<>> /\ history' = Recent(Append(history, e))
        /\ ctl' = Activated(Head(queue)) /\ queue' = Tail(queue)
    BY <1>7 DEF Advanced
  <2>2. /\ Head(queue) \in Motion /\ IdsOf(queue) = IdsOf(queue') \union {Head(queue).id}
    BY <1>1, <2>1, TailIds
  <2>3. ctl'.id = Head(queue).id
    BY <1>1, <2>1, <2>2, ActivatedFacts DEF SameMotion
  <2>4. e \in Entry /\ e.id # k
    <3>1. ctl.id \in Nat
      BY <1>1, StatusEntry
    <3>2. QED
      BY <1>2, <3>1 DEF Entry, MotionStates
  <2> HIDE DEF e
  <2>5. Append(history, e) \in Seq(Entry) /\ Says(Append(history, e), k, s)
    BY <1>1, <2>4, SaysOne, AppendProperties
  <2>6. QED
    BY <1>1, <1>2, <2>1, <2>2, <2>3, <2>5, SaysRecent
<1>8. CASE Replaced
  <2>1. PICK m \in Motion : m.id = nextId /\ ctl' = Activated(m)
    BY <1>8 DEF Replaced
  <2>2. history' = Archive(history, ctl) /\ queue' = queue
    BY <1>8 DEF Replaced
  <2>3. ctl'.id = nextId
    BY <1>1, <2>1, ActivatedFacts DEF SameMotion
  <2>4. Says(history', k, s)
    <3>1. StatusOf(ctl) \in Entry /\ StatusOf(ctl).id # k
      BY <1>1, <1>2, StatusEntry
    <3>2. Append(history, StatusOf(ctl)) \in Seq(Entry)
          /\ Says(Append(history, StatusOf(ctl)), k, s)
      BY <1>1, <3>1, SaysOne, AppendProperties
    <3>3. Says(Recent(Append(history, StatusOf(ctl))), k, s)
      BY <1>1, <3>2, SaysRecent
    <3>4. QED
      BY <2>2, <3>3 DEF Archive
  <2>5. QED
    BY <1>2, <1>3, <2>2, <2>3, <2>4
<1>9. CASE Enqueued
  <2>1. PICK m \in Motion : m.id = nextId /\ queue' = Append(queue, m)
    BY <1>9 DEF Enqueued
  <2>2. ctl' = ctl /\ history' = history
    BY <1>9 DEF Enqueued
  <2>3. IdsOf(queue') = IdsOf(queue) \union {nextId}
    BY <1>1, <2>1, AppendIds
  <2>4. QED
    BY <1>2, <1>3, <2>2, <2>3
<1>10. CASE Dropped
  <2>1. PICK i \in DOMAIN queue :
          /\ history' = Archive(history, [queue[i] EXCEPT !.state = "CANCELLED"])
          /\ queue' = Detached(i)
    BY <1>10 DEF Dropped
  <2> DEFINE c == [queue[i] EXCEPT !.state = "CANCELLED"]
  <2>2. queue[i] \in Motion
    BY <1>1, LenProperties, ElementOfSeq
  <2>3. c \in Motion
    BY <2>2 DEF Motion, Terminal
  <2>4. c.id = queue[i].id /\ c.id # k
    <3>1. c.id = queue[i].id
      BY <2>2, <2>3 DEF Motion
    <3>2. QED
      BY <1>2, <3>1 DEF IdsOf
  <2>5. history' = Archive(history, c)
    BY <2>1
  <2> HIDE DEF c
  <2>6. StatusOf(c) \in Entry /\ StatusOf(c).id # k
    BY <2>3, <2>4, StatusEntry
  <2>7. Append(history, StatusOf(c)) \in Seq(Entry) /\ Says(Append(history, StatusOf(c)), k, s)
    BY <1>1, <2>6, SaysOne, AppendProperties
  <2>8. Says(Recent(Append(history, StatusOf(c))), k, s)
    BY <1>1, <2>7, SaysRecent
  <2>9. Says(history', k, s)
    BY <2>5, <2>8 DEF Archive
  <2>10. IdsOf(queue') \subseteq IdsOf(queue) /\ ctl' = ctl
    BY <1>10, <2>1, DetachedIds DEF Dropped
  <2>11. QED
    BY <1>2, <2>9, <2>10
<1>11. QED
  BY <1>4, <1>5, <1>6, <1>7, <1>8, <1>9, <1>10 DEF Classified

\* A motion that ended in place stays there, or goes into the history.
LEMMA EndedStays ==
  ASSUME QueueInv, scenario' = scenario, Classified, ctl.state \in Terminal
  PROVE  \/ ctl' = ctl
         \/ /\ ctl'.id # ctl.id /\ ctl.id \notin IdsOf(queue')
            /\ Says(history', ctl.id, ctl.state)
<1>1. ctl.state \notin Active /\ queue = <<>>
  BY DEF Active, Terminal, QueueInv, Chain
<1>2. CASE Kept \/ Tended \/ Advanced \/ Enqueued \/ Dropped
  BY <1>1, <1>2 DEF Kept, Tended, Advanced, Enqueued, Dropped, Active
<1>3. CASE Terminated
  BY <1>1, <1>3 DEF Terminated, terminate_trajectory, Active
<1>4. CASE Replaced
  <2>1. /\ scenario \in Scenarios /\ history \in Seq(Entry) /\ ctl \in Motion
        /\ nextId \in Nat /\ ctl.id < nextId /\ ctl.id # 0
    BY Constants DEF QueueInv, Motions, Ids, Terminal
  <2>2. PICK m \in Motion : m.id = nextId /\ ctl' = Activated(m)
    BY <1>4 DEF Replaced
  <2>3. history' = Archive(history, ctl) /\ queue' = queue
    BY <1>4 DEF Replaced
  <2>4. /\ StatusOf(ctl) \in Entry /\ StatusOf(ctl).id = ctl.id
        /\ StatusOf(ctl).state = ctl.state /\ ctl.id \in Nat
    BY <2>1, StatusEntry
  <2>5. ctl'.id # ctl.id
    <3>1. ctl'.id = nextId
      BY <2>1, <2>2, ActivatedFacts DEF SameMotion
    <3>2. QED
      BY <2>1, <2>4, <3>1
  <2>6. Says(history, ctl.id, ctl.state)
    BY DEF Says, QueueInv, Ids, IdsOf
  <2>7. Append(history, StatusOf(ctl)) \in Seq(Entry)
        /\ Says(Append(history, StatusOf(ctl)), ctl.id, ctl.state)
    BY <2>1, <2>4, <2>6, SaysOne, AppendProperties
  <2>8. Says(Recent(Append(history, StatusOf(ctl))), ctl.id, ctl.state)
    BY <2>1, <2>7, SaysRecent
  <2>9. Says(history', ctl.id, ctl.state)
    BY <2>1, <2>3, <2>8 DEF Archive
  <2>10. ctl.id \notin IdsOf(queue')
    BY <1>1, <2>3 DEF IdsOf
  <2>11. QED
    BY <2>5, <2>9, <2>10
<1>5. QED
  BY <1>2, <1>3, <1>4 DEF Classified

\* An end that a caller was told stays the answer as long as there is one,
\* whatever the worker was about to decide (update_trajectory_completion).
THEOREM EndsAreFinal == Spec => TerminalFinal
<1> DEFINE Stays == \A id \in 1 .. MaxIds :
                      Status(id) \in Terminal => Status(id)' \in {Status(id), "IDLE"}
<1>1. ASSUME Inv, Next, NEW id \in 1 .. MaxIds, Status(id) \in Terminal
      PROVE  Status(id)' \in {Status(id), "IDLE"}
  <2>1. scenario' = scenario /\ Classified /\ Inv'
    BY <1>1, NextStep
  <2>2. /\ Status(id) = StatusAt(ctl, queue, history, id)
        /\ Status(id)' = StatusAt(ctl', queue', history', id)
    BY DEF Status, StatusAt
  <2>3. /\ history \in Seq(Entry) /\ Unique(history)
        /\ history' \in Seq(Entry) /\ Unique(history')
    BY <1>1, <2>1 DEF Inv, QueueInv, Motions, Ids
  <2>4. CASE ctl.id = id
    <3>1. Status(id) = ctl.state
      BY <2>4 DEF Status
    <3>2. CASE ctl' = ctl
      BY <2>4, <3>1, <3>2 DEF Status
    <3>3. CASE /\ ctl'.id # ctl.id /\ ctl.id \notin IdsOf(queue')
               /\ Says(history', ctl.id, ctl.state)
      BY <2>2, <2>3, <2>4, <3>1, <3>3, StatusAgain
    <3>4. QED
      BY <1>1, <2>1, <3>1, <3>2, <3>3, EndedStays DEF Inv
  <2>5. CASE ctl.id # id
    <3> DEFINE s == StatusAt(ctl, queue, history, id)
    <3>1. /\ id \in IdsOf(queue) => s = "QUEUED"
          /\ id \notin IdsOf(queue) /\ id \notin IdsOf(history) => s = "IDLE"
          /\ id \notin IdsOf(queue) /\ id \in IdsOf(history) => Says(history, id, s)
      BY <2>3, <2>5, StatusFacts
    <3>2. s \in Terminal /\ s = Status(id)
      BY <1>1, <2>2
    <3> HIDE DEF s
    <3>3. id \in IdsOf(history) /\ Says(history, id, s)
      BY <3>1, <3>2 DEF Terminal
    <3>4. ctl'.id # id /\ id \notin IdsOf(queue') /\ Says(history', id, s)
      BY <1>1, <2>1, <3>3, HistoryStays DEF Inv
    <3>5. StatusAt(ctl', queue', history', id) \in {s, "IDLE"}
      BY <2>3, <3>4, StatusAgain
    <3>6. QED
      BY <2>2, <3>2, <3>5
  <2>6. QED
    BY <2>4, <2>5
<1>2. ASSUME UNCHANGED vars
      PROVE  Stays
  BY <1>2 DEF Status, vars
<1>3. Inv /\ [Next]_vars => [Stays]_vars
  BY <1>1, <1>2
<1>4. QED
  BY <1>3, Invariance, PTL DEF Spec, TerminalFinal

\* While nothing is queued and the last motion has completed, that motion is
\* the newest one the Runtime accepted (ArticoreProductState.motion_arrived),
\* for the operations of the product, which has no cancel_motion.
THEOREM NewestArrived == Spec => []ArrivedIsNewest
<1>1. Inv => ArrivedIsNewest
  <2> SUFFICES ASSUME Inv, motion_arrived, nextId > 1, "cancel_motion" \notin Inputs
               PROVE  Status(nextId - 1) \in {"COMPLETED", "IDLE"}
    BY DEF ArrivedIsNewest
  <2>1. queue = <<>> /\ ctl.state \in {"IDLE", "COMPLETED"} /\ nextId \in Nat
    BY Constants DEF motion_arrived, Inv, QueueInv, Motions
  <2>2. ctl.state # "IDLE"
    BY <2>1 DEF Inv, QueueInv, Ids
  <2>3. ctl.id = nextId - 1
    BY <2>1, <2>2 DEF Inv, QueueInv, Newest, Active
  <2>4. Status(nextId - 1) = ctl.state
    BY <2>3 DEF Status
  <2>5. QED
    BY <2>1, <2>4
<1>2. QED
  BY <1>1, Invariance, PTL

-----------------------------------------------------------------------------
(* Arrival and reference *)

\* Only the verdict completes a running motion that has been measured, and only
\* with a full stable window.
LEMMA WindowStep ==
  ASSUME Inv, Next, job.at = "measured", moving, ctl.state = "RUNNING", ~(nearFor >= Stable)
  PROVE  ctl'.id = ctl.id /\ ctl'.state # "COMPLETED"
<1>1. scenario \in Scenarios /\ ctl \in Motion /\ power = "on"
  BY DEF Inv, QueueInv, Motions, RefInv, Powered, Active
<1>2. CASE \E e \in BOOLEAN : PlanBegin(e)
  BY <1>2 DEF PlanBegin
<1>3. CASE PlanFails
  BY <1>3 DEF PlanFails
<1>4. CASE \E p \in Pos : SubmitRaw(p)
  BY <1>4 DEF SubmitRaw
<1>5. CASE LifecycleStops
  <2>1. ctl' = Ended(ctl.id, "CANCELLED") /\ "CANCELLED" \in Terminal
    BY <1>5 DEF LifecycleStops, terminate_trajectory, Ended, Terminal
  <2>2. ctl.id \in 0 .. MaxIds
    BY <1>1 DEF Motion
  <2>3. QED
    BY <1>1, <2>1, <2>2, EndedFacts
<1>6. CASE \E new \in BOOLEAN, f \in Feedbacks \union {{}} :
             \E steady \in (IF Mode = "PV" THEN BOOLEAN ELSE {TRUE}) :
               Verdict(new, f, steady)
  <2>1. PICK new \in BOOLEAN, f \in Feedbacks \union {{}},
             steady \in (IF Mode = "PV" THEN BOOLEAN ELSE {TRUE}) : Verdict(new, f, steady)
    BY <1>6
  <2>2. StillThere
    BY <2>1, VerdictFrame DEF Active
  <2> DEFINE m == Settled(new \/ ~job.init, f)
  <2>3. ~job.monitor /\ Running(new \/ ~job.init, f, steady)
    BY <2>1, <2>2 DEF Verdict, StillThere
  <2> DEFINE fresh == (new \/ ~job.init)
  <2>4. fresh \in BOOLEAN
    OBVIOUS
  <2>5. /\ m \in Motion /\ SameMotion(ctl, m) /\ SameClock(ctl, m) /\ m.state = ctl.state
        /\ m.stable = Unset \/ m.stable = 0 \/ m.stable = ctl.stable
    <3> HIDE DEF fresh
    <3>1. m = Settled(fresh, f)
      BY DEF fresh
    <3>2. QED
      BY <1>1, <2>4, <3>1, SettledFacts
  <2>6. ~WindowMet(m)
    <3>1. /\ ctl.stable \in Unset .. Stable /\ nearFor \in Unset .. Stable
          /\ Stable \in Nat /\ Stable > 0
          /\ (ctl.stable # Unset => nearFor >= ctl.stable)
      BY <1>1, FieldFacts, Constants DEF Inv, RefInv, Controls, Windowed
    <3> HIDE DEF m
    <3>2. QED
      BY <2>5, <3>1 DEF WindowMet, Unset
  <2>7. ~Completed(m, f, steady)
    BY <2>6 DEF Completed
  <2>8. \/ terminate_trajectory("FAULT")
        \/ ctl' = m
        \/ ctl' = [m EXCEPT !.stable = 0]
    BY <2>3, <2>7, RunningCases
  <2> HIDE DEF m
  <2>9. CASE terminate_trajectory("FAULT")
    <3>1. ctl' = Ended(ctl.id, "FAULT") /\ "FAULT" \in Terminal
      BY <2>9 DEF terminate_trajectory, Ended, Terminal
    <3>2. ctl.id \in 0 .. MaxIds
      BY <1>1 DEF Motion
    <3>3. QED
      BY <1>1, <3>1, <3>2, EndedFacts
  <2>10. CASE ctl' = m
    BY <2>5, <2>10 DEF SameMotion
  <2>11. CASE ctl' = [m EXCEPT !.stable = 0]
    BY <2>5, <2>11, RestartedFacts DEF SameMotion
  <2>12. QED
    BY <2>8, <2>9, <2>10, <2>11
<1>7. QED
  BY <1>1, <1>2, <1>3, <1>4, <1>5, <1>6
     DEF Next, Callers, Worker, start_trajectory, InstallJointPosition, CancelAll,
         CancelQueued, CancelActive, LifecycleStopped, Enable, Protect, TrajectoryCycle,
         TrackingFails, OrdinaryCycle, HandOff, Assess, WorkerIdle

\* A motion is reported COMPLETED by its arrival check, or archived as such in
\* favour of its successor, only after the whole stable window
\* (update_trajectory_completion).
THEOREM CompletionEarned == Spec => CompletedAfterWindow
<1> DEFINE Earned == \A id \in 1 .. MaxIds :
                       (/\ job.at = "measured" /\ moving /\ ctl.id = id
                        /\ ctl.state = "RUNNING" /\ Status(id)' = "COMPLETED")
                       => nearFor >= Stable
<1>1. ASSUME Inv, Next
      PROVE  Earned
  <2> SUFFICES ASSUME NEW id \in 1 .. MaxIds, job.at = "measured", moving, ctl.id = id,
                      ctl.state = "RUNNING", Status(id)' = "COMPLETED", ~(nearFor >= Stable)
               PROVE  FALSE
    OBVIOUS
  <2>1. ctl'.id = id /\ ctl'.state # "COMPLETED"
    BY <1>1, WindowStep
  <2>2. Status(id)' = ctl'.state
    BY <2>1 DEF Status
  <2>3. QED
    BY <2>1, <2>2
<1>2. ASSUME UNCHANGED vars
      PROVE  Earned
  BY <1>2 DEF Status, vars
<1>3. Inv /\ [Next]_vars => [Earned]_vars
  BY <1>1, <1>2
<1>4. QED
  BY <1>3, Invariance, PTL DEF Spec, CompletedAfterWindow

\* The reference of a running motion moves forward along the motion's own path,
\* from where it was (prepare_trajectory_cycle), unless raw frames are streamed
\* over a completed motion.
THEOREM ReferenceFollowsPath == Spec => NoReferenceJump
<1> DEFINE Follows == ("submit" \notin Inputs /\ ctl.state = "RUNNING" /\ ctl'.id = ctl.id
                        /\ power' = "on" /\ origin' # origin)
                      => \E i \in DOMAIN ctl.path : \E j \in i .. Len(ctl.path) :
                           ctl.path[i] = origin /\ ctl.path[j] = origin'
<1>1. ASSUME Inv, Next, "submit" \notin Inputs, ctl.state = "RUNNING", power' = "on",
             origin' # origin
      PROVE  \E i \in DOMAIN ctl.path : \E j \in i .. Len(ctl.path) :
               ctl.path[i] = origin /\ ctl.path[j] = origin'
  <2>1. power = "on" /\ scenario \in Scenarios /\ ctl \in Motion
        /\ Len(ctl.path) = ctl.approach + 2
    BY <1>1 DEF Inv, RefInv, Powered, Active, QueueInv, Motions, Shapes
  <2>2. PICK d \in 1 .. MaxStep : TrajectoryCycle(d)
    BY <1>1, <2>1
       DEF Next, Callers, Worker, PlanBegin, PlanFails, start_trajectory,
           InstallJointPosition, MayCommand, SubmitRaw, CancelAll, CancelQueued,
           CancelActive, LifecycleStops, LifecycleStopped, Enable, Protect,
           TrackingFails, OrdinaryCycle, HandOff, Assess, Verdict
  <2>3. /\ SampleTime(ctl') >= SampleTime(ctl)
        /\ SampleTime(ctl') \in 0 .. RefDuration(ctl)
        /\ origin' = ctl.path[SampleTime(ctl') + 1]
    BY <1>1, <2>2, CycleStep
  <2>4. /\ SampleTime(ctl) \in 0 .. RefDuration(ctl) /\ RefDuration(ctl) = ctl.approach + 1
        /\ ctl.approach \in Nat
    BY <2>1, SampleFacts
  <2>5. PICK i \in 1 .. SampleTime(ctl) + 1 : ctl.path[i] = origin
    BY <1>1 DEF Inv, RefInv, Placed
  <2>6. i \in 1 .. Len(ctl.path) /\ SampleTime(ctl') + 1 \in i .. Len(ctl.path)
    BY <2>1, <2>3, <2>4
  <2>7. DOMAIN ctl.path = 1 .. Len(ctl.path)
    BY <2>1, FieldFacts, LenProperties
  <2>8. QED
    BY <2>3, <2>5, <2>6, <2>7
<1>2. ASSUME UNCHANGED vars
      PROVE  Follows
  BY <1>2 DEF vars
<1>3. Inv /\ [Next]_vars => [Follows]_vars
  BY <1>1, <1>2
<1>4. QED
  BY <1>3, Invariance, PTL DEF Spec, NoReferenceJump

=============================================================================
