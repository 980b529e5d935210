-------------------------- MODULE GripperControlProofs --------------------------
(***************************************************************************)
(* Theorems about the gripper, for every travel, threshold, timer and set  *)
(* of commands: a protective stop holds it with the holding gains, an      *)
(* overload only ever opens it, and a contact is declared on evidence of   *)
(* its own.                                                                *)
(***************************************************************************)
EXTENDS GripperControl, WellFoundedInduction, SequenceTheorems,
        TLAPS

-----------------------------------------------------------------------------
(* The record *)

States == Protecting \cup {"DISABLED", "IDLE", "MOVING", "FAULT"}
SampleRecord == [age : 0 .. Window, pos : Position]

Record ==
  [state : States, mode : {"PROTECTED", "DIRECT"}, level : Nat,
   requested : Position, command : Position, target : BOOLEAN,
   retreat : Position \cup {NoPos}, protective : Position \cup {NoPos},
   contact : Ages(ContactHold), overload : Ages(OverloadHold),
   retreated : Ages(Retry), samples : Seq(SampleRecord), fault : BOOLEAN]

\* What only a command changes.
SameCommand(m, n) ==
  /\ n.mode = m.mode /\ n.level = m.level /\ n.requested = m.requested
  /\ n.target = m.target

LEMMA Constants ==
  /\ Closed \in Nat /\ 0 \in Position /\ MinError \in Nat /\ Offset \in Nat
  /\ Distance \in Nat /\ Window \in Nat /\ Window > 0 /\ ContactHold \in Nat
  /\ OverloadHold \in Nat /\ Retry \in Nat
  /\ Unset \in Ages(ContactHold) /\ Unset \in Ages(OverloadHold)
  /\ Unset \in Ages(Retry) /\ 0 \in Ages(ContactHold) /\ 0 \in Ages(OverloadHold)
  /\ 0 \in Ages(Retry) /\ NoPos \notin Position
  BY GripperAssumption DEF Position, Ages, Unset, NoPos

LEMMA ClampType ==
  ASSUME NEW p \in Int
  PROVE  Clamp(p) \in Position
  BY Constants DEF Clamp, Least, Position

\* An age stays within its bound.
LEMMA OlderType ==
  ASSUME NEW b \in Nat, NEW a \in Ages(b), NEW d \in Nat
  PROVE  /\ Older(a, d, b) \in Ages(b)
         /\ a = Unset => Older(a, d, b) = Unset
         /\ a # Unset => Older(a, d, b) >= a
  BY DEF Older, Ages, Least, Unset

\* The fields that keep their types under the exceptions used below.
LEMMA SeededFacts ==
  ASSUME NEW m \in Record, NEW p \in Position
  PROVE  /\ Seeded(m, p) \in Record
         /\ Seeded(m, p).state = "IDLE" /\ Seeded(m, p).retreat = NoPos
         /\ Seeded(m, p).overload = Unset /\ Seeded(m, p).contact = Unset
         /\ Seeded(m, p).samples = <<>>
<1>1. "IDLE" \in States /\ 1 \in Nat /\ <<>> \in Seq(SampleRecord)
  BY DEF States
<1>2. Seeded(m, p) \in Record
  BY <1>1, Constants DEF Seeded, Record
<1>3. QED
  BY <1>2 DEF Seeded, Record

LEMMA FreshType == Fresh \in Record
  BY Constants DEF Fresh, Record, States

-----------------------------------------------------------------------------
(* The samples *)

\* A sample is as old as there are newer ones, and k ticks more, up to the
\* window, so that only the first one kept can cover the window.
Spaced(s, k) == \A i \in DOMAIN s : s[i].age >= Least(Len(s) + k - i, Window)

Spread(s) == Spaced(s, 0) /\ Len(s) <= Window + 1

LEMMA Greatest ==
  ASSUME NEW n \in Nat, NEW S, S \subseteq 1 .. n, S # {}
  PROVE  \E i \in S : \A j \in S : j <= i
<1> DEFINE T == {n - i : i \in S}
           R == OpToRel(<, Nat)
<1>1. T \subseteq Nat /\ T # {}
  <2>1. \A i \in S : n - i \in Nat
    OBVIOUS
  <2>2. QED
    BY <2>1
<1>2. PICK x \in T : \A y \in T : ~(<<y, x>> \in R)
  <2>1. IsWellFoundedOn(R, Nat)
    BY NatLessThanWellFounded
  <2> HIDE DEF T, R
  <2>2. QED
    BY <1>1, <2>1, WFMin
<1>3. \A y \in T : ~(y < x)
  BY <1>1, <1>2 DEF OpToRel
<1>4. PICK i \in S : x = n - i
  BY <1>2
<1>5. \A j \in S : ~(n - j < n - i)
  BY <1>3, <1>4
<1>6. QED
  BY <1>4, <1>5

\* The sampling of one cycle: the new sample is the last one, the others are
\* kept from some point on, and if one covers the window the first one does.
LEMMA TrimmedFacts ==
  ASSUME NEW s \in Seq(SampleRecord), NEW f \in SampleRecord, Spaced(s, 1), f.age = 0,
         NEW t, t = Trimmed(Append(s, f))
  PROVE  /\ t \in Seq(SampleRecord) /\ Spread(t) /\ Len(t) >= 1
         /\ t[Len(t)] = f
         /\ \A i \in 1 .. Len(t) - 1 :
              i + Len(s) + 1 - Len(t) \in DOMAIN s /\ t[i] = s[i + Len(s) + 1 - Len(t)]
<1> DEFINE q == Append(s, f)
           n == Len(s) + 1
<1>1. /\ q \in Seq(SampleRecord) /\ Len(q) = n /\ n \in Nat /\ n >= 1 /\ q[n] = f
      /\ DOMAIN q = 1 .. n /\ DOMAIN s = 1 .. n - 1
      /\ \A i \in 1 .. n - 1 : q[i] = s[i]
  OBVIOUS
<1>2. \A i \in 1 .. n : q[i].age \in 0 .. Window
  <2>1. \A i \in 1 .. n : q[i] \in SampleRecord
    BY <1>1
  <2>2. QED
    BY <2>1 DEF SampleRecord
<1>3. \A i \in 1 .. n : q[i].age >= Least(n - i, Window)
  <2>1. \A i \in 1 .. n - 1 : q[i].age >= Least(n - i, Window)
    <3> SUFFICES ASSUME NEW i \in 1 .. n - 1 PROVE q[i].age >= Least(n - i, Window)
      OBVIOUS
    <3>1. s[i].age >= Least(Len(s) + 1 - i, Window)
      BY <1>1 DEF Spaced
    <3>2. QED
      BY <1>1, <3>1
  <2>2. QED
    BY <1>1, <2>1, Constants DEF Least
<1> DEFINE old == {i \in 1 .. Len(q) : q[i].age >= Window}
<1>4. CASE old = {}
  <2>1. t = q
    BY <1>4 DEF Trimmed
  <2>2. \A i \in 1 .. n : q[i].age < Window
    BY <1>1, <1>2, <1>4, Constants
  <2>3. n - 1 < Window
    BY <1>1, <1>2, <1>3, <2>2, Constants DEF Least
  <2>4. Spread(t)
    BY <1>1, <1>3, <2>1, <2>3, Constants DEF Spread, Spaced
  <2>5. QED
    BY <1>1, <2>1, <2>4
<1>5. CASE old # {}
  <2> DEFINE k == CHOOSE i \in old : \A j \in old : j <= i
  <2>1. k \in old /\ \A j \in old : j <= k
    <3>1. old \subseteq 1 .. n
      BY <1>1
    <3> HIDE DEF old
    <3>2. \E i \in old : \A j \in old : j <= i
      BY <1>1, <1>5, <3>1, Greatest
    <3>3. QED
      BY <3>2
  <2>2. k \in 1 .. n /\ q[k].age >= Window
    BY <1>1, <2>1
  <2>3. t = SubSeq(q, k, Len(q))
    BY <1>5 DEF Trimmed
  <2> HIDE DEF k
  <2>4. \A i \in k + 1 .. n : q[i].age < Window
    <3> SUFFICES ASSUME NEW i \in k + 1 .. n PROVE q[i].age < Window
      OBVIOUS
    <3>1. i \in 1 .. n /\ i \in 1 .. Len(q) /\ ~(i <= k)
      BY <1>1, <2>2
    <3>2. i \notin old
      BY <2>1, <3>1
    <3>3. ~(q[i].age >= Window)
      BY <3>1, <3>2
    <3>4. QED
      BY <1>2, <3>1, <3>3, Constants
  <2> HIDE DEF old, q
  <2>5. /\ t \in Seq(SampleRecord) /\ Len(t) = n - k + 1
        /\ \A i \in 1 .. Len(t) : t[i] = q[k + i - 1]
    <3>1. k \in Int /\ Len(q) \in Int /\ \A i \in k .. Len(q) : q[i] \in SampleRecord
      BY <1>1, <2>2
    <3>2. /\ t \in Seq(SampleRecord) /\ Len(t) = IF k <= Len(q) THEN Len(q) - k + 1 ELSE 0
          /\ \A i \in 1 .. Len(q) - k + 1 : t[i] = q[k + i - 1]
      BY <2>3, <3>1, SubSeqProperties
    <3>3. QED
      BY <1>1, <2>2, <3>2
  <2>6. n - k <= Window
    <3>1. CASE k = n
      BY <1>1, <3>1, Constants
    <3>2. CASE k # n
      <4>1. k + 1 \in 1 .. n /\ q[k + 1].age < Window
        BY <1>1, <2>2, <2>4, <3>2
      <4>2. q[k + 1].age >= Least(n - (k + 1), Window) /\ q[k + 1].age \in Int
        BY <1>2, <1>3, <4>1
      <4>3. ~(Window <= n - (k + 1))
        BY <1>1, <2>2, <4>1, <4>2, Constants DEF Least
      <4>4. QED
        BY <1>1, <2>2, <4>3, Constants
    <3>3. QED
      BY <3>1, <3>2
  <2>7. Spread(t)
    <3>1. \A i \in 1 .. Len(t) : k + i - 1 \in 1 .. n /\ n - (k + i - 1) = Len(t) + 0 - i
      BY <1>1, <2>2, <2>5
    <3>2. \A i \in 1 .. Len(t) : t[i].age >= Least(Len(t) + 0 - i, Window)
      BY <1>3, <2>5, <3>1
    <3>3. Len(t) <= Window + 1 /\ DOMAIN t = 1 .. Len(t)
      BY <1>1, <2>2, <2>5, <2>6, Constants
    <3>4. QED
      BY <3>2, <3>3 DEF Spread, Spaced
  <2>8. t[Len(t)] = f /\ Len(t) >= 1
    BY <1>1, <2>2, <2>5
  <2>9. \A i \in 1 .. Len(t) - 1 :
          i + Len(s) + 1 - Len(t) \in DOMAIN s /\ t[i] = s[i + Len(s) + 1 - Len(t)]
    <3> SUFFICES ASSUME NEW i \in 1 .. Len(t) - 1
                 PROVE  /\ i + Len(s) + 1 - Len(t) \in DOMAIN s
                        /\ t[i] = s[i + Len(s) + 1 - Len(t)]
      OBVIOUS
    <3>1. /\ i + Len(s) + 1 - Len(t) = k + i - 1 /\ k + i - 1 \in 1 .. n - 1
          /\ i \in 1 .. Len(t)
      BY <1>1, <2>2, <2>5
    <3>2. QED
      BY <1>1, <2>5, <3>1
  <2>10. QED
    BY <2>5, <2>7, <2>8, <2>9
<1>6. QED
  BY <1>4, <1>5

-----------------------------------------------------------------------------
(* What the steps of a cycle do to the record *)

LEMMA ClearFacts ==
  ASSUME NEW m \in Record
  PROVE  LET n == ClearEvidence(m)
         IN  /\ n \in Record /\ SameCommand(m, n)
             /\ n.contact = Unset /\ n.overload = Unset /\ n.samples = <<>>
             /\ n.state = m.state /\ n.command = m.command /\ n.retreat = m.retreat
<1>1. <<>> \in Seq(SampleRecord)
  OBVIOUS
<1>2. ClearEvidence(m) \in Record
  BY <1>1, Constants DEF ClearEvidence, Record
<1>3. QED
  BY <1>2 DEF ClearEvidence, Record, SameCommand

\* Time passes: the timers age, the samples too.
LEMMA AgedFacts ==
  ASSUME NEW m \in Record, NEW d \in 1 .. MaxStep
  PROVE  LET n == Aged(m, d)
         IN  /\ n \in Record /\ SameCommand(m, n)
             /\ n.state = m.state /\ n.command = m.command /\ n.retreat = m.retreat
             /\ n.contact = Older(m.contact, d, ContactHold)
             /\ n.overload = Older(m.overload, d, OverloadHold)
             /\ Len(n.samples) = Len(m.samples)
             /\ \A i \in DOMAIN m.samples :
                  /\ n.samples[i].age = Least(m.samples[i].age + d, Window)
                  /\ n.samples[i].pos = m.samples[i].pos
<1>1. /\ d \in Nat /\ d >= 1
      /\ m.contact \in Ages(ContactHold) /\ m.overload \in Ages(OverloadHold)
      /\ m.retreated \in Ages(Retry) /\ m.samples \in Seq(SampleRecord)
  BY GripperAssumption DEF Record
<1> DEFINE s == [i \in 1 .. Len(m.samples) |->
                   [age |-> Least(m.samples[i].age + d, Window),
                    pos |-> m.samples[i].pos]]
           c == Older(m.contact, d, ContactHold)
           o == Older(m.overload, d, OverloadHold)
           r == Older(m.retreated, d, Retry)
<1>2. c \in Ages(ContactHold) /\ o \in Ages(OverloadHold) /\ r \in Ages(Retry)
  BY <1>1, Constants, OlderType
<1>3. \A i \in 1 .. Len(m.samples) : s[i] \in SampleRecord
  <2> SUFFICES ASSUME NEW i \in 1 .. Len(m.samples) PROVE s[i] \in SampleRecord
    OBVIOUS
  <2>1. m.samples[i] \in SampleRecord
    BY <1>1
  <2>2. m.samples[i].age \in 0 .. Window /\ m.samples[i].pos \in Position
    BY <2>1 DEF SampleRecord
  <2>3. Least(m.samples[i].age + d, Window) \in 0 .. Window
    BY <1>1, <2>2, Constants DEF Least
  <2>4. QED
    BY <2>2, <2>3 DEF SampleRecord
<1>4. Len(m.samples) \in Nat
  BY <1>1
<1>5. s \in Seq(SampleRecord) /\ Len(s) = Len(m.samples)
  <2>1. s \in [1 .. Len(m.samples) -> SampleRecord]
    BY <1>3
  <2> HIDE DEF s
  <2>2. QED
    BY <1>4, <2>1, SeqDef
<1>6. \A i \in DOMAIN m.samples :
        /\ s[i].age = Least(m.samples[i].age + d, Window)
        /\ s[i].pos = m.samples[i].pos
  BY <1>1
<1>7. Aged(m, d) = [m EXCEPT !.contact = c, !.overload = o, !.retreated = r,
                             !.samples = s]
  BY DEF Aged
<1> HIDE DEF s, c, o, r
<1>8. Aged(m, d) \in Record
  BY <1>2, <1>5, <1>7 DEF Record
<1>9. /\ SameCommand(m, Aged(m, d)) /\ Aged(m, d).state = m.state
      /\ Aged(m, d).command = m.command /\ Aged(m, d).retreat = m.retreat
      /\ Aged(m, d).contact = c /\ Aged(m, d).overload = o /\ Aged(m, d).samples = s
  BY <1>7 DEF Record, SameCommand
<1>10. QED
  BY <1>5, <1>6, <1>8, <1>9 DEF c, o

\* The samples of an aged record leave room for the next one.
LEMMA AgedSpread ==
  ASSUME NEW m \in Record, NEW d \in 1 .. MaxStep, Spread(m.samples)
  PROVE  Spaced(Aged(m, d).samples, 1) /\ Spread(Aged(m, d).samples)
<1>1. /\ d \in Nat /\ d >= 1 /\ m.samples \in Seq(SampleRecord)
      /\ Aged(m, d).samples \in Seq(SampleRecord)
      /\ Len(m.samples) \in Nat
  BY GripperAssumption, AgedFacts DEF Record
<1>2. /\ Len(Aged(m, d).samples) = Len(m.samples)
      /\ DOMAIN Aged(m, d).samples = DOMAIN m.samples
      /\ DOMAIN m.samples = 1 .. Len(m.samples)
  BY <1>1, AgedFacts
<1>3. ASSUME NEW i \in DOMAIN m.samples
      PROVE  /\ Aged(m, d).samples[i].age >= Least(Len(m.samples) + 1 - i, Window)
             /\ Aged(m, d).samples[i].age >= Least(Len(m.samples) + 0 - i, Window)
  <2>1. m.samples[i] \in SampleRecord
    BY <1>1
  <2>2. m.samples[i].age \in Nat /\ i \in Nat
    BY <1>2, <2>1, Constants DEF SampleRecord
  <2>3. m.samples[i].age >= Least(Len(m.samples) + 0 - i, Window)
    BY DEF Spread, Spaced
  <2>4. Aged(m, d).samples[i].age = Least(m.samples[i].age + d, Window)
    BY AgedFacts
  <2>5. QED
    BY <1>1, <2>2, <2>3, <2>4, Constants DEF Least
<1>4. QED
  BY <1>2, <1>3 DEF Spread, Spaced

\* The sampling of a cycle.
LEMMA SampledFacts ==
  ASSUME NEW m \in Record, NEW p \in Position, Spaced(m.samples, 1)
  PROVE  LET n == Sampled(m, p)
         IN  /\ n \in Record /\ SameCommand(m, n) /\ Spread(n.samples)
             /\ n.command = m.command
             /\ Protection(m) =>
                  /\ n.state = m.state /\ n.retreat = m.retreat
                  /\ n.contact = m.contact /\ n.overload = m.overload
                  /\ n.samples = Trimmed(Append(m.samples, [age |-> 0, pos |-> p]))
             /\ ~Protection(m) =>
                  /\ n.state = IF m.state \in Protecting THEN "MOVING" ELSE m.state
                  /\ n.retreat = NoPos /\ n.contact = Unset /\ n.samples = <<>>
<1> DEFINE f == [age |-> 0, pos |-> p]
           t == Trimmed(Append(m.samples, f))
<1>1. CASE Protection(m)
  <2>1. f \in SampleRecord /\ f.age = 0 /\ m.samples \in Seq(SampleRecord)
    BY Constants DEF SampleRecord, Record
  <2> HIDE DEF f
  <2>2. t \in Seq(SampleRecord) /\ Spread(t)
    BY <2>1, TrimmedFacts
  <2>3. Sampled(m, p) = [m EXCEPT !.samples = t]
    BY <1>1 DEF Sampled, f
  <2> HIDE DEF t
  <2>4. Sampled(m, p) \in Record
    BY <2>2, <2>3 DEF Record
  <2>5. QED
    BY <1>1, <2>2, <2>3, <2>4 DEF Record, SameCommand, t, f
<1>2. CASE ~Protection(m)
  <2> DEFINE c == ClearEvidence(m)
             st == IF m.state \in Protecting THEN "MOVING" ELSE m.state
  <2>1. /\ c \in Record /\ SameCommand(m, c) /\ c.contact = Unset /\ c.samples = <<>>
        /\ c.state = m.state /\ c.command = m.command
    BY ClearFacts
  <2>2. st \in States
    BY DEF Record, States
  <2>3. Sampled(m, p) = [c EXCEPT !.retreat = NoPos, !.protective = NoPos, !.state = st]
    BY <1>2, <2>1 DEF Sampled
  <2> HIDE DEF c, st
  <2>4. Sampled(m, p) \in Record
    BY <2>1, <2>2, <2>3 DEF Record
  <2>5. Spread(<<>>)
    BY Constants DEF Spread, Spaced
  <2>6. QED
    BY <1>2, <2>1, <2>3, <2>4, <2>5 DEF Record, SameCommand, st
<1>3. QED
  BY <1>1, <1>2

LEMMA SettledFacts ==
  ASSUME NEW m \in Record, NEW p \in Position
  PROVE  LET n == Settled(m, p)
         IN  /\ n \in Record /\ SameCommand(m, n)
             /\ n.command = m.command /\ n.retreat = m.retreat
             /\ n.contact = m.contact /\ n.overload = m.overload
             /\ n.samples = m.samples
             /\ \/ n.state = m.state
                \/ /\ n.state = "HOLDING" /\ Protection(m)
                   /\ m.state \in {"CONTACT", "OVERLOAD_RETREAT"}
<1>1. CASE Settled(m, p) = m
  BY <1>1 DEF SameCommand
<1>2. CASE Settled(m, p) # m
  <2>1. /\ Settled(m, p) = [m EXCEPT !.state = "HOLDING"] /\ Protection(m)
        /\ m.state \in {"CONTACT", "OVERLOAD_RETREAT"}
    BY <1>2 DEF Settled
  <2>2. Settled(m, p) \in Record
    BY <2>1 DEF Record, States, Protecting
  <2>3. QED
    BY <2>1, <2>2 DEF Record, SameCommand
<1>3. QED
  BY <1>1, <1>2

\* One cycle of a motion.
LEMMA MovedFacts ==
  ASSUME NEW m \in Record, NEW p \in Position, NEW tq \in Nat, NEW step \in 0 .. 1,
         m.state = "MOVING"
  PROVE  LET n == Moved(m, p, tq, step)
         IN  /\ n \in Record /\ SameCommand(m, n) /\ n.retreat = m.retreat
             /\ n.state \in {"MOVING", "IDLE", "CONTACT"}
             /\ n.samples = IF m.requested > p THEN m.samples ELSE <<>>
             /\ n.contact # Unset =>
                  /\ m.requested > p /\ Protection(m) /\ Stalled(m)
                  /\ tq >= ContactTorque(m.level)
                  /\ n.contact = IF m.contact = Unset THEN 0 ELSE m.contact
             /\ n.state = "CONTACT" => n.contact >= ContactHold
<1> DEFINE stepped == [m EXCEPT !.command =
                         IF m.requested > m.command THEN m.command + step
                         ELSE IF m.requested < m.command THEN m.command - step
                         ELSE m.command]
           m1 == IF m.requested > p THEN stepped ELSE ClearEvidence(stepped)
           c == IF ~InContact(m1, p, tq) THEN Unset
                ELSE IF m1.contact = Unset THEN 0 ELSE m1.contact
           m2 == [m1 EXCEPT !.contact = c]
           held == Clamp(p + Offset)
           n == Moved(m, p, tq, step)
<1>1. n = IF m2.contact >= ContactHold
          THEN [m2 EXCEPT !.protective = held, !.command = held, !.state = "CONTACT"]
          ELSE IF Distant(m.requested, p) <= MinError
               THEN [m2 EXCEPT !.state = "IDLE"]
               ELSE m2
  BY DEF Moved
<1>2. held \in Position
  BY Constants, ClampType DEF Position
<1>3. /\ stepped \in Record /\ SameCommand(m, stepped) /\ stepped.retreat = m.retreat
      /\ stepped.state = "MOVING" /\ stepped.samples = m.samples
      /\ stepped.contact = m.contact
  <2> DEFINE new == IF m.requested > m.command THEN m.command + step
                    ELSE IF m.requested < m.command THEN m.command - step
                    ELSE m.command
  <2>1. m.requested \in Position /\ m.command \in Position
    BY DEF Record
  <2>2. new \in Position
    BY <2>1, Constants DEF Position
  <2>3. stepped = [m EXCEPT !.command = new]
    OBVIOUS
  <2> HIDE DEF new, stepped
  <2>4. stepped \in Record
    BY <2>2, <2>3 DEF Record
  <2>5. QED
    BY <2>3, <2>4 DEF Record, SameCommand
<1> HIDE DEF stepped, held, n
<1>4. /\ m1 \in Record /\ SameCommand(m, m1) /\ m1.retreat = m.retreat
      /\ m1.state = "MOVING"
      /\ m1.samples = IF m.requested > p THEN m.samples ELSE <<>>
      /\ m.requested > p => m1.contact = m.contact
  <2>1. CASE m.requested > p
    BY <1>3, <2>1
  <2>2. CASE ~(m.requested > p)
    BY <1>3, <2>2, ClearFacts DEF SameCommand
  <2>3. QED
    BY <2>1, <2>2
<1> HIDE DEF m1
<1>5. c # Unset =>
        /\ m.requested > p /\ Protection(m) /\ Stalled(m)
        /\ tq >= ContactTorque(m.level)
        /\ c = IF m.contact = Unset THEN 0 ELSE m.contact
  BY <1>4 DEF InContact, Protection, Stalled, SameCommand
<1>6. c \in Ages(ContactHold)
  BY <1>4, Constants DEF Record
<1> HIDE DEF c
<1>7. /\ m2 \in Record /\ SameCommand(m, m2) /\ m2.retreat = m.retreat
      /\ m2.state = "MOVING" /\ m2.samples = m1.samples /\ m2.contact = c
  <2>1. m2 \in Record
    BY <1>4, <1>6 DEF Record
  <2>2. QED
    BY <1>4, <2>1 DEF Record, SameCommand
<1> HIDE DEF m2
<1>8. /\ n \in Record /\ SameCommand(m2, n) /\ n.retreat = m2.retreat
      /\ n.samples = m2.samples /\ n.contact = m2.contact
      /\ n.state \in {"MOVING", "IDLE", "CONTACT"}
      /\ n.state = "CONTACT" => n.contact >= ContactHold
  <2>1. "CONTACT" \in States /\ "IDLE" \in States
    BY DEF States, Protecting
  <2>2. CASE m2.contact >= ContactHold
    <3>1. n = [m2 EXCEPT !.protective = held, !.command = held, !.state = "CONTACT"]
      BY <1>1, <2>2
    <3>2. n \in Record
      BY <1>2, <1>7, <2>1, <3>1 DEF Record
    <3>3. QED
      BY <1>7, <2>2, <3>1, <3>2 DEF Record, SameCommand
  <2>3. CASE ~(m2.contact >= ContactHold)
    <3>1. n = [m2 EXCEPT !.state = "IDLE"] \/ n = m2
      BY <1>1, <2>3
    <3>2. n \in Record
      BY <1>7, <2>1, <3>1 DEF Record
    <3>3. QED
      BY <1>7, <2>3, <3>1, <3>2 DEF Record, SameCommand
  <2>4. QED
    BY <2>2, <2>3
<1>9. SameCommand(m, n)
  BY <1>7, <1>8 DEF SameCommand
<1>10. QED
  BY <1>4, <1>5, <1>7, <1>8, <1>9 DEF n

\* A hold that is overloaded long enough opens further.
LEMMA OverloadFacts ==
  ASSUME NEW m \in Record, NEW p \in Position, NEW tq \in Nat, m.state = "HOLDING"
  PROVE  LET n == UpdateOverload(m, p, tq)
         IN  /\ n \in Record /\ SameCommand(m, n) /\ n.samples = m.samples
             /\ n.contact = m.contact
             /\ n.state \in {"HOLDING", "OVERLOAD_RETREAT"}
             /\ \/ n.command = m.command /\ n.retreat = m.retreat
                \/ /\ n.command = n.retreat
                   /\ m.retreat # NoPos => n.retreat <= m.retreat
<1> DEFINE o == OverloadAge(m, tq)
           m1 == [m EXCEPT !.overload = o]
           target == Clamp(RetreatBase(m, p) - Distance)
           n == UpdateOverload(m, p, tq)
<1>1. n = IF RetreatDue(m1) THEN [Retreated(m1, target) EXCEPT !.command = target]
          ELSE m1
  BY DEF UpdateOverload
<1>2. RetreatBase(m, p) \in Position
  BY DEF RetreatBase, Record
<1>3. target \in Position /\ (m.retreat # NoPos => target <= m.retreat)
  BY <1>2, Constants, ClampType DEF Clamp, Least, Position, RetreatBase, Record
<1>4. o \in Ages(OverloadHold)
  BY Constants DEF OverloadAge, Record
<1> HIDE DEF o, target, n
<1>5. /\ m1 \in Record /\ SameCommand(m, m1) /\ m1.samples = m.samples
      /\ m1.contact = m.contact /\ m1.state = "HOLDING" /\ m1.command = m.command
      /\ m1.retreat = m.retreat
  <2>1. m1 \in Record
    BY <1>4 DEF Record
  <2>2. QED
    BY <2>1 DEF Record, SameCommand
<1> HIDE DEF m1
<1>6. CASE RetreatDue(m1)
  <2>1. n = [m1 EXCEPT !.retreat = target, !.protective = target,
                       !.state = "OVERLOAD_RETREAT", !.retreated = 0,
                       !.command = target]
    BY <1>1, <1>6 DEF Retreated
  <2>2. "OVERLOAD_RETREAT" \in States
    BY DEF States, Protecting
  <2>3. n \in Record
    BY <1>3, <1>5, <2>1, <2>2, Constants DEF Record
  <2>4. /\ n.retreat = target /\ n.command = target /\ n.samples = m1.samples
        /\ n.contact = m1.contact /\ n.state = "OVERLOAD_RETREAT"
        /\ SameCommand(m1, n)
    BY <1>5, <2>1, <2>3 DEF Record, SameCommand
  <2>5. QED
    BY <1>3, <1>5, <2>3, <2>4 DEF SameCommand, n
<1>7. CASE ~RetreatDue(m1)
  BY <1>1, <1>5, <1>7 DEF n
<1>8. QED
  BY <1>6, <1>7

\* A gripper that retreated is held where the retreat ended.
AtRetreat(m) ==
  m.retreat # NoPos =>
    /\ m.state \in {"OVERLOAD_RETREAT", "HOLDING", "FAULT"}
    /\ m.command = m.retreat

\* One cycle: a retreat is only followed by a wider one, and contact is found
\* by a motion, on samples that end with this one and show no movement.
LEMMA PreparedFacts ==
  ASSUME NEW m \in Record, NEW p \in Position, NEW tq \in Nat, NEW step \in 0 .. 1,
         Spaced(m.samples, 1)
  PROVE  LET n == Prepared(m, p, tq, step)
             t == Trimmed(Append(m.samples, [age |-> 0, pos |-> p]))
         IN  /\ n \in Record /\ SameCommand(m, n) /\ Spread(n.samples)
             /\ AtRetreat(m) =>
                  /\ AtRetreat(n)
                  /\ m.retreat # NoPos /\ n.retreat # NoPos => n.retreat <= m.retreat
             /\ n.state = "MOVING" =>
                  n.samples = <<>> \/ (m.state = "MOVING" /\ m.requested > p
                                       /\ n.samples = t)
             /\ n.state = "CONTACT" /\ m.state # "CONTACT" =>
                  n.contact # Unset /\ n.contact >= ContactHold
             /\ (n.state = "MOVING" \/ (n.state = "CONTACT" /\ m.state # "CONTACT"))
                  /\ n.contact # Unset =>
                  /\ m.state = "MOVING" /\ m.requested > p /\ n.samples = t
                  /\ Stalled(n) /\ tq >= ContactTorque(m.level)
                  /\ n.contact = IF m.contact = Unset THEN 0 ELSE m.contact
<1> DEFINE t == Trimmed(Append(m.samples, [age |-> 0, pos |-> p]))
           s == Sampled(m, p)
           h == Settled(s, p)
           n == Prepared(m, p, tq, step)
<1>1. /\ s \in Record /\ SameCommand(m, s) /\ Spread(s.samples)
      /\ s.command = m.command
      /\ Protection(m) =>
           /\ s.state = m.state /\ s.retreat = m.retreat /\ s.contact = m.contact
           /\ s.samples = t
      /\ ~Protection(m) =>
           /\ s.state = IF m.state \in Protecting THEN "MOVING" ELSE m.state
           /\ s.retreat = NoPos /\ s.contact = Unset /\ s.samples = <<>>
  BY SampledFacts
<1>2. n = CASE h.state = "MOVING" -> Moved(h, p, tq, step)
            [] h.state = "HOLDING" /\ Protection(h) -> UpdateOverload(h, p, tq)
            [] h.state = "IDLE" -> [h EXCEPT !.command = h.requested]
            [] OTHER -> h
  BY DEF Prepared
<1> HIDE DEF s, t, n
<1>3. /\ h \in Record /\ SameCommand(s, h) /\ h.command = s.command
      /\ h.retreat = s.retreat /\ h.contact = s.contact /\ h.samples = s.samples
      /\ \/ h.state = s.state
         \/ /\ h.state = "HOLDING" /\ Protection(s)
            /\ s.state \in {"CONTACT", "OVERLOAD_RETREAT"}
  BY <1>1, SettledFacts
<1> HIDE DEF h
<1>4. /\ h \in Record /\ SameCommand(m, h) /\ Spread(h.samples)
      /\ (Protection(m) <=> Protection(h)) /\ h.command = m.command
  BY <1>1, <1>3 DEF SameCommand, Protection
<1>5. /\ ~Protection(m) => h.samples = <<>> /\ h.retreat = NoPos /\ h.contact = Unset
      /\ Protection(m) => h.samples = t /\ h.retreat = m.retreat /\ h.contact = m.contact
      /\ h.state = "MOVING" /\ Protection(m) => m.state = "MOVING"
      /\ h.state = "CONTACT" => m.state = "CONTACT"
  BY <1>1, <1>3 DEF SameCommand, Protection, Protecting
<1>6. AtRetreat(m) => AtRetreat(h)
  <2>1. CASE Protection(m)
    BY <1>1, <1>3, <1>4, <1>5, <2>1 DEF AtRetreat
  <2>2. CASE ~Protection(m)
    BY <1>5, <2>2 DEF AtRetreat
  <2>3. QED
    BY <2>1, <2>2
<1>7. Spread(<<>>)
  BY Constants DEF Spread, Spaced
<1>8. h.retreat # NoPos => h.retreat = m.retreat
  BY <1>5
<1>9. h.retreat \in Int
  BY <1>4, Constants DEF Record, Position, NoPos
\* What follows from the position after the cycle.
<1> DEFINE Goal(r) ==
      /\ r \in Record /\ SameCommand(m, r) /\ Spread(r.samples)
      /\ AtRetreat(m) =>
           /\ AtRetreat(r)
           /\ m.retreat # NoPos /\ r.retreat # NoPos => r.retreat <= m.retreat
      /\ r.state = "MOVING" =>
           r.samples = <<>> \/ (m.state = "MOVING" /\ m.requested > p
                                /\ r.samples = t)
      /\ r.state = "CONTACT" /\ m.state # "CONTACT" =>
           r.contact # Unset /\ r.contact >= ContactHold
      /\ (r.state = "MOVING" \/ (r.state = "CONTACT" /\ m.state # "CONTACT"))
           /\ r.contact # Unset =>
           /\ m.state = "MOVING" /\ m.requested > p /\ r.samples = t
           /\ Stalled(r) /\ tq >= ContactTorque(m.level)
           /\ r.contact = IF m.contact = Unset THEN 0 ELSE m.contact
<1>10. CASE h.state = "MOVING"
  <2>1. n = Moved(h, p, tq, step)
    BY <1>2, <1>10
  <2>2. /\ n \in Record /\ SameCommand(h, n) /\ n.retreat = h.retreat
        /\ n.state \in {"MOVING", "IDLE", "CONTACT"}
        /\ n.samples = IF h.requested > p THEN h.samples ELSE <<>>
        /\ n.contact # Unset =>
             /\ h.requested > p /\ Protection(h) /\ Stalled(h)
             /\ tq >= ContactTorque(h.level)
             /\ n.contact = IF h.contact = Unset THEN 0 ELSE h.contact
        /\ n.state = "CONTACT" => n.contact >= ContactHold
    BY <1>4, <1>10, <2>1, MovedFacts
  <2>3. SameCommand(m, n) /\ Spread(n.samples) /\ h.requested = m.requested
        /\ h.level = m.level
    BY <1>4, <1>7, <2>2 DEF SameCommand
  <2>4. AtRetreat(m) => h.retreat = NoPos
    BY <1>6, <1>10 DEF AtRetreat
  <2>5. n.state = "MOVING" =>
          n.samples = <<>> \/ (m.state = "MOVING" /\ m.requested > p /\ n.samples = t)
    BY <1>5, <1>10, <2>2, <2>3
  <2>6. n.state = "CONTACT" => n.contact # Unset
    BY <2>2, Constants DEF Unset
  <2>7. n.contact # Unset =>
          /\ m.state = "MOVING" /\ m.requested > p /\ n.samples = t
          /\ Stalled(n) /\ tq >= ContactTorque(m.level)
          /\ n.contact = IF m.contact = Unset THEN 0 ELSE m.contact
    BY <1>4, <1>5, <1>10, <2>2, <2>3 DEF Stalled
  <2>8. AtRetreat(m) => AtRetreat(n) /\ n.retreat = NoPos
    BY <2>2, <2>4 DEF AtRetreat
  <2>9. Goal(n)
    BY <2>2, <2>3, <2>5, <2>6, <2>7, <2>8
  <2>10. QED
    BY <2>9 DEF n, t
<1>11. CASE h.state = "HOLDING" /\ Protection(h)
  <2>1. n = UpdateOverload(h, p, tq)
    BY <1>2, <1>11
  <2>2. /\ n \in Record /\ SameCommand(h, n) /\ n.samples = h.samples
        /\ n.state \in {"HOLDING", "OVERLOAD_RETREAT"}
        /\ \/ n.command = h.command /\ n.retreat = h.retreat
           \/ n.command = n.retreat /\ (h.retreat # NoPos => n.retreat <= h.retreat)
    BY <1>4, <1>11, <2>1, OverloadFacts
  <2>3. SameCommand(m, n) /\ Spread(n.samples)
    BY <1>4, <2>2 DEF SameCommand
  <2>4. AtRetreat(m) => AtRetreat(n)
    BY <1>6, <2>2 DEF AtRetreat
  <2>5. m.retreat # NoPos => n.retreat <= m.retreat
    BY <1>4, <1>5, <1>9, <1>11, <2>2
  <2>6. Goal(n)
    BY <2>2, <2>3, <2>4, <2>5
  <2>7. QED
    BY <2>6 DEF n, t
<1>12. CASE h.state # "MOVING" /\ ~(h.state = "HOLDING" /\ Protection(h))
  <2>1. n = IF h.state = "IDLE" THEN [h EXCEPT !.command = h.requested] ELSE h
    BY <1>2, <1>12
  <2>2. /\ n \in Record /\ SameCommand(h, n) /\ n.samples = h.samples
        /\ n.state = h.state /\ n.retreat = h.retreat
        /\ h.state # "IDLE" => n.command = h.command
    <3>1. CASE h.state = "IDLE"
      <4>1. n = [h EXCEPT !.command = h.requested] /\ h.requested \in Position
        BY <1>4, <2>1, <3>1 DEF Record
      <4>2. n \in Record
        BY <1>4, <4>1 DEF Record
      <4>3. QED
        BY <1>4, <3>1, <4>1, <4>2 DEF Record, SameCommand
    <3>2. CASE h.state # "IDLE"
      BY <1>4, <2>1, <3>2 DEF SameCommand
    <3>3. QED
      BY <3>1, <3>2
  <2>3. SameCommand(m, n) /\ Spread(n.samples)
    BY <1>4, <2>2 DEF SameCommand
  <2>4. AtRetreat(m) => AtRetreat(n)
    BY <1>6, <2>2 DEF AtRetreat
  <2>5. n.retreat # NoPos => n.retreat <= m.retreat
    BY <1>8, <1>9, <2>2
  <2>6. Goal(n)
    BY <1>5, <1>12, <2>2, <2>3, <2>4, <2>5
  <2>7. QED
    BY <2>6 DEF n, t
<1>13. QED
  BY <1>10, <1>11, <1>12

-----------------------------------------------------------------------------
(* Commands, holds and stops *)

LEMMA CommandedFacts ==
  ASSUME NEW m \in Record, NEW p \in Position, NEW l \in Nat,
         NEW k \in {"PROTECTED", "DIRECT"}
  PROVE  LET n == Commanded(m, p, l, k)
         IN  /\ n \in Record
             /\ n.command = m.command
             /\ \/ n.state = m.state \/ n.state = "MOVING"
             /\ \/ n.samples = m.samples /\ n.contact = m.contact
                     /\ n.overload = m.overload
                \/ n.samples = <<>> /\ n.contact = Unset /\ n.overload = Unset
             /\ \/ n.retreat = m.retreat /\ n.state = m.state
                \/ n.retreat = NoPos
             /\ n.state = "MOVING" /\ <<p, l, k>> # <<m.requested, m.level, m.mode>> =>
                  n.samples = <<>> /\ n.contact = Unset
<1> DEFINE new == [m EXCEPT !.requested = p, !.level = l, !.mode = k,
                            !.target = TRUE, !.fault = FALSE]
           cleared == ClearEvidence(new)
           moving == [cleared EXCEPT !.state = "MOVING", !.retreat = NoPos,
                                     !.protective = NoPos]
           n == Commanded(m, p, l, k)
<1>1. n = IF ~m.target \/ p # m.requested \/ k # m.mode THEN moving
          ELSE IF l # m.level /\ m.state = "MOVING" THEN cleared
          ELSE new
  BY DEF Commanded
<1>2. /\ new \in Record /\ new.command = m.command /\ new.state = m.state
      /\ new.samples = m.samples /\ new.contact = m.contact
      /\ new.overload = m.overload /\ new.retreat = m.retreat
  <2>1. new \in Record
    BY DEF Record
  <2>2. QED
    BY <2>1 DEF Record
<1> HIDE DEF new, n
<1>3. /\ cleared \in Record /\ cleared.command = m.command /\ cleared.state = m.state
      /\ cleared.samples = <<>> /\ cleared.contact = Unset /\ cleared.overload = Unset
      /\ cleared.retreat = m.retreat
  BY <1>2, ClearFacts
<1> HIDE DEF cleared
<1>4. /\ moving \in Record /\ moving.command = m.command /\ moving.state = "MOVING"
      /\ moving.samples = <<>> /\ moving.contact = Unset /\ moving.overload = Unset
      /\ moving.retreat = NoPos
  <2>1. "MOVING" \in States
    BY DEF States
  <2>2. moving \in Record
    BY <1>3, <2>1 DEF Record
  <2>3. QED
    BY <1>3, <2>2 DEF Record
<1> HIDE DEF moving
<1>5. /\ n \in Record
      /\ n.command = m.command
      /\ \/ n.state = m.state \/ n.state = "MOVING"
      /\ \/ n.samples = m.samples /\ n.contact = m.contact /\ n.overload = m.overload
         \/ n.samples = <<>> /\ n.contact = Unset /\ n.overload = Unset
      /\ \/ n.retreat = m.retreat /\ n.state = m.state
         \/ n.retreat = NoPos
  BY <1>1, <1>2, <1>3, <1>4
<1>6. n.state = "MOVING" /\ <<p, l, k>> # <<m.requested, m.level, m.mode>> =>
        n.samples = <<>> /\ n.contact = Unset
  BY <1>1, <1>2, <1>3, <1>4
<1>7. QED
  BY <1>5, <1>6 DEF n

\* The record in a hold cycle.
LEMMA HeldFacts ==
  ASSUME NEW m \in Record, NEW p \in Position, NEW tq \in Nat
  PROVE  LET n == Held(m, p, tq)
         IN  /\ n \in Record /\ SameCommand(m, n) /\ n.samples = m.samples
             /\ n.contact = m.contact /\ n.command = m.command
             /\ n.state \in {m.state, "HOLDING", "OVERLOAD_RETREAT"}
             /\ OverloadHold # 0 /\ m.overload = Unset => n.retreat = m.retreat
<1> DEFINE n == Held(m, p, tq)
           o == OverloadAge(m, tq)
           m1 == [m EXCEPT !.overload = o]
           target == Clamp(p - Distance)
           st == IF m.state = "OVERLOAD_RETREAT" THEN "HOLDING" ELSE m.state
<1>1. "OVERLOAD_RETREAT" \in States /\ "HOLDING" \in States /\ st \in States
  BY DEF States, Protecting, Record
<1>2. o \in Ages(OverloadHold) /\ (m.overload = Unset => o \in {0, Unset})
  BY Constants DEF OverloadAge, Record
<1>3. target \in Position
  BY Constants, ClampType DEF Position
<1>4. \/ n = m
      \/ n = [m EXCEPT !.overload = Unset, !.state = st]
      \/ RetreatDue(m1) /\ n = Retreated(m1, target)
      \/ n = m1
  BY DEF Held
<1> HIDE DEF n, o, target, st
<1>5. m1 \in Record /\ m1.overload = o
  BY <1>2 DEF Record
<1>6. CASE n = m
  BY <1>6 DEF SameCommand, n
<1>7. CASE n = [m EXCEPT !.overload = Unset, !.state = st]
  <2>1. n \in Record
    BY <1>1, <1>7, Constants DEF Record
  <2>2. n.state = st /\ SameCommand(m, n) /\ n.samples = m.samples
        /\ n.contact = m.contact /\ n.command = m.command /\ n.retreat = m.retreat
    BY <1>7, <2>1 DEF Record, SameCommand
  <2>3. QED
    BY <2>1, <2>2 DEF n, st
<1>8. CASE RetreatDue(m1) /\ n = Retreated(m1, target)
  <2>1. n = [m1 EXCEPT !.retreat = target, !.protective = target,
                       !.state = "OVERLOAD_RETREAT", !.retreated = 0]
    BY <1>8 DEF Retreated
  <2>2. m1 = [m EXCEPT !.overload = o]
    OBVIOUS
  <2>3. /\ SameCommand(m, m1) /\ m1.samples = m.samples /\ m1.contact = m.contact
        /\ m1.command = m.command
    BY <1>5 DEF Record, SameCommand
  <2> HIDE DEF m1
  <2>4. n \in Record
    BY <1>1, <1>3, <1>5, <2>1, Constants DEF Record
  <2>5. n.state = "OVERLOAD_RETREAT" /\ SameCommand(m1, n) /\ n.samples = m1.samples
        /\ n.contact = m1.contact /\ n.command = m1.command
    BY <1>5, <2>1, <2>4 DEF Record, SameCommand
  <2>6. m.overload = Unset => ~(OverloadHold # 0)
    BY <1>2, <1>5, <1>8, Constants DEF RetreatDue, Unset
  <2>7. QED
    BY <2>3, <2>4, <2>5, <2>6 DEF SameCommand, n
<1>9. CASE n = m1
  BY <1>5, <1>9 DEF Record, SameCommand, n
<1>10. QED
  BY <1>4, <1>6, <1>7, <1>8, <1>9

LEMMA FrameFacts ==
  /\ NoFrame \in Frames /\ NoFrame.gain # "moving"
  /\ \A f \in Frames : f # NoFrame => f.pos \in Position
  /\ \A q \in Position, k \in {"moving", "holding"} :
       /\ [pos |-> q, gain |-> k] \in Frames /\ [pos |-> q, gain |-> k].gain = k
       /\ [pos |-> q, gain |-> k] # NoFrame
  BY Constants DEF Frames, NoFrame

\* The output of a protective stop.
LEMMA HoldFrameFacts ==
  ASSUME NEW m \in Record, NEW f \in Frames
  PROVE  /\ HoldFrame(m, f) \in Frames
         /\ Protection(m) => HoldFrame(m, f).gain # "moving"
<1>1. CASE f = NoFrame \/ status # "on"
  BY <1>1, FrameFacts DEF HoldFrame
<1>2. CASE f # NoFrame /\ status = "on"
  <2>1. PICK q \in Position, k \in {"moving", "holding"} : f = [pos |-> q, gain |-> k]
    BY <1>2 DEF Frames
  <2>2. HoldFrame(m, f) =
          [pos |-> q, gain |-> IF Protection(m) THEN "holding" ELSE "moving"]
    BY <1>2, <2>1 DEF HoldFrame
  <2>3. QED
    BY <2>2, FrameFacts
<1>3. QED
  BY <1>1, <1>2

\* The last section of enter_fault.
LEMMA FaultedFacts ==
  ASSUME g \in Record, Faulted
  PROVE  /\ run' = "FAULT" /\ transition' = FALSE
         /\ still' = Unset /\ pressed' = Unset
         /\ g' \in Record /\ SameCommand(g, g')
         /\ g'.samples = g.samples /\ g'.command = g.command
         /\ g'.retreat = g.retreat
         /\ g'.state # g.state => g'.state \in {"HOLDING", "FAULT"}
<1>1. "HOLDING" \in States /\ "FAULT" \in States
  BY DEF States, Protecting
<1>2. \/ g' = [g EXCEPT !.state = IF g.state = "OVERLOAD_RETREAT" THEN g.state
                                  ELSE "HOLDING"]
      \/ g' = [g EXCEPT !.state = "FAULT", !.fault = TRUE]
  BY DEF Faulted
<1>3. /\ g' \in Record /\ SameCommand(g, g')
      /\ g'.samples = g.samples /\ g'.command = g.command
      /\ g'.retreat = g.retreat
      /\ g'.state # g.state => g'.state \in {"HOLDING", "FAULT"}
  <2>1. CASE g' = [g EXCEPT !.state = IF g.state = "OVERLOAD_RETREAT" THEN g.state
                                      ELSE "HOLDING"]
    <3>1. g' \in Record
      BY <1>1, <2>1 DEF Record
    <3>2. QED
      BY <2>1, <3>1 DEF Record, SameCommand
  <2>2. CASE g' = [g EXCEPT !.state = "FAULT", !.fault = TRUE]
    <3>1. g' \in Record
      BY <1>1, <2>2 DEF Record
    <3>2. QED
      BY <2>2, <3>1 DEF Record, SameCommand
  <2>3. QED
    BY <1>2, <2>1, <2>2
<1>4. QED
  BY <1>3 DEF Faulted, EvidenceDropped

-----------------------------------------------------------------------------
(* The inductive invariant *)

Stops == {"SAFE_STOP", "FAULT"}
Threads ==
  [pc : {"idle", "snapshot", "send", "resend", "prepare", "write", "set", "latched"},
   frame : Frames, goal : {"none"} \cup Stops]
Holding == {"snapshot", "send"}

Types ==
  /\ scenario \in Scenarios /\ run \in Running \cup Stops
  /\ g \in Record /\ Spread(g.samples)
  /\ safe \in Frames /\ worker \in Threads /\ estop \in Threads
  /\ worker.pc = "send" => worker.frame # NoFrame
  /\ estop.pc = "send" => estop.frame # NoFrame
  /\ pos \in Position /\ status \in {"off", "on", "fault"}
  /\ recovery \in {"none", "frozen", "cleared", "off"}
  /\ still \in Ages(Window + ContactHold) /\ pressed \in Ages(ContactHold)

\* Outputs that are not those of a motion: the last one in a stop and between
\* a hold and its state, and the ones carried through a hold or a stop.
GentleOutputs ==
  /\ run \in Stops \/ worker.pc = "set" \/ estop.pc = "set" =>
       safe.gain # "moving"
  /\ worker.pc \in {"send", "write"} => worker.frame.gain # "moving"
  /\ estop.pc = "send" => estop.frame.gain # "moving"

\* Without a recovery the worker holds only in a stop and repeats a control
\* output only while running.  An emergency stop keeps every command away from
\* the hold it has prepared; any other output may be overtaken.
Gentle ==
  "recover" \notin Inputs =>
    /\ recovery = "none" /\ (worker.pc \in Holding => run \in Stops)
    /\ worker.pc = "resend" => run \in Running
    /\ estop.pc = "write" /\ Protection(g) => estop.frame.gain # "moving"
    /\ ~overtaken /\ Protection(g) => GentleOutputs

\* A recovery and the first hold of an emergency stop find the state FAULT.
Frozen == recovery # "none" \/ estop.pc \in Holding => run = "FAULT"

\* A recovery that overtook the worker's hold left a record without evidence.
Overrun ==
  run \in Running /\ worker.pc \in Holding =>
    g.samples = <<>> /\ g.contact = Unset /\ g.overload = Unset /\ g.retreat = NoPos

Retreating == OverloadHold # 0 /\ run \in Running => AtRetreat(g)

\* The gripper's own timers and samples say no more than what happened: the
\* samples that end a motion without movement are no older than the standstill.
Still(m, q, age) ==
  /\ \A i \in DOMAIN m.samples :
       (\A j \in i .. Len(m.samples) : m.samples[j].pos = q)
         => age >= m.samples[i].age
  /\ m.samples # <<>> => m.samples[Len(m.samples)].pos = q

Pressing(m, age, press) ==
  m.contact # Unset => age >= Window + m.contact /\ press >= m.contact

Evident ==
  run \in Running /\ g.state = "MOVING" =>
    Still(g, pos, still) /\ Pressing(g, still, pressed)

Inv == Types /\ Gentle /\ Frozen /\ Overrun /\ Retreating /\ Evident

LEMMA Ranges ==
  ASSUME Types
  PROVE  /\ Requests \subseteq Position /\ Levels \subseteq Nat
         /\ Torques \subseteq Nat /\ Modes \subseteq {"PROTECTED", "DIRECT"}
         /\ g.samples \in Seq(SampleRecord)
         /\ worker.frame \in Frames /\ estop.frame \in Frames
  BY GripperAssumption DEF Types, Requests, Levels, Torques, Modes, Position, Record,
                           Threads

LEMMA ThreadFacts ==
  /\ Idle \in Threads /\ Idle.pc = "idle"
  /\ Stopping("FAULT") \in Threads /\ Stopping("FAULT").pc = "prepare"
  /\ Stopping("SAFE_STOP") \in Threads /\ Stopping("SAFE_STOP").pc = "prepare"
  /\ [Idle EXCEPT !.pc = "snapshot"] \in Threads
  /\ [Idle EXCEPT !.pc = "snapshot"].pc = "snapshot"
  /\ Latched \in Threads /\ Latched.pc = "latched"
  BY FrameFacts DEF Idle, Latched, Stopping, Threads, Stops

\* Without samples and contact there is nothing to justify.
LEMMA NothingClaimed ==
  ASSUME NEW m, NEW q, NEW a, NEW b, m.samples = <<>>, m.contact = Unset
  PROVE  Still(m, q, a) /\ Pressing(m, a, b)
  BY DEF Still, Pressing

\* Steps that leave the record and the feedback alone.
LEMMA ControlOnly ==
  ASSUME Inv, UNCHANGED <<g, pos, still, pressed, scenario>>,
         Types', Gentle', Frozen',
         run' \in Running => run \in Running,
         run' \in Running /\ worker'.pc \in Holding => worker.pc \in Holding
  PROVE  Inv'
  BY DEF Inv, Overrun, Retreating, Evident

\* Nothing more is claimed of a stopped product.
LEMMA StoppedOnly ==
  ASSUME Types', Gentle', Frozen', run' \in Stops
  PROVE  Inv'
  BY DEF Inv, Overrun, Retreating, Evident, Running, Stops

LEMMA CommandStep ==
  ASSUME Inv, SetGripperCommand
  PROVE  Inv'
<1>1. PICK p \in Requests, l \in Levels, k \in Modes :
        /\ <<p, l, k>> # <<g.requested, g.level, g.mode>>
        /\ g' = Commanded(g, p, l, k)
  BY DEF SetGripperCommand
<1>2. /\ Types /\ g \in Record /\ p \in Position /\ l \in Nat
      /\ k \in {"PROTECTED", "DIRECT"} /\ g.samples \in Seq(SampleRecord)
  BY <1>1, Ranges DEF Inv, Types
<1>3. /\ g' \in Record
      /\ \/ g'.samples = g.samples /\ g'.contact = g.contact
              /\ g'.overload = g.overload
         \/ g'.samples = <<>> /\ g'.contact = Unset /\ g'.overload = Unset
      /\ \/ g'.retreat = g.retreat /\ g'.state = g.state
         \/ g'.retreat = NoPos
      /\ g'.state = "MOVING" => g'.samples = <<>> /\ g'.contact = Unset
      /\ g'.command = g.command
  BY <1>1, <1>2, CommandedFacts
<1>4. /\ UNCHANGED <<run, safe, pos, torque, status, worker, estop, recovery, scenario>>
      /\ run \in Running /\ still' = Unset /\ pressed' = Unset
      /\ run \notin Stops /\ estop.pc = "idle"
      /\ ~overtaken' => /\ ~overtaken
                       /\ \/ worker.pc \notin {"write", "set"}
                          \/ Protection(g') => Protection(g)
  BY DEF SetGripperCommand, Running, Stops, EvidenceDropped, threads
<1>5. Spread(g'.samples)
  BY <1>2, <1>3, Constants DEF Types, Spread, Spaced
<1>6. still' \in Ages(Window + ContactHold) /\ pressed' \in Ages(ContactHold)
  BY <1>4, Constants DEF Ages, Unset
<1>7. Types'
  BY <1>2, <1>3, <1>4, <1>5, <1>6 DEF Types
<1>8. Gentle' /\ Frozen'
  BY <1>4 DEF Inv, Gentle, GentleOutputs, Frozen, Inputs, Holding
<1>9. Overrun' /\ Retreating'
  BY <1>3, <1>4 DEF Inv, Overrun, Retreating, AtRetreat
<1>10. Evident'
  BY <1>3, NothingClaimed DEF Evident
<1>11. QED
  BY <1>7, <1>8, <1>9, <1>10 DEF Inv

\* Steps of the lifecycle, and the hold up to its output.
LEMMA PlainSteps ==
  ASSUME Inv, HoldBegin \/ HoldSnapshot \/ Degrade \/ MotorFault
  PROVE  Inv'
<1>1. Types /\ safe \in Frames /\ worker \in Threads
  BY DEF Inv, Types
<1>2. UNCHANGED <<g, safe, pos, estop, recovery, overtaken, still, pressed, scenario>>
  BY DEF HoldBegin, HoldSnapshot, Degrade, MotorFault, evidence, threads
<1>3. /\ worker' \in Threads /\ (worker'.pc = "send" => worker'.frame # NoFrame)
      /\ worker'.pc = worker.pc \/ worker'.pc \in {"idle", "snapshot", "send"}
      /\ worker'.pc = "snapshot" /\ worker'.pc # worker.pc => run \in Stops
      /\ worker'.pc = "send" /\ worker'.pc # worker.pc =>
           worker'.frame = safe /\ worker.pc = "snapshot"
      /\ worker'.pc = worker.pc => worker'.frame = worker.frame
  <2>1. CASE HoldBegin
    BY <2>1, ThreadFacts DEF HoldBegin, Stops
  <2>2. CASE HoldSnapshot
    <3>1. worker.pc = "snapshot"
      BY <2>2 DEF HoldSnapshot
    <3>2. CASE safe = NoFrame
      <4>1. worker' = Idle
        BY <2>2, <3>2 DEF HoldSnapshot, HoldCopy
      <4>2. QED
        BY <3>1, <4>1, ThreadFacts
    <3>3. CASE safe # NoFrame
      <4>1. worker' = [Idle EXCEPT !.pc = "send", !.frame = safe]
        BY <2>2, <3>3 DEF HoldSnapshot, HoldCopy
      <4>2. QED
        <5>1. worker' \in Threads /\ worker'.pc = "send" /\ worker'.frame = safe
          BY <1>1, <4>1 DEF Idle, Threads
        <5>2. QED
          BY <3>1, <3>3, <5>1
    <3>4. QED
      BY <3>2, <3>3
  <2>3. CASE UNCHANGED worker
    BY <1>1, <2>3 DEF Types
  <2>4. QED
    BY <2>1, <2>2, <2>3 DEF Degrade, MotorFault, threads
<1>4. /\ run' = run \/ (run \in Running /\ run' \in Running)
      /\ run' # run => worker' = worker
      /\ status' \in {status, "fault"}
  BY DEF HoldBegin, HoldSnapshot, Degrade, MotorFault, Running, threads
<1>5. Types'
  BY <1>1, <1>2, <1>3, <1>4 DEF Types
<1>6. Frozen'
  BY <1>2 DEF Inv, Frozen, HoldBegin, HoldSnapshot, Degrade, MotorFault
<1>7. /\ run' \in Running => run \in Running
      /\ run' \in Running /\ worker'.pc \in Holding => worker.pc \in Holding
      /\ run' \in Stops => run \in Stops
  BY <1>3, <1>4 DEF Holding, Running, Stops
<1>8. Gentle'
  <2> SUFFICES ASSUME "recover" \notin Inputs
               PROVE  Gentle'
    BY <1>2 DEF Gentle, Inputs
  <2>1. /\ recovery' = "none" /\ (worker'.pc \in Holding => run' \in Stops)
        /\ worker'.pc = "resend" => run' \in Running
        /\ estop'.pc = "write" /\ Protection(g') => estop'.frame.gain # "moving"
    BY <1>2, <1>3, <1>4 DEF Inv, Gentle, Holding, Running, Stops
  <2>2. ~overtaken /\ Protection(g) => GentleOutputs'
    BY <1>2, <1>3, <1>7 DEF Inv, Gentle, GentleOutputs, Holding
  <2>3. QED
    BY <1>2, <2>1, <2>2 DEF Gentle
<1>9. QED
  BY <1>2, <1>5, <1>6, <1>7, <1>8, ControlOnly

\* A thread on its way into a stop: the decision, the hold in its two sections,
\* and the repetition of an output that may end in one.
LEMMA PrepareSteps ==
  ASSUME Inv, \/ Resend \/ WorkerStop \/ WorkerPrepare \/ WorkerWrite
              \/ EstopBegin \/ EstopPrepare \/ EstopWrite \/ EstopSnapshot
  PROVE  Inv'
<1>1. /\ Types /\ safe \in Frames /\ worker \in Threads /\ estop \in Threads
      /\ g \in Record /\ worker.frame \in Frames /\ estop.frame \in Frames
  BY Ranges DEF Inv, Types
<1>2. UNCHANGED <<run, g, pos, status, recovery, still, pressed, scenario>>
  BY DEF Resend, WorkerStop, WorkerPrepare, WorkerWrite, EstopBegin, EstopPrepare,
         EstopWrite, EstopSnapshot, evidence
<1>3. HoldFrame(g, safe) \in Frames
      /\ (Protection(g) => HoldFrame(g, safe).gain # "moving")
  BY <1>1, HoldFrameFacts
<1> DEFINE Kept == /\ safe' \in Frames /\ worker' \in Threads /\ estop' \in Threads
                   /\ worker'.pc \notin Holding \/ worker' = worker
                   /\ \/ estop'.pc \notin Holding \/ estop' = estop
                      \/ estop'.frame # NoFrame /\ estop.pc \in Holding
                   /\ worker'.pc = "resend" => worker' = worker
                   /\ "recover" \notin Inputs =>
                        /\ estop'.pc = "write" /\ Protection(g) =>
                             estop'.frame.gain # "moving"
                        /\ ~overtaken' /\ Protection(g) => GentleOutputs'
<1>4. ASSUME Resend PROVE Kept
  <2>1. worker.pc = "resend" /\ UNCHANGED estop
    BY <1>4 DEF Resend
  <2>2. worker' \in Threads /\ worker'.pc \in {"idle", "prepare"}
    <3>1. worker' \in {Idle, Stopping("SAFE_STOP"), Stopping("FAULT")}
      BY <1>4 DEF Resend
    <3>2. QED
      BY <3>1, ThreadFacts
  <2>3. /\ safe' \in {safe, worker.frame}
        /\ ~overtaken' => ~overtaken
        /\ ~overtaken' /\ safe' # safe => estop.pc # "set"
    <3>1. CASE Committed(worker.frame)
      <4>1. safe' = worker.frame /\ overtaken' = (overtaken \/ estop.pc = "set")
        BY <3>1 DEF Committed
      <4>2. ~overtaken' => ~overtaken /\ estop.pc # "set"
        BY <4>1
      <4>3. QED
        BY <4>1, <4>2
    <3>2. CASE UNCHANGED <<safe, overtaken>>
      BY <3>2
    <3>3. QED
      BY <1>4, <3>1, <3>2 DEF Resend
  <2>4. ASSUME "recover" \notin Inputs, ~overtaken', Protection(g)
        PROVE  GentleOutputs'
    <3>1. GentleOutputs /\ run \notin Stops
      BY <2>1, <2>3, <2>4 DEF Inv, Gentle, Running, Stops
    <3>2. QED
      BY <1>2, <2>1, <2>2, <2>3, <2>4, <3>1 DEF GentleOutputs
  <2>5. "recover" \notin Inputs /\ estop'.pc = "write" /\ Protection(g) =>
          estop'.frame.gain # "moving"
    BY <2>1 DEF Inv, Gentle
  <2>6. safe' \in Frames
    BY <1>1, <2>3
  <2>7. QED
    BY <1>1, <2>1, <2>2, <2>4, <2>5, <2>6 DEF Holding
<1>5. ASSUME WorkerStop PROVE Kept
  <2>1. worker' \in Threads /\ worker'.pc = "prepare"
        /\ UNCHANGED <<safe, estop, overtaken>>
    <3>1. worker' \in {Stopping("SAFE_STOP"), Stopping("FAULT")}
      BY <1>5 DEF WorkerStop
    <3>2. QED
      BY <1>5, <3>1, ThreadFacts DEF WorkerStop
  <2>2. QED
    BY <1>1, <1>2, <2>1 DEF Inv, Gentle, GentleOutputs, Holding
<1>6. ASSUME WorkerPrepare PROVE Kept
  <2>1. worker' \in Threads /\ worker'.pc = "write" /\ worker'.frame = HoldFrame(g, safe)
        /\ UNCHANGED <<safe, estop, overtaken>>
    BY <1>1, <1>3, <1>6 DEF WorkerPrepare, HoldPrepared, Threads
  <2>2. QED
    BY <1>1, <1>2, <1>3, <2>1 DEF Inv, Gentle, GentleOutputs, Holding
<1>7. ASSUME WorkerWrite PROVE Kept
  <2>1. /\ worker.pc = "write" /\ worker' \in Threads /\ worker'.pc = "set"
        /\ safe' = worker.frame /\ UNCHANGED <<estop, overtaken>>
    BY <1>1, <1>7, FrameFacts DEF WorkerWrite, HoldWritten, Threads
  <2>2. QED
    BY <1>1, <1>2, <2>1 DEF Inv, Gentle, GentleOutputs, Holding
<1>8. ASSUME EstopBegin PROVE Kept
  <2>1. estop' \in Threads /\ estop'.pc = "prepare"
        /\ UNCHANGED <<safe, worker, overtaken>>
    BY <1>8, ThreadFacts DEF EstopBegin, Stops
  <2>2. QED
    BY <1>1, <1>2, <2>1 DEF Inv, Gentle, GentleOutputs, Holding
<1>9. ASSUME EstopPrepare PROVE Kept
  <2>1. estop' \in Threads /\ estop'.pc = "write" /\ estop'.frame = HoldFrame(g, safe)
        /\ UNCHANGED <<safe, worker, overtaken>>
    BY <1>1, <1>3, <1>9 DEF EstopPrepare, HoldPrepared, Threads
  <2>2. QED
    BY <1>1, <1>2, <1>3, <2>1 DEF Inv, Gentle, GentleOutputs, Holding
<1>10. ASSUME EstopWrite PROVE Kept
  <2>1. /\ estop.pc = "write" /\ estop' \in Threads /\ estop'.pc = "set"
        /\ safe' = estop.frame /\ UNCHANGED <<worker, overtaken>>
    BY <1>1, <1>10, FrameFacts DEF EstopWrite, HoldWritten, Threads
  <2>2. QED
    BY <1>1, <1>2, <2>1 DEF Inv, Gentle, GentleOutputs, Holding
<1>11. ASSUME EstopSnapshot PROVE Kept
  <2>1. estop.pc = "snapshot" /\ UNCHANGED <<safe, worker, overtaken>>
    BY <1>11 DEF EstopSnapshot
  <2>2. run = "FAULT"
    BY <2>1 DEF Inv, Frozen, Holding
  <2>3. CASE safe = NoFrame
    <3>1. estop' = Latched
      BY <1>11, <2>3 DEF EstopSnapshot, HoldCopy
    <3>2. QED
      BY <1>1, <1>2, <2>1, <3>1, ThreadFacts DEF Inv, Gentle, GentleOutputs, Holding
  <2>4. CASE safe # NoFrame
    <3>1. estop' = [Idle EXCEPT !.pc = "send", !.frame = safe]
      BY <1>11, <2>4 DEF EstopSnapshot, HoldCopy
    <3>2. estop' \in Threads /\ estop'.pc = "send" /\ estop'.frame = safe
      BY <1>1, <3>1 DEF Idle, Threads
    <3>3. QED
      BY <1>1, <1>2, <2>1, <2>2, <2>4, <3>2
      DEF Inv, Gentle, GentleOutputs, Holding, Stops
  <2>5. QED
    BY <2>3, <2>4
<1>12. Kept
  BY <1>4, <1>5, <1>6, <1>7, <1>8, <1>9, <1>10, <1>11
<1>13. Types'
  BY <1>1, <1>2, <1>12 DEF Types, Holding
<1>14. Gentle' /\ Frozen'
  BY <1>2, <1>12 DEF Inv, Gentle, Frozen, Inputs, Holding
<1>15. worker'.pc \in Holding => worker.pc \in Holding
  BY <1>12 DEF Holding
<1>16. QED
  BY <1>2, <1>13, <1>14, <1>15, ControlOnly

\* The last section of a stop.
LEMMA SetSteps ==
  ASSUME Inv, WorkerSet \/ EstopSet
  PROVE  Inv'
<1>1. /\ Types /\ g \in Record /\ Spread(g.samples) /\ worker \in Threads
      /\ estop \in Threads
  BY DEF Inv, Types
<1>2. UNCHANGED <<safe, pos, status, recovery, overtaken, scenario>>
  BY DEF WorkerSet, EstopSet
<1>3. Unset \in Ages(Window + ContactHold) /\ Unset \in Ages(ContactHold)
  BY Constants DEF Ages, Unset
<1>4. CASE WorkerSet /\ worker.goal = "SAFE_STOP" /\ worker' = Stopping("FAULT")
           /\ UNCHANGED <<run, g, evidence>>
  <2>1. /\ worker' \in Threads /\ worker'.pc = "prepare" /\ UNCHANGED estop
        /\ UNCHANGED <<run, g, still, pressed>>
    BY <1>4, ThreadFacts DEF WorkerSet, Stops, evidence
  <2>2. Types'
    BY <1>1, <1>2, <2>1 DEF Types
  <2>3. Gentle' /\ Frozen'
    BY <1>2, <2>1 DEF Inv, Gentle, GentleOutputs, Frozen, Inputs, Holding
  <2>4. QED
    BY <1>2, <2>1, <2>2, <2>3, ControlOnly DEF Holding
<1>5. CASE WorkerSet /\ run # "FAULT" /\ run' = "SAFE_STOP" /\ worker' = Idle
           /\ EvidenceDropped /\ UNCHANGED g
  <2>1. /\ worker' \in Threads /\ worker'.pc = "idle" /\ worker.pc = "set"
        /\ UNCHANGED estop /\ still' = Unset /\ pressed' = Unset
    BY <1>5, ThreadFacts DEF WorkerSet, EvidenceDropped
  <2>2. Types'
    BY <1>1, <1>2, <1>3, <1>5, <2>1 DEF Types, Stops
  <2>3. Gentle' /\ Frozen'
    BY <1>2, <1>5, <2>1 DEF Inv, Gentle, GentleOutputs, Frozen, Inputs, Holding
  <2>4. QED
    BY <1>5, <2>2, <2>3, StoppedOnly DEF Stops
<1>6. CASE Faulted /\ (EstopSet \/ (WorkerSet /\ worker' = Idle))
  <2>1. /\ run' = "FAULT" /\ still' = Unset /\ pressed' = Unset
        /\ g' \in Record /\ SameCommand(g, g') /\ g'.samples = g.samples
    BY <1>1, <1>6, FaultedFacts
  <2>2. /\ worker' \in Threads /\ estop' \in Threads
        /\ worker' = worker \/ worker'.pc = "idle"
        /\ estop' = estop \/ estop'.pc \in {"latched", "snapshot"}
        /\ worker'.pc # "resend"
        /\ worker.pc = "set" \/ estop.pc = "set"
    <3>1. CASE WorkerSet /\ worker' = Idle
      BY <1>1, <3>1, ThreadFacts DEF WorkerSet
    <3>2. CASE EstopSet
      BY <1>1, <3>2, ThreadFacts DEF EstopSet, CommandFree
    <3>3. QED
      BY <1>6, <3>1, <3>2
  <2>3. Types'
    BY <1>1, <1>2, <1>3, <2>1, <2>2 DEF Types, Stops
  <2>4. Protection(g') => Protection(g)
    BY <2>1 DEF SameCommand, Protection
  <2>5. Gentle' /\ Frozen'
    BY <1>2, <2>1, <2>2, <2>4
    DEF Inv, Gentle, GentleOutputs, Frozen, Inputs, Holding, Stops
  <2>6. QED
    BY <2>1, <2>3, <2>5, StoppedOnly DEF Stops
<1>7. QED
  BY <1>4, <1>5, <1>6 DEF WorkerSet, EstopSet

LEMMA FreezeStep ==
  ASSUME Inv, RecoverFreeze
  PROVE  Inv'
<1>1. /\ Types /\ "recover" \in Inputs /\ run' = "FAULT" /\ recovery' = "frozen"
      /\ still' = Unset /\ pressed' = Unset
      /\ UNCHANGED <<g, safe, pos, status, worker, estop, scenario>>
  BY DEF Inv, RecoverFreeze, EvidenceDropped
<1>2. still' \in Ages(Window + ContactHold) /\ pressed' \in Ages(ContactHold)
  BY <1>1, Constants DEF Ages, Unset
<1>3. Types'
  BY <1>1, <1>2 DEF Types, Stops
<1>4. Gentle' /\ Frozen'
  BY <1>1 DEF Gentle, Frozen, Inputs
<1>5. QED
  BY <1>1, <1>3, <1>4, StoppedOnly DEF Stops

LEMMA RecoverSteps ==
  ASSUME Inv, RecoverClear \/ RecoverDisable \/ RecoverEnable
  PROVE  Inv'
<1>1. Types /\ g \in Record /\ pos \in Position
  BY DEF Inv, Types
<1>2. recovery # "none" /\ run = "FAULT" /\ "recover" \in Inputs
      /\ UNCHANGED <<worker, pos, scenario>>
  BY DEF Inv, Gentle, Frozen, RecoverClear, RecoverDisable, RecoverEnable
<1>3. Gentle'
  BY <1>2 DEF Gentle, Inputs
<1>4. CASE RecoverClear \/ RecoverDisable
  <2>1. /\ run' = "FAULT" /\ UNCHANGED <<still, pressed>>
        /\ recovery' \in {"cleared", "off"} /\ status' \in {status, "off"}
        /\ safe' \in {safe, NoFrame} /\ UNCHANGED estop
    BY <1>2, <1>4 DEF RecoverClear, RecoverDisable, evidence
  <2>2. g' \in Record /\ g'.samples = g.samples
    <3>1. g' = g \/ g' = [g EXCEPT !.state = "DISABLED"]
      BY <1>4 DEF RecoverClear, RecoverDisable
    <3>2. g' \in Record
      BY <1>1, <3>1 DEF Record, States
    <3>3. QED
      BY <1>1, <3>1, <3>2 DEF Record
  <2>3. Types'
    BY <1>1, <1>2, <2>1, <2>2, FrameFacts DEF Types, Stops
  <2>4. Frozen' /\ Overrun' /\ Retreating' /\ Evident'
    BY <2>1 DEF Frozen, Overrun, Retreating, Evident, Running
  <2>5. QED
    BY <1>3, <2>3, <2>4 DEF Inv
<1>5. CASE RecoverEnable
  <2>1. /\ run' = "ENABLED" /\ recovery' = "none" /\ status' = "on"
        /\ g' = Seeded(g, pos) /\ safe' = [pos |-> pos, gain |-> "holding"]
        /\ still' = Unset /\ pressed' = Unset
        /\ estop' \in Threads /\ estop'.pc = "idle"
    BY <1>5, ThreadFacts DEF RecoverEnable, EvidenceDropped
  <2>2. /\ g' \in Record /\ g'.state = "IDLE" /\ g'.retreat = NoPos
        /\ g'.overload = Unset /\ g'.contact = Unset /\ g'.samples = <<>>
    BY <1>1, <2>1, SeededFacts
  <2>3. Spread(g'.samples)
    BY <2>2, Constants DEF Spread, Spaced
  <2>4. still' \in Ages(Window + ContactHold) /\ pressed' \in Ages(ContactHold)
    BY <2>1, Constants DEF Ages, Unset
  <2>5. Types'
    BY <1>1, <1>2, <2>1, <2>2, <2>3, <2>4, FrameFacts DEF Types, Running
  <2>6. Frozen' /\ Overrun' /\ Retreating' /\ Evident'
    BY <2>1, <2>2 DEF Frozen, Overrun, Retreating, Evident, AtRetreat, Holding
  <2>7. QED
    BY <1>3, <2>5, <2>6 DEF Inv
<1>6. QED
  BY <1>4, <1>5

\* The evidence after a report: how long the standstill and the pressure last.
LEMMA EvidenceFacts ==
  ASSUME Types, NEW d \in 1 .. MaxStep, NEW p \in Position, NEW tq \in Nat,
         Evidence(d, p, tq)
  PROVE  /\ still' \in Ages(Window + ContactHold) /\ pressed' \in Ages(ContactHold)
         /\ g.requested > p => still' >= 0
         /\ g.requested > p /\ p = pos /\ still # Unset =>
              still' = Least(still + d, Window + ContactHold)
         /\ tq >= ContactTorque(g.level) => pressed' >= 0
         /\ tq >= ContactTorque(g.level) /\ pressed # Unset =>
              pressed' = Least(pressed + d, ContactHold)
<1>1. /\ d \in Nat /\ d >= 1 /\ still \in Ages(Window + ContactHold)
      /\ pressed \in Ages(ContactHold) /\ Window \in Nat /\ ContactHold \in Nat
  BY GripperAssumption, Constants DEF Types
<1>2. /\ still' = IF g.requested > p /\ p # pos THEN 0
                  ELSE Lasting(g.requested > p, still, d, Window + ContactHold)
      /\ pressed' = Lasting(tq >= ContactTorque(g.level), pressed, d, ContactHold)
  BY DEF Evidence
<1>3. /\ still' \in Ages(Window + ContactHold)
      /\ g.requested > p => still' >= 0
      /\ g.requested > p /\ p = pos /\ still # Unset =>
           still' = Least(still + d, Window + ContactHold)
  BY <1>1, <1>2 DEF Lasting, Ages, Least, Unset
<1>4. /\ pressed' \in Ages(ContactHold)
      /\ tq >= ContactTorque(g.level) => pressed' >= 0
      /\ tq >= ContactTorque(g.level) /\ pressed # Unset =>
           pressed' = Least(pressed + d, ContactHold)
  BY <1>1, <1>2 DEF Lasting, Ages, Least, Unset
<1>5. QED
  BY <1>3, <1>4

LEMMA LeastGrows ==
  ASSUME NEW x \in Nat, NEW y \in Nat, NEW d \in Nat, NEW b \in Nat, NEW c \in Nat,
         x >= y, b >= c
  PROVE  Least(x + d, b) >= Least(y + d, c)
  BY DEF Least

\* Samples of the last cycles that show no movement: the gripper stood still
\* at least that long.
LEMMA StillKept ==
  ASSUME Types, NEW d \in 1 .. MaxStep, NEW p \in Position, NEW tq \in Nat,
         Evidence(d, p, tq), Still(g, pos, still), g.requested > p,
         NEW t, t = Trimmed(Append(Aged(g, d).samples, [age |-> 0, pos |-> p]))
  PROVE  /\ t \in Seq(SampleRecord) /\ Len(t) >= 1 /\ t[Len(t)].pos = p
         /\ \A i \in 1 .. Len(t) :
              (\A j \in i .. Len(t) : t[j].pos = p) =>
                /\ still' >= t[i].age
                /\ i < Len(t) =>
                     still # Unset /\ still' = Least(still + d, Window + ContactHold)
<1> DEFINE a == Aged(g, d).samples
           f == [age |-> 0, pos |-> p]
           k == Len(a) + 1 - Len(t)
<1>1. /\ d \in Nat /\ d >= 1 /\ g \in Record /\ Spread(g.samples)
      /\ g.samples \in Seq(SampleRecord)
  BY GripperAssumption, Ranges DEF Types
<1>2. /\ a \in Seq(SampleRecord) /\ Spaced(a, 1) /\ Len(a) = Len(g.samples)
      /\ \A i \in DOMAIN g.samples :
           /\ a[i].age = Least(g.samples[i].age + d, Window)
           /\ a[i].pos = g.samples[i].pos
  BY <1>1, AgedFacts, AgedSpread DEF Record
<1>3. f \in SampleRecord /\ f.age = 0 /\ f.pos = p
  BY Constants DEF SampleRecord
<1> HIDE DEF a, f
<1>4. t = Trimmed(Append(a, f))
  BY DEF a, f
<1>5. /\ t \in Seq(SampleRecord) /\ Len(t) >= 1 /\ t[Len(t)] = f
      /\ \A i \in 1 .. Len(t) - 1 : i + Len(a) + 1 - Len(t) \in DOMAIN a
                                    /\ t[i] = a[i + Len(a) + 1 - Len(t)]
  <2>1. a \in Seq(SampleRecord) /\ Spaced(a, 1)
    BY <1>2
  <2>2. QED
    BY <1>3, <1>4, <2>1, TrimmedFacts
<1>6. /\ Len(t) \in Nat /\ Len(a) \in Nat /\ k \in Int /\ DOMAIN a = 1 .. Len(a)
      /\ DOMAIN g.samples = 1 .. Len(a)
  BY <1>1, <1>2, <1>5
<1>7. \A i \in 1 .. Len(t) - 1 : i + k \in 1 .. Len(a) /\ t[i] = a[i + k]
  <2> SUFFICES ASSUME NEW i \in 1 .. Len(t) - 1
               PROVE  i + k \in 1 .. Len(a) /\ t[i] = a[i + k]
    OBVIOUS
  <2>1. i + Len(a) + 1 - Len(t) = i + k
    BY <1>6
  <2>2. QED
    BY <1>5, <1>6, <2>1
<1>8. /\ still \in Ages(Window + ContactHold) /\ still' \in Ages(Window + ContactHold)
      /\ still' >= 0
      /\ p = pos /\ still # Unset => still' = Least(still + d, Window + ContactHold)
  BY EvidenceFacts DEF Types
<1>9. ASSUME NEW i \in 1 .. Len(t), \A j \in i .. Len(t) : t[j].pos = p, i < Len(t)
      PROVE  /\ still' >= t[i].age /\ still # Unset
             /\ still' = Least(still + d, Window + ContactHold)
  <2>1. i \in 1 .. Len(t) - 1 /\ Len(t) - 1 \in 1 .. Len(t) - 1
        /\ Len(t) - 1 \in i .. Len(t) /\ (Len(t) - 1) + k = Len(a)
    BY <1>6, <1>9
  <2>2. g.samples[Len(a)].pos = p /\ Len(a) \in DOMAIN g.samples
    <3>1. t[Len(t) - 1] = a[Len(a)] /\ t[Len(t) - 1].pos = p
      BY <1>7, <1>9, <2>1
    <3>2. Len(a) \in DOMAIN g.samples
      BY <1>6, <1>7, <2>1
    <3>3. QED
      BY <1>2, <3>1, <3>2
  <2>3. p = pos
    BY <1>2, <2>2 DEF Still
  <2>4. \A j \in i + k .. Len(a) : g.samples[j].pos = pos
    <3> SUFFICES ASSUME NEW j \in i + k .. Len(a) PROVE g.samples[j].pos = pos
      OBVIOUS
    <3>1. /\ j - k \in 1 .. Len(t) - 1 /\ j - k \in i .. Len(t) /\ (j - k) + k = j
          /\ j \in 1 .. Len(a)
      BY <1>6, <1>7, <2>1
    <3>2. t[j - k] = a[j] /\ t[j - k].pos = p
      BY <1>7, <1>9, <3>1
    <3>3. QED
      BY <1>2, <1>6, <2>3, <3>1, <3>2
  <2>5. i + k \in DOMAIN g.samples /\ t[i] = a[i + k]
    BY <1>6, <1>7, <2>1
  <2>6. still >= g.samples[i + k].age
    BY <1>2, <2>4, <2>5 DEF Still
  <2>7. g.samples[i + k].age \in 0 .. Window
    <3>1. g.samples[i + k] \in SampleRecord
      BY <1>1, <2>5
    <3>2. QED
      BY <3>1 DEF SampleRecord
  <2>8. still # Unset
    BY <1>8, <2>6, <2>7, Constants DEF Unset, Ages
  <2>9. still' = Least(still + d, Window + ContactHold)
    BY <1>8, <2>3, <2>8
  <2>10. t[i].age = Least(g.samples[i + k].age + d, Window)
    BY <1>2, <2>5
  <2>11. still' >= t[i].age
    <3>1. /\ still \in Nat /\ g.samples[i + k].age \in Nat
          /\ Window + ContactHold \in Nat /\ Window + ContactHold >= Window
      BY <1>8, <2>7, <2>8, Constants DEF Ages, Unset
    <3>2. Least(still + d, Window + ContactHold)
            >= Least(g.samples[i + k].age + d, Window)
      BY <1>1, <2>6, <3>1, Constants, LeastGrows
    <3>3. QED
      BY <2>9, <2>10, <3>2
  <2>12. QED
    BY <2>8, <2>9, <2>11
<1>10. ASSUME NEW i \in 1 .. Len(t), ~(i < Len(t))
       PROVE  still' >= t[i].age
  <2>1. i = Len(t)
    BY <1>6, <1>10
  <2>2. QED
    BY <1>3, <1>5, <1>8, <2>1
<1>11. QED
  BY <1>3, <1>5, <1>9, <1>10

\* What a cycle claims is true.
LEMMA CycleEvidence ==
  ASSUME Types, Evident, run \in Running, NEW d \in 1 .. MaxStep,
         NEW p \in Position, NEW tq \in Nat, NEW step \in 0 .. 1,
         Evidence(d, p, tq), NEW n, n = Prepared(Aged(g, d), p, tq, step)
  PROVE  /\ n.state = "MOVING" => Still(n, p, still') /\ Pressing(n, still', pressed')
         /\ n.state = "CONTACT" /\ g.state # "CONTACT" =>
              still' >= Window + ContactHold /\ pressed' >= ContactHold
<1> DEFINE a == Aged(g, d)
           t == Trimmed(Append(a.samples, [age |-> 0, pos |-> p]))
           Claims == (n.state = "MOVING" \/ (n.state = "CONTACT" /\ a.state # "CONTACT"))
                       /\ n.contact # Unset
<1>1. /\ g \in Record /\ Spread(g.samples) /\ d \in Nat /\ d >= 1
      /\ pressed \in Ages(ContactHold) /\ still \in Ages(Window + ContactHold)
  BY GripperAssumption DEF Types
<1>2. /\ a \in Record /\ SameCommand(g, a) /\ a.state = g.state
      /\ a.contact = Older(g.contact, d, ContactHold) /\ Spaced(a.samples, 1)
      /\ g.contact \in Ages(ContactHold)
  BY <1>1, AgedFacts, AgedSpread DEF Record
<1>3. /\ n \in Record /\ SameCommand(a, n)
      /\ n.state = "MOVING" =>
           n.samples = <<>> \/ (a.state = "MOVING" /\ a.requested > p /\ n.samples = t)
      /\ n.state = "CONTACT" /\ a.state # "CONTACT" =>
           n.contact # Unset /\ n.contact >= ContactHold
      /\ Claims =>
           /\ a.state = "MOVING" /\ a.requested > p /\ n.samples = t
           /\ Stalled(n) /\ tq >= ContactTorque(a.level)
           /\ n.contact = IF a.contact = Unset THEN 0 ELSE a.contact
  BY <1>2, PreparedFacts
<1>4. a.requested = g.requested /\ a.level = g.level
  BY <1>2 DEF SameCommand
<1>5. ASSUME g.state = "MOVING", g.requested > p
      PROVE  /\ t \in Seq(SampleRecord) /\ Len(t) >= 1 /\ t[Len(t)].pos = p
             /\ \A i \in 1 .. Len(t) :
                  (\A j \in i .. Len(t) : t[j].pos = p) =>
                    /\ still' >= t[i].age
                    /\ i < Len(t) =>
                         still # Unset /\ still' = Least(still + d, Window + ContactHold)
  <2>1. Still(g, pos, still)
    BY <1>5 DEF Evident
  <2>2. QED
    BY <1>5, <2>1, StillKept
<1> HIDE DEF a, t
<1>6. n.state = "MOVING" => Still(n, p, still')
  <2>1. CASE n.samples = <<>>
    BY <2>1 DEF Still
  <2>2. CASE n.state = "MOVING" /\ n.samples # <<>>
    <3>1. g.state = "MOVING" /\ g.requested > p /\ n.samples = t
      BY <1>2, <1>3, <1>4, <2>2
    <3>2. DOMAIN t = 1 .. Len(t)
      BY <1>5, <3>1
    <3>3. QED
      BY <1>5, <3>1, <3>2 DEF Still
  <2>3. QED
    BY <2>1, <2>2
<1>7. Claims => still' >= Window + n.contact /\ pressed' >= n.contact
  <2> SUFFICES ASSUME Claims
               PROVE  still' >= Window + n.contact /\ pressed' >= n.contact
    OBVIOUS
  <2>1. /\ g.state = "MOVING" /\ g.requested > p /\ n.samples = t
        /\ Stalled(n) /\ tq >= ContactTorque(g.level)
        /\ n.contact = IF a.contact = Unset THEN 0 ELSE a.contact
    BY <1>2, <1>3, <1>4
  <2>2. /\ Len(t) >= 2 /\ Len(t) \in Nat /\ t[1].age >= Window
        /\ \A i \in 1 .. Len(t) : t[i].pos = p
    <3>1. /\ Len(t) >= 2 /\ t[1].age >= Window
          /\ \A i, j \in 1 .. Len(t) : t[i].pos = t[j].pos
      BY <2>1 DEF Stalled
    <3>2. Len(t) \in Nat /\ t[Len(t)].pos = p
      BY <1>5, <2>1
    <3>3. QED
      BY <3>1, <3>2
  <2>3. /\ still' >= t[1].age /\ still # Unset
        /\ still' = Least(still + d, Window + ContactHold)
    <3>1. 1 \in 1 .. Len(t) /\ 1 < Len(t) /\ \A j \in 1 .. Len(t) : t[j].pos = p
      BY <2>2
    <3>2. QED
      BY <1>5, <2>1, <3>1
  <2>4. t[1].age \in 0 .. Window
    <3>1. t[1] \in SampleRecord
      BY <1>5, <2>1, <2>2
    <3>2. QED
      BY <3>1 DEF SampleRecord
  <2>5. /\ still' \in Ages(Window + ContactHold) /\ pressed' \in Ages(ContactHold)
        /\ pressed' >= 0
        /\ pressed # Unset => pressed' = Least(pressed + d, ContactHold)
    BY <2>1, EvidenceFacts
  <2>6. CASE a.contact = Unset
    <3>1. n.contact = 0
      BY <2>1, <2>6
    <3>2. QED
      BY <2>2, <2>3, <2>4, <2>5, <3>1, Constants DEF Ages
  <2>7. CASE a.contact # Unset
    <3>1. g.contact # Unset /\ g.contact \in 0 .. ContactHold
      BY <1>2, <2>7, Constants DEF Older, Ages, Unset
    <3>2. still >= Window + g.contact /\ pressed >= g.contact
      BY <2>1, <3>1 DEF Evident, Pressing
    <3>3. n.contact = Least(g.contact + d, ContactHold)
      BY <1>2, <2>1, <2>7, <3>1 DEF Older
    <3>4. pressed # Unset
      BY <1>1, <3>1, <3>2, Constants DEF Ages, Unset
    <3>5. still' >= Window + n.contact
      BY <1>1, <2>3, <3>1, <3>2, <3>3, Constants DEF Least, Ages
    <3>6. pressed' >= n.contact
      BY <1>1, <2>5, <3>1, <3>2, <3>3, <3>4, Constants DEF Least, Ages
    <3>7. QED
      BY <3>5, <3>6
  <2>8. QED
    BY <2>6, <2>7
<1>8. n.state = "MOVING" => Pressing(n, still', pressed')
  BY <1>7 DEF Pressing
<1>9. n.state = "CONTACT" /\ g.state # "CONTACT" =>
        still' >= Window + ContactHold /\ pressed' >= ContactHold
  <2> SUFFICES ASSUME n.state = "CONTACT", g.state # "CONTACT"
               PROVE  still' >= Window + ContactHold /\ pressed' >= ContactHold
    OBVIOUS
  <2>1. n.contact >= ContactHold /\ still' >= Window + n.contact /\ pressed' >= n.contact
    BY <1>2, <1>3, <1>7
  <2>2. /\ n.contact \in Ages(ContactHold)
        /\ still' \in Ages(Window + ContactHold) /\ pressed' \in Ages(ContactHold)
    BY <1>3, EvidenceFacts DEF Record
  <2>3. QED
    BY <2>1, <2>2, Constants DEF Ages, Unset
<1>10. QED
  BY <1>6, <1>8, <1>9

-----------------------------------------------------------------------------
(* The steps of the worker, and the stops *)

\* A gripper fault seen by a cycle.
LEMMA FaultStep ==
  ASSUME Inv, GripperFault
  PROVE  Inv'
<1>1. Types /\ g \in Record /\ run \in Running /\ worker = Idle
  BY DEF Inv, Types, GripperFault, CycleDue
<1>2. /\ UNCHANGED <<run, safe, pos, status, estop, recovery, overtaken, still,
                     pressed, scenario>>
      /\ g' = [g EXCEPT !.state = "FAULT", !.fault = TRUE]
      /\ worker' \in Threads /\ worker'.pc = "prepare"
  BY ThreadFacts DEF GripperFault, evidence, Stops
<1>3. g' \in Record
  BY <1>1, <1>2 DEF Record, States
<1>4. /\ SameCommand(g, g') /\ g'.samples = g.samples /\ g'.state = "FAULT"
      /\ g'.retreat = g.retreat /\ g'.command = g.command
  BY <1>1, <1>2, <1>3 DEF Record, SameCommand
<1>5. Types'
  BY <1>1, <1>2, <1>3, <1>4 DEF Types
<1>6. Protection(g') => Protection(g)
  BY <1>4 DEF SameCommand, Protection
<1>7. Gentle' /\ Frozen' /\ Overrun'
  BY <1>2, <1>6 DEF Inv, Gentle, GentleOutputs, Frozen, Overrun, Inputs, Holding
<1>8. Retreating' /\ Evident'
  BY <1>2, <1>4 DEF Inv, Retreating, Evident, AtRetreat
<1>9. QED
  BY <1>5, <1>7, <1>8 DEF Inv

LEMMA OutputFacts ==
  ASSUME NEW m \in Record
  PROVE  FrameOf(m) \in Frames
<1>1. m.command \in Position
  BY DEF Record
<1>2. QED
  BY <1>1, FrameFacts DEF FrameOf

LEMMA CycleStep ==
  ASSUME Inv, GripperCycle
  PROVE  Inv'
<1>1. Types /\ g \in Record /\ Spread(g.samples) /\ Torques \subseteq Nat
  BY Ranges DEF Inv, Types
<1>2. PICK d \in 1 .. MaxStep, p \in Position, tq \in Torques, step \in 0 .. 1 :
        /\ Feedback(p, tq) /\ Evidence(d, p, tq)
        /\ g' = Prepared(Aged(g, d), p, tq, step)
  BY DEF GripperCycle
<1>3. /\ UNCHANGED <<run, status, estop, recovery, scenario>> /\ pos' = p
      /\ run \in Running /\ run \notin Stops /\ worker = Idle /\ tq \in Nat
  BY <1>1, <1>2 DEF GripperCycle, CycleDue, Feedback, Running, Stops
<1> DEFINE a == Aged(g, d)
           m == Prepared(a, p, tq, step)
<1>4. /\ a \in Record /\ SameCommand(g, a) /\ a.retreat = g.retreat
      /\ a.state = g.state /\ a.command = g.command /\ Spaced(a.samples, 1)
  BY <1>1, AgedFacts, AgedSpread
<1>5. /\ m \in Record /\ SameCommand(a, m) /\ Spread(m.samples)
      /\ AtRetreat(a) => AtRetreat(m)
  BY <1>3, <1>4, PreparedFacts
<1>6. /\ still' \in Ages(Window + ContactHold) /\ pressed' \in Ages(ContactHold)
  BY <1>1, <1>2, <1>3, EvidenceFacts
<1>7. m.state = "MOVING" => Still(m, p, still') /\ Pressing(m, still', pressed')
  BY <1>1, <1>2, <1>3, CycleEvidence DEF Inv
<1>8. SameCommand(g, m)
  BY <1>4, <1>5 DEF SameCommand
<1>9. g' = m
  BY <1>2
<1> HIDE DEF m, a
<1>10. /\ safe' \in Frames /\ worker' \in Threads
       /\ worker'.pc \in {"idle", "prepare"}
       /\ ~overtaken' => ~overtaken
       /\ ~overtaken' /\ safe' # safe => estop.pc # "set"
  <2>1. CASE Committed(FrameOf(g')) /\ UNCHANGED worker
    BY <1>1, <1>3, <1>5, <1>9, <2>1, OutputFacts, ThreadFacts DEF Committed
  <2>2. CASE UNCHANGED <<safe, overtaken>>
             /\ \E t \in {"SAFE_STOP", "FAULT"} : worker' = Stopping(t)
    <3>1. worker' \in {Stopping("SAFE_STOP"), Stopping("FAULT")}
      BY <2>2
    <3>2. QED
      BY <1>1, <2>2, <3>1, ThreadFacts DEF Types
  <2>3. QED
    BY <2>1, <2>2 DEF GripperCycle
<1>11. Types'
  BY <1>1, <1>3, <1>5, <1>6, <1>9, <1>10 DEF Types
<1>12. Protection(g') => Protection(g)
  BY <1>8, <1>9 DEF SameCommand, Protection
<1>13. Gentle' /\ Frozen' /\ Overrun'
  BY <1>3, <1>10, <1>12
  DEF Inv, Gentle, GentleOutputs, Frozen, Overrun, Inputs, Holding
<1>14. Retreating'
  BY <1>3, <1>4, <1>5, <1>9 DEF Inv, Retreating, AtRetreat
<1>15. Evident'
  BY <1>3, <1>7, <1>9 DEF Evident
<1>16. QED
  BY <1>11, <1>13, <1>14, <1>15 DEF Inv

\* Time passes without a report.
LEMMA QuietFacts ==
  ASSUME Types, NEW d \in 1 .. MaxStep, NoEvidence(d)
  PROVE  /\ still' \in Ages(Window + ContactHold) /\ pressed' \in Ages(ContactHold)
         /\ still # Unset => still' = Least(still + d, Window + ContactHold)
         /\ pressed # Unset => pressed' = Least(pressed + d, ContactHold)
<1>1. /\ d \in Nat /\ still \in Ages(Window + ContactHold)
      /\ pressed \in Ages(ContactHold) /\ Window + ContactHold \in Nat
      /\ ContactHold \in Nat
  BY GripperAssumption, Constants DEF Types
<1>2. /\ still' = Older(still, d, Window + ContactHold)
      /\ pressed' = Older(pressed, d, ContactHold)
  BY DEF NoEvidence
<1>3. QED
  BY <1>1, <1>2, OlderType DEF Older

LEMMA MissingStep ==
  ASSUME Inv, MissingFeedback
  PROVE  Inv'
<1>1. /\ Types /\ g \in Record /\ Spread(g.samples)
      /\ still \in Ages(Window + ContactHold) /\ pressed \in Ages(ContactHold)
      /\ g.samples \in Seq(SampleRecord) /\ g.contact \in Ages(ContactHold)
  BY Ranges DEF Inv, Types, Record
<1>2. PICK d \in 1 .. MaxStep : g' = Aged(g, d) /\ NoEvidence(d)
  BY DEF MissingFeedback
<1>3. /\ UNCHANGED <<run, safe, pos, status, estop, recovery, overtaken, scenario>>
      /\ run \in Running /\ run \notin Stops /\ d \in Nat /\ d >= 1
      /\ worker' \in Threads /\ worker'.pc \in {"idle", "resend"}
  <2>1. worker' = Idle \/ worker' = [Idle EXCEPT !.pc = "resend", !.frame = safe]
    BY DEF MissingFeedback
  <2>2. worker' \in Threads /\ worker'.pc \in {"idle", "resend"}
    BY <1>1, <2>1, ThreadFacts DEF Types, Idle, Threads
  <2>3. QED
    BY <2>2, GripperAssumption DEF MissingFeedback, CycleDue, Running, Stops
<1>4. /\ g' \in Record /\ SameCommand(g, g') /\ Spread(g'.samples)
      /\ g'.state = g.state /\ g'.command = g.command /\ g'.retreat = g.retreat
      /\ g'.contact = Older(g.contact, d, ContactHold)
      /\ Len(g'.samples) = Len(g.samples)
      /\ \A i \in DOMAIN g.samples :
           /\ g'.samples[i].age = Least(g.samples[i].age + d, Window)
           /\ g'.samples[i].pos = g.samples[i].pos
  BY <1>1, <1>2, AgedFacts, AgedSpread
<1>5. /\ still' \in Ages(Window + ContactHold) /\ pressed' \in Ages(ContactHold)
      /\ still # Unset => still' = Least(still + d, Window + ContactHold)
      /\ pressed # Unset => pressed' = Least(pressed + d, ContactHold)
  BY <1>1, <1>2, QuietFacts
<1>6. Types'
  BY <1>1, <1>3, <1>4, <1>5 DEF Types
<1>7. Protection(g') => Protection(g)
  BY <1>4 DEF SameCommand, Protection
<1>8. Gentle' /\ Frozen' /\ Overrun'
  BY <1>3, <1>7 DEF Inv, Gentle, GentleOutputs, Frozen, Overrun, Inputs, Holding
<1>9. Retreating'
  BY <1>3, <1>4 DEF Inv, Retreating, AtRetreat
<1>10. ASSUME g.state = "MOVING"
       PROVE  Still(g', pos, still') /\ Pressing(g', still', pressed')
  <2>1. Still(g, pos, still) /\ Pressing(g, still, pressed)
    BY <1>3, <1>10 DEF Inv, Evident
  <2>2. /\ DOMAIN g.samples = 1 .. Len(g.samples) /\ Len(g.samples) \in Nat
        /\ DOMAIN g'.samples = 1 .. Len(g.samples)
        /\ g'.samples \in Seq(SampleRecord)
    BY <1>1, <1>4 DEF Record
  <2>3. ASSUME NEW i \in DOMAIN g'.samples,
               \A j \in i .. Len(g'.samples) : g'.samples[j].pos = pos
        PROVE  still' >= g'.samples[i].age
    <3>1. i \in DOMAIN g.samples /\ \A j \in i .. Len(g.samples) : j \in DOMAIN g.samples
      BY <2>2
    <3>2. still >= g.samples[i].age
      BY <1>4, <2>1, <2>3, <3>1 DEF Still
    <3>3. g.samples[i].age \in Nat
      <4>1. g.samples[i] \in SampleRecord
        BY <1>1, <3>1
      <4>2. QED
        BY <4>1, Constants DEF SampleRecord
    <3>4. still # Unset /\ still \in Nat /\ Window + ContactHold \in Nat
          /\ Window + ContactHold >= Window
      BY <1>1, <3>2, <3>3, Constants DEF Ages, Unset
    <3>5. Least(still + d, Window + ContactHold) >= Least(g.samples[i].age + d, Window)
      BY <1>3, <3>2, <3>3, <3>4, Constants, LeastGrows
    <3>6. QED
      BY <1>4, <1>5, <3>1, <3>4, <3>5
  <2>4. g'.samples # <<>> => g'.samples[Len(g'.samples)].pos = pos
    <3> SUFFICES ASSUME g'.samples # <<>>
                 PROVE  g'.samples[Len(g'.samples)].pos = pos
      OBVIOUS
    <3>1. Len(g.samples) \in DOMAIN g.samples /\ g.samples # <<>>
      BY <1>1, <1>4, <2>2
    <3>2. QED
      BY <1>4, <2>1, <3>1 DEF Still
  <2>5. Pressing(g', still', pressed')
    <3> SUFFICES ASSUME g'.contact # Unset
                 PROVE  still' >= Window + g'.contact /\ pressed' >= g'.contact
      BY DEF Pressing
    <3>1. /\ g.contact \in Nat /\ g.contact <= ContactHold
          /\ g'.contact = Least(g.contact + d, ContactHold)
          /\ still >= Window + g.contact /\ pressed >= g.contact
      BY <1>1, <1>4, <2>1, Constants DEF Older, Ages, Unset, Pressing
    <3>2. still # Unset /\ pressed # Unset
      BY <1>1, <3>1, Constants DEF Ages, Unset
    <3>3. QED
      BY <1>1, <1>3, <1>5, <3>1, <3>2, Constants DEF Least, Ages
  <2>6. QED
    BY <2>3, <2>4, <2>5 DEF Still
<1>11. Evident'
  BY <1>3, <1>4, <1>10 DEF Evident
<1>12. QED
  BY <1>6, <1>8, <1>9, <1>11 DEF Inv

\* HoldOutput without what it says of other threads.
Sends(f) ==
  \E d \in 1 .. MaxStep :
    \/ safe' = f /\ g' = Aged(g, d) /\ UNCHANGED <<pos, overtaken>>
    \/ /\ safe' = NoFrame /\ UNCHANGED <<pos, overtaken>>
       /\ g' = [Aged(g, d) EXCEPT !.state = "FAULT", !.fault = TRUE]
    \/ \E p \in Position, tq \in Torques :
         /\ Feedback(p, tq) /\ g' = Held(Aged(g, d), p, tq)
         /\ safe' = HeldFrame(g', f)

\* A hold cycle keeps what the command says, and whatever it sends is either
\* the copy it was given or an output with the holding gains.
LEMMA HoldFacts ==
  ASSUME Types, NEW f \in Frames, f # NoFrame, Sends(f)
  PROVE  /\ g' \in Record /\ SameCommand(g, g') /\ Spread(g'.samples)
         /\ g.samples = <<>> => g'.samples = <<>>
         /\ g.contact = Unset => g'.contact = Unset
         /\ g'.state \in {g.state, "HOLDING", "OVERLOAD_RETREAT", "FAULT"}
         /\ OverloadHold # 0 /\ g.overload = Unset => g'.retreat = g.retreat
         /\ safe' \in Frames
         /\ Protection(g') => safe' = f \/ safe'.gain # "moving"
         /\ Protection(g') /\ overtaken /\ ~overtaken' => safe'.gain # "moving"
         /\ pos' \in Position
<1>1. /\ g \in Record /\ Spread(g.samples) /\ pos \in Position
      /\ g.samples \in Seq(SampleRecord) /\ Torques \subseteq Nat
  BY Ranges DEF Types
<1>2. PICK d \in 1 .. MaxStep :
        \/ /\ safe' = f /\ g' = Aged(g, d)
           /\ UNCHANGED <<pos, overtaken>>
        \/ /\ safe' = NoFrame
           /\ g' = [Aged(g, d) EXCEPT !.state = "FAULT", !.fault = TRUE]
           /\ UNCHANGED <<pos, overtaken>>
        \/ \E p \in Position, tq \in Torques :
             /\ Feedback(p, tq)
             /\ g' = Held(Aged(g, d), p, tq)
             /\ safe' = HeldFrame(g', f)
  BY DEF Sends
<1> DEFINE a == Aged(g, d)
<1>3. /\ a \in Record /\ SameCommand(g, a) /\ a.state = g.state
      /\ a.retreat = g.retreat /\ Spread(a.samples) /\ a.samples \in Seq(SampleRecord)
      /\ Len(a.samples) = Len(g.samples)
      /\ a.contact = Older(g.contact, d, ContactHold)
      /\ a.overload = Older(g.overload, d, OverloadHold)
  BY <1>1, AgedFacts, AgedSpread DEF Record
<1>4. /\ g.samples = <<>> => a.samples = <<>>
      /\ g.contact = Unset => a.contact = Unset
      /\ g.overload = Unset => a.overload = Unset
  BY <1>1, <1>3 DEF Older
<1> HIDE DEF a
<1>5. CASE /\ safe' = f /\ g' = a /\ UNCHANGED <<pos, overtaken>>
  BY <1>1, <1>3, <1>4, <1>5
<1>6. CASE /\ safe' = NoFrame /\ UNCHANGED <<pos, overtaken>>
           /\ g' = [a EXCEPT !.state = "FAULT", !.fault = TRUE]
  <2>1. g' \in Record
    BY <1>3, <1>6 DEF Record, States
  <2>2. /\ SameCommand(g, g') /\ g'.samples = a.samples /\ g'.contact = a.contact
        /\ g'.state = "FAULT" /\ g'.retreat = a.retreat
    BY <1>3, <1>6, <2>1 DEF Record, SameCommand
  <2>3. QED
    BY <1>1, <1>3, <1>4, <1>6, <2>1, <2>2, FrameFacts
<1>7. CASE \E p \in Position, tq \in Torques :
             /\ Feedback(p, tq)
             /\ g' = Held(a, p, tq) /\ safe' = HeldFrame(g', f)
  <2>1. PICK p \in Position, tq \in Nat :
          /\ Feedback(p, tq)
          /\ g' = Held(a, p, tq) /\ safe' = HeldFrame(g', f)
    BY <1>1, <1>7
  <2>2. /\ g' \in Record /\ SameCommand(a, g') /\ g'.samples = a.samples
        /\ g'.contact = a.contact
        /\ g'.state \in {a.state, "HOLDING", "OVERLOAD_RETREAT"}
        /\ OverloadHold # 0 /\ a.overload = Unset => g'.retreat = a.retreat
    BY <1>3, <2>1, HeldFacts
  <2>3. safe' \in Frames /\ (Protection(g') => safe'.gain # "moving")
    <3>1. /\ g'.retreat \in Position \cup {NoPos} /\ f.pos \in Position
          /\ g'.protective \in Position \cup {NoPos}
      BY <1>1, <2>2, FrameFacts DEF Record
    <3>2. PICK q \in Position, k \in {"moving", "holding"} :
            /\ safe' = [pos |-> q, gain |-> k]
            /\ k = IF Protection(g') THEN "holding" ELSE "moving"
      BY <2>1, <3>1 DEF HeldFrame
    <3>3. QED
      BY <3>2, FrameFacts
  <2>4. SameCommand(g, g')
    BY <1>3, <2>2 DEF SameCommand
  <2>5. pos' \in Position
    BY <2>1 DEF Feedback
  <2>6. QED
    BY <1>3, <1>4, <2>2, <2>3, <2>4, <2>5
<1>8. QED
  BY <1>2, <1>5, <1>6, <1>7 DEF a

LEMMA HoldSendStep ==
  ASSUME Inv, HoldSend
  PROVE  Inv'
<1>1. /\ Types /\ worker.pc = "send" /\ worker' = Idle /\ Sends(worker.frame)
      /\ overtaken /\ ~overtaken' => estop.pc # "send"
      /\ worker.frame \in Frames /\ worker.frame # NoFrame
      /\ UNCHANGED <<run, status, estop, recovery, still, pressed, scenario>>
  <2>1. Sends(worker.frame)
    BY DEF HoldSend, HoldOutput, Sends
  <2>2. overtaken /\ ~overtaken' => estop.pc # "send"
    BY DEF HoldSend, HoldOutput
  <2>3. QED
    BY <2>1, <2>2, Ranges DEF Inv, Types, HoldSend, evidence
<1>2. /\ g' \in Record /\ SameCommand(g, g') /\ Spread(g'.samples)
      /\ g.samples = <<>> => g'.samples = <<>>
      /\ g.contact = Unset => g'.contact = Unset
      /\ OverloadHold # 0 /\ g.overload = Unset => g'.retreat = g.retreat
      /\ safe' \in Frames
      /\ Protection(g') => safe' = worker.frame \/ safe'.gain # "moving"
      /\ Protection(g') /\ overtaken /\ ~overtaken' => safe'.gain # "moving"
      /\ pos' \in Position
  BY <1>1, HoldFacts
<1>3. worker' \in Threads /\ worker'.pc = "idle"
  BY <1>1, ThreadFacts
<1>4. Types'
  BY <1>1, <1>2, <1>3 DEF Types
<1>5. Protection(g') => Protection(g)
  BY <1>2 DEF SameCommand, Protection
<1>6. Gentle' /\ Frozen' /\ Overrun'
  BY <1>1, <1>2, <1>3, <1>5
  DEF Inv, Gentle, GentleOutputs, Frozen, Overrun, Inputs, Holding
<1>7. run \in Running =>
        /\ g'.samples = <<>> /\ g'.contact = Unset
        /\ OverloadHold # 0 => g'.retreat = NoPos
  BY <1>1, <1>2 DEF Inv, Overrun, Holding
<1>8. Retreating'
  BY <1>1, <1>7 DEF Retreating, AtRetreat
<1>9. Evident'
  BY <1>1, <1>7, NothingClaimed DEF Evident
<1>10. QED
  BY <1>4, <1>6, <1>8, <1>9 DEF Inv

\* The first hold of an emergency stop.
LEMMA EstopSendStep ==
  ASSUME Inv, EstopSend
  PROVE  Inv'
<1>1. /\ Types /\ estop.pc = "send" /\ estop' = Latched /\ Sends(estop.frame)
      /\ overtaken /\ ~overtaken' => worker.pc \notin {"send", "write"}
      /\ estop.frame \in Frames /\ estop.frame # NoFrame
      /\ UNCHANGED <<run, status, worker, recovery, still, pressed, scenario>>
      /\ run = "FAULT"
  <2>1. Sends(estop.frame)
    BY DEF EstopSend, HoldOutput, Sends
  <2>2. overtaken /\ ~overtaken' => worker.pc \notin {"send", "write"}
    BY DEF EstopSend, HoldOutput
  <2>3. QED
    BY <2>1, <2>2, Ranges DEF Inv, Types, Frozen, Holding, EstopSend, evidence
<1>2. /\ g' \in Record /\ SameCommand(g, g') /\ Spread(g'.samples)
      /\ safe' \in Frames
      /\ Protection(g') => safe' = estop.frame \/ safe'.gain # "moving"
      /\ Protection(g') /\ overtaken /\ ~overtaken' => safe'.gain # "moving"
      /\ pos' \in Position
  BY <1>1, HoldFacts
<1>3. estop' \in Threads /\ estop'.pc = "latched"
  BY <1>1, ThreadFacts
<1>4. Types'
  BY <1>1, <1>2, <1>3 DEF Types
<1>5. Protection(g') => Protection(g)
  BY <1>2 DEF SameCommand, Protection
<1>6. Gentle' /\ Frozen'
  BY <1>1, <1>2, <1>3, <1>5
  DEF Inv, Gentle, GentleOutputs, Frozen, Inputs, Holding, Stops, Running
<1>7. QED
  BY <1>1, <1>4, <1>6, StoppedOnly DEF Stops

-----------------------------------------------------------------------------
(* The theorems *)

LEMMA InitInv ==
  ASSUME Init
  PROVE  Inv
<1>1. /\ run = "ENABLED" /\ pos = 0 /\ status = "on" /\ scenario \in Scenarios
      /\ g = Seeded(Fresh, pos) /\ safe = [pos |-> pos, gain |-> "holding"]
      /\ worker = Idle /\ estop = Idle /\ recovery = "none"
      /\ still = Unset /\ pressed = Unset
  BY DEF Init
<1>2. /\ g \in Record /\ g.state = "IDLE" /\ g.retreat = NoPos
      /\ g.samples = <<>>
  BY <1>1, FreshType, SeededFacts, Constants
<1>3. Spread(g.samples)
  BY <1>2, Constants DEF Spread, Spaced
<1>4. still \in Ages(Window + ContactHold) /\ pressed \in Ages(ContactHold)
  BY <1>1, Constants DEF Ages, Unset
<1>5. worker \in Threads /\ worker.pc = "idle" /\ estop \in Threads /\ estop.pc = "idle"
  BY <1>1, ThreadFacts
<1>6. safe \in Frames /\ pos \in Position
  BY <1>1, Constants, FrameFacts
<1>7. Types
  BY <1>1, <1>2, <1>3, <1>4, <1>5, <1>6 DEF Types, Running
<1>8. Gentle /\ Frozen /\ Overrun /\ Retreating /\ Evident
  BY <1>1, <1>2, <1>5 DEF Gentle, GentleOutputs, Frozen, Overrun, Retreating, Evident,
                          AtRetreat, Stops, Holding
<1>9. QED
  BY <1>7, <1>8 DEF Inv

LEMMA NextInv ==
  ASSUME Inv, [Next]_vars
  PROVE  Inv'
<1>1. CASE UNCHANGED vars
  BY <1>1 DEF vars, Inv, Types, Gentle, GentleOutputs, Frozen, Overrun, Retreating, Evident,
              Inputs, Protection, AtRetreat, Still, Pressing
<1>2. CASE Next
  BY <1>2, CommandStep, PlainSteps, PrepareSteps, SetSteps, FreezeStep, RecoverSteps,
     FaultStep, CycleStep, MissingStep, HoldSendStep, EstopSendStep
  DEF Next, Worker
<1>3. QED
  BY <1>1, <1>2

LEMMA AlwaysInv == Spec => []Inv
  BY InitInv, NextInv, PTL DEF Spec


\* Every target and output stays inside the travel, every timer below its
\* bound and the samples inside the window; and in a protective stop a
\* protected gripper is held with the holding gains, whatever copy of the last
\* output the worker carried across its two locks, unless a control cycle or a
\* command came between the hold a stop prepared and the state it set, and
\* even then only until a hold cycle with fresh feedback while no other thread
\* carries a copy
\* (prepare_protective_hold, enter_safe_stop, enter_fault, estop,
\* commit_gripper_commands_sent, send_gripper_hold_once).
THEOREM HeldWithHoldingGains == Spec => []HeldGently
<1>1. Inv => HeldGently
  <2> SUFFICES ASSUME Inv PROVE HeldGently
    OBVIOUS
  <2>1. Types /\ worker.frame \in Frames /\ estop.frame \in Frames /\ Len(g.samples) <= Window + 1 /\ g \in Record
    BY Ranges DEF Inv, Types, Spread
  <2>2. TypeOK
    BY <2>1 DEF Types, TypeOK, Record, States, Stops
  <2>3. run \in Stops /\ Protection(g) /\ ~overtaken /\ "recover" \notin Inputs =>
          safe.gain # "moving"
    BY DEF Inv, Gentle, GentleOutputs
  <2>4. QED
    BY <2>2, <2>3 DEF HeldGently, Stops
<1>2. QED
  BY <1>1, AlwaysInv, PTL

\* What a cycle does to the retreat and to the contact.
LEMMA CycleOutcome ==
  ASSUME Inv, GripperCycle
  PROVE  /\ AtRetreat(g) /\ g.retreat # NoPos /\ g'.retreat # NoPos =>
              g'.command = g'.retreat /\ g'.retreat <= g.retreat
         /\ g'.state = "CONTACT" /\ g.state # "CONTACT" =>
              still' >= Window + ContactHold /\ pressed' >= ContactHold
<1>1. Types /\ Evident /\ g \in Record /\ Spread(g.samples) /\ Torques \subseteq Nat
      /\ safe \in Frames /\ run \in Running
  BY Ranges DEF Inv, Types, GripperCycle, CycleDue
<1>2. PICK d \in 1 .. MaxStep, p \in Position, tq \in Nat, step \in 0 .. 1 :
        Evidence(d, p, tq) /\ g' = Prepared(Aged(g, d), p, tq, step)
  BY <1>1 DEF GripperCycle
<1> DEFINE a == Aged(g, d)
           m == Prepared(a, p, tq, step)
<1>3. /\ a \in Record /\ a.state = g.state /\ a.command = g.command
      /\ a.retreat = g.retreat /\ Spaced(a.samples, 1)
  BY <1>1, AgedFacts, AgedSpread
<1>4. /\ m \in Record
      /\ AtRetreat(a) =>
           /\ AtRetreat(m)
           /\ a.retreat # NoPos /\ m.retreat # NoPos => m.retreat <= a.retreat
  BY <1>3, PreparedFacts
<1>5. m.state = "CONTACT" /\ g.state # "CONTACT" =>
        still' >= Window + ContactHold /\ pressed' >= ContactHold
  BY <1>1, <1>2, CycleEvidence
<1> HIDE DEF a, m
<1>6. g' = m
  BY <1>2 DEF m, a
<1>7. QED
  BY <1>3, <1>4, <1>5, <1>6 DEF AtRetreat

\* A stop outside a cycle leaves the retreat and the command alone.
LEMMA StopOutcome ==
  ASSUME Inv, GripperFault \/ WorkerSet \/ EstopSet
  PROVE  /\ g'.command = g.command /\ g'.retreat = g.retreat
         /\ g'.state = "CONTACT" => g.state = "CONTACT"
<1>1. g \in Record
  BY DEF Inv, Types
<1>2. CASE GripperFault
  <2>1. g' = [g EXCEPT !.state = "FAULT", !.fault = TRUE]
    BY <1>2 DEF GripperFault
  <2>2. QED
    BY <1>1, <2>1 DEF Record
<1>3. CASE Faulted
  BY <1>1, <1>3, FaultedFacts
<1>4. CASE UNCHANGED g
  BY <1>4
<1>5. QED
  BY <1>2, <1>3, <1>4 DEF WorkerSet, EstopSet

\* A command, and a cycle without feedback.
LEMMA OtherOutcome ==
  ASSUME Inv, SetGripperCommand \/ MissingFeedback
  PROVE  /\ g'.command = g.command /\ g'.retreat \in {g.retreat, NoPos}
         /\ g'.state = "CONTACT" => g.state = "CONTACT"
<1>1. Types /\ g \in Record
  BY DEF Inv, Types
<1>2. CASE SetGripperCommand
  <2>1. PICK p \in Position, l \in Nat, k \in {"PROTECTED", "DIRECT"} :
          g' = Commanded(g, p, l, k)
    BY <1>1, <1>2, Ranges DEF SetGripperCommand
  <2>2. QED
    BY <1>1, <2>1, CommandedFacts
<1>3. CASE MissingFeedback
  <2>1. PICK d \in 1 .. MaxStep : g' = Aged(g, d)
    BY <1>3 DEF MissingFeedback
  <2>2. QED
    BY <1>1, <2>1, AgedFacts
<1>4. QED
  BY <1>2, <1>3

\* Once an overload made the gripper retreat, no step of a running product
\* commands it to close past that point again, and a further retreat opens
\* further (update_overload starts from the last retreat).  The overload hold
\* is positive (50 ms in the built-in profile): without one, a hold cycle that
\* a recover() overtook could set a retreat the command does not follow.
THEOREM RetreatOnlyOpens ==
  ASSUME OverloadHold # 0
  PROVE  Spec => RetreatOpens
<1> DEFINE P == (run \in Running /\ g.retreat # NoPos /\ g'.retreat # NoPos)
                  => (g'.command <= g.retreat /\ g'.retreat <= g.retreat)
<1>1. Inv /\ [Next]_vars => [P]_vars
  <2> SUFFICES ASSUME Inv, Next, run \in Running, g.retreat # NoPos, g'.retreat # NoPos
               PROVE  g'.command <= g.retreat /\ g'.retreat <= g.retreat
    OBVIOUS
  <2>1. AtRetreat(g) /\ g \in Record /\ run # "FAULT" /\ g.retreat \in Int
        /\ g.command = g.retreat
    BY Constants DEF Inv, Types, Retreating, Running, Record, AtRetreat, Position, NoPos
  <2>2. CASE GripperCycle
    <3>1. g'.command = g'.retreat /\ g'.retreat <= g.retreat
      BY <2>1, <2>2, CycleOutcome
    <3>2. QED
      BY <3>1
  <2>3. CASE GripperFault \/ WorkerSet \/ EstopSet
    BY <2>1, <2>3, StopOutcome
  <2>4. CASE SetGripperCommand \/ MissingFeedback
    BY <2>1, <2>4, OtherOutcome
  <2>5. CASE \/ HoldBegin \/ HoldSnapshot \/ Degrade \/ MotorFault \/ RecoverFreeze
             \/ Resend \/ WorkerStop \/ WorkerPrepare \/ WorkerWrite
             \/ EstopBegin \/ EstopPrepare \/ EstopWrite \/ EstopSnapshot
    BY <2>1, <2>5
    DEF HoldBegin, HoldSnapshot, Degrade, MotorFault, RecoverFreeze, Resend, WorkerStop,
        WorkerPrepare, WorkerWrite, EstopBegin, EstopPrepare, EstopWrite, EstopSnapshot
  <2>6. CASE HoldSend \/ EstopSend
    BY <2>1, <2>6 DEF Inv, Overrun, Frozen, HoldSend, EstopSend, Holding
  <2>7. CASE RecoverClear \/ RecoverDisable \/ RecoverEnable
    BY <2>1, <2>7 DEF Inv, Frozen, RecoverClear, RecoverDisable, RecoverEnable
  <2>8. QED
    BY <2>2, <2>3, <2>4, <2>5, <2>6, <2>7 DEF Next, Worker
<1>2. QED
  BY <1>1, AlwaysInv, PTL DEF Spec, RetreatOpens

\* A contact is declared only when the gripper has stood still for the motion
\* window and the contact hold together, with the contact torque of the
\* strength in force during the whole hold: the timers and samples of
\* prepare_gripper_commands_locked never claim more than happened.
THEOREM ContactIsReal == Spec => ContactEvidence
<1> DEFINE P == (g'.state = "CONTACT" /\ g.state # "CONTACT")
                  => (still' >= Window + ContactHold /\ pressed' >= ContactHold)
<1>1. Inv /\ [Next]_vars => [P]_vars
  <2> SUFFICES ASSUME Inv, Next, g'.state = "CONTACT", g.state # "CONTACT"
               PROVE  still' >= Window + ContactHold /\ pressed' >= ContactHold
    OBVIOUS
  <2>1. Types /\ g \in Record /\ pos \in Position
    BY DEF Inv, Types
  <2>2. CASE GripperCycle
    BY <2>2, CycleOutcome
  <2>3. ~(GripperFault \/ WorkerSet \/ EstopSet)
    BY StopOutcome
  <2>4. ~(SetGripperCommand \/ MissingFeedback)
    BY OtherOutcome
  <2>5. ~(\/ HoldBegin \/ HoldSnapshot \/ Degrade \/ MotorFault \/ RecoverFreeze
          \/ RecoverClear \/ Resend \/ WorkerStop \/ WorkerPrepare \/ WorkerWrite
          \/ EstopBegin \/ EstopPrepare \/ EstopWrite \/ EstopSnapshot)
    BY DEF HoldBegin, HoldSnapshot, Degrade, MotorFault, RecoverFreeze, RecoverClear,
           Resend, WorkerStop, WorkerPrepare, WorkerWrite, EstopBegin, EstopPrepare,
           EstopWrite, EstopSnapshot
  <2>6. ~(HoldSend \/ EstopSend)
    <3>1. HoldSend => Sends(worker.frame) /\ worker.frame # NoFrame
      BY <2>1 DEF HoldSend, HoldOutput, Sends, Types
    <3>2. EstopSend => Sends(estop.frame) /\ estop.frame # NoFrame
      BY <2>1 DEF EstopSend, HoldOutput, Sends, Types
    <3>3. worker.frame \in Frames /\ estop.frame \in Frames
      BY <2>1, Ranges
    <3>4. HoldSend \/ EstopSend =>
            g'.state \in {g.state, "HOLDING", "OVERLOAD_RETREAT", "FAULT"}
      BY <2>1, <3>1, <3>2, <3>3, HoldFacts
    <3>5. QED
      BY <3>4
  <2>7. ~RecoverDisable
    <3>1. RecoverDisable => g' = [g EXCEPT !.state = "DISABLED"]
      BY DEF RecoverDisable
    <3>2. QED
      BY <2>1, <3>1 DEF Record
  <2>8. ~RecoverEnable
    <3>1. RecoverEnable => g' = Seeded(g, pos)
      BY DEF RecoverEnable
    <3>2. Seeded(g, pos).state = "IDLE"
      BY <2>1, SeededFacts
    <3>3. QED
      BY <3>1, <3>2
  <2>9. QED
    BY <2>2, <2>3, <2>4, <2>5, <2>6, <2>7, <2>8 DEF Next, Worker
<1>2. QED
  BY <1>1, AlwaysInv, PTL DEF Spec, ContactEvidence

=============================================================================
