-------------------------- MODULE MotorLayerProofs --------------------------
(***************************************************************************)
(* Theorems about the motor layer, for every register content, number of   *)
(* retries, motor table and length of the queues: what a register call     *)
(* reports is what the motor holds, and the motors a controller reports    *)
(* present have answered.                                                  *)
(***************************************************************************)
EXTENDS MCMotorLayer, ControllerGroupProofs

-----------------------------------------------------------------------------
(* Register transactions *)

\* Nothing under way could change or contradict the value v of the register.
Quiet(v) ==
  /\ reg = v
  /\ \A i \in DOMAIN up : up[i].val = v
  /\ \A i \in DOMAIN down : down[i].kind = "write" => down[i].val = v

\* In the order in which frames pass the motor, everything that comes after
\* the first v is a v: first the answers, then the register, then the writes.
Ordered(v) ==
  /\ \A i \in DOMAIN up : up[i].val = v =>
       reg = v /\ \A j \in DOMAIN up : i < j => up[j].val = v
  /\ reg = v => \A i \in DOMAIN down : down[i].kind = "write" => down[i].val = v
  /\ \A i, j \in DOMAIN down :
       i < j /\ down[i].kind = "write" /\ down[j].kind = "write"
             /\ down[i].val = v => down[j].val = v

\* What a read that is under way will find.
Expected == IF call.goal = "verify" THEN call.want ELSE res.val

Goals ==
  /\ call.pc \in {"send", "ack"} => call.goal \in {"write", "set"}
  /\ call.pc = "read" => call.goal \in {"read", "probe", "verify"}

Confirming ==
  /\ call.pc = "idle" => Quiet(res.val)
  /\ call.pc = "read" =>
       Quiet(Expected) /\ (reply.fresh => reply.val = Expected)
  /\ call.pc \in {"send", "ack"} =>
       Ordered(call.want) /\ (ack.fresh /\ ack.val = call.want => Quiet(call.want))

\* A write carries a value.
Writes == \A i \in DOMAIN down : down[i].kind = "write" => down[i].val \in Values

RegisterInv == Register!TypeOK /\ Goals /\ Writes /\ (clean => Confirming)

LEMMA QuietOrdered ==
  ASSUME NEW v, NEW w, Quiet(v)
  PROVE  Ordered(w)
  BY DEF Quiet, Ordered

\* The frames, as sequences of records.
LEMMA FrameTypes ==
  ASSUME Register!TypeOK
  PROVE  down \in Seq(Register!Request) /\ up \in Seq(Register!Answer)
  BY DEF Register!TypeOK

LEMMA TailFacts ==
  ASSUME NEW S, NEW s \in Seq(S), s # <<>>
  PROVE  /\ Tail(s) \in Seq(S) /\ Head(s) = s[1] /\ Head(s) \in S /\ 1 \in DOMAIN s
         /\ \A i \in DOMAIN Tail(s) : Tail(s)[i] = s[i + 1]
                                      /\ i + 1 \in DOMAIN s /\ i \in Nat
  OBVIOUS

\* The motor or the bus takes a request.
LEMMA TakeQuiet ==
  ASSUME Register!TypeOK, NEW v, Quiet(v),
         Register!MotorAnswers \/ Register!LoseRequest \/ Register!LoseAnswer
           \/ Register!FileAnswer
  PROVE  Quiet(v)'
<1>1. CASE Register!MotorAnswers
  <2>1. /\ down # <<>> /\ down' = Tail(down) /\ down \in Seq(Register!Request)
        /\ up \in Seq(Register!Answer)
    BY <1>1, FrameTypes DEF Register!MotorAnswers
  <2>2. Head(down) = down[1] /\ 1 \in DOMAIN down
    BY <2>1
  <2>3. reg' = v
    BY <1>1, <2>2 DEF Register!MotorAnswers, Quiet
  <2>4. PICK f : f.val = v /\ up' = Append(up, f)
    <3>1. CASE Head(down).kind = "write"
      BY <1>1, <2>2, <3>1 DEF Register!MotorAnswers, Quiet
    <3>2. CASE Head(down).kind # "write"
      BY <1>1, <3>2 DEF Register!MotorAnswers, Quiet
    <3>3. QED
      BY <3>1, <3>2
  <2>5. \A i \in DOMAIN up' : up'[i].val = v
    BY <2>1, <2>4 DEF Quiet
  <2>6. \A i \in DOMAIN down' : down'[i].kind = "write" => down'[i].val = v
    BY <2>1, TailFacts DEF Quiet
  <2>7. QED
    BY <2>3, <2>5, <2>6 DEF Quiet
<1>2. CASE Register!LoseRequest
  <2>1. /\ down # <<>> /\ down' = Tail(down) /\ down \in Seq(Register!Request)
        /\ UNCHANGED <<reg, up>>
    BY <1>2, FrameTypes DEF Register!LoseRequest
  <2>2. QED
    BY <2>1, TailFacts DEF Quiet
<1>3. CASE Register!LoseAnswer \/ Register!FileAnswer
  <2>1. /\ up # <<>> /\ up' = Tail(up) /\ up \in Seq(Register!Answer)
        /\ UNCHANGED <<reg, down>>
    BY <1>3, FrameTypes DEF Register!LoseAnswer, Register!FileAnswer
  <2>2. QED
    BY <2>1, TailFacts DEF Quiet
<1>4. QED
  BY <1>1, <1>2, <1>3

LEMMA TakeOrdered ==
  ASSUME Register!TypeOK, NEW v, Ordered(v),
         Register!MotorAnswers \/ Register!LoseRequest \/ Register!LoseAnswer
           \/ Register!FileAnswer
  PROVE  Ordered(v)'
<1>1. CASE Register!MotorAnswers
  <2>1. /\ down # <<>> /\ down' = Tail(down) /\ down \in Seq(Register!Request)
        /\ up \in Seq(Register!Answer)
    BY <1>1, FrameTypes DEF Register!MotorAnswers
  <2>2. Head(down) = down[1] /\ 1 \in DOMAIN down
    BY <2>1
  <2>3. PICK f : f.val = reg' /\ up' = Append(up, f)
    <3>1. CASE Head(down).kind = "write"
      BY <1>1, <2>2, <3>1 DEF Register!MotorAnswers
    <3>2. CASE Head(down).kind # "write"
      BY <1>1, <3>2 DEF Register!MotorAnswers
    <3>3. QED
      BY <3>1, <3>2
  <2>4. \/ down[1].kind = "write" /\ reg' = down[1].val
        \/ reg' = reg
    BY <1>1, <2>2 DEF Register!MotorAnswers
  <2>5. reg = v => reg' = v
    BY <2>2, <2>4 DEF Ordered
  <2>6. /\ DOMAIN up' = 1..(Len(up) + 1) /\ DOMAIN up = 1..Len(up) /\ Len(up) \in Nat
        /\ up'[Len(up) + 1] = f /\ \A i \in DOMAIN up : up'[i] = up[i]
    BY <2>1, <2>3
  <2>7. \A i \in DOMAIN up' : up'[i].val = v =>
          reg' = v /\ \A j \in DOMAIN up' : i < j => up'[j].val = v
    <3> SUFFICES ASSUME NEW i \in DOMAIN up', up'[i].val = v
                 PROVE  reg' = v /\ \A j \in DOMAIN up' : i < j => up'[j].val = v
      OBVIOUS
    <3>1. CASE i \in DOMAIN up
      <4>1. reg = v /\ \A j \in DOMAIN up : i < j => up[j].val = v
        BY <2>6, <3>1 DEF Ordered
      <4>2. QED
        BY <2>3, <2>5, <2>6, <4>1
    <3>2. CASE i = Len(up) + 1
      BY <2>3, <2>6, <3>2
    <3>3. QED
      BY <2>6, <3>1, <3>2
  <2>8. reg' = v =>
          \A i \in DOMAIN down' : down'[i].kind = "write" => down'[i].val = v
    <3> SUFFICES ASSUME reg' = v, NEW i \in DOMAIN down', down'[i].kind = "write"
                 PROVE  down'[i].val = v
      OBVIOUS
    <3>1. down'[i] = down[i + 1] /\ i + 1 \in DOMAIN down /\ 1 < i + 1
      BY <2>1
    <3>2. QED
      BY <2>2, <2>4, <3>1 DEF Ordered
  <2>9. \A i, j \in DOMAIN down' :
          i < j /\ down'[i].kind = "write" /\ down'[j].kind = "write"
                /\ down'[i].val = v => down'[j].val = v
    <3> SUFFICES ASSUME NEW i \in DOMAIN down', NEW j \in DOMAIN down', i < j,
                        down'[i].kind = "write", down'[j].kind = "write",
                        down'[i].val = v
                 PROVE  down'[j].val = v
      OBVIOUS
    <3>1. /\ down'[i] = down[i + 1] /\ i + 1 \in DOMAIN down
          /\ down'[j] = down[j + 1] /\ j + 1 \in DOMAIN down /\ i + 1 < j + 1
      BY <2>1
    <3>2. QED
      BY <3>1 DEF Ordered
  <2>10. QED
    BY <2>7, <2>8, <2>9 DEF Ordered
<1>2. CASE Register!LoseRequest
  <2>1. /\ down # <<>> /\ down' = Tail(down) /\ down \in Seq(Register!Request)
        /\ UNCHANGED <<reg, up>>
    BY <1>2, FrameTypes DEF Register!LoseRequest
  <2>2. \A i \in DOMAIN down' : down'[i] = down[i + 1] /\ i + 1 \in DOMAIN down
    BY <2>1
  <2>3. \A i, j \in DOMAIN down' : i < j => i + 1 < j + 1
    BY <2>1
  <2>4. QED
    BY <2>1, <2>2, <2>3 DEF Ordered
<1>3. CASE Register!LoseAnswer \/ Register!FileAnswer
  <2>1. /\ up # <<>> /\ up' = Tail(up) /\ up \in Seq(Register!Answer)
        /\ UNCHANGED <<reg, down>>
    BY <1>3, FrameTypes DEF Register!LoseAnswer, Register!FileAnswer
  <2>2. \A i \in DOMAIN up' : up'[i] = up[i + 1] /\ i + 1 \in DOMAIN up
    BY <2>1
  <2>3. \A i, j \in DOMAIN up' : i < j => i + 1 < j + 1
    BY <2>1
  <2>4. QED
    BY <2>1, <2>2, <2>3 DEF Ordered
<1>4. QED
  BY <1>1, <1>2, <1>3

\* A request is sent: a read, or a write of the value in question.
LEMMA SendKeeps ==
  ASSUME Register!TypeOK, NEW v, UNCHANGED <<reg, up>>,
         NEW f \in Register!Request, down' = Append(down, f),
         f.kind = "write" => f.val = v
  PROVE  /\ Quiet(v) => Quiet(v)'
         /\ Ordered(v) => Ordered(v)'
<1>1. down \in Seq(Register!Request)
  BY FrameTypes
<1>2. /\ DOMAIN down' = DOMAIN down \cup {Len(down) + 1}
      /\ \A i \in DOMAIN down : down'[i] = down[i] /\ i < Len(down) + 1
      /\ down'[Len(down) + 1] = f
      /\ \A i \in DOMAIN down : ~(Len(down) + 1 < i)
  BY <1>1
<1>3. ~(Len(down) + 1 < Len(down) + 1)
  BY <1>1
<1>4. QED
  BY <1>2, <1>3 DEF Quiet, Ordered

CallRecord == [pc : {"idle", "send", "ack", "read"},
               goal : {"none", "write", "set", "read", "probe", "verify"},
               want : Values, left : 0..Retries]

LEMMA RegisterTypes ==
  ASSUME Register!TypeOK, Writes, Register!Next
  PROVE  Register!TypeOK'
<1>1. /\ reg \in Values /\ down \in Seq(Register!Request)
      /\ up \in Seq(Register!Answer) /\ call \in CallRecord
      /\ ack \in Register!Filed /\ reply \in Register!Filed
      /\ res \in [ok : BOOLEAN, val : Values] /\ clean \in BOOLEAN
  BY DEF Register!TypeOK, CallRecord
<1>2. Initial \in Values /\ Retries \in Nat
  BY MotorLayerAssumption
<1>3. Register!Idle \in CallRecord
  BY <1>2 DEF Register!Idle, CallRecord
<1>4. ASSUME NEW b \in BOOLEAN, NEW v \in Values, Register!Return(b, v)
      PROVE  /\ call' \in CallRecord /\ res' \in [ok : BOOLEAN, val : Values]
             /\ clean' \in BOOLEAN
  BY <1>1, <1>3, <1>4 DEF Register!Return
<1>5. ASSUME Register!Fail
      PROVE  /\ call' \in CallRecord /\ res' \in [ok : BOOLEAN, val : Values]
             /\ clean' \in BOOLEAN
  BY <1>1, <1>4, <1>5 DEF Register!Fail, CallRecord
<1>6. ASSUME NEW g \in {"read", "probe", "verify"}, NEW w \in Values,
             NEW l \in 0..Retries, Register!BeginRead(g, w, l)
      PROVE  call' \in CallRecord /\ reply' \in Register!Filed
  BY <1>1, <1>6 DEF Register!BeginRead, CallRecord, Register!Filed
<1>7. ASSUME NEW g \in {"write", "set"}, NEW w \in Values,
             NEW l \in 0..Retries, Register!BeginWrite(g, w, l)
      PROVE  call' \in CallRecord /\ ack' \in Register!Filed
  BY <1>1, <1>7 DEF Register!BeginWrite, CallRecord, Register!Filed
<1>8. call.want \in Values /\ call.left \in 0..Retries /\ reply.val \in Values
  BY <1>1 DEF CallRecord, Register!Filed
<1>9. ASSUME NEW v \in Values, Register!CallWrite(v)
      PROVE  Register!TypeOK'
  <2>1. call' \in CallRecord /\ ack' \in Register!Filed
    BY <1>2, <1>7, <1>9 DEF Register!CallWrite
  <2>2. QED
    BY <1>1, <1>9, <2>1 DEF Register!CallWrite, Register!TypeOK, CallRecord
<1>10. ASSUME NEW v \in Values, Register!CallEnsure(v)
       PROVE  Register!TypeOK'
  <2>1. call' \in CallRecord /\ reply' \in Register!Filed
    BY <1>2, <1>6, <1>10 DEF Register!CallEnsure
  <2>2. QED
    BY <1>1, <1>10, <2>1 DEF Register!CallEnsure, Register!TypeOK, CallRecord
<1>11. CASE Register!CallRead
  <2>1. call' \in CallRecord /\ reply' \in Register!Filed
    BY <1>2, <1>6, <1>11 DEF Register!CallRead
  <2>2. QED
    BY <1>1, <1>11, <2>1 DEF Register!CallRead, Register!TypeOK, CallRecord
<1>12. CASE Register!SendWrite \/ Register!SendRead
  <2>1. call' \in CallRecord
    <3>1. call.left > 0 /\ call.left - 1 \in 0..Retries
      BY <1>2, <1>8, <1>12 DEF Register!SendWrite, Register!SendRead
    <3>2. CASE Register!SendWrite
      BY <1>1, <3>1, <3>2 DEF Register!SendWrite, CallRecord
    <3>3. CASE Register!SendRead
      BY <1>1, <3>1, <3>3 DEF Register!SendRead, CallRecord
    <3>4. QED
      BY <1>12, <3>2, <3>3
  <2>2. PICK f \in Register!Request : down' = Append(down, f)
    BY <1>8, <1>12 DEF Register!SendWrite, Register!SendRead, Register!Request
  <2>3. down' \in Seq(Register!Request)
    BY <1>1, <2>2
  <2>4. QED
    BY <1>1, <1>12, <2>1, <2>3
    DEF Register!SendWrite, Register!SendRead, Register!TypeOK, CallRecord
<1>13. CASE Register!AckMissed
  <2>1. call' \in CallRecord
    BY <1>1, <1>13 DEF Register!AckMissed, CallRecord
  <2>2. QED
    BY <1>1, <1>13, <2>1 DEF Register!AckMissed, Register!TypeOK, CallRecord
<1>14. CASE Register!WriteFails \/ Register!AckMismatch \/ Register!ReadFails
  <2>1. /\ call' \in CallRecord /\ res' \in [ok : BOOLEAN, val : Values]
        /\ clean' \in BOOLEAN
    BY <1>5, <1>14
    DEF Register!WriteFails, Register!AckMismatch, Register!ReadFails
  <2>2. QED
    BY <1>1, <1>14, <2>1
    DEF Register!WriteFails, Register!AckMismatch, Register!ReadFails,
        Register!TypeOK, CallRecord
<1>15. CASE Register!AckMatches
  <2>1. /\ call' \in CallRecord /\ res' \in [ok : BOOLEAN, val : Values]
        /\ clean' \in BOOLEAN /\ reply' \in Register!Filed
    BY <1>1, <1>4, <1>6, <1>8, <1>15 DEF Register!AckMatches
  <2>2. QED
    BY <1>1, <1>15, <2>1 DEF Register!AckMatches, Register!TypeOK, CallRecord
<1>16. CASE Register!ReadReplied
  <2>1. /\ call' \in CallRecord /\ res' \in [ok : BOOLEAN, val : Values]
        /\ clean' \in BOOLEAN /\ ack' \in Register!Filed
    BY <1>1, <1>4, <1>7, <1>8, <1>16 DEF Register!ReadReplied
  <2>2. QED
    BY <1>1, <1>16, <2>1 DEF Register!ReadReplied, Register!TypeOK, CallRecord
<1>17. CASE Register!ReadTimesOut
  <2>1. /\ call' \in CallRecord /\ res' \in [ok : BOOLEAN, val : Values]
        /\ clean' \in BOOLEAN /\ ack' \in Register!Filed
    BY <1>1, <1>5, <1>7, <1>8, <1>17 DEF Register!ReadTimesOut
  <2>2. QED
    BY <1>1, <1>17, <2>1 DEF Register!ReadTimesOut, Register!TypeOK, CallRecord
<1>18. CASE Register!MotorAnswers
  <2>1. /\ down # <<>> /\ down' = Tail(down)
        /\ UNCHANGED <<call, ack, reply, res, clean>>
    BY <1>18 DEF Register!MotorAnswers
  <2>2. Head(down) \in Register!Request /\ down' \in Seq(Register!Request)
    BY <1>1, <2>1, TailFacts
  <2>3. reg' \in Values /\ up' \in Seq(Register!Answer)
    <3>1. CASE Head(down).kind = "write"
      <4>1. /\ reg' = Head(down).val
            /\ up' = Append(up, [kind |-> "ack", val |-> Head(down).val])
        BY <1>18, <3>1 DEF Register!MotorAnswers
      <4>2. Head(down).val \in Values
        BY <1>1, <2>1, <3>1, TailFacts DEF Writes
      <4>3. [kind |-> "ack", val |-> Head(down).val] \in Register!Answer
        BY <4>1, <4>2 DEF Register!Answer
      <4>4. QED
        BY <1>1, <4>1, <4>2, <4>3
    <3>2. CASE Head(down).kind # "write"
      <4>1. reg' = reg /\ up' = Append(up, [kind |-> "reply", val |-> reg])
        BY <1>18, <3>2 DEF Register!MotorAnswers
      <4>2. [kind |-> "reply", val |-> reg] \in Register!Answer
        BY <1>1 DEF Register!Answer
      <4>3. QED
        BY <1>1, <4>1, <4>2
    <3>3. QED
      BY <3>1, <3>2
  <2>4. QED
    BY <1>1, <2>1, <2>2, <2>3 DEF Register!TypeOK, CallRecord
<1>19. CASE Register!LoseRequest
  <2>1. down' \in Seq(Register!Request)
    BY <1>1, <1>19, TailFacts DEF Register!LoseRequest
  <2>2. QED
    BY <1>1, <1>19, <2>1 DEF Register!LoseRequest, Register!TypeOK, CallRecord
<1>20. CASE Register!LoseAnswer
  <2>1. up' \in Seq(Register!Answer)
    BY <1>1, <1>20, TailFacts DEF Register!LoseAnswer
  <2>2. QED
    BY <1>1, <1>20, <2>1 DEF Register!LoseAnswer, Register!TypeOK, CallRecord
<1>21. CASE Register!FileAnswer
  <2>1. up' \in Seq(Register!Answer) /\ Head(up) \in Register!Answer
    BY <1>1, <1>21, TailFacts DEF Register!FileAnswer
  <2>2. [fresh |-> TRUE, val |-> Head(up).val] \in Register!Filed
    BY <2>1 DEF Register!Answer, Register!Filed
  <2>3. ack' \in Register!Filed /\ reply' \in Register!Filed
    BY <1>1, <1>21, <2>2 DEF Register!FileAnswer
  <2>4. QED
    BY <1>1, <1>21, <2>1, <2>3 DEF Register!FileAnswer, Register!TypeOK, CallRecord
<1>22. QED
  BY <1>9, <1>10, <1>11, <1>12, <1>13, <1>14, <1>15, <1>16, <1>17, <1>18, <1>19,
     <1>20, <1>21
  DEF Register!Next, Register!Waiting, Register!Environment

\* A step of the caller that sends nothing leaves the bus as it is.
LEMMA BusKept ==
  ASSUME UNCHANGED <<reg, down, up>>, NEW v
  PROVE  Quiet(v)' = Quiet(v) /\ Ordered(v)' = Ordered(v) /\ Writes' = Writes
  BY DEF Quiet, Ordered, Writes

\* A call begins or ends with the register quiet.
LEMMA RegisterStep ==
  ASSUME RegisterInv, Register!Next
  PROVE  RegisterInv'
<1> USE DEF RegisterInv
<1>1. Register!TypeOK'
  BY RegisterTypes
<1>2. /\ down \in Seq(Register!Request) /\ up \in Seq(Register!Answer)
      /\ call \in CallRecord /\ ack \in Register!Filed /\ reply \in Register!Filed
      /\ res \in [ok : BOOLEAN, val : Values] /\ clean \in BOOLEAN
  BY DEF Register!TypeOK, CallRecord
<1>3. ASSUME NEW v, Register!Return(TRUE, v), UNCHANGED <<reg, down, up>>,
             clean => Quiet(v)
      PROVE  RegisterInv'
  <2>1. call'.pc = "idle" /\ res'.val = v /\ clean' = clean
    BY <1>2, <1>3 DEF Register!Return, Register!Idle
  <2>2. Writes'
    BY <1>3, BusKept
  <2>3. clean' => Quiet(v)'
    BY <1>3, <2>1, BusKept
  <2>4. clean' => Quiet(res.val)'
    BY <2>1, <2>3 DEF Quiet
  <2>5. QED
    BY <1>1, <2>1, <2>2, <2>4 DEF Goals, Confirming
<1>4. ASSUME Register!Fail, UNCHANGED <<reg, down, up>>
      PROVE  RegisterInv'
  <2>1. call'.pc = "idle" /\ clean' = FALSE
    BY <1>2, <1>4 DEF Register!Fail, Register!Return, Register!Idle
  <2>2. Writes'
    BY <1>4, BusKept
  <2>3. QED
    BY <1>1, <2>1, <2>2 DEF Goals, Confirming
\* A read begins: with the value expected of a quiet register.
<1>5. ASSUME NEW g \in {"read", "probe", "verify"}, NEW w, NEW l,
             Register!BeginRead(g, w, l), UNCHANGED <<reg, down, up, res, clean>>,
             clean => Quiet(IF g = "verify" THEN w ELSE res.val)
      PROVE  RegisterInv'
  <2>1. call'.pc = "read" /\ call'.goal = g /\ call'.want = w /\ ~reply'.fresh
    BY <1>2, <1>5 DEF Register!BeginRead, Register!Filed
  <2>2. Writes'
    BY <1>5, BusKept
  <2>3. clean' => Quiet(IF g = "verify" THEN w ELSE res.val)'
    BY <1>5 DEF Quiet
  <2>4. clean' => Quiet(Expected)'
    BY <1>5, <2>1, <2>3 DEF Expected, Quiet
  <2>5. QED
    BY <1>1, <1>5, <2>1, <2>2, <2>4 DEF Goals, Confirming
\* A write begins on a quiet register.
<1>6. ASSUME NEW g \in {"write", "set"}, NEW w, NEW l, NEW v,
             Register!BeginWrite(g, w, l), UNCHANGED <<reg, down, up, res, clean>>,
             clean => Quiet(v)
      PROVE  RegisterInv'
  <2>1. call'.pc = "send" /\ call'.goal = g /\ call'.want = w /\ ~ack'.fresh
    BY <1>2, <1>6 DEF Register!BeginWrite, Register!Filed
  <2>2. Writes'
    BY <1>6, BusKept
  <2>3. clean' => Ordered(w)
    BY <1>6, QuietOrdered
  <2>4. clean' => Ordered(call.want)'
    BY <1>6, <2>1, <2>3 DEF Ordered
  <2>5. QED
    BY <1>1, <2>1, <2>2, <2>4 DEF Goals, Confirming
<1>7. ASSUME NEW v \in Values, Register!CallWrite(v)
      PROVE  RegisterInv'
  <2>1. clean => Quiet(res.val)
    BY <1>7 DEF Register!CallWrite, Confirming
  <2>2. QED
    BY <1>6, <1>7, <2>1 DEF Register!CallWrite
<1>8. ASSUME NEW v \in Values, Register!CallEnsure(v)
      PROVE  RegisterInv'
  <2>1. clean => Quiet(IF "probe" = "verify" THEN v ELSE res.val)
    BY <1>8 DEF Register!CallEnsure, Confirming
  <2>2. QED
    BY <1>5, <1>8, <2>1 DEF Register!CallEnsure
<1>9. CASE Register!CallRead
  <2>1. clean => Quiet(IF "read" = "verify" THEN Initial ELSE res.val)
    BY <1>9 DEF Register!CallRead, Confirming
  <2>2. QED
    BY <1>5, <1>9, <2>1 DEF Register!CallRead
<1>10. CASE Register!WriteFails \/ Register!AckMismatch \/ Register!ReadFails
  BY <1>4, <1>10
  DEF Register!WriteFails, Register!AckMismatch, Register!ReadFails
<1>11. CASE Register!AckMatches
  <2>1. clean => Quiet(call.want)
    BY <1>11 DEF Register!AckMatches, Confirming
  <2>2. clean => Quiet(IF "verify" = "verify" THEN call.want ELSE res.val)
    BY <2>1
  <2>3. CASE call.goal = "write"
    BY <1>3, <1>11, <2>1, <2>3 DEF Register!AckMatches
  <2>4. CASE call.goal # "write"
    BY <1>5, <1>11, <2>2, <2>4 DEF Register!AckMatches
  <2>5. QED
    BY <2>3, <2>4
<1>12. CASE Register!ReadReplied
  <2>1. clean => Quiet(Expected) /\ reply.val = Expected
    BY <1>12 DEF Register!ReadReplied, Confirming
  <2>2. clean => Quiet(reply.val)
    BY <2>1
  <2>3. CASE call.goal = "read"
    BY <1>3, <1>12, <2>2, <2>3 DEF Register!ReadReplied
  <2>4. CASE call.goal # "read" /\ reply.val = call.want
    <3>1. clean => Quiet(call.want)
      BY <2>2, <2>4
    <3>2. QED
      BY <1>3, <1>12, <2>4, <3>1 DEF Register!ReadReplied
  <2>5. CASE call.goal # "read" /\ reply.val # call.want
    BY <1>6, <1>12, <2>2, <2>5 DEF Register!ReadReplied
  <2>6. QED
    BY <2>3, <2>4, <2>5
<1>13. CASE Register!ReadTimesOut
  <2>1. clean => Quiet(Expected)
    BY <1>13 DEF Register!ReadTimesOut, Confirming
  <2>2. CASE call.goal = "read"
    BY <1>4, <1>13, <2>2 DEF Register!ReadTimesOut
  <2>3. CASE call.goal # "read"
    BY <1>6, <1>13, <2>1, <2>3 DEF Register!ReadTimesOut
  <2>4. QED
    BY <2>2, <2>3

<1>14. CASE Register!AckMissed
  <2>1. /\ call'.pc = "send" /\ call'.goal = call.goal /\ call'.want = call.want
        /\ call.pc = "ack" /\ UNCHANGED <<reg, down, up, ack, clean>>
    BY <1>2, <1>14 DEF Register!AckMissed, CallRecord
  <2>2. Goals' /\ Writes'
    BY <2>1, BusKept DEF Goals
  <2>3. ASSUME clean'
        PROVE  /\ Ordered(call.want)'
               /\ ack'.fresh /\ ack'.val = call'.want => Quiet(call.want)'
    BY <2>1, <2>3 DEF Confirming, Quiet, Ordered
  <2>4. QED
    BY <1>1, <2>1, <2>2, <2>3 DEF Confirming
<1>15. CASE Register!SendWrite
  <2>1. /\ call'.pc = "ack" /\ call'.goal = call.goal /\ call'.want = call.want
        /\ call.pc = "send" /\ UNCHANGED <<reg, up, ack, clean>>
        /\ call.want \in Values
    BY <1>2, <1>15 DEF Register!SendWrite, CallRecord
  <2> DEFINE f == [kind |-> "write", val |-> call.want]
  <2>2. f \in Register!Request /\ f.kind = "write" /\ f.val = call.want
    BY <2>1 DEF Register!Request
  <2>3. down' = Append(down, f)
    BY <1>15 DEF Register!SendWrite
  <2> HIDE DEF f
  <2>4. /\ Quiet(call.want) => Quiet(call.want)'
        /\ Ordered(call.want) => Ordered(call.want)'
    <3>1. PICK v : v = call.want
      OBVIOUS
    <3>2. (Quiet(v) => Quiet(v)') /\ (Ordered(v) => Ordered(v)')
      BY <2>1, <2>2, <2>3, <3>1, SendKeeps
    <3>3. QED
      BY <2>1, <3>1, <3>2 DEF Quiet, Ordered
  <2>5. Writes'
    BY <1>2, <2>1, <2>2, <2>3 DEF Writes
  <2>6. ASSUME clean'
        PROVE  /\ Ordered(call.want)'
               /\ ack'.fresh /\ ack'.val = call'.want => Quiet(call.want)'
    BY <2>1, <2>4, <2>6 DEF Confirming
  <2>7. Goals'
    BY <2>1 DEF Goals
  <2>8. QED
    BY <1>1, <2>1, <2>5, <2>6, <2>7 DEF Confirming
<1>16. CASE Register!SendRead
  <2>1. /\ call'.pc = "read" /\ call'.goal = call.goal /\ call'.want = call.want
        /\ call.pc = "read" /\ UNCHANGED <<reg, up, reply, res, clean>>
    BY <1>2, <1>16 DEF Register!SendRead, CallRecord
  <2> DEFINE f == [kind |-> "read", val |-> Register!NoValue]
  <2>2. f \in Register!Request /\ f.kind = "read"
    BY DEF Register!Request
  <2>3. down' = Append(down, f)
    BY <1>16 DEF Register!SendRead
  <2> HIDE DEF f
  <2>4. Expected' = Expected
    BY <2>1 DEF Expected
  <2>5. Quiet(Expected) => Quiet(Expected)'
    <3>1. PICK v : v = Expected
      OBVIOUS
    <3>2. Quiet(v) => Quiet(v)'
      BY <2>1, <2>2, <2>3, SendKeeps
    <3>3. QED
      BY <2>4, <3>1, <3>2 DEF Quiet
  <2>6. Writes'
    BY <1>2, <2>1, <2>2, <2>3 DEF Writes
  <2>7. Goals'
    BY <2>1 DEF Goals
  <2>8. QED
    BY <1>1, <2>1, <2>4, <2>5, <2>6, <2>7 DEF Confirming
\* The other end of the bus.
<1>17. CASE Register!MotorAnswers \/ Register!LoseRequest \/ Register!LoseAnswer
              \/ Register!FileAnswer
  <2>1. UNCHANGED <<call, res, clean>>
    BY <1>17 DEF Register!MotorAnswers, Register!LoseRequest, Register!LoseAnswer,
                 Register!FileAnswer
  <2>2. Goals' /\ Expected' = Expected
    BY <2>1 DEF Goals, Expected
  <2>3. \A v : (Quiet(v) => Quiet(v)') /\ (Ordered(v) => Ordered(v)')
    BY <1>17, TakeQuiet, TakeOrdered
  <2>4. Writes'
    <3>1. down' = down \/ (down # <<>> /\ down' = Tail(down))
      BY <1>17 DEF Register!MotorAnswers, Register!LoseRequest,
                   Register!LoseAnswer, Register!FileAnswer
    <3>2. CASE down' = down
      BY <3>2 DEF Writes
    <3>3. CASE down # <<>> /\ down' = Tail(down)
      <4>1. \A i \in DOMAIN down' : down'[i] = down[i + 1] /\ i + 1 \in DOMAIN down
        BY <1>2, <3>3, TailFacts
      <4>2. QED
        BY <4>1 DEF Writes
    <3>4. QED
      BY <3>1, <3>2, <3>3
  <2>5. \/ UNCHANGED <<ack, reply>>
        \/ Register!FileAnswer
    BY <1>17 DEF Register!MotorAnswers, Register!LoseRequest, Register!LoseAnswer
  <2>6. ASSUME Register!FileAnswer
        PROVE  /\ up # <<>> /\ up' = Tail(up) /\ UNCHANGED <<reg, down>>
               /\ \/ UNCHANGED ack \/ ack'.val = up[1].val
               /\ \/ UNCHANGED reply \/ reply'.val = up[1].val
               /\ 1 \in DOMAIN up
    BY <1>2, <2>6, TailFacts DEF Register!FileAnswer
  <2>7. Quiet(res.val) => Quiet(res.val)'
    BY <2>1, <2>3 DEF Quiet
  <2>8. Quiet(Expected) => Quiet(Expected)'
    BY <2>2, <2>3 DEF Quiet
  <2>9. /\ Quiet(call.want) => Quiet(call.want)'
        /\ Ordered(call.want) => Ordered(call.want)'
    BY <2>1, <2>3 DEF Quiet, Ordered
  <2>10. ASSUME clean, call.pc = "read"
         PROVE  reply'.fresh => reply'.val = Expected
    <3>1. Quiet(Expected) /\ (reply.fresh => reply.val = Expected)
      BY <2>10 DEF Confirming
    <3>2. QED
      BY <2>5, <2>6, <3>1 DEF Quiet
  <2>11. ASSUME clean, call.pc \in {"send", "ack"}, ack'.fresh, ack'.val = call.want
         PROVE  Quiet(call.want)'
    <3>1. Ordered(call.want) /\ (ack.fresh /\ ack.val = call.want => Quiet(call.want))
      BY <2>11 DEF Confirming
    <3>2. CASE UNCHANGED ack
      BY <2>9, <2>11, <3>1, <3>2
    <3>3. CASE ack' # ack
      <4>1. Register!FileAnswer /\ up[1].val = call.want
        BY <2>5, <2>6, <2>11, <3>3
      <4>2. /\ reg = call.want
            /\ \A j \in DOMAIN up : 1 < j => up[j].val = call.want
        BY <2>6, <3>1, <4>1 DEF Ordered
      <4>3. \A i \in DOMAIN down : down[i].kind = "write" => down[i].val = call.want
        BY <3>1, <4>2 DEF Ordered
      <4>4. \A i \in DOMAIN up' : up'[i] = up[i + 1] /\ i + 1 \in DOMAIN up /\ 1 < i + 1
        BY <1>2, <2>6, <4>1
      <4>5. QED
        BY <2>1, <2>6, <4>1, <4>2, <4>3, <4>4 DEF Quiet
    <3>4. QED
      BY <3>2, <3>3
  <2>12. clean => Confirming'
    BY <2>1, <2>2, <2>7, <2>8, <2>9, <2>10, <2>11 DEF Confirming
  <2>13. QED
    BY <1>1, <2>1, <2>2, <2>4, <2>12
<1>18. QED
  BY <1>7, <1>8, <1>9, <1>10, <1>11, <1>12, <1>13, <1>14, <1>15, <1>16, <1>17
  DEF Register!Next, Register!Waiting, Register!Environment

LEMMA RegisterStart ==
  ASSUME Register!Init
  PROVE  RegisterInv
<1>1. Initial \in Values /\ Retries \in Nat
  BY MotorLayerAssumption
<1>2. Register!Idle \in CallRecord
  BY <1>1 DEF Register!Idle, CallRecord
<1>3. down \in Seq(Register!Request) /\ up \in Seq(Register!Answer)
  BY DEF Register!Init
<1>4. /\ ack \in Register!Filed /\ reply \in Register!Filed
      /\ res \in [ok : BOOLEAN, val : Values] /\ res.val = Initial
  BY <1>1 DEF Register!Init, Register!Filed
<1>5. Register!TypeOK
  BY <1>1, <1>2, <1>3, <1>4 DEF Register!Init, Register!TypeOK, CallRecord
<1>6. call.pc = "idle"
  BY DEF Register!Init, Register!Idle
<1>7. Quiet(Initial) /\ Writes
  BY DEF Register!Init, Quiet, Writes
<1>8. QED
  BY <1>4, <1>5, <1>6, <1>7 DEF RegisterInv, Goals, Confirming

LEMMA LayerRegister ==
  ASSUME RegisterInv, [LayerNext]_layerVars
  PROVE  RegisterInv'
<1>1. CASE Register!Next
  BY <1>1, RegisterStep
<1>2. CASE UNCHANGED registerVars
  BY <1>2
  DEF registerVars, RegisterInv, Register!TypeOK, Goals, Writes, Confirming,
      Quiet, Ordered, Expected
<1>3. QED
  BY <1>1, <1>2 DEF LayerNext, layerVars

\* As long as no call on the motor has failed, the value that a write, a read
\* or ensure_mode reports is the one the motor's register holds, with whatever
\* is still on the bus in either direction (write_register_with_retry,
\* wait_for_write_ack, wait_for_register).
THEOREM ConfirmedIsHeld == LayerSpec => []ConfirmedValue
<1>1. LayerInit => RegisterInv
  BY RegisterStart DEF LayerInit
<1>2. RegisterInv /\ [LayerNext]_layerVars => RegisterInv'
  BY LayerRegister
<1>3. RegisterInv => ConfirmedValue
  BY DEF RegisterInv, Confirming, Quiet, ConfirmedValue, Register!ConfirmedValue
<1>4. QED
  BY <1>1, <1>2, <1>3, PTL DEF LayerSpec

-----------------------------------------------------------------------------
(* The receive path of a controller *)

Table == Required \cup Optional

ThreadRecord ==
  [pc : {"idle", "probe", "presence", "request", "answers", "bulk", "queue",
         "drain", "closing"},
   todo : SUBSET Table, again : SUBSET Table, round : 0..Rounds]

PollerRecord ==
  [pc : {"off", "idle", "receive", "file"}, frame : Controller!Frame,
   table : SUBSET Table]

ReportRecord ==
  [kind : {"none", "discovery", "batch"}, ok : BOOLEAN, missing : SUBSET Table]

\* The positions of a discovery, and of any call that waits for answers.
Looking == {"probe", "presence"}
Counting == Looking \cup {"request", "answers"}

\* While a discovery runs the table holds every candidate.
TableInv ==
  /\ thread.pc \in Looking => motors = Table /\ ~finalized
  /\ thread.pc \notin Looking =>
       IF finalized THEN Required \subseteq motors ELSE motors = {}

\* A motor that has not answered is on one of the lists of the call.
AnswerInv ==
  /\ thread.pc \in Counting => motors \subseteq fresh \cup thread.todo \cup thread.again
  /\ thread.pc \notin Counting /\ report.kind # "none" /\ report.ok =>
       motors \subseteq fresh
  /\ report.kind = "batch" /\ report.ok => report.missing = {}

\* The waiter is the call that queues for the bus.
WaiterInv == waiters = IF thread.pc = "queue" THEN 1 ELSE 0

ControllerInv == Controller!TypeOK /\ WaiterInv /\ TableInv /\ AnswerInv

\* The types, with the records named.
ControllerTypes ==
  /\ motors \in SUBSET Table /\ asked \in SUBSET Table /\ fresh \in SUBSET Table
  /\ finalized \in BOOLEAN /\ transport_errors \in BOOLEAN /\ closed \in BOOLEAN
  /\ rx \in Seq(Controller!Frame)
  /\ recv_mutex \in {"free", "poller", "caller"} /\ waiters \in 0..1
  /\ poller \in PollerRecord /\ thread \in ThreadRecord /\ report \in ReportRecord

LEMMA TypesNamed ==
  (Controller!TypeOK <=> ControllerTypes) /\ (Controller!TypeOK' <=> ControllerTypes')
  BY DEF Controller!TypeOK, Controller!Motors, ControllerTypes, Table, PollerRecord,
         ThreadRecord, ReportRecord

\* What a step of the calling thread may do to its record.
LEMMA ThreadTypes ==
  ASSUME thread \in ThreadRecord,
         NEW p \in {"idle", "probe", "presence", "request", "answers", "bulk",
                    "queue", "drain", "closing"},
         NEW t \in SUBSET Table, NEW a \in SUBSET Table, NEW r \in 0..Rounds
  PROVE  /\ [thread EXCEPT !.pc = p] \in ThreadRecord
         /\ [thread EXCEPT !.todo = t] \in ThreadRecord
         /\ [thread EXCEPT !.todo = t, !.again = a] \in ThreadRecord
         /\ [thread EXCEPT !.pc = p, !.todo = t] \in ThreadRecord
         /\ [pc |-> p, todo |-> t, again |-> a, round |-> r] \in ThreadRecord
  BY DEF ThreadRecord

LEMMA ThreadParts ==
  ASSUME thread \in ThreadRecord
  PROVE  /\ thread.todo \in SUBSET Table /\ thread.again \in SUBSET Table
         /\ thread.round \in 0..Rounds
         /\ thread = [pc |-> thread.pc, todo |-> thread.todo, again |-> thread.again,
                      round |-> thread.round]
  BY DEF ThreadRecord

\* The receive thread files a frame: the motors that have answered only grow.
LEMMA FiledGrows ==
  ASSUME NEW f, NEW t \in SUBSET Table, fresh \in SUBSET Table,
         fresh' = Controller!Filed(f, t)
  PROVE  fresh' \in SUBSET Table /\ fresh \subseteq fresh'
  BY DEF Controller!Filed

\* Steps that leave the call, the table and the report alone.
LEMMA OtherThreads ==
  ASSUME ControllerInv, ControllerTypes', fresh \subseteq fresh',
         UNCHANGED <<motors, finalized, waiters, thread, report>>
  PROVE  ControllerInv'
  BY TypesNamed DEF ControllerInv, WaiterInv, TableInv, AnswerInv

\* Steps of a call between the positions that do not wait for answers.
LEMMA PlainMove ==
  ASSUME ControllerInv, ControllerTypes', fresh \subseteq fresh',
         UNCHANGED <<motors, finalized, report>>,
         thread.pc \notin Counting, thread'.pc \notin Counting, WaiterInv'
  PROVE  ControllerInv'
  BY TypesNamed DEF ControllerInv, TableInv, AnswerInv, Counting, Looking

LEMMA PollerStep ==
  ASSUME ControllerInv, Controller!Polling \/ Controller!Answer \/ Controller!BulkDrain
  PROVE  ControllerInv'
<1>1. ControllerTypes
  BY TypesNamed DEF ControllerInv
<1>2. poller \in PollerRecord /\ rx \in Seq(Controller!Frame)
  BY <1>1 DEF ControllerTypes
<1>3. Controller!NoFrame \in Controller!Frame
  BY DEF Controller!Frame
<1>4. UNCHANGED <<motors, finalized, waiters, thread, report>>
  BY DEF Controller!Polling, Controller!Answer, Controller!BulkDrain,
         Controller!PollLock, Controller!PollFrame, Controller!PollFile,
         Controller!PollUnlock, Controller!PollExit, Controller!bus
<1>5. CASE Controller!PollLock \/ Controller!PollUnlock \/ Controller!PollExit
  <2>1. poller' \in PollerRecord
    BY <1>2, <1>5 DEF Controller!PollLock, Controller!PollUnlock,
                      Controller!PollExit, PollerRecord
  <2>2. fresh' = fresh /\ ControllerTypes'
    BY <1>1, <1>5, <2>1
    DEF Controller!PollLock, Controller!PollUnlock, Controller!PollExit,
        Controller!bus, ControllerTypes
  <2>3. QED
    BY <1>4, <2>2, OtherThreads
<1>6. CASE Controller!PollFrame
  <2>1. Head(rx) \in Controller!Frame /\ rx' \in Seq(Controller!Frame)
    BY <1>2, <1>6, TailFacts DEF Controller!PollFrame
  <2>2. poller' \in PollerRecord
    BY <1>1, <1>6, <2>1 DEF Controller!PollFrame, PollerRecord, ControllerTypes
  <2>3. fresh' = fresh /\ ControllerTypes'
    BY <1>1, <1>6, <2>1, <2>2 DEF Controller!PollFrame, ControllerTypes
  <2>4. QED
    BY <1>4, <2>3, OtherThreads
<1>7. CASE Controller!PollFile
  <2>1. poller' \in PollerRecord /\ poller.table \in SUBSET Table
    BY <1>2, <1>3, <1>7 DEF Controller!PollFile, PollerRecord
  <2>2. fresh' \in SUBSET Table /\ fresh \subseteq fresh'
    BY <1>1, <1>7, <2>1, FiledGrows DEF Controller!PollFile, ControllerTypes
  <2>3. ControllerTypes'
    BY <1>1, <1>7, <2>1, <2>2 DEF Controller!PollFile, Controller!bus, ControllerTypes
  <2>4. QED
    BY <1>4, <2>2, <2>3, OtherThreads
<1>8. CASE Controller!BulkDrain
  <2>1. rx' \in Seq(Controller!Frame)
    BY <1>2, <1>8, TailFacts DEF Controller!BulkDrain
  <2>2. fresh' \in SUBSET Table /\ fresh \subseteq fresh'
    BY <1>1, <1>8, FiledGrows DEF Controller!BulkDrain, ControllerTypes
  <2>3. ControllerTypes'
    BY <1>1, <1>8, <2>1, <2>2 DEF Controller!BulkDrain, ControllerTypes
  <2>4. QED
    BY <1>4, <2>2, <2>3, OtherThreads
<1>9. CASE Controller!Answer
  <2>1. PICK m \in asked, g \in BOOLEAN :
          rx' = Append(rx, [motor |-> m, good |-> g]) /\ asked' = asked \ {m}
    BY <1>9 DEF Controller!Answer
  <2>2. [motor |-> m, good |-> g] \in Controller!Frame
    BY <1>1, <2>1 DEF Controller!Frame, Controller!Motors, ControllerTypes, Table
  <2>3. rx' \in Seq(Controller!Frame)
    BY <1>2, <2>1, <2>2
  <2>4. fresh' = fresh /\ ControllerTypes'
    BY <1>1, <1>9, <2>1, <2>3 DEF Controller!Answer, ControllerTypes
  <2>5. QED
    BY <1>4, <2>4, OtherThreads
<1>10. QED
  BY <1>5, <1>6, <1>7, <1>8, <1>9 DEF Controller!Polling

\* The calls that ask motors and wait for their answers.
LEMMA AskStep ==
  ASSUME ControllerInv, NEW p, NEW q, <<p, q>> \in {<<"probe", "presence">>,
                                                    <<"request", "answers">>},
         Controller!AskRound(p, q) \/ Controller!Await(q) \/ Controller!NextRound(q, p)
  PROVE  ControllerInv'
<1>1. ControllerTypes
  BY TypesNamed DEF ControllerInv
<1>2. /\ thread \in ThreadRecord /\ thread.todo \in SUBSET Table
      /\ thread.again \in SUBSET Table /\ thread.round \in 0..Rounds
  BY <1>1, ThreadParts DEF ControllerTypes
<1>3. p \in Counting /\ q \in Counting /\ (p \in Looking <=> q \in Looking)
      /\ p # "queue" /\ q # "queue"
      /\ p \in {"probe", "request"} /\ q \in {"presence", "answers"}
  BY DEF Counting, Looking
<1>4. UNCHANGED <<motors, finalized, waiters, report, fresh>>
  BY DEF Controller!AskRound, Controller!Await, Controller!NextRound, Controller!bus
\* It stays among the positions of its own call, and no motor is forgotten.
<1>5. ASSUME ControllerTypes', thread.pc \in {p, q}, thread'.pc \in {p, q},
             thread.todo \cup thread.again
               \subseteq fresh \cup thread'.todo \cup thread'.again
      PROVE  ControllerInv'
  BY <1>3, <1>4, <1>5, TypesNamed
  DEF ControllerInv, WaiterInv, TableInv, AnswerInv
<1>6. CASE Controller!AskRound(p, q)
  <2>1. thread' \in ThreadRecord
    BY <1>2, <1>3, <1>6, ThreadTypes DEF Controller!AskRound
  <2>2. ControllerTypes'
    BY <1>1, <1>2, <1>6, <2>1 DEF Controller!AskRound, ControllerTypes
  <2>3. /\ thread.pc = p /\ thread'.pc = q /\ thread'.todo = thread.todo
        /\ thread'.again = thread.again
    BY <1>2, <1>6 DEF Controller!AskRound, ThreadRecord
  <2>4. QED
    BY <1>5, <2>2, <2>3
<1>7. CASE Controller!Await(q)
  <2>1. PICK m \in thread.todo :
          \/ m \in fresh /\ thread' = [thread EXCEPT !.todo = @ \ {m}]
          \/ m \notin fresh
               /\ thread' = [thread EXCEPT !.todo = @ \ {m}, !.again = @ \cup {m}]
    BY <1>7 DEF Controller!Await
  <2>2. thread' \in ThreadRecord
    <3>1. m \in Table /\ thread.todo \ {m} \in SUBSET Table
          /\ thread.again \cup {m} \in SUBSET Table
      BY <1>2, <2>1
    <3>2. /\ [thread EXCEPT !.todo = @ \ {m}] \in ThreadRecord
          /\ [thread EXCEPT !.todo = @ \ {m}, !.again = @ \cup {m}] \in ThreadRecord
      BY <1>2, <3>1 DEF ThreadRecord
    <3>3. QED
      BY <2>1, <3>2
  <2>3. ControllerTypes'
    BY <1>1, <1>7, <2>2 DEF Controller!Await, Controller!bus, ControllerTypes
  <2>4. thread.pc = q /\ thread'.pc = q
    BY <1>2, <1>7, <2>1 DEF Controller!Await, ThreadRecord
  <2>5. thread.todo \cup thread.again \subseteq fresh \cup thread'.todo \cup thread'.again
    <3>1. CASE m \in fresh
      BY <1>2, <2>1, <3>1 DEF ThreadRecord
    <3>2. CASE m \notin fresh
      BY <1>2, <2>1, <3>2 DEF ThreadRecord
    <3>3. QED
      BY <3>1, <3>2
  <2>6. QED
    BY <1>5, <2>3, <2>4, <2>5
<1>8. CASE Controller!NextRound(q, p)
  <2>1. thread.round + 1 \in 0..Rounds
    BY <1>2, <1>8, MotorLayerAssumption DEF Controller!NextRound
  <2>2. /\ thread'.todo = thread.again /\ thread'.pc = p /\ thread.pc = q
        /\ thread.todo = {}
    BY <1>8 DEF Controller!NextRound
  <2>3. thread' \in ThreadRecord
    BY <1>2, <1>3, <1>8, <2>1 DEF Controller!NextRound, ThreadRecord
  <2>4. ControllerTypes'
    BY <1>1, <1>8, <2>3 DEF Controller!NextRound, Controller!bus, ControllerTypes
  <2>5. QED
    BY <1>5, <2>2, <2>4
<1>9. QED
  BY <1>6, <1>7, <1>8

\* A call begins.
LEMMA BeginStep ==
  ASSUME ControllerInv,
         Controller!Discover \/ Controller!Batch \/ Controller!BulkBegin
           \/ Controller!CloseBegin
  PROVE  ControllerInv'
<1>1. ControllerTypes
  BY TypesNamed DEF ControllerInv
<1>2. thread \in ThreadRecord /\ poller \in PollerRecord /\ motors \in SUBSET Table
      /\ thread.pc = "idle" /\ 1 \in 0..Rounds /\ 0 \in 0..Rounds
  BY <1>1, MotorLayerAssumption
  DEF ControllerTypes, Controller!Discover, Controller!Batch, Controller!BulkBegin,
      Controller!CloseBegin
<1>3. CASE Controller!Discover
  <2>1. /\ thread' = [pc |-> "probe", todo |-> Table, again |-> {}, round |-> 1]
        /\ motors' = Table /\ fresh' = {}
    BY <1>3 DEF Controller!Discover, Controller!At, Controller!Motors, Table
  <2>2. thread' \in ThreadRecord
    BY <1>2, <2>1 DEF ThreadRecord
  <2>3. poller' \in PollerRecord
    BY <1>2, <1>3 DEF Controller!Discover, PollerRecord
  <2>4. ControllerTypes'
    BY <1>1, <1>3, <2>1, <2>2, <2>3 DEF Controller!Discover, Controller!bus, ControllerTypes
  <2>5. thread'.pc = "probe" /\ thread'.todo = Table
    BY <2>1
  <2>6. ~finalized /\ UNCHANGED <<finalized, report, waiters>>
    BY <1>3 DEF Controller!Discover, Controller!bus
  <2>7. WaiterInv' /\ TableInv'
    BY <1>2, <2>1, <2>5, <2>6 DEF ControllerInv, WaiterInv, TableInv, Looking
  <2>8. AnswerInv'
    BY <2>1, <2>5, <2>6 DEF ControllerInv, AnswerInv, Looking, Counting
  <2>9. QED
    BY <2>4, <2>7, <2>8, TypesNamed DEF ControllerInv
<1>4. CASE Controller!Batch
  <2>1. /\ thread' = [pc |-> "request", todo |-> motors, again |-> {}, round |-> 1]
        /\ fresh' = {} /\ transport_errors' = FALSE
    BY <1>4 DEF Controller!Batch, Controller!At
  <2>2. thread' \in ThreadRecord
    BY <1>2, <2>1 DEF ThreadRecord
  <2>3. ControllerTypes'
    BY <1>1, <1>4, <2>1, <2>2 DEF Controller!Batch, Controller!bus, ControllerTypes
  <2>4. thread'.pc = "request" /\ thread'.todo = motors
    BY <2>1
  <2>5. UNCHANGED <<motors, finalized, report, waiters>>
    BY <1>4 DEF Controller!Batch, Controller!bus
  <2>6. WaiterInv' /\ TableInv'
    BY <1>2, <2>4, <2>5 DEF ControllerInv, WaiterInv, TableInv, Looking
  <2>7. AnswerInv'
    BY <2>4, <2>5 DEF ControllerInv, AnswerInv, Looking, Counting
  <2>8. QED
    BY <2>3, <2>6, <2>7, TypesNamed DEF ControllerInv
<1>5. CASE Controller!BulkBegin \/ Controller!CloseBegin
  <2>1. \/ thread' = [pc |-> "bulk", todo |-> motors, again |-> {}, round |-> 0]
        \/ thread' = [pc |-> "closing", todo |-> {}, again |-> {}, round |-> 0]
    BY <1>5 DEF Controller!BulkBegin, Controller!CloseBegin, Controller!At
  <2>2. thread' \in ThreadRecord /\ thread'.pc \in {"bulk", "closing"}
    BY <1>2, <2>1 DEF ThreadRecord
  <2>3. UNCHANGED <<motors, finalized, fresh, transport_errors, poller, report, closed,
                    asked, rx, recv_mutex, waiters>>
    BY <1>5 DEF Controller!BulkBegin, Controller!CloseBegin, Controller!bus
  <2>4. ControllerTypes'
    BY <1>1, <2>2, <2>3 DEF ControllerTypes
  <2>5. WaiterInv'
    BY <1>2, <2>2, <2>3 DEF ControllerInv, WaiterInv
  <2>6. thread.pc \notin Counting /\ thread'.pc \notin Counting
    BY <1>2, <2>2 DEF Counting, Looking
  <2>7. QED
    BY <2>3, <2>4, <2>5, <2>6, PlainMove
<1>6. QED
  BY <1>3, <1>4, <1>5

\* A call ends and leaves its report.
LEMMA ReportStep ==
  ASSUME ControllerInv,
         Controller!Conclude \/ Controller!ProbeFails \/ Controller!BatchDone
           \/ Controller!BatchFails
  PROVE  ControllerInv'
<1>1. ControllerTypes
  BY TypesNamed DEF ControllerInv
<1>2. /\ thread \in ThreadRecord /\ thread.todo \in SUBSET Table
      /\ thread.again \in SUBSET Table /\ 0 \in 0..Rounds
      /\ motors \in SUBSET Table /\ fresh \in SUBSET Table
      /\ transport_errors \in BOOLEAN
  BY <1>1, ThreadParts, MotorLayerAssumption DEF ControllerTypes
<1>3. /\ thread' = [pc |-> "idle", todo |-> {}, again |-> {}, round |-> 0]
      /\ UNCHANGED <<fresh, poller, closed, asked, rx, recv_mutex, waiters>>
  BY DEF Controller!Conclude, Controller!ProbeFails, Controller!BatchDone,
         Controller!BatchFails, Controller!Idle, Controller!At, Controller!bus
<1>4. thread' \in ThreadRecord /\ thread'.pc = "idle" /\ thread.pc # "queue"
  BY <1>2, <1>3 DEF ThreadRecord, Controller!Conclude, Controller!ProbeFails,
                    Controller!BatchDone, Controller!BatchFails
<1>5. WaiterInv' /\ thread'.pc \notin Looking /\ thread'.pc \notin Counting
  BY <1>3, <1>4 DEF ControllerInv, WaiterInv, Looking, Counting
\* The reports.
<1>6. ASSUME NEW k \in {"discovery", "batch"}, NEW b \in BOOLEAN,
             NEW s \in SUBSET Table,
             report' = [kind |-> k, ok |-> b, missing |-> s],
             motors' \in SUBSET Table, finalized' \in BOOLEAN,
             transport_errors' \in BOOLEAN,
             IF finalized' THEN Required \subseteq motors' ELSE motors' = {},
             b => motors' \subseteq fresh,
             k = "batch" /\ b => s = {}
      PROVE  ControllerInv'
  <2>1. report' \in ReportRecord
    BY <1>6 DEF ReportRecord
  <2>2. ControllerTypes'
    BY <1>1, <1>3, <1>4, <1>6, <2>1 DEF ControllerTypes
  <2>3. report'.kind = k /\ report'.ok = b /\ report'.missing = s
    BY <1>6
  <2>4. TableInv'
    BY <1>5, <1>6 DEF TableInv
  <2>5. AnswerInv'
    BY <1>3, <1>5, <1>6, <2>3 DEF AnswerInv
  <2>6. QED
    BY <1>5, <2>2, <2>4, <2>5, TypesNamed DEF ControllerInv
<1>7. CASE Controller!Conclude
  <2> DEFINE failed == thread.again \cap Required # {}
  <2>1. /\ motors' = IF failed THEN {} ELSE motors \ thread.again
        /\ finalized' = ~failed
        /\ report' = [kind |-> "discovery", ok |-> ~failed, missing |-> thread.again]
        /\ thread.pc = "presence" /\ thread.todo = {}
        /\ transport_errors' = transport_errors
    BY <1>7 DEF Controller!Conclude
  <2>2. motors = Table /\ motors \subseteq fresh \cup thread.todo \cup thread.again
    BY <2>1 DEF ControllerInv, TableInv, AnswerInv, Looking, Counting
  <2>3. (~failed) \in BOOLEAN
    OBVIOUS
  <2>4. ~failed => Required \subseteq motors' /\ motors' \subseteq fresh
    BY <2>1, <2>2 DEF Table
  <2>5. failed => motors' = {}
    BY <2>1
  <2>6. motors' \in SUBSET Table
    BY <1>2, <2>1
  <2> HIDE DEF failed
  <2>7. QED
    BY <1>2, <1>6, <2>1, <2>3, <2>4, <2>5, <2>6
<1>8. CASE Controller!ProbeFails
  <2>1. ~finalized
    BY <1>8 DEF Controller!ProbeFails, ControllerInv, TableInv, Looking
  <2>2. /\ report' = [kind |-> "discovery", ok |-> FALSE, missing |-> thread.todo]
        /\ motors' = {} /\ finalized' = FALSE /\ transport_errors' = TRUE
    BY <1>1, <1>8, <2>1 DEF Controller!ProbeFails, ControllerTypes
  <2>3. QED
    BY <1>2, <1>6, <2>2
<1>9. CASE Controller!BatchDone
  <2> DEFINE b == thread.again = {} /\ ~transport_errors
  <2>1. /\ report' = [kind |-> "batch", ok |-> b, missing |-> thread.again]
        /\ UNCHANGED <<motors, finalized, transport_errors>>
        /\ thread.pc = "answers" /\ thread.todo = {}
    BY <1>9 DEF Controller!BatchDone
  <2>2. /\ IF finalized THEN Required \subseteq motors ELSE motors = {}
        /\ motors \subseteq fresh \cup thread.todo \cup thread.again
    BY <2>1 DEF ControllerInv, TableInv, AnswerInv, Looking, Counting
  <2>3. b \in BOOLEAN /\ (b => thread.again = {} /\ motors \subseteq fresh)
    BY <2>1, <2>2
  <2>4. finalized \in BOOLEAN
    BY <1>1 DEF ControllerTypes
  <2> HIDE DEF b
  <2>5. QED
    BY <1>2, <1>6, <2>1, <2>2, <2>3, <2>4
<1>10. CASE Controller!BatchFails
  <2>1. /\ report' = [kind |-> "batch", ok |-> FALSE, missing |-> motors \ fresh]
        /\ UNCHANGED <<motors, finalized>> /\ transport_errors' = TRUE
        /\ thread.pc = "request"
    BY <1>10 DEF Controller!BatchFails
  <2>2. IF finalized THEN Required \subseteq motors ELSE motors = {}
    BY <2>1 DEF ControllerInv, TableInv, Looking
  <2>3. finalized \in BOOLEAN /\ motors \ fresh \in SUBSET Table
    BY <1>1, <1>2 DEF ControllerTypes
  <2>4. QED
    BY <1>2, <1>6, <2>1, <2>2, <2>3
<1>11. QED
  BY <1>7, <1>8, <1>9, <1>10

\* The synchronous polls and the close.
LEMMA BulkStep ==
  ASSUME ControllerInv,
         Controller!BulkSend \/ Controller!BulkLock \/ Controller!BulkUnlock
           \/ Controller!BulkEnd \/ Controller!CloseEnd
  PROVE  ControllerInv'
<1>1. ControllerTypes
  BY TypesNamed DEF ControllerInv
<1>2. /\ thread \in ThreadRecord /\ thread.todo \in SUBSET Table /\ 0 \in 0..Rounds
      /\ asked \in SUBSET Table
  BY <1>1, ThreadParts, MotorLayerAssumption DEF ControllerTypes
<1>3. UNCHANGED <<motors, finalized, report, fresh, transport_errors, poller>>
  BY DEF Controller!BulkSend, Controller!BulkLock, Controller!BulkUnlock,
         Controller!BulkEnd, Controller!CloseEnd
<1>4. ASSUME thread' \in ThreadRecord, asked' \in SUBSET Table,
             rx' \in Seq(Controller!Frame),
             recv_mutex' \in {"free", "poller", "caller"}, closed' \in BOOLEAN,
             thread.pc \notin Counting, thread'.pc \notin Counting, WaiterInv'
      PROVE  ControllerInv'
  <2>1. waiters' \in 0..1
    BY <1>4 DEF WaiterInv
  <2>2. ControllerTypes'
    BY <1>1, <1>3, <1>4, <2>1 DEF ControllerTypes
  <2>3. QED
    BY <1>3, <1>4, <2>2, PlainMove
<1> USE DEF Counting, Looking
<1>5. CASE Controller!BulkSend
  <2>1. PICK m \in thread.todo :
          /\ asked' = asked \cup {m}
          /\ thread' = [thread EXCEPT !.pc = "queue", !.todo = @ \ {m}]
    BY <1>5 DEF Controller!BulkSend
  <2>2. /\ thread.pc = "bulk" /\ waiters' = waiters + 1
        /\ UNCHANGED <<rx, recv_mutex, closed>>
    BY <1>5 DEF Controller!BulkSend
  <2>3. thread' \in ThreadRecord /\ thread'.pc = "queue"
    BY <1>2, <2>1 DEF ThreadRecord
  <2>4. WaiterInv'
    BY <2>2, <2>3 DEF ControllerInv, WaiterInv
  <2>5. QED
    BY <1>1, <1>2, <1>4, <2>1, <2>2, <2>3, <2>4 DEF ControllerTypes
<1>6. CASE Controller!BulkLock
  <2>1. /\ thread.pc = "queue" /\ waiters' = waiters - 1
        /\ recv_mutex' = "caller" /\ UNCHANGED <<asked, rx, closed>>
    BY <1>6 DEF Controller!BulkLock
  <2>2. thread' \in ThreadRecord /\ thread'.pc = "drain"
    BY <1>2, <1>6 DEF Controller!BulkLock, ThreadRecord
  <2>3. WaiterInv'
    BY <2>1, <2>2 DEF ControllerInv, WaiterInv
  <2>4. QED
    BY <1>1, <1>4, <2>1, <2>2, <2>3 DEF ControllerTypes
<1>7. CASE Controller!BulkUnlock \/ Controller!BulkEnd
  <2>1. /\ thread.pc \in {"drain", "bulk"}
        /\ recv_mutex' \in {recv_mutex, "free"}
        /\ UNCHANGED <<asked, rx, waiters, closed>>
    BY <1>7 DEF Controller!BulkUnlock, Controller!BulkEnd, Controller!bus
  <2>2. thread' \in ThreadRecord /\ thread'.pc \in {"bulk", "idle"}
    BY <1>2, <1>7 DEF Controller!BulkUnlock, Controller!BulkEnd, Controller!Idle,
                      Controller!At, ThreadRecord
  <2>3. WaiterInv'
    BY <2>1, <2>2 DEF ControllerInv, WaiterInv
  <2>4. QED
    BY <1>1, <1>4, <2>1, <2>2, <2>3 DEF ControllerTypes
<1>8. CASE Controller!CloseEnd
  <2>1. /\ thread.pc = "closing" /\ closed' = TRUE /\ asked' = {} /\ rx' = <<>>
        /\ UNCHANGED <<recv_mutex, waiters>>
    BY <1>8 DEF Controller!CloseEnd
  <2>2. thread' \in ThreadRecord /\ thread'.pc = "idle"
    BY <1>2, <1>8 DEF Controller!CloseEnd, Controller!Idle, Controller!At, ThreadRecord
  <2>3. WaiterInv'
    BY <2>1, <2>2 DEF ControllerInv, WaiterInv
  <2>4. rx' \in Seq(Controller!Frame)
    BY <2>1
  <2>5. QED
    BY <1>1, <1>4, <2>1, <2>2, <2>3, <2>4 DEF ControllerTypes
<1>9. QED
  BY <1>5, <1>6, <1>7, <1>8

LEMMA ControllerStep ==
  ASSUME ControllerInv, Controller!Next
  PROVE  ControllerInv'
<1>1. CASE Controller!Discovery \/ Controller!Feedback
  <2>1. CASE Controller!Probe \/ Controller!AwaitPresence \/ Controller!ProbeAgain
    BY <2>1, AskStep
    DEF Controller!Probe, Controller!AwaitPresence, Controller!ProbeAgain
  <2>2. CASE Controller!Request \/ Controller!AwaitAnswers \/ Controller!RequestAgain
    BY <2>2, AskStep
    DEF Controller!Request, Controller!AwaitAnswers, Controller!RequestAgain
  <2>3. QED
    BY <1>1, <2>1, <2>2, ReportStep DEF Controller!Discovery, Controller!Feedback
<1>2. CASE Controller!Bulk \/ Controller!CloseEnd
  BY <1>2, BulkStep, PollerStep DEF Controller!Bulk
<1>3. QED
  BY <1>1, <1>2, BeginStep, PollerStep DEF Controller!Next

LEMMA ControllerStart ==
  ASSUME Controller!Init
  PROVE  ControllerInv
<1>1. 0 \in 0..Rounds
  BY MotorLayerAssumption
<1>2. poller \in PollerRecord /\ report \in ReportRecord /\ rx \in Seq(Controller!Frame)
  BY DEF Controller!Init, PollerRecord, ReportRecord, Controller!Frame
<1>3. thread \in ThreadRecord /\ thread.pc = "idle" /\ report.kind = "none"
  BY <1>1 DEF Controller!Init, Controller!Idle, Controller!At, ThreadRecord
<1>4. ControllerTypes
  <2>1. /\ motors = {} /\ asked = {} /\ fresh = {} /\ recv_mutex = "free"
        /\ finalized = FALSE /\ transport_errors = FALSE /\ closed = FALSE
        /\ waiters = 0
    BY DEF Controller!Init
  <2>2. /\ finalized \in BOOLEAN /\ transport_errors \in BOOLEAN
        /\ closed \in BOOLEAN
    BY <2>1, Zenon
  <2>3. waiters \in 0..1
    BY <2>1
  <2>4. QED
    BY <1>2, <1>3, <2>1, <2>2, <2>3 DEF ControllerTypes
<1>5. QED
  BY <1>3, <1>4, TypesNamed
  DEF Controller!Init, ControllerInv, WaiterInv, TableInv, AnswerInv, Looking, Counting

\* Outside a discovery the motor table is empty or final with every required
\* motor in it, and the motors that a discovery or a feedback batch reports
\* present have answered since the call captured the counts, whatever the bus
\* loses, however late answers come and whichever thread files them
\* (discover_damiao_motors, request_feedback_all_report, polling_loop).
THEOREM ReportIsTrue == LayerSpec => []MotorsTrulyReported
<1> DEFINE LayerInv == GroupInv /\ RegisterInv /\ ControllerInv
<1>1. LayerInit => LayerInv
  BY GroupInit, RegisterStart, ControllerStart DEF LayerInit
<1>2. LayerInv /\ [LayerNext]_layerVars => LayerInv'
  <2> SUFFICES ASSUME LayerInv, [LayerNext]_layerVars
               PROVE  LayerInv'
    OBVIOUS
  <2>1. GroupInv'
    BY GroupStep DEF LayerNext, layerVars, groupVars
  <2>2. RegisterInv'
    BY LayerRegister
  <2>3. ControllerInv'
    <3>1. CASE Controller!Next
      BY <3>1, ControllerStep
    <3>2. CASE UNCHANGED controllerVars
      BY <3>2
      DEF controllerVars, ControllerInv, Controller!TypeOK, WaiterInv, TableInv, AnswerInv
    <3>3. QED
      BY <3>1, <3>2
      DEF LayerNext, layerVars, Controller!Closed, Controller!vars, controllerVars
  <2>4. QED
    BY <2>1, <2>2, <2>3
<1>3. LayerInv => MotorsTrulyReported
  <2> SUFFICES ASSUME LayerInv PROVE MotorsTrulyReported
    OBVIOUS
  <2>1. LayerTypeOK
    BY DEF LayerTypeOK, GroupInv, RegisterInv, ControllerInv
  <2>2. Controller!TableSettled
    BY DEF ControllerInv, TableInv, Looking, Controller!TableSettled
  <2>3. Controller!ReportedMotorsAnswered
    BY DEF ControllerInv, AnswerInv, Looking, Counting,
           Controller!ReportedMotorsAnswered
  <2>4. QED
    BY <2>1, <2>2, <2>3 DEF MotorsTrulyReported
<1>4. QED
  BY <1>1, <1>2, <1>3, PTL DEF LayerSpec

=============================================================================
