------------------------ MODULE RegisterTransaction ------------------------
(***************************************************************************)
(* Register transactions of one motor: write_register_with_retry,          *)
(* wait_for_write_ack, wait_for_register and ensure_mode of MotorHandle,   *)
(* with the motor at the other end of the bus and the receive thread that  *)
(* files its answers.                                                      *)
(*                                                                         *)
(* One register is modelled: acknowledgements and replies are filed by     *)
(* register number, so registers do not meet.  The bus keeps the order of  *)
(* the frames of one motor and may lose any of them.  A deadline is the    *)
(* number of retry intervals that fit before it.                           *)
(***************************************************************************)
EXTENDS Integers, Sequences

CONSTANTS
  Values,      \* contents of the register
  Initial,     \* its content before the first call
  Retries,     \* retry intervals before the deadline of a call
  MaxFrames    \* frames under way in one direction (bound of the model)

VARIABLES
  reg,    \* the motor's register
  down,   \* frames on their way to the motor
  up,     \* frames on their way back
  call,   \* the calling thread: position, what it is doing, value, deadline
  ack,    \* register_acks_ and whether its count passed the captured one
  reply,  \* register_replies_ and whether its time is after the request
  res,    \* result of the last call
  clean   \* history: no call has failed yet

vars == <<reg, down, up, call, ack, reply, res, clean>>

NoValue == -1

Request == [kind : {"write", "read"}, val : Values \cup {NoValue}]
Answer  == [kind : {"ack", "reply"}, val : Values]
Filed   == [fresh : BOOLEAN, val : Values]

Idle == [pc |-> "idle", goal |-> "none", want |-> Initial, left |-> 0]

Init ==
  /\ reg = Initial
  /\ down = <<>> /\ up = <<>>
  /\ call = Idle
  /\ ack = [fresh |-> FALSE, val |-> Initial]
  /\ reply = [fresh |-> FALSE, val |-> Initial]
  /\ res = [ok |-> TRUE, val |-> Initial]
  /\ clean = TRUE

-----------------------------------------------------------------------------
(* The calling thread *)

\* Mutant: any cached reply will do, however old.
BeginReadStale(goal, want, left) ==
  /\ call' = [pc |-> "read", goal |-> goal, want |-> want, left |-> left]
  /\ UNCHANGED reply

\* wait_for_register: only a reply that comes after request_at counts.
BeginRead(goal, want, left) ==
  /\ call' = [pc |-> "read", goal |-> goal, want |-> want, left |-> left]
  /\ reply' = [reply EXCEPT !.fresh = FALSE]

\* write_register_with_retry captures the acknowledgement count first.
BeginWrite(goal, want, left) ==
  /\ call' = [pc |-> "send", goal |-> goal, want |-> want, left |-> left]
  /\ ack' = [ack EXCEPT !.fresh = FALSE]

Return(ok, v) ==
  /\ call' = Idle
  /\ res' = [ok |-> ok, val |-> v]
  /\ clean' = (clean /\ ok)

Fail == Return(FALSE, call.want)

\* write_register_f32, write_register_u32, set_can_timeout_ms.
CallWrite(v) ==
  /\ call.pc = "idle"
  /\ BeginWrite("write", v, Retries)
  /\ UNCHANGED <<reg, down, up, reply, res, clean>>

\* get_register_f32, get_register_u32.
CallRead ==
  /\ call.pc = "idle"
  /\ BeginRead("read", Initial, Retries)
  /\ UNCHANGED <<reg, down, up, ack, res, clean>>

\* ensure_mode: read the mode, and only if it differs write and verify it.
CallEnsure(v) ==
  /\ call.pc = "idle"
  /\ BeginRead("probe", v, Retries)
  /\ UNCHANGED <<reg, down, up, ack, res, clean>>

\* One attempt of the loop of write_register_with_retry.
SendWrite ==
  /\ call.pc = "send" /\ call.left > 0 /\ Len(down) < MaxFrames
  /\ down' = Append(down, [kind |-> "write", val |-> call.want])
  /\ call' = [call EXCEPT !.pc = "ack", !.left = @ - 1]
  /\ UNCHANGED <<reg, up, ack, reply, res, clean>>

\* wait_for_write_ack runs out of its 10 ms: next attempt.
AckMissed ==
  /\ call.pc = "ack" /\ ~ack.fresh
  /\ call' = [call EXCEPT !.pc = "send"]
  /\ UNCHANGED <<reg, down, up, ack, reply, res, clean>>

\* The deadline of the write, or a failing send: the exception leaves the
\* call, ensure_mode included.
WriteFails ==
  /\ call.pc = "send"
  /\ Fail
  /\ UNCHANGED <<reg, down, up, ack, reply>>

\* wait_for_write_ack with an acknowledgement newer than the captured count.
AckMatches ==
  /\ call.pc = "ack" /\ ack.fresh /\ ack.val = call.want
  /\ \/ /\ call.goal = "write"
        /\ Return(TRUE, call.want)
        /\ UNCHANGED reply
     \/ /\ call.goal = "set"
        /\ BeginRead("verify", call.want, call.left)
        /\ UNCHANGED <<res, clean>>
  /\ UNCHANGED <<reg, down, up, ack>>

AckMismatch ==
  /\ call.pc = "ack" /\ ack.fresh /\ ack.val # call.want
  /\ Fail
  /\ UNCHANGED <<reg, down, up, ack, reply>>

\* wait_for_register repeats its request while it waits.
SendRead ==
  /\ call.pc = "read" /\ ~reply.fresh
  /\ call.left > 0 /\ Len(down) < MaxFrames
  /\ down' = Append(down, [kind |-> "read", val |-> NoValue])
  /\ call' = [call EXCEPT !.left = @ - 1]
  /\ UNCHANGED <<reg, up, ack, reply, res, clean>>

\* A reply: the value read, the mode already set, or another attempt.
ReadReplied ==
  /\ call.pc = "read" /\ reply.fresh
  /\ \/ /\ call.goal = "read"
        /\ Return(TRUE, reply.val)
        /\ UNCHANGED ack
     \/ /\ call.goal \in {"probe", "verify"} /\ reply.val = call.want
        /\ Return(TRUE, call.want)
        /\ UNCHANGED ack
     \/ /\ call.goal \in {"probe", "verify"} /\ reply.val # call.want
        /\ BeginWrite("set", call.want, call.left)
        /\ UNCHANGED <<res, clean>>
  /\ UNCHANGED <<reg, down, up, reply>>

\* No reply: a plain read fails at its deadline; ensure_mode caps its reads
\* well before its own and goes on to write the mode.
ReadTimesOut ==
  /\ call.pc = "read" /\ ~reply.fresh
  /\ \/ /\ call.goal = "read" /\ call.left = 0
        /\ Fail
        /\ UNCHANGED ack
     \/ /\ call.goal \in {"probe", "verify"}
        /\ BeginWrite("set", call.want, call.left)
        /\ UNCHANGED <<res, clean>>
  /\ UNCHANGED <<reg, down, up, reply>>

\* A send that throws while a reply is awaited.
ReadFails ==
  /\ call.pc = "read" /\ ~reply.fresh /\ call.left > 0
  /\ Fail
  /\ UNCHANGED <<reg, down, up, ack, reply>>

-----------------------------------------------------------------------------
(* The motor, the bus and the receive thread *)

\* The motor takes the next frame and answers it.
MotorAnswers ==
  /\ down # <<>> /\ Len(up) < MaxFrames
  /\ LET f == Head(down)
     IN  IF f.kind = "write"
           THEN /\ reg' = f.val
                /\ up' = Append(up, [kind |-> "ack", val |-> f.val])
           ELSE /\ UNCHANGED reg
                /\ up' = Append(up, [kind |-> "reply", val |-> reg])
  /\ down' = Tail(down)
  /\ UNCHANGED <<call, ack, reply, res, clean>>

LoseRequest ==
  /\ down # <<>>
  /\ down' = Tail(down)
  /\ UNCHANGED <<reg, up, call, ack, reply, res, clean>>

LoseAnswer ==
  /\ up # <<>>
  /\ up' = Tail(up)
  /\ UNCHANGED <<reg, down, call, ack, reply, res, clean>>

\* process_feedback_frame files acknowledgement or reply.
FileAnswer ==
  /\ up # <<>>
  /\ LET f == Head(up)
         filed == [fresh |-> TRUE, val |-> f.val]
     IN  IF f.kind = "ack"
           THEN ack' = filed /\ UNCHANGED reply
           ELSE reply' = filed /\ UNCHANGED ack
  /\ up' = Tail(up)
  /\ UNCHANGED <<reg, down, call, res, clean>>

Waiting ==
  SendWrite \/ AckMissed \/ WriteFails \/ AckMatches \/ AckMismatch
  \/ SendRead \/ ReadReplied \/ ReadTimesOut \/ ReadFails

Environment == MotorAnswers \/ LoseRequest \/ LoseAnswer \/ FileAnswer

Next ==
  \/ \E v \in Values : CallWrite(v) \/ CallEnsure(v)
  \/ CallRead
  \/ Waiting
  \/ Environment

Spec == Init /\ [][Next]_vars

\* The caller is a running thread; the bus empties itself.
Fairness == WF_vars(Waiting) /\ WF_vars(Environment)

FairSpec == Spec /\ Fairness

-----------------------------------------------------------------------------

\* Variables keep their types: frames, filed answers and the call in hand.
TypeOK ==
  /\ reg \in Values
  /\ down \in Seq(Request) /\ up \in Seq(Answer)
  /\ call \in [pc : {"idle", "send", "ack", "read"},
               goal : {"none", "write", "set", "read", "probe", "verify"},
               want : Values, left : 0..Retries]
  /\ ack \in Filed /\ reply \in Filed
  /\ res \in [ok : BOOLEAN, val : Values]
  /\ clean \in BOOLEAN

\* As long as no call on the motor has failed, a call that reports success
\* tells the truth and stays true while its own late retries and their
\* answers are still on the bus: the register holds the value written,
\* ensured or read.  (After a failure an answer of the failed call may
\* confirm a later one; write_register_with_retry cannot tell them apart.)
ConfirmedValue ==
  clean /\ call.pc = "idle" => reg = res.val

\* Every register call returns, whatever the bus loses: the deadline bounds
\* the retries of reads, writes and of the mode switch.
CallReturns == call.pc # "idle" ~> call.pc = "idle"

=============================================================================
