-------------------------- MODULE MotorController --------------------------
(***************************************************************************)
(* One Controller of the motor layer: the motor table and its discovery,   *)
(* the grouped feedback request, the synchronous poll of enable_all and    *)
(* disable_all, and the receive thread they share the bus with.            *)
(*                                                                         *)
(* A motor may answer a request once, late or not at all; a frame that     *)
(* accepts_frame or the plausibility check of process_feedback_frame       *)
(* rejects is one with good = FALSE.  A deadline may pass whenever an      *)
(* answer is missing.                                                      *)
(***************************************************************************)
EXTENDS Integers, Sequences, FiniteSets

CONSTANTS
  Required, Optional,  \* candidates by presence policy
  Rounds,              \* attempts of a discovery, rounds of a feedback batch
  MaxFrames            \* frames in the receive queue (bound of the model)

Motors == Required \cup Optional

VARIABLES
  motors,     \* motors_, the table
  finalized,  \* discovery_finalized_
  asked,      \* motors with an unanswered request on the bus
  rx,         \* frames received by the socket
  fresh,      \* motors whose update count passed the captured one
  errors,     \* transport errors since health_before
  recv_mutex,
  waiters,    \* synchronous_receive_waiters_
  poller,     \* the receive thread: position, frame in hand, table used
  caller,     \* the calling thread: position, motors to go, to retry, round
  report,     \* last result: kind, status and missing motors
  closed      \* bus_closed_

vars == <<motors, finalized, asked, rx, fresh, errors, recv_mutex, waiters,
          poller, caller, report, closed>>

NoFrame == [motor |-> 0, good |-> FALSE]
Frame == [motor : Motors, good : BOOLEAN] \cup {NoFrame}

At(pc) == [pc |-> pc, todo |-> {}, again |-> {}, round |-> 0]
Idle == At("idle")

Init ==
  /\ motors = {} /\ finalized = FALSE
  /\ asked = {} /\ rx = <<>> /\ fresh = {} /\ errors = FALSE
  /\ recv_mutex = "free" /\ waiters = 0
  /\ poller = [pc |-> "off", frame |-> NoFrame, table |-> {}]
  /\ caller = Idle
  /\ report = [kind |-> "none", ok |-> TRUE, missing |-> {}]
  /\ closed = FALSE

-----------------------------------------------------------------------------
(* Discovery *)

bus == <<asked, rx, recv_mutex, waiters>>

\* discover_damiao_motors: every active candidate enters the table first, and
\* start_polling brings up the receive thread once.  The handles are new: a
\* frame being filed for the table of an earlier attempt is lost on them.
Discover ==
  /\ caller.pc = "idle" /\ ~finalized /\ motors = {} /\ ~closed
  /\ motors' = Motors
  /\ fresh' = {}
  /\ poller' = [poller EXCEPT !.pc = IF @ = "off" THEN "idle" ELSE @,
                              !.table = {}]
  /\ caller' = [At("probe") EXCEPT !.todo = Motors, !.round = 1]
  /\ UNCHANGED <<finalized, errors, report, closed, bus>>

\* A round asks the pending motors together.
AskRound(from, to) ==
  /\ caller.pc = from
  /\ asked' = asked \cup caller.todo
  /\ caller' = [caller EXCEPT !.pc = to]
  /\ UNCHANGED <<motors, finalized, rx, fresh, errors, recv_mutex, waiters,
                 poller, report, closed>>

Probe == AskRound("probe", "presence")

\* Mutant: a motor that timed out is not kept for the next round.
AwaitForgets(at) ==
  /\ caller.pc = at
  /\ \E m \in caller.todo : caller' = [caller EXCEPT !.todo = @ \ {m}]
  /\ UNCHANGED <<motors, finalized, fresh, errors, poller, report, closed, bus>>

\* wait_for_feedback_after, motor by motor: an answer, or the deadline.
Await(at) ==
  /\ caller.pc = at
  /\ \E m \in caller.todo :
       \/ /\ m \in fresh
          /\ caller' = [caller EXCEPT !.todo = @ \ {m}]
       \/ /\ m \notin fresh
          /\ caller' = [caller EXCEPT !.todo = @ \ {m}, !.again = @ \cup {m}]
  /\ UNCHANGED <<motors, finalized, fresh, errors, poller, report, closed, bus>>

AwaitPresence == Await("presence")

NextRound(at, back) ==
  /\ caller.pc = at /\ caller.todo = {}
  /\ caller.again # {} /\ caller.round < Rounds
  /\ caller' = [pc |-> back, todo |-> caller.again, again |-> {},
                round |-> caller.round + 1]
  /\ UNCHANGED <<motors, finalized, fresh, errors, poller, report, closed, bus>>

ProbeAgain == NextRound("presence", "probe")

\* Absent optional motors leave the table; an absent required one empties it
\* again and fails the call, otherwise the table is final.
Conclude ==
  /\ caller.pc = "presence" /\ caller.todo = {}
  /\ caller.again = {} \/ caller.round = Rounds
  /\ LET failed == caller.again \cap Required # {}
     IN  /\ motors' = IF failed THEN {} ELSE motors \ caller.again
         /\ finalized' = ~failed
         /\ report' = [kind |-> "discovery", ok |-> ~failed,
                       missing |-> caller.again]
  /\ caller' = Idle
  /\ UNCHANGED <<fresh, errors, poller, closed, bus>>

\* A request that cannot be sent: the exception rolls the table back.
ProbeFails ==
  /\ caller.pc = "probe"
  /\ errors' = TRUE
  /\ motors' = {}
  /\ report' = [kind |-> "discovery", ok |-> FALSE, missing |-> caller.todo]
  /\ caller' = Idle
  /\ UNCHANGED <<finalized, fresh, poller, closed, bus>>

-----------------------------------------------------------------------------
(* Grouped feedback request *)

\* request_feedback_all_report captures counts and transport errors.
Batch ==
  /\ caller.pc = "idle" /\ finalized /\ ~closed
  /\ fresh' = {} /\ errors' = FALSE
  /\ caller' = [At("request") EXCEPT !.todo = motors, !.round = 1]
  /\ UNCHANGED <<motors, finalized, poller, report, closed, bus>>

Request == AskRound("request", "answers")
AwaitAnswers == Await("answers")
RequestAgain == NextRound("answers", "request")

\* All motors answered, or the deadline: Ok needs every motor and a transport
\* without new errors.
BatchDone ==
  /\ caller.pc = "answers" /\ caller.todo = {}
  /\ caller.again = {} \/ caller.round = Rounds
  /\ report' = [kind |-> "batch", ok |-> caller.again = {} /\ ~errors,
                missing |-> caller.again]
  /\ caller' = Idle
  /\ UNCHANGED <<motors, finalized, fresh, errors, poller, closed, bus>>

\* A failing send ends the batch at once with the counts as they are.
BatchFails ==
  /\ caller.pc = "request"
  /\ errors' = TRUE
  /\ report' = [kind |-> "batch", ok |-> FALSE, missing |-> motors \ fresh]
  /\ caller' = Idle
  /\ UNCHANGED <<motors, finalized, fresh, poller, closed, bus>>

-----------------------------------------------------------------------------
(* enable_all and disable_all: after each motor a synchronous poll *)

BulkBegin ==
  /\ caller.pc = "idle" /\ finalized /\ ~closed
  /\ caller' = [At("bulk") EXCEPT !.todo = motors]
  /\ UNCHANGED <<motors, finalized, fresh, errors, poller, report, closed, bus>>

\* The command is answered by a feedback frame; poll_feedback_once announces
\* itself before it waits for the mutex.
BulkSend ==
  /\ caller.pc = "bulk" /\ caller.todo # {}
  /\ \E m \in caller.todo :
       /\ asked' = asked \cup {m}
       /\ caller' = [caller EXCEPT !.pc = "queue", !.todo = @ \ {m}]
  /\ waiters' = waiters + 1
  /\ UNCHANGED <<motors, finalized, rx, fresh, errors, recv_mutex, poller,
                 report, closed>>

BulkLock ==
  /\ caller.pc = "queue" /\ recv_mutex = "free"
  /\ recv_mutex' = "caller"
  /\ waiters' = waiters - 1
  /\ caller' = [caller EXCEPT !.pc = "drain"]
  /\ UNCHANGED <<motors, finalized, asked, rx, fresh, errors, poller, report,
                 closed>>

\* The update of one frame by process_feedback_frame.
Filed(f, table) ==
  IF f.good /\ f.motor \in table THEN fresh \cup {f.motor} ELSE fresh

BulkDrain ==
  /\ caller.pc = "drain" /\ rx # <<>>
  /\ fresh' = Filed(Head(rx), motors)
  /\ rx' = Tail(rx)
  /\ UNCHANGED <<motors, finalized, asked, errors, recv_mutex, waiters, poller,
                 caller, report, closed>>

BulkUnlock ==
  /\ caller.pc = "drain" /\ rx = <<>>
  /\ recv_mutex' = "free"
  /\ caller' = [caller EXCEPT !.pc = "bulk"]
  /\ UNCHANGED <<motors, finalized, asked, rx, fresh, errors, waiters, poller,
                 report, closed>>

\* The loop ends, or a motor's command throws out of it.
BulkEnd ==
  /\ caller.pc = "bulk"
  /\ caller' = Idle
  /\ UNCHANGED <<motors, finalized, fresh, errors, poller, report, closed, bus>>

-----------------------------------------------------------------------------
(* The receive thread: polling_loop *)

\* Mutant: the receive thread does not look at the waiters.
PollLockGreedy ==
  /\ poller.pc = "idle" /\ caller.pc # "closing" /\ recv_mutex = "free"
  /\ recv_mutex' = "poller"
  /\ poller' = [poller EXCEPT !.pc = "receive"]
  /\ UNCHANGED <<motors, finalized, asked, rx, fresh, errors, waiters, caller,
                 report, closed>>

\* The loop runs while polling_active_ and steps back for synchronous polls.
PollLock ==
  /\ poller.pc = "idle" /\ caller.pc # "closing"
  /\ waiters = 0 /\ recv_mutex = "free"
  /\ recv_mutex' = "poller"
  /\ poller' = [poller EXCEPT !.pc = "receive"]
  /\ UNCHANGED <<motors, finalized, asked, rx, fresh, errors, waiters, caller,
                 report, closed>>

\* A frame arrives; only then is the table looked up.
PollFrame ==
  /\ poller.pc = "receive" /\ rx # <<>>
  /\ poller' = [pc |-> "file", frame |-> Head(rx), table |-> motors]
  /\ rx' = Tail(rx)
  /\ UNCHANGED <<motors, finalized, asked, fresh, errors, recv_mutex, waiters,
                 caller, report, closed>>

PollFile ==
  /\ poller.pc = "file"
  /\ fresh' = Filed(poller.frame, poller.table)
  /\ poller' = [poller EXCEPT !.pc = "receive", !.frame = NoFrame]
  /\ UNCHANGED <<motors, finalized, errors, caller, report, closed, bus>>

\* Nothing within 10 ms, 64 frames drained, or a receive error.
PollUnlock ==
  /\ poller.pc = "receive"
  /\ errors' \in {errors, TRUE}
  /\ recv_mutex' = "free"
  /\ poller' = [poller EXCEPT !.pc = "idle"]
  /\ UNCHANGED <<motors, finalized, asked, rx, fresh, waiters, caller, report,
                 closed>>

\* close_bus: polling_active_ falls, the thread is woken and joined.
CloseBegin ==
  /\ caller.pc = "idle" /\ ~closed
  /\ caller' = At("closing")
  /\ UNCHANGED <<motors, finalized, fresh, errors, poller, report, closed, bus>>

PollExit ==
  /\ caller.pc = "closing" /\ poller.pc = "idle"
  /\ poller' = [poller EXCEPT !.pc = "off"]
  /\ UNCHANGED <<motors, finalized, fresh, errors, caller, report, closed, bus>>

CloseEnd ==
  /\ caller.pc = "closing" /\ poller.pc = "off"
  /\ closed' = TRUE
  /\ asked' = {} /\ rx' = <<>>
  /\ caller' = Idle
  /\ UNCHANGED <<motors, finalized, fresh, errors, recv_mutex, waiters, poller,
                 report>>

-----------------------------------------------------------------------------
(* The motors *)

\* A motor answers, with a frame the handle accepts or one it rejects.
Answer ==
  /\ Len(rx) < MaxFrames
  /\ \E m \in asked, good \in BOOLEAN :
       /\ rx' = Append(rx, [motor |-> m, good |-> good])
       /\ asked' = asked \ {m}
  /\ UNCHANGED <<motors, finalized, fresh, errors, recv_mutex, waiters, poller,
                 caller, report, closed>>

Discovery ==
  Probe \/ AwaitPresence \/ ProbeAgain \/ Conclude \/ ProbeFails

Feedback ==
  Request \/ AwaitAnswers \/ RequestAgain \/ BatchDone \/ BatchFails

Bulk == BulkSend \/ BulkLock \/ BulkDrain \/ BulkUnlock \/ BulkEnd

Polling == PollLock \/ PollFrame \/ PollFile \/ PollUnlock \/ PollExit

Next ==
  \/ Discover \/ Batch \/ BulkBegin \/ CloseBegin
  \/ Discovery \/ Feedback \/ Bulk \/ CloseEnd
  \/ Polling
  \/ Answer

\* Nothing follows the close.
Closed == closed /\ caller.pc = "idle" /\ UNCHANGED vars

Spec == Init /\ [][Next \/ Closed]_vars

\* Both threads run on; a receive ends by itself after its timeout.
Fairness ==
  /\ WF_vars(Discovery \/ Feedback \/ Bulk \/ CloseEnd)
  /\ WF_vars(Polling) /\ WF_vars(PollUnlock)

FairSpec == Spec /\ Fairness

-----------------------------------------------------------------------------

TypeOK ==
  /\ motors \subseteq Motors /\ asked \subseteq Motors /\ fresh \subseteq Motors
  /\ finalized \in BOOLEAN /\ errors \in BOOLEAN /\ closed \in BOOLEAN
  /\ rx \in Seq(Frame)
  /\ recv_mutex \in {"free", "poller", "caller"} /\ waiters \in 0..1
  /\ poller \in [pc : {"off", "idle", "receive", "file"}, frame : Frame,
                 table : SUBSET Motors]
  /\ caller \in [pc : {"idle", "probe", "presence", "request", "answers",
                       "bulk", "queue", "drain", "closing"},
                 todo : SUBSET Motors, again : SUBSET Motors, round : 0..Rounds]
  /\ report \in [kind : {"none", "discovery", "batch"}, ok : BOOLEAN,
                 missing : SUBSET Motors]

\* Outside a discovery the table is either empty, so that a failed discovery
\* can be repeated, or final with every required motor in it.
TableSettled ==
  caller.pc \notin {"probe", "presence"} =>
    IF finalized THEN Required \subseteq motors ELSE motors = {}

\* What discovery and feedback batch report present has answered with a frame
\* of its own since the call captured the counts, and stays on the record.
ReportedMotorsAnswered ==
  caller.pc = "idle" /\ report.kind # "none" =>
    /\ report.ok => motors \subseteq fresh
    /\ report.kind = "batch" /\ report.ok => report.missing = {}

\* The synchronous polls of enable_all and disable_all, discoveries, feedback
\* batches and the close all end, although the receive thread competes for
\* the bus.
CallsEnd == caller.pc # "idle" ~> caller.pc = "idle"

=============================================================================
