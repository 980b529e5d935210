------------------------- MODULE MCTrajectoryControl -------------------------
(***************************************************************************)
(* Instances of TrajectoryControl for TLC.                                 *)
(***************************************************************************)
EXTENDS TrajectoryControl

At == {"near", "quiet", "tight"}

\* One motion at a time and one queued, a third is refused, with the product's
\* operations; a snapshot is either at the target or away from it.
Motions ==
  [pos |-> {0, 1}, ids |-> 3, queue |-> 1, history |-> 2, slacks |-> {0},
   step |-> 1, feedbacks |-> {{}, At}, mode |-> "PV",
   inputs |-> {"plan", "enqueue", "approach", "install", "cancel", "stop"}]

\* Three queued motions, cancellation of single motions and raw streaming.
Queue ==
  [Motions EXCEPT !.pos = {0, 1, 2}, !.ids = 4, !.queue = 3, !.mode = "MIT",
     !.inputs = {"plan", "enqueue", "submit", "cancel_motion", "stop"}]

\* Every kind of snapshot, late cycles, managed deadlines and disabled arms.
Settle ==
  [Motions EXCEPT !.ids = 2, !.history = 1, !.slacks = {0, 1},
     !.step = 2,
     !.feedbacks = {{}, {"near"}, {"near", "tight"}, {"near", "quiet"}, At},
     !.inputs = {"plan", "enqueue", "approach", "install", "cancel", "stop",
                 "partial"}]

\* Motions nobody stops.
Undisturbed ==
  [Motions EXCEPT !.ids = 2, !.history = 1,
     !.inputs = {"plan", "enqueue", "approach"}]

\* What single counterexamples need.
Streamed ==
  [Motions EXCEPT !.ids = 1, !.mode = "MIT", !.inputs = {"plan", "submit"}]
Single ==
  [Motions EXCEPT !.ids = 1, !.feedbacks = Settle.feedbacks,
     !.inputs = {"plan"}]

SafetyScenarios == {Motions, Queue, Settle}
LiveScenarios == {Undisturbed}
StreamedScenarios == {Streamed}
SingleScenarios == {Single}

=============================================================================
