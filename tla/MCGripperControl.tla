--------------------------- MODULE MCGripperControl ---------------------------
(***************************************************************************)
(* Instances of GripperControl for TLC.                                    *)
(***************************************************************************)
EXTENDS GripperControl

\* Opening and closing with two strengths, every torque between them, and
\* cycles without feedback.
Closing ==
  [requests |-> {0, Closed}, levels |-> {1, 2}, modes |-> {"PROTECTED"},
   torques |-> 0 .. 3, inputs |-> {"command", "loss"}]

\* Every mode and the protective stops of the worker.
Stops ==
  [Closing EXCEPT !.requests = {Closed}, !.levels = {0, 1},
     !.modes = {"PROTECTED", "DIRECT"}, !.torques = {0, 2},
     !.inputs = {"command", "loss", "stop", "fault"}]

\* An emergency stop beside the worker, its cycles and its own stops.
Races ==
  [Stops EXCEPT !.levels = {1}, !.torques = {0},
     !.inputs = @ \cup {"estop"}]

\* Recovery from wherever the gripper is.
Recover ==
  [Closing EXCEPT !.requests = {Closed}, !.levels = {1}, !.torques = {0, 2},
     !.inputs = {"command", "stop", "fault", "recover"}]

\* A gripper asked to close, feedback never missing.
Pressing ==
  [Closing EXCEPT !.requests = {Closed}, !.levels = {1}, !.torques = {0, 2},
     !.inputs = {"command"}]

\* What single counterexamples need.
Switched == [Closing EXCEPT !.torques = {0, 2, 3}, !.inputs = {"command"}]
Overtaken ==
  [Closing EXCEPT !.levels = {1}, !.torques = {0, 1},
     !.inputs = {"command", "stop", "recover"}]

MovingStop ==
  [Closing EXCEPT !.requests = {Closed}, !.levels = {1}, !.torques = {0},
     !.inputs = {"command", "estop"}]

SafetyScenarios == {Closing, Stops, Races, Recover}
LiveScenarios == {Pressing}
SwitchedScenarios == {Switched}
OvertakenScenarios == {Overtaken}
MovingStopScenarios == {MovingStop}

=============================================================================
