-------------------------- MODULE MCSafetyRuntime --------------------------
(***************************************************************************)
(* Instances of SafetyRuntime for TLC: what may happen in a behaviour.     *)
(***************************************************************************)
EXTENDS SafetyRuntime

CONSTANTS m1, m2, c1, c2

SomeMotors == {m1, m2}
SomeCallers == {c1, c2}
OneCaller == {c1}

\* The ordinary life of the robot against every kind of command.
Lifecycle ==
  [motors |-> {m1}, callers |-> {c1},
   ops |-> {"connect", "enable", "disable", "configure", "set_zero"},
   inputs |-> AllInputs, calls |-> 4, commands |-> 2, trips |-> 0]

\* Two threads with emergency stop, maintenance and power.
Latch ==
  [motors |-> {m1}, callers |-> {c1, c2},
   ops |-> {"connect", "enable", "estop", "clear_faults"},
   inputs |-> {}, calls |-> 4, commands |-> 0, trips |-> 1]

\* Power of single motors and of the whole robot.
Partial ==
  [motors |-> {m1, m2}, callers |-> {c1},
   ops |-> {"connect", "enable", "disable", "power_state", "power_batch"},
   inputs |-> {"install"}, calls |-> 3, commands |-> 1, trips |-> 0]

\* recover() after an emergency stop, and with commands as soon as it is over.
Recovery ==
  [motors |-> {m1}, callers |-> {c1}, ops |-> {"connect", "estop", "recover"},
   inputs |-> {}, calls |-> 3, commands |-> 0, trips |-> 0]
Homed ==
  [Recovery EXCEPT !.ops = {"connect", "recover"}, !.inputs = {"install"},
     !.calls = 2, !.commands = 1]

\* Start, streaming and the end of the object.
Life ==
  [motors |-> {m1}, callers |-> {c1}, ops |-> {"connect", "enable", "close"},
   inputs |-> {"stream", "install", "plan", "trajectory"},
   calls |-> 3, commands |-> 1, trips |-> 0]

\* Streaming targets that are replaced, beside gripper commands.
Streaming ==
  [motors |-> {m1}, callers |-> {c1}, ops |-> {"connect", "enable"},
   inputs |-> {"stream", "target", "gripper"},
   calls |-> 2, commands |-> 2, trips |-> 0]

SafetyScenarios == {Lifecycle, Latch, Partial, Recovery, Homed}
LiveScenarios == {Life, Streaming}

\* What the counterexamples need.
Robot(ops, inputs, calls, commands) ==
  [motors |-> {m1}, callers |-> {c1}, ops |-> ops, inputs |-> inputs,
   calls |-> calls, commands |-> commands, trips |-> 0]

ResumeScenarios ==
  {Robot({"connect", "enable", "recover"}, {"trajectory"}, 3, 1)}
BatchScenarios ==
  {Robot({"connect", "enable", "power_batch"}, {"stream"}, 4, 1)}
TimeoutScenarios ==
  {[Robot({"connect", "enable", "clear_faults"}, {"stream"}, 6, 1) EXCEPT
      !.callers = {c1, c2}, !.trips = 1]}
CancelScenarios ==
  {Robot({"connect", "enable"}, {"trajectory", "cancel"}, 2, 2)}

=============================================================================
