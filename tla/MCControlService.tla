-------------------------- MODULE MCControlService --------------------------
(***************************************************************************)
(* Instances of ControlService for TLC: which operations clients issue in  *)
(* which run, and the symmetry of the clients.                             *)
(***************************************************************************)
EXTENDS ControlService, TLC

\* Power transitions: torque on, torque off, homing; the mode of the next enable.
PowerOps == {"ENABLE", "DISABLE", "RECOVER", "CONFIGURE_MODE"}

\* Life of the Runtime object, and the operation that latches a fault.
ObjectOps == {"CONNECT", "DISCONNECT", "ESTOP"}

\* Finite motions.
MotionOps == {"ENABLE", "MOVE", "STOP_MOTION"}

\* Streaming beside operations that hold the command mutex.
StreamOps == {"ENABLE", "RECOVER", "CLEAR_FAULTS"}

\* An operation that holds the lifecycle mutex and one that holds the motion
\* mutex: both block the loss callback.
BlockingOps == {"RECOVER", "MOVE"}

\* What single counterexamples need.
EnableOps == {"ENABLE"}
ConnectOps == {"CONNECT", "DISCONNECT"}
MoveOps == {"ENABLE", "MOVE"}

ClientSymmetry == Permutations(Clients)

=============================================================================
