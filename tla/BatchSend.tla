----------------------------- MODULE BatchSend -----------------------------
(***************************************************************************)
(* What a grouped dispatch promises its caller: one batch at a time, each  *)
(* controller does its part of it exactly once, and the dispatch reports   *)
(* success exactly when every controller did.                              *)
(***************************************************************************)
CONSTANT Controllers

VARIABLES
  running,   \* a dispatch is under way
  part,      \* what became of each controller's share
  result     \* of the last finished dispatch

vars == <<running, part, result>>

Init ==
  /\ running = FALSE
  /\ part = [c \in Controllers |-> "none"]
  /\ result = TRUE

Begin ==
  /\ ~running
  /\ running' = TRUE
  /\ part' = [c \in Controllers |-> "todo"]
  /\ UNCHANGED result

Share(c) ==
  /\ running /\ part[c] = "todo"
  /\ \E o \in {"sent", "failed"} : part' = [part EXCEPT ![c] = o]
  /\ UNCHANGED <<running, result>>

End ==
  /\ running /\ \A c \in Controllers : part[c] # "todo"
  /\ running' = FALSE
  /\ result' = (\A c \in Controllers : part[c] = "sent")
  /\ part' = [c \in Controllers |-> "none"]

Next == Begin \/ (\E c \in Controllers : Share(c)) \/ End

Spec == Init /\ [][Next]_vars

=============================================================================
