----------------------------- MODULE MCImageTasks -----------------------------
(* Instances of ImageTasks for TLC. *)
EXTENDS ImageTasks

CONSTANTS s1, f1, c1, n1

MCKind == [t \in Tasks |-> CASE t = s1 -> "single" [] t = f1 -> "fal"
                             [] t = c1 -> "custom" [] t = n1 -> "concurrent"]
=============================================================================
