------------------------------ MODULE MCBatchRun ------------------------------
(* Instances of BatchRun for TLC: two files, of one directory or of two with *)
(* the same name, and two services of the memory. *)
EXTENDS BatchRun

CONSTANTS f1, f2, x, n1, n2, batch, other, p1

OneNameOrTwo == {[f \in Files |-> n1], [f \in Files |-> IF f = f1 THEN n1 ELSE n2]}
SomeTargets == {"raw", "best", "source"}
=============================================================================
