-------------------------- MODULE MCXliffDocument --------------------------
(* Instances of XliffDocument for TLC. *)
EXTENDS XliffDocument

CONSTANTS u1, u2, a1

TwoUnits == {u1, u2}
OneUnit == {u1}
OneAnswer == {a1}
=============================================================================
