------------------------- MODULE MCUnitTranslation -------------------------
(* Instances of UnitTranslation for TLC. *)
EXTENDS UnitTranslation

CONSTANTS u1, u2

TwoUnits == {u1, u2}
(* u2 holds no letter of the source's script. *)
OneExempt == {u2}
=============================================================================
