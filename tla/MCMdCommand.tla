---------------------------- MODULE MCMdCommand ----------------------------
(* Instances of MdCommand for TLC. *)
EXTENDS MdCommand, TLC

CONSTANTS r1, r2, v1, v2, f1, f2

TwoRuns == {r1, r2}
TwoVersions == {v1, v2}
TwoFiles == {f1, f2}
OwnOutput == [r \in Runs |-> IF r = r1 THEN f1 ELSE f2]
UnitsOnly == {"units"}
WithHeader == {TRUE}

(* Runs are alike, each with its own file, and so are versions. *)
Keep(a, b) == (a :> a) @@ (b :> b)
Swap(a, b) == (a :> b) @@ (b :> a)
RunSwaps == {Keep(r1, r2) @@ Keep(f1, f2), Swap(r1, r2) @@ Swap(f1, f2)}
Symmetry == {runs @@ versions : runs \in RunSwaps, versions \in {Keep(v1, v2), Swap(v1, v2)}}
=============================================================================
