------------------------ MODULE MCConcurrencyLimiter ------------------------
(* Instances of ConcurrencyLimiter for TLC. *)
EXTENDS ConcurrencyLimiter, TLC

CONSTANTS w1, w2, w3, w4

MCWorkers == {w1, w2, w3, w4}
WorkerSymmetry == Permutations(MCWorkers)
=============================================================================
