----------------------------- MODULE MCLMAXRingTSO -----------------------------
(* Model checking of LMAXRingTSO. The producers are interchangeable, which the  *)
(* runs that check no liveness use as a symmetry.                            *)
EXTENDS LMAXRingTSO, TLC

ProducerSymmetry == Permutations(Producers)
=============================================================================
