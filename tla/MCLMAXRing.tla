----------------------------- MODULE MCLMAXRing -----------------------------
(* Model checking of LMAXRing. The producers are interchangeable, which the  *)
(* runs that check no liveness use as a symmetry.                            *)
EXTENDS LMAXRing, TLC

ProducerSymmetry == Permutations(Producers)
=============================================================================
