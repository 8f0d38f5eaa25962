---------------------------- MODULE MCEventStream ----------------------------
(* Model checking of EventStream. The emitters are interchangeable, which the *)
(* runs that check no liveness use as a symmetry.                             *)
EXTENDS EventStream, TLC

CONSTANTS a, b   \* tags

EmitterSymmetry == Permutations(Emitters)

\* One of two tags, or both: masks that meet and masks that do not.
SomeMasks == {{a}, {b}, {a, b}}

\* One tag, or the fail-shut all().
TwoMasks == {{a}, {a, b}}
=============================================================================
