----------------------------- MODULE MCEntityScopes -----------------------------
(* The instance of EntityScopes the run checks: the calls carry one label. *)
EXTENDS EntityScopes
CONSTANTS c1, c2
L1 == [c \in Calls |-> "L"]
=============================================================================
