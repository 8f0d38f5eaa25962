------------------------------ MODULE MCStateHash ------------------------------
(* Model checking of StateHash. *)
EXTENDS StateHash, TLC

CONSTANTS p1, p2   \* pullers

\* One of them audits now and then, the other asks for digests.
AuditAndDigest == p1 :> {"audit"} @@ p2 :> {"digest"}
=============================================================================
