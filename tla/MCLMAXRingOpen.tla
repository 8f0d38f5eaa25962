--------------------------- MODULE MCLMAXRingOpen ---------------------------
(***************************************************************************)
(* Model checking of LMAXRing with producers that do not wait. Two history *)
(* variables tell what the ring has been through: a single producer may    *)
(* fill it (LMAXStream's writer), several may not.                         *)
(***************************************************************************)
EXTENDS LMAXRing

VARIABLES
    wrote,   \* the producers that have called write()
    filled   \* the consumer has been a whole ring behind

history == <<wrote, filled>>

OpenInit == Init /\ wrote = {} /\ filled = FALSE

OpenNext ==
    /\ Next
    /\ wrote' = wrote \cup {p \in Producers : pc'[p] # "idle"}
    /\ filled' = (filled \/ ~SlotLeft')

OpenSpec == OpenInit /\ [][OpenNext]_<<vars, history>> /\ Fairness

Overrun == filled /\ Cardinality(wrote) > 1

\* Until several producers have filled the ring, every step is one the abstract
\* queue may take: frames are published in order and only complete, and each is
\* handed over once, undamaged. So a lone producer may lap the consumer as it
\* likes (LMAXStream), and several may while a slot is left.
QueueUntilOverrun == Queue!Init /\ [][Queue!Next \/ Overrun']_(Queue!qvars)
=============================================================================
