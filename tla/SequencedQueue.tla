--------------------------- MODULE SequencedQueue ---------------------------
(***************************************************************************)
(* What the LMAX ring promises the code above it (EventStream, MirrorBuffer *)
(* and LMAXStream): a bounded multi-producer, single-consumer queue in      *)
(* which a message owns the sequence number its producer claimed, is        *)
(* published only once it is complete and only behind every earlier         *)
(* message, and is handed to the consumer exactly once, in claim order.     *)
(*                                                                          *)
(* A message is identified by its sequence number.                          *)
(***************************************************************************)
EXTENDS Integers

CONSTANT Capacity

VARIABLES
    claimed,    \* how many messages have a sequence number
    complete,   \* the sequence numbers whose message is fully written
    published,  \* messages 0 .. published - 1 are visible to the consumer
    taken,      \* messages 0 .. taken - 1 have left the queue
    handed      \* the message last handed to the consumer, -1 before any

qvars == <<claimed, complete, published, taken, handed>>

Init ==
    /\ claimed = 0
    /\ complete = {}
    /\ published = 0
    /\ taken = 0
    /\ handed = -1

\* A producer takes the next sequence number while there is room for it.
Claim ==
    /\ claimed - taken < Capacity
    /\ claimed' = claimed + 1
    /\ UNCHANGED <<complete, published, taken, handed>>

\* Producers finish their messages in any order.
Complete(s) ==
    /\ s \in (0 .. claimed - 1) \ complete
    /\ complete' = complete \cup {s}
    /\ UNCHANGED <<claimed, published, taken, handed>>

\* Publication is contiguous: the next message, and only when it is complete.
Publish ==
    /\ published \in complete
    /\ published' = published + 1
    /\ UNCHANGED <<claimed, complete, taken, handed>>

\* The consumer is given the oldest message it has not had, undamaged.
Hand ==
    /\ taken < published
    /\ handed = taken - 1
    /\ handed' = taken
    /\ UNCHANGED <<claimed, complete, published, taken>>

\* The message it was given leaves the queue and frees its place.
Take ==
    /\ handed = taken
    /\ taken' = taken + 1
    /\ UNCHANGED <<claimed, complete, published, handed>>

Next ==
    \/ Claim
    \/ \E s \in 0 .. claimed - 1 : Complete(s)
    \/ Publish
    \/ Hand
    \/ Take

Spec == Init /\ [][Next]_qvars
=============================================================================
