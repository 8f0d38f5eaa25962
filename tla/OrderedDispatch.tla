--------------------------- MODULE OrderedDispatch ---------------------------
(***************************************************************************)
(* What an EventStream promises the code that emits events on it: events    *)
(* are numbered in the order they are admitted, and an event's handler      *)
(* starts only when every earlier event whose mask meets its own has left.  *)
(* Events whose masks do not meet run and leave in any order.               *)
(***************************************************************************)
EXTENDS Integers

CONSTANT Masks   \* the tag closure masks events carry: sets of tags

VARIABLES
    admitted,   \* how many events have been admitted
    live        \* those that have not left: their number, mask and phase

vars == <<admitted, live>>

Init == admitted = 0 /\ live = {}

Admit(mask) ==
    /\ admitted' = admitted + 1
    /\ live' = live \cup {[seq |-> admitted, mask |-> mask, phase |-> "waiting"]}

MayStart(e) ==
    /\ e.phase = "waiting"
    /\ \A f \in live : f.mask \cap e.mask # {} => f.seq >= e.seq

Move(e, phase) ==
    /\ live' = (live \ {e}) \cup {[e EXCEPT !.phase = phase]}
    /\ UNCHANGED admitted

\* An event that has left is seen by nobody: its mask no longer blocks.
Leave(e) ==
    /\ live' = live \ {e}
    /\ UNCHANGED admitted

\* The handler runs to its end at once, or hands its work off, or has nothing
\* to order and leaves on the spot.
Start(e) ==
    /\ MayStart(e)
    /\ Move(e, "started") \/ Move(e, "finished") \/ Leave(e)

Finish(e) == e.phase = "started" /\ Move(e, "finished")

Commit(e) == e.phase = "finished" /\ Leave(e)

Next ==
    \/ \E mask \in Masks : Admit(mask)
    \/ \E e \in live : Start(e) \/ Finish(e) \/ Commit(e)

Spec == Init /\ [][Next]_vars
=============================================================================
