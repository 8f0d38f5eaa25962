---------------------------- MODULE LMAXRingTSO ----------------------------
(***************************************************************************)
(* The same ring on the memory the desktop build runs on. On x86 the        *)
(* release store "ready = true" is a plain mov that may still sit in the    *)
(* writing core's store buffer when the acquire load of publisher_cursor_,  *)
(* the next instruction of tryAdvancePublisher, is satisfied. A locked      *)
(* compare-exchange drains the buffer first; nothing else in write() does.  *)
(*                                                                          *)
(* Only this one store is delayed: it is the last store before a load of    *)
(* another thread's variable, and the stores before it leave the buffer in  *)
(* order, before it.                                                        *)
(***************************************************************************)
EXTENDS LMAXRing

VARIABLE pending   \* the frame whose ready store p has buffered, -1 if none

tsoVars == <<vars, pending>>

InitTSO == Init /\ pending = [p \in Producers |-> -1]

Drained(p) == pending[p] = -1

\* A core sees its own buffered store (store-to-load forwarding).
SeesReady(p, s) ==
    \/ Ready(s)
    \/ ~Drained(p) /\ IndexOf(pending[p]) = IndexOf(s)

BufferReady(p) ==
    /\ Goto(p, "ready", "advance")
    /\ pending' = [pending EXCEPT ![p] = seq[p]]
    /\ UNCHANGED <<cursorVars, frameVars, seq, cur, consumerVars>>

DrainReady(p) ==
    /\ ~Drained(p)
    /\ frameReady' = [frameReady EXCEPT ![IndexOf(pending[p])] = TRUE]
    /\ pending' = [pending EXCEPT ![p] = -1]
    /\ UNCHANGED <<cursorVars, frameSequence, framePayload, producerVars, consumerVars>>

PeekTSO(p) ==
    LET next == cur[p] + 1
        closed == SeesReady(p, next) /\ Stamp(next) = next
    IN  /\ \/ closed /\ Goto(p, "peek", "walk") /\ UNCHANGED cur
           \/ ~closed /\ ReturnFrom(p, "peek")
        /\ UNCHANGED <<cursorVars, frameVars, seq, consumerVars, pending>>

LoadReadyTSO(p) ==
    /\ \/ SeesReady(p, cur[p] + 1) /\ Goto(p, "sweep", "guard") /\ UNCHANGED cur
       \/ ~SeesReady(p, cur[p] + 1) /\ ReturnFrom(p, "sweep")
    /\ UNCHANGED <<cursorVars, frameVars, seq, consumerVars, pending>>

\* The steps whose only access to shared memory is a load of a cursor or a
\* store that is ordered before the buffered one.
Plain(p) ==
    /\ \/ LoadSequence(p) \/ LoadConsumer(p) \/ Refuse(p)
       \/ ClearReady(p) \/ WriteSequence(p) \/ CopyPayload(p)
       \/ LoadCursor(p) \/ ReloadCursor(p) \/ LapGuard(p)
    /\ UNCHANGED pending

\* The compare-exchanges.
Locked(p) ==
    /\ Drained(p)
    /\ Claim(p) \/ ClaimFails(p) \/ Publish(p) \/ PublishFails(p)
    /\ UNCHANGED pending

WriteTSO(p) ==
    BufferReady(p) \/ PeekTSO(p) \/ LoadReadyTSO(p) \/ Plain(p) \/ Locked(p)

NextTSO ==
    \/ \E p \in Producers :
        \/ BeginWrite(p) /\ UNCHANGED pending
        \/ WriteTSO(p)
        \/ DrainReady(p)
    \/ Consume /\ UNCHANGED pending

\* As LMAXRing's Fairness, and every store buffer drains.
FairnessTSO ==
    /\ WF_tsoVars(Consume /\ UNCHANGED pending)
    /\ \A p \in Producers :
        /\ WF_tsoVars(WriteTSO(p))
        /\ WF_tsoVars(DrainReady(p))
        /\ SF_tsoVars(Locked(p) /\ Claim(p))
        /\ SF_tsoVars(Locked(p) /\ Publish(p))

SpecTSO == InitTSO /\ [][NextTSO]_tsoVars
FairSpecTSO == SpecTSO /\ FairnessTSO

\* EveryFrameConsumed, of LMAXRing, is the property this memory breaks.
=============================================================================
