------------------------------ MODULE LMAXRing ------------------------------
(***************************************************************************)
(* The multi-producer, single-consumer ring of                              *)
(* src/core/LMAXSequentialSharedPage.h, driven the way LMAXStream and       *)
(* EventStream drive it: any number of threads call write(), one thread     *)
(* calls acquireRead / callback / markConsumed.                             *)
(*                                                                          *)
(* Every shared load, store and compare-exchange of write() and             *)
(* tryAdvancePublisher() is a step of its own, so the runs see every        *)
(* interleaving of the producers with each other and with the consumer.     *)
(* Memory is sequentially consistent here; LMAXRingTSO adds the store       *)
(* buffer.                                                                  *)
(*                                                                          *)
(* The message a producer carries is identified by the sequence number it   *)
(* ends up claiming, so a slot's payload is the number of the message last  *)
(* copied into it.                                                          *)
(***************************************************************************)
EXTENDS Integers, FiniteSets

CONSTANTS
    Producers,  \* the threads that call write()
    Slots,      \* slot_count_
    Await,      \* TRUE: a producer waits until its frame has been consumed
                \* before it writes again, as the blocking event emitters of
                \* DynamicLoader.h do; FALSE: it need not (LMAXStream::write,
                \* unload requests, events that live on the heap)
    MaxSeq      \* bound of the model: how many frames are ever claimed

ASSUME RingAssumption ==
    /\ Slots \in Nat \ {0}
    /\ Await \in BOOLEAN
    /\ MaxSeq \in Nat
    /\ IsFiniteSet(Producers)

VARIABLES
    sequence_,          \* next sequence number to claim
    publisher_cursor_,  \* last published number; -1 is UINT64_MAX, "none yet"
    consumer_cursor_,   \* first number not consumed yet
    frameSequence,      \* of each slot: the number stored in its frame,
    frameReady,         \*   its ready flag,
    framePayload,       \*   and the message last copied into it
    pc,                 \* where each producer is in write()
    seq,                \* write()'s local seq; -1 when it has none
    cur,                \* tryAdvancePublisher()'s local copy of the cursor
    cpc,                \* where the consumer is
    expected_seq_,      \* the consumer's own next sequence number
    got                 \* the payload last passed to the callback

frameVars == <<frameSequence, frameReady, framePayload>>
cursorVars == <<sequence_, publisher_cursor_, consumer_cursor_>>
producerVars == <<pc, seq, cur>>
consumerVars == <<cpc, expected_seq_, got>>
vars == <<cursorVars, frameVars, producerVars, consumerVars>>

Sequences == Nat \cup {-1}   \* a uint64_t and the sentinel UINT64_MAX

Indices == 0 .. Slots - 1

\* seq & index_mask_, for a slot count that is a power of two.
IndexOf(s) == s % Slots

Stamp(s) == frameSequence[IndexOf(s)]
Ready(s) == frameReady[IndexOf(s)]
Payload(s) == framePayload[IndexOf(s)]

\* Mutation: the room check allows one slot too many.
HasRoomOneMore(s, consumer) == consumer <= s /\ s - consumer <= Slots

\* "seq - consumer < slot_count" on uint64_t: when consumer is ahead of a
\* stale seq the difference wraps to a huge number and there is "no room".
HasRoom(s, consumer) == consumer <= s /\ s - consumer < Slots

Goto(p, from, to) == pc[p] = from /\ pc' = [pc EXCEPT ![p] = to]

BeforeClaim == {"load", "check", "cas"}
WritingFrame == {"clear", "frame", "payload", "ready"}
Sweeping == {"advance", "peek", "walk", "sweep", "guard", "publish"}

\* p has claimed seq[p] and its frame is not complete yet.
Writing(p) == pc[p] \in WritingFrame

Init ==
    /\ sequence_ = 0
    /\ publisher_cursor_ = -1
    /\ consumer_cursor_ = 0
    /\ frameSequence = [i \in Indices |-> 0]
    /\ frameReady = [i \in Indices |-> FALSE]
    /\ framePayload = [i \in Indices |-> -1]
    /\ pc = [p \in Producers |-> "idle"]
    /\ seq = [p \in Producers |-> -1]
    /\ cur = [p \in Producers |-> -1]
    /\ cpc = "poll"
    /\ expected_seq_ = 0
    /\ got = -1

-----------------------------------------------------------------------------
(* write(): claim a sequence number *)

\* The model's bound: no more calls than would claim MaxSeq numbers.
WithinBound ==
    sequence_ + Cardinality({p \in Producers : pc[p] \in BeforeClaim}) < MaxSeq

BeginWrite(p) ==
    /\ WithinBound
    /\ Await => seq[p] < consumer_cursor_
    /\ Goto(p, "idle", "load")
    /\ UNCHANGED <<cursorVars, frameVars, seq, cur, consumerVars>>

LoadSequence(p) ==
    /\ Goto(p, "load", "check")
    /\ seq' = [seq EXCEPT ![p] = sequence_]
    /\ UNCHANGED <<cursorVars, frameVars, cur, consumerVars>>

LoadConsumer(p) ==
    /\ HasRoom(seq[p], consumer_cursor_)
    /\ Goto(p, "check", "cas")
    /\ UNCHANGED <<cursorVars, frameVars, seq, cur, consumerVars>>

\* "return UINT64_MAX": the write is refused.
Refuse(p) ==
    /\ ~HasRoom(seq[p], consumer_cursor_)
    /\ Goto(p, "check", "idle")
    /\ seq' = [seq EXCEPT ![p] = -1]
    /\ UNCHANGED <<cursorVars, frameVars, cur, consumerVars>>

\* Mutation: the claim does not compare sequence_ with the loaded value.
ClaimWithoutCompare(p) ==
    /\ Goto(p, "cas", "clear")
    /\ sequence_' = sequence_ + 1
    /\ UNCHANGED <<publisher_cursor_, consumer_cursor_, frameVars, seq, cur, consumerVars>>

Claim(p) ==
    /\ sequence_ = seq[p]
    /\ Goto(p, "cas", "clear")
    /\ sequence_' = sequence_ + 1
    /\ UNCHANGED <<publisher_cursor_, consumer_cursor_, frameVars, seq, cur, consumerVars>>

\* compare_exchange_weak: another producer won, or a spurious failure.
ClaimFails(p) ==
    /\ Goto(p, "cas", "load")
    /\ UNCHANGED <<cursorVars, frameVars, seq, cur, consumerVars>>

-----------------------------------------------------------------------------
(* write(): fill the frame *)

ClearReady(p) ==
    /\ Goto(p, "clear", "frame")
    /\ frameReady' = [frameReady EXCEPT ![IndexOf(seq[p])] = FALSE]
    /\ UNCHANGED <<cursorVars, frameSequence, framePayload, seq, cur, consumerVars>>

WriteSequence(p) ==
    /\ Goto(p, "frame", "payload")
    /\ frameSequence' = [frameSequence EXCEPT ![IndexOf(seq[p])] = seq[p]]
    /\ UNCHANGED <<cursorVars, frameReady, framePayload, seq, cur, consumerVars>>

CopyPayload(p) ==
    /\ Goto(p, "payload", "ready")
    /\ framePayload' = [framePayload EXCEPT ![IndexOf(seq[p])] = seq[p]]
    /\ UNCHANGED <<cursorVars, frameSequence, frameReady, seq, cur, consumerVars>>

SetReady(p) ==
    /\ Goto(p, "ready", "advance")
    /\ frameReady' = [frameReady EXCEPT ![IndexOf(seq[p])] = TRUE]
    /\ UNCHANGED <<cursorVars, frameSequence, framePayload, seq, cur, consumerVars>>

-----------------------------------------------------------------------------
(* tryAdvancePublisher() *)

\* Return from tryAdvancePublisher, and from write with it.
ReturnFrom(p, from) ==
    /\ Goto(p, from, "idle")
    /\ cur' = [cur EXCEPT ![p] = -1]

\* The cursor is at this frame or immediately behind it: walk. Otherwise look
\* whether the gap is still open.
LoadCursor(p) ==
    /\ Goto(p, "advance",
            IF publisher_cursor_ \in {seq[p], seq[p] - 1} THEN "walk" ELSE "peek")
    /\ cur' = [cur EXCEPT ![p] = publisher_cursor_]
    /\ UNCHANGED <<cursorVars, frameVars, seq, consumerVars>>

GapClosed(p) ==
    Ready(cur[p] + 1) /\ Stamp(cur[p] + 1) = cur[p] + 1

Peek(p) ==
    /\ \/ GapClosed(p) /\ Goto(p, "peek", "walk") /\ UNCHANGED cur
       \/ ~GapClosed(p) /\ ReturnFrom(p, "peek")
    /\ UNCHANGED <<cursorVars, frameVars, seq, consumerVars>>

ReloadCursor(p) ==
    /\ Goto(p, "walk", "sweep")
    /\ cur' = [cur EXCEPT ![p] = publisher_cursor_]
    /\ UNCHANGED <<cursorVars, frameVars, seq, consumerVars>>

\* Mutation: the sweep does not look at the ready flag.
LoadReadyUnchecked(p) ==
    /\ Goto(p, "sweep", "guard")
    /\ UNCHANGED <<cursorVars, frameVars, seq, cur, consumerVars>>

\* "gap - whoever fills this will advance past us"
LoadReady(p) ==
    /\ \/ Ready(cur[p] + 1) /\ Goto(p, "sweep", "guard") /\ UNCHANGED cur
       \/ ~Ready(cur[p] + 1) /\ ReturnFrom(p, "sweep")
    /\ UNCHANGED <<cursorVars, frameVars, seq, consumerVars>>

\* The lap guard, a second load of the frame after the load of ready.
LapGuard(p) ==
    /\ \/ Stamp(cur[p] + 1) = cur[p] + 1 /\ Goto(p, "guard", "publish")
          /\ UNCHANGED cur
       \/ Stamp(cur[p] + 1) # cur[p] + 1 /\ ReturnFrom(p, "guard")
    /\ UNCHANGED <<cursorVars, frameVars, seq, consumerVars>>

\* Mutation: publication by a plain store.
PublishWithoutCompare(p) ==
    /\ Goto(p, "publish", "walk")
    /\ publisher_cursor_' = cur[p] + 1
    /\ UNCHANGED <<sequence_, consumer_cursor_, frameVars, seq, cur, consumerVars>>

Publish(p) ==
    /\ publisher_cursor_ = cur[p]
    /\ Goto(p, "publish", "walk")
    /\ publisher_cursor_' = cur[p] + 1
    /\ UNCHANGED <<sequence_, consumer_cursor_, frameVars, seq, cur, consumerVars>>

\* Mutation: a lost compare-exchange is not retried.
PublishGivesUp(p) ==
    /\ ReturnFrom(p, "publish")
    /\ UNCHANGED <<cursorVars, frameVars, seq, consumerVars>>

PublishFails(p) ==
    /\ Goto(p, "publish", "walk")
    /\ UNCHANGED <<cursorVars, frameVars, seq, cur, consumerVars>>

-----------------------------------------------------------------------------
(* The consumer: acquireRead, the callback, markConsumed *)

\* Mutation of the consumer's cursor check: one frame early.
AcquireReadEarly ==
    /\ cpc = "poll"
    /\ publisher_cursor_ + 1 >= expected_seq_
    /\ Stamp(expected_seq_) = expected_seq_
    /\ cpc' = "callback"
    /\ UNCHANGED <<cursorVars, frameVars, producerVars, expected_seq_, got>>

\* A null answer changes nothing and the consumer asks again.
AcquireRead ==
    /\ cpc = "poll"
    /\ publisher_cursor_ >= expected_seq_
    /\ Stamp(expected_seq_) = expected_seq_
    /\ cpc' = "callback"
    /\ UNCHANGED <<cursorVars, frameVars, producerVars, expected_seq_, got>>

Callback ==
    /\ cpc = "callback"
    /\ cpc' = "mark"
    /\ got' = Payload(expected_seq_)
    /\ UNCHANGED <<cursorVars, frameVars, producerVars, expected_seq_>>

\* Mutation: the consumer leaves the ready flag to the next writer of the slot.
MarkNothing ==
    /\ cpc = "mark"
    /\ cpc' = "release"
    /\ UNCHANGED <<cursorVars, frameVars, producerVars, expected_seq_, got>>

MarkNotReady ==
    /\ cpc = "mark"
    /\ cpc' = "release"
    /\ frameReady' = [frameReady EXCEPT ![IndexOf(expected_seq_)] = FALSE]
    /\ UNCHANGED <<cursorVars, frameSequence, framePayload, producerVars, expected_seq_, got>>

ReleaseSlot ==
    /\ cpc = "release"
    /\ cpc' = "poll"
    /\ consumer_cursor_' = expected_seq_ + 1
    /\ expected_seq_' = expected_seq_ + 1
    /\ UNCHANGED <<sequence_, publisher_cursor_, frameVars, producerVars, got>>

-----------------------------------------------------------------------------
Write(p) ==
    \/ LoadSequence(p) \/ LoadConsumer(p) \/ Refuse(p)
    \/ Claim(p) \/ ClaimFails(p)
    \/ ClearReady(p) \/ WriteSequence(p) \/ CopyPayload(p) \/ SetReady(p)

TryAdvancePublisher(p) ==
    \/ LoadCursor(p) \/ Peek(p)
    \/ ReloadCursor(p) \/ LoadReady(p) \/ LapGuard(p)
    \/ Publish(p) \/ PublishFails(p)

Consume == AcquireRead \/ Callback \/ MarkNotReady \/ ReleaseSlot

Next ==
    \/ \E p \in Producers : BeginWrite(p) \/ Write(p) \/ TryAdvancePublisher(p)
    \/ Consume

\* A thread that is inside write() keeps running and the consumer keeps
\* polling; nothing obliges a producer to call write() again. The two strong
\* conditions are what the hardware gives a weak compare-exchange retried in a
\* loop: it does not fail spuriously for ever.
Fairness ==
    /\ WF_vars(Consume)
    /\ \A p \in Producers :
        /\ WF_vars(Write(p) \/ TryAdvancePublisher(p))
        /\ SF_vars(Claim(p))
        /\ SF_vars(Publish(p))

Spec == Init /\ [][Next]_vars
FairSpec == Spec /\ Fairness

-----------------------------------------------------------------------------
(* Properties *)

TypeOK ==
    /\ sequence_ \in Nat
    /\ publisher_cursor_ \in Sequences
    /\ consumer_cursor_ \in Nat
    /\ frameSequence \in [Indices -> Sequences]
    /\ frameReady \in [Indices -> BOOLEAN]
    /\ framePayload \in [Indices -> Sequences]
    /\ pc \in [Producers -> {"idle"} \cup BeforeClaim \cup WritingFrame \cup Sweeping]
    /\ seq \in [Producers -> Sequences]
    /\ cur \in [Producers -> Sequences]
    /\ cpc \in {"poll", "callback", "mark", "release"}
    /\ expected_seq_ \in Nat
    /\ got \in Sequences

\* The three cursors never overtake each other, although each is advanced by a
\* different thread from loads that may be stale: nothing is consumed before
\* it is published or published before it is claimed, and the claimed frames
\* that are not consumed fit in the ring (write()'s room check and
\* compare-exchange, acquireRead's cursor check, the sweep's lap guard).
CursorsOrdered ==
    /\ consumer_cursor_ <= publisher_cursor_ + 1
    /\ publisher_cursor_ + 1 <= sequence_
    /\ sequence_ <= consumer_cursor_ + Slots

\* No two producers hold the same sequence number (the claim is a
\* compare-exchange on sequence_).
ClaimsDistinct ==
    \A p, q \in Producers : p # q /\ Writing(p) /\ Writing(q) => seq[p] # seq[q]

\* The cursors only ever grow, so a published frame stays published and a
\* consumed frame stays consumed.
CursorsMonotone ==
    [][/\ sequence_' >= sequence_
       /\ publisher_cursor_' >= publisher_cursor_
       /\ consumer_cursor_' >= consumer_cursor_]_vars

\* Every frame between the consumer and the publisher cursor is the frame its
\* number says, with its whole message in it and no producer still writing it:
\* what acquireRead hands out is complete.
FramesIntact ==
    \A s \in consumer_cursor_ .. publisher_cursor_ :
        /\ Stamp(s) = s
        /\ Payload(s) = s
        /\ \A p \in Producers : Writing(p) => seq[p] # s

\* A slot at least holds no frame that is published and not consumed: the
\* consumer is not a whole ring behind.
SlotLeft == publisher_cursor_ + 1 - consumer_cursor_ < Slots

\* However many producers there are, and whether they wait or not, frames are
\* intact as long as the consumer never falls a whole ring behind: tryAdvancePublisher
\* then never takes the ready flag of one lap together with the number of the
\* next. (Once it has fallen behind, two producers are enough to publish a frame
\* that is still being written: TLC refutes FramesIntact with two producers that
\* do not wait, two slots and MaxSeq = 3.)
IntactUnlessFull == []SlotLeft => []FramesIntact

\* Every frame that was claimed is eventually consumed: whoever of several
\* producers meets the gap of another, one of them comes by once it is closed, and
\* the sweep leaves no complete frame unpublished behind the cursor.
EveryFrameConsumed ==
    \A s \in 0 .. MaxSeq - 1 : sequence_ > s ~> consumer_cursor_ > s

\* The ring implements the abstract queue: a frame is complete once its
\* producer has set ready.
Queue == INSTANCE SequencedQueue WITH
    Capacity  <- Slots,
    claimed   <- sequence_,
    complete  <- {s \in 0 .. sequence_ - 1 :
                    \A p \in Producers : Writing(p) => seq[p] # s},
    published <- publisher_cursor_ + 1,
    taken     <- consumer_cursor_,
    handed    <- got

ImplementsQueue == Queue!Spec

-----------------------------------------------------------------------------
(* The inductive invariants the proofs of LMAXRingProofs rest on *)

Claimed(p) == pc[p] \in WritingFrame \cup Sweeping

\* Why the cursors stay ordered, for any clients. A stale seq is never ahead of
\* sequence_, so a successful compare-exchange certifies the room check; a frame
\* number read by the lap guard was written by a producer that had claimed it.
CursorInv ==
    /\ TypeOK
    /\ CursorsOrdered
    /\ ClaimsDistinct
    /\ expected_seq_ = consumer_cursor_
    /\ cpc # "poll" => expected_seq_ <= publisher_cursor_
    /\ \A i \in Indices :
        /\ frameSequence[i] = 0 \/ frameSequence[i] < sequence_
        /\ frameReady[i] => sequence_ > 0
    /\ \A p \in Producers :
        /\ pc[p] \in {"check", "cas"} => seq[p] \in 0 .. sequence_
        /\ pc[p] = "cas" => seq[p] - consumer_cursor_ < Slots
        /\ Claimed(p) => seq[p] \in 0 .. sequence_ - 1
        /\ pc[p] = "guard" => sequence_ > 0
        /\ pc[p] = "publish" => cur[p] + 1 < sequence_

\* Clients that keep a slot left by themselves: each waits for its frame to
\* be consumed before it writes again, and there are fewer of them than slots.
ClosedLoop == Await /\ Cardinality(Producers) < Slots

\* Then every frame not yet consumed still belongs to the producer that claimed it.
FramesOwned ==
    \A s \in consumer_cursor_ .. sequence_ - 1 :
        \E p \in Producers : seq[p] = s /\ (pc[p] = "idle" \/ Claimed(p))

Finished(s) == s < sequence_ /\ \A p \in Producers : Writing(p) => seq[p] # s

\* Where each frame of the window stands, while a slot is left.
WindowInv ==
    /\ \A s \in consumer_cursor_ .. sequence_ - 1 :
        Finished(s) =>
            /\ Stamp(s) = s
            /\ Payload(s) = s
    /\ \A i \in Indices :
        frameReady[i] =>
            /\ frameSequence[i] \in consumer_cursor_ .. sequence_ - 1
            /\ IndexOf(frameSequence[i]) = i
    /\ cpc = "release" => ~Ready(expected_seq_)
    /\ \A p \in Producers :
        /\ Writing(p) => publisher_cursor_ < seq[p] /\ ~Ready(seq[p])
        /\ pc[p] \in {"payload", "ready"} => Stamp(seq[p]) = seq[p]
        /\ pc[p] = "ready" => Payload(seq[p]) = seq[p]
        /\ cur[p] <= publisher_cursor_
        /\ pc[p] \in {"guard", "publish"} /\ cur[p] = publisher_cursor_ =>
                Finished(cur[p] + 1)

\* A single client, which need not wait: the ring may be full, and a slot is
\* written again as soon as its frame is consumed.
OneProducer == \A p, q \in Producers : p = q

\* Where the one frame that is not published stands. Nobody else moves the
\* publisher cursor, so write() returns with every frame published.
SoloInv ==
    /\ \A s \in consumer_cursor_ .. sequence_ - 1 :
        Finished(s) => Stamp(s) = s /\ Payload(s) = s
    /\ \A p \in Producers :
        /\ ~Claimed(p) => publisher_cursor_ = sequence_ - 1
        /\ Claimed(p) => seq[p] = sequence_ - 1 /\ publisher_cursor_ \in {seq[p] - 1, seq[p]}
        /\ Writing(p) \/ pc[p] = "advance" => publisher_cursor_ = seq[p] - 1
        /\ pc[p] \in {"payload", "ready"} => Stamp(seq[p]) = seq[p]
        /\ pc[p] = "ready" => Payload(seq[p]) = seq[p]
        /\ pc[p] \in Sweeping /\ publisher_cursor_ # seq[p] => Ready(seq[p])
        /\ pc[p] # "peek"
        /\ pc[p] \in {"sweep", "guard", "publish"} => cur[p] = publisher_cursor_
        /\ pc[p] = "publish" => cur[p] # seq[p]
=============================================================================
