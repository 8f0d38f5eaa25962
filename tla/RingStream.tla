----------------------------- MODULE RingStream -----------------------------
(***************************************************************************)
(* A stream call between two entities of one tag: the ring strategy of      *)
(* src/core/MirrorBuffer.h, from the moment Entity::call has built the pair *)
(* and the produce trampoline has queued the producer's body on the thread  *)
(* pool, to the tear-down that ends the call.                               *)
(*                                                                          *)
(* Two threads share the pair. A pool worker runs the producer's body,      *)
(* which calls writeRaw and leaves through the StreamWriteGuard's           *)
(* closeWrite. The calling thread runs the consumer's body, which calls     *)
(* readRaw, and then teardownPair. The ring itself is the queue LMAXRing    *)
(* implements, with one producer: SequencedQueue.                           *)
(*                                                                          *)
(* The bodies are not in src/: here they make any number of calls, stop     *)
(* when a call answers false, and may return at any time.                   *)
(***************************************************************************)
EXTENDS Integers

CONSTANTS
    Slots,      \* slot_count_ of the ring, and size of the scratch pool
    MaxFrames   \* bound of the model: how many frames are ever written

ASSUME RingStreamAssumption == Slots \in Nat \ {0} /\ MaxFrames \in Nat

VARIABLES
    claimed, complete, published, taken, handed,   \* the ring
    tombstoned,   \* its end-of-stream flag
    scratch,      \* wrap_scratch_pool_: the number of the message in each entry
    wrapped,      \* the pair has a wrap chain: wrap_chain_len_ > 0
    flagged,      \* the context given to call() has an interrupt flag of its own
    interrupt,    \* that flag, or one above it, is raised
    killed,       \* the sides whose own scope has been interrupted
    tail,         \* the frame being written is closeWrite's terminator
    ppc,          \* where the producer is
    cpc           \* where the calling thread is

ring == <<claimed, complete, published, taken, handed>>
pairVars == <<wrapped, flagged>>
signalVars == <<interrupt, killed>>
vars == <<ring, tombstoned, scratch, pairVars, signalVars, tail, ppc, cpc>>

Ring == INSTANCE SequencedQueue WITH Capacity <- Slots

\* Mutation: the next sequence number picks the entry.
ScratchIndexAhead == (claimed + 1) % Slots

\* wrap_scratch_next_seq_ counts the frames the ring has accepted.
ScratchIndex == claimed % Slots

Sides == {"producer", "consumer"}

\* bound_ctx_.isInterrupted() || bound_ctx_.isTerminated(): a side's own scope,
\* or any authority above it.
Interrupted(side) == interrupt \/ side \in killed

Init ==
    /\ Ring!Init
    /\ tombstoned = FALSE
    /\ scratch = [i \in 0 .. Slots - 1 |-> -1]
    /\ wrapped \in BOOLEAN /\ flagged \in BOOLEAN
    /\ interrupt = FALSE /\ killed = {}
    /\ tail = FALSE
    /\ ppc = "queued" /\ cpc = "body"

-----------------------------------------------------------------------------
(* The producer's thread *)

Goes(from, to) == ppc = from /\ ppc' = to

ProducerKeeps == UNCHANGED <<pairVars, signalVars, cpc>>

\* A pool worker picks the body up.
StartBody ==
    /\ Goes("queued", "body")
    /\ ProducerKeeps /\ UNCHANGED <<ring, tombstoned, scratch, tail>>

\* writeRaw: "Tombstone as EOF, NOT an assert".
WriteRaw ==
    /\ claimed < MaxFrames
    /\ Goes("body", IF tombstoned THEN "closing" ELSE IF wrapped THEN "stage" ELSE "offer")
    /\ ProducerKeeps /\ UNCHANGED <<ring, tombstoned, scratch, tail>>

\* emitWrapped: the wrapped frame is copied to the scratch pool.
Stage ==
    /\ Goes("stage", "offer")
    /\ scratch' = [scratch EXCEPT ![ScratchIndex] = claimed]
    /\ ProducerKeeps /\ UNCHANGED <<ring, tombstoned, tail>>

\* The ring's write(): its assert, then its room check and claim.
AssertFails ==
    /\ tombstoned
    /\ Goes("offer", "aborted")
    /\ ProducerKeeps /\ UNCHANGED <<ring, tombstoned, scratch, tail>>

AssertHolds ==
    /\ ~tombstoned
    /\ Goes("offer", "claim")
    /\ ProducerKeeps /\ UNCHANGED <<ring, tombstoned, scratch, tail>>

Claim ==
    /\ Ring!Claim
    /\ Goes("claim", "fill")
    /\ ProducerKeeps /\ UNCHANGED <<tombstoned, scratch, tail>>

\* Mutation: a full ring is waited out without a look at the signals.
RingFullUnsignalled ==
    /\ claimed - taken = Slots
    /\ Goes("claim", "offer")
    /\ ProducerKeeps /\ UNCHANGED <<ring, tombstoned, scratch, tail>>

RingFull ==
    /\ claimed - taken = Slots
    /\ Goes("claim", "signal")
    /\ ProducerKeeps /\ UNCHANGED <<ring, tombstoned, scratch, tail>>

\* An interrupted write answers false: the body returns, and a terminator is
\* given up.
TestSignal ==
    /\ Goes("signal", IF ~Interrupted("producer") THEN "offer"
                      ELSE IF tail THEN "tombstone" ELSE "closing")
    /\ ProducerKeeps /\ UNCHANGED <<ring, tombstoned, scratch, tail>>

Fill ==
    /\ Ring!Complete(claimed - 1)
    /\ Goes("fill", "publish")
    /\ ProducerKeeps /\ UNCHANGED <<tombstoned, scratch, tail>>

Publish ==
    /\ Ring!Publish
    /\ Goes("publish", IF tail THEN "tombstone" ELSE "body")
    /\ ProducerKeeps /\ UNCHANGED <<tombstoned, scratch, tail>>

\* The body returns by whatever path.
BodyReturns ==
    /\ Goes("body", "closing")
    /\ ProducerKeeps /\ UNCHANGED <<ring, tombstoned, scratch, tail>>

\* closeWrite: a stage of the wrap chain (one of them, here) may have a
\* terminator to send, a frame of its own, with no test of the tombstone.
SendTerminator ==
    /\ wrapped /\ claimed < MaxFrames
    /\ Goes("closing", "stage")
    /\ tail' = TRUE
    /\ ProducerKeeps /\ UNCHANGED <<ring, tombstoned, scratch>>

NoTerminator ==
    /\ Goes("closing", "tombstone")
    /\ ProducerKeeps /\ UNCHANGED <<ring, tombstoned, scratch, tail>>

Tombstone ==
    /\ Goes("tombstone", "done")
    /\ tombstoned' = TRUE
    /\ ProducerKeeps /\ UNCHANGED <<ring, scratch, tail>>

Write == Stage \/ AssertFails \/ AssertHolds \/ Claim \/ RingFull \/ TestSignal \/ Fill \/ Publish

CloseWrite == SendTerminator \/ NoTerminator \/ Tombstone

-----------------------------------------------------------------------------
(* The calling thread *)

\* A failed assert ends the process, and every thread with it.
Alive == ppc # "aborted"

Moves(from, to) == Alive /\ cpc = from /\ cpc' = to

ConsumerKeeps == UNCHANGED <<scratch, pairVars, killed, tail, ppc>>

ReadRaw ==
    /\ Moves("body", "acquire")
    /\ ConsumerKeeps /\ UNCHANGED <<ring, tombstoned, interrupt>>

\* acquireRead answers a frame, or null.
AcquireRead ==
    /\ Moves("acquire", IF taken < published THEN "copy" ELSE "null")
    /\ ConsumerKeeps /\ UNCHANGED <<ring, tombstoned, interrupt>>

\* Mutation: the reader of an empty ring looks only at its signals.
TestNoTombstone ==
    /\ Moves("null", "signal")
    /\ ConsumerKeeps /\ UNCHANGED <<ring, tombstoned, interrupt>>

\* "EOF -- producer closed and nothing left to drain"
TestTombstone ==
    /\ Moves("null", IF tombstoned THEN "eof" ELSE "signal")
    /\ ConsumerKeeps /\ UNCHANGED <<ring, tombstoned, interrupt>>

\* Mutation: the reader of an empty ring looks only at its tombstone.
ReadUnsignalled ==
    /\ Moves("signal", "acquire")
    /\ ConsumerKeeps /\ UNCHANGED <<ring, tombstoned, interrupt>>

ReadSignal ==
    /\ Moves("signal", IF Interrupted("consumer") THEN "cut" ELSE "acquire")
    /\ ConsumerKeeps /\ UNCHANGED <<ring, tombstoned, interrupt>>

\* "slot = *ptr": what the frame points at is copied out, then it is released.
CopyOut ==
    /\ Ring!Hand
    /\ Moves("copy", "mark")
    /\ ConsumerKeeps /\ UNCHANGED <<tombstoned, interrupt>>

MarkConsumed ==
    /\ Ring!Take
    /\ Moves("mark", "body")
    /\ ConsumerKeeps /\ UNCHANGED <<tombstoned, interrupt>>

\* The consumer's body returns, after a readRaw that answered false or before.
ConsumerReturns ==
    /\ Alive /\ cpc \in {"body", "eof", "cut"}
    /\ cpc' = "raise"
    /\ ConsumerKeeps /\ UNCHANGED <<ring, tombstoned, interrupt>>

\* teardownPair: the flag of the context given to call(), then the tombstone.
RaiseInterrupt ==
    /\ Moves("raise", "tear")
    /\ interrupt' = (interrupt \/ flagged)
    /\ ConsumerKeeps /\ UNCHANGED <<ring, tombstoned>>

TearTombstone ==
    /\ Moves("tear", "returned")
    /\ tombstoned' = TRUE
    /\ ConsumerKeeps /\ UNCHANGED <<ring, interrupt>>

Read == AcquireRead \/ TestTombstone \/ ReadSignal \/ CopyOut \/ MarkConsumed

Teardown == RaiseInterrupt \/ TearTombstone

-----------------------------------------------------------------------------
(* The shell: kill reaches one side's scope while its body runs *)

Kill(side) ==
    /\ Alive
    /\ side = "producer" => ppc # "done"
    /\ side = "consumer" => cpc \notin {"raise", "tear", "returned"}
    /\ killed' = killed \cup {side}
    /\ UNCHANGED <<ring, tombstoned, scratch, pairVars, interrupt, tail, ppc, cpc>>

-----------------------------------------------------------------------------
Producer == StartBody \/ WriteRaw \/ BodyReturns \/ Write \/ CloseWrite

Consumer == ReadRaw \/ ConsumerReturns \/ Read \/ Teardown

Next == Producer \/ Consumer \/ \E side \in Sides : Kill(side)

\* A thread inside writeRaw, closeWrite, readRaw or teardownPair keeps running,
\* and the pool runs the body. A body may stay between two calls as long as it
\* likes, unless a call has answered false.
Fairness ==
    /\ WF_vars(StartBody \/ Write \/ CloseWrite)
    /\ WF_vars(Read \/ Teardown)
    /\ WF_vars(cpc # "body" /\ ConsumerReturns)

Spec == Init /\ [][Next]_vars
FairSpec == Spec /\ Fairness

-----------------------------------------------------------------------------
(* Properties *)

TypeOK ==
    /\ claimed \in 0 .. MaxFrames /\ published \in 0 .. claimed /\ taken \in 0 .. published
    /\ complete \subseteq 0 .. claimed - 1 /\ handed \in -1 .. published - 1
    /\ tombstoned \in BOOLEAN /\ wrapped \in BOOLEAN /\ flagged \in BOOLEAN
    /\ interrupt \in BOOLEAN /\ tail \in BOOLEAN
    /\ killed \subseteq Sides
    /\ scratch \in [0 .. Slots - 1 -> -1 .. MaxFrames]
    /\ ppc \in {"queued", "body", "stage", "offer", "claim", "fill", "publish", "signal",
                "closing", "tombstone", "done", "aborted"}
    /\ cpc \in {"body", "acquire", "null", "signal", "copy", "mark", "eof", "cut",
                "raise", "tear", "returned"}
    /\ tail => wrapped /\ ppc \notin {"queued", "body", "closing"}
    /\ ppc = "stage" => wrapped

Reading == {"acquire", "null", "signal", "copy", "mark"}

\* A reader blocked in readRaw comes back once the producer's body is over,
\* whether or not the body closed the stream itself ("a consumer whose producer
\* has closed spins forever", MirrorBuffer.h:356-361; StreamWriteGuard).
ReaderReturns ==
    ppc = "closing" ~> cpc \notin Reading \/ ppc = "aborted"

\* A killed reader comes back too, even from a producer that never writes.
KilledReaderReturns ==
    "consumer" \in killed ~> cpc \notin Reading \/ ppc = "aborted"

\* A writer blocked on a full ring leaves it after its side is killed.
KilledWriterLeaves ==
    "producer" \in killed ~> ppc \in {"body", "done", "queued", "aborted"}

\* A frame that has not been read yet still has its own message in the scratch
\* entry it points at ("makes reusing a pool slot exactly as safe as the ring
\* reusing its OWN internal LBuffer slot", MirrorBuffer.h:192-194). TLC refutes it.
FramesKeepTheirMessage ==
    wrapped => \A s \in taken .. published - 1 : scratch[s % Slots] = s

\* What the scratch pool does guarantee: staging ahead of the ring's room check
\* can damage the oldest unread frame of a full ring, and no other
\* (MirrorBuffer.h:1110-1117).
OnlyOldestDamaged ==
    wrapped => \A s \in taken .. published - 1 : scratch[s % Slots] # s => s + Slots = claimed

\* readRaw answers end of stream only when every frame written has been read
\* ("a frame published immediately prior to closeWrite() must still be
\* delivered rather than dropped", MirrorBuffer.h:363-365). TLC refutes it.
EofAfterLastFrame == cpc = "eof" => taken = claimed

\* Nothing a reader or the shell does aborts the process under a writer
\* ("Aborting on a user typing a valid command is not a defensible response",
\* MirrorBuffer.h:508-509). TLC refutes it.
NeverAborts == ppc # "aborted"
=============================================================================
