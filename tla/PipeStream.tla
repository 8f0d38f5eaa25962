----------------------------- MODULE PipeStream -----------------------------
(***************************************************************************)
(* A stream call across modules: the pipe strategy of                       *)
(* src/core/MirrorBuffer.h with the staging page of src/core/SharedPage.h,  *)
(* under the untyped Entity::call (src/core/Entity.h).                      *)
(*                                                                          *)
(* Three threads take part. A worker of the producer's pool runs the        *)
(* dispatch: it calls the produce trampoline, which queues the body on the  *)
(* pool of its module. A worker of that pool runs the body: writeRaw stages *)
(* a frame in the page and flushes the page to the pipe. The calling thread *)
(* runs the consumer's body, says on the pipe that the reader has gone,     *)
(* waits until nobody is left on the producing side, and tears down.        *)
(*                                                                          *)
(* A frame is two units, its length and its payload: frame n is             *)
(* <<2 * n, 2 * n + 1>>. Reads and writes move any number of units. The     *)
(* page (an arena chunk) is far larger than the two frames it can hold, and *)
(* in_ holds a frame. The bodies are not in src/: they make any number of   *)
(* calls, stop when a call answers false, and may return at any time.       *)
(***************************************************************************)
EXTENDS Integers, Sequences

CONSTANTS
    PipeCapacity,   \* units the pipe holds
    InCapacity,     \* units in_ holds
    MaxFrames       \* bound of the model: how many frames are ever staged

ASSUME PipeStreamAssumption ==
    PipeCapacity \in Nat \ {0} /\ InCapacity \in Nat \ {0, 1} /\ MaxFrames \in Nat

VARIABLES
    page,           \* what the staging page holds: written
    tombstoned,     \* the page's flag
    sent,           \* flushStaged: how much of the page has been written
    pipe, in_,      \* units in the pipe, and in the consumer's in_
    wopen, ropen,   \* the ends of the pipe
    producers_live, \* the page's count of raises not yet dropped
    staged,         \* how many frames have been staged
    accepted,       \* how many writeRaw has answered true for
    got,            \* how many frames readRaw has returned whole and in order
    garbled,        \* readRaw has returned something else
    wrapped,        \* a stage of the wrap chain has a terminator
    tail,           \* closeWrite is sending it
    killed,         \* the producer's side is interrupted
    cut,            \* a flush was given up with part of a frame sent
    timedOut,       \* the wait for the producer was given up
    dpc, ppc, cpc   \* where the dispatch, the body and the calling thread are

pageVars == <<page, tombstoned, sent, staged, accepted, cut>>
pipeVars == <<pipe, wopen>>
bodyVars == <<tail, ppc>>
callVars == <<in_, ropen, got, garbled, timedOut, cpc>>
vars == <<pageVars, pipeVars, producers_live, wrapped, killed, bodyVars, callVars, dpc>>

Frame(n) == <<2 * n, 2 * n + 1>>
FrameLength == 2

\* call() raises the count before it queues the dispatch.
Init ==
    /\ page = <<>> /\ tombstoned = FALSE /\ sent = 0
    /\ pipe = <<>> /\ in_ = <<>> /\ wopen = TRUE /\ ropen = TRUE
    /\ producers_live = 1
    /\ staged = 0 /\ accepted = 0 /\ got = 0 /\ garbled = FALSE
    /\ wrapped \in BOOLEAN /\ tail = FALSE
    /\ killed = FALSE /\ cut = FALSE /\ timedOut = FALSE
    /\ dpc = "queued" /\ ppc = "none" /\ cpc = "body"

-----------------------------------------------------------------------------
(* The dispatch and the produce trampoline *)

DispatchKeeps == UNCHANGED <<pageVars, pipeVars, wrapped, killed, tail, callVars>>

Dispatched(from, to) == dpc = from /\ dpc' = to

\* Mutation: the trampoline leaves the raise to the body.
EnterUnraised ==
    /\ Dispatched("queued", "entered")
    /\ DispatchKeeps /\ UNCHANGED <<producers_live, ppc>>

\* "Raised HERE, on the trampoline's own thread, not inside the pool lambda"
Enter ==
    /\ Dispatched("queued", "entered")
    /\ producers_live' = producers_live + 1
    /\ DispatchKeeps /\ UNCHANGED ppc

EnqueueBody ==
    /\ Dispatched("entered", "leaving")
    /\ ppc' = "queued"
    /\ DispatchKeeps /\ UNCHANGED producers_live

\* Mutation: the raise is kept for a body that will never run.
EnqueueThrowsRaised ==
    /\ Dispatched("entered", "leaving")
    /\ DispatchKeeps /\ UNCHANGED <<producers_live, ppc>>

\* The pool of the module is stopping: its enqueue throws.
EnqueueThrows ==
    /\ Dispatched("entered", "leaving")
    /\ producers_live' = producers_live - 1
    /\ DispatchKeeps /\ UNCHANGED ppc

\* No bundle, or a wrap stage that cannot be built: nothing is dispatched.
DispatchFails ==
    /\ Dispatched("queued", "leaving")
    /\ DispatchKeeps /\ UNCHANGED <<producers_live, ppc>>

\* ~ProducerLiveGuard of the dispatch.
DispatchLeaves ==
    /\ Dispatched("leaving", "returned")
    /\ producers_live' = producers_live - 1
    /\ DispatchKeeps /\ UNCHANGED ppc

Dispatch == Enter \/ EnqueueBody \/ EnqueueThrows \/ DispatchFails \/ DispatchLeaves

-----------------------------------------------------------------------------
(* The producer's body *)

Goes(from, to) == ppc = from /\ ppc' = to

BodyKeeps == UNCHANGED <<wrapped, killed, callVars, dpc>>

StartBody ==
    /\ Goes("queued", "body")
    /\ BodyKeeps /\ UNCHANGED <<pageVars, pipeVars, producers_live, tail>>

\* stageAndFlush: the frame joins what the page holds, and flushStaged starts
\* from the beginning of the page.
StageFrame ==
    /\ ~tombstoned
    /\ staged < MaxFrames
    /\ page' = page \o Frame(staged)
    /\ staged' = staged + 1
    /\ sent' = 0
    /\ UNCHANGED <<tombstoned, accepted, cut, pipeVars, producers_live>>

WriteRaw ==
    /\ Goes("body", "flush")
    /\ StageFrame
    /\ BodyKeeps /\ UNCHANGED tail

\* acquireWrite of a tombstoned page answers null.
WriteRefused ==
    /\ tombstoned
    /\ Goes("body", "closing")
    /\ BodyKeeps /\ UNCHANGED <<pageVars, pipeVars, producers_live, tail>>

\* ::write of the rest of the page takes what there is room for.
FlushSome ==
    /\ ppc = "flush" /\ wopen /\ ropen
    /\ \E n \in 1 .. Len(page) - sent :
        /\ Len(pipe) + n <= PipeCapacity
        /\ pipe' = pipe \o SubSeq(page, sent + 1, sent + n)
        /\ sent' = sent + n
    /\ BodyKeeps
    /\ UNCHANGED <<page, tombstoned, staged, accepted, cut, wopen, producers_live, bodyVars>>

\* What flushStaged's caller does next: the body goes on or stops, and
\* closeWrite closes.
Flushed(ok) ==
    Goes("flush", IF tail THEN "shut" ELSE IF ok THEN "body" ELSE "closing")

\* Mutation: the page keeps the frames it has sent.
FlushDoneKeepsPage ==
    /\ Flushed(TRUE)
    /\ sent = Len(page)
    /\ accepted' = staged
    /\ BodyKeeps
    /\ UNCHANGED <<page, tombstoned, sent, staged, cut, pipeVars, producers_live, tail>>

\* Mutation: one ::write is taken for all of them.
FlushDoneAfterOne ==
    /\ Flushed(TRUE)
    /\ sent > 0
    /\ page' = <<>>
    /\ accepted' = staged
    /\ BodyKeeps
    /\ UNCHANGED <<tombstoned, sent, staged, cut, pipeVars, producers_live, tail>>

\* All of it is sent: the page is reset, unless it has been tombstoned.
FlushDone ==
    /\ Flushed(TRUE)
    /\ sent = Len(page)
    /\ page' = IF tombstoned THEN page ELSE <<>>
    /\ accepted' = staged
    /\ BodyKeeps
    /\ UNCHANGED <<tombstoned, sent, staged, cut, pipeVars, producers_live, tail>>

\* A full pipe and a signal: the page keeps its frames.
FlushInterrupted ==
    /\ wopen /\ ropen /\ sent < Len(page)
    /\ Len(pipe) = PipeCapacity
    /\ killed
    /\ Flushed(FALSE)
    /\ cut' = (cut \/ sent > 0)
    /\ BodyKeeps
    /\ UNCHANGED <<page, tombstoned, sent, staged, accepted, pipeVars, producers_live, tail>>

\* Mutation: a pipe nobody reads is retried as a full one.
FlushFailsOnlyTorn ==
    /\ ~wopen /\ sent < Len(page)
    /\ Flushed(FALSE)
    /\ BodyKeeps /\ UNCHANGED <<pageVars, pipeVars, producers_live, tail>>

\* EPIPE when the reader has closed its end, EBADF when the pair is torn down.
FlushFails ==
    /\ ~ropen \/ ~wopen
    /\ sent < Len(page)
    /\ Flushed(FALSE)
    /\ BodyKeeps /\ UNCHANGED <<pageVars, pipeVars, producers_live, tail>>

BodyReturns ==
    /\ Goes("body", "closing")
    /\ BodyKeeps /\ UNCHANGED <<pageVars, pipeVars, producers_live, tail>>

\* closeWrite: one stage of the wrap chain may have a terminator to send. It
\* joins whatever the page still holds.
SendTerminator ==
    /\ wrapped
    /\ Goes("closing", "flush")
    /\ tail' = TRUE
    /\ StageFrame
    /\ BodyKeeps

NoTerminator ==
    /\ Goes("closing", "shut")
    /\ BodyKeeps /\ UNCHANGED <<pageVars, pipeVars, producers_live, tail>>

\* Mutation: closeWrite leaves the descriptor to teardownPair.
ShutLater ==
    /\ Goes("shut", "closed")
    /\ BodyKeeps /\ UNCHANGED <<pageVars, pipeVars, producers_live, tail>>

Shut ==
    /\ Goes("shut", "closed")
    /\ wopen' = FALSE
    /\ BodyKeeps /\ UNCHANGED <<pageVars, pipe, producers_live, tail>>

\* ~ProducerLiveGuard of the body, which "destructs last".
BodyLeaves ==
    /\ Goes("closed", "done")
    /\ producers_live' = producers_live - 1
    /\ BodyKeeps /\ UNCHANGED <<pageVars, pipeVars, tail>>

Flush == FlushSome \/ FlushDone \/ FlushInterrupted \/ FlushFails

CloseWrite == SendTerminator \/ NoTerminator \/ Shut

-----------------------------------------------------------------------------
(* The calling thread *)

Moves(from, to) == cpc = from /\ cpc' = to

CallKeeps == UNCHANGED <<page, sent, staged, accepted, cut, producers_live, wrapped, killed,
                         bodyVars, dpc>>

ReadRaw ==
    /\ Moves("body", "extract")
    /\ CallKeeps /\ UNCHANGED <<tombstoned, pipeVars, in_, ropen, got, garbled, timedOut>>

\* tryExtractInto: a length, and as much as it says. Once a frame is not the one
\* expected the lengths mean nothing: the rest of in_ goes with it.
Extract ==
    /\ Len(in_) >= FrameLength
    /\ Moves("extract", "body")
    /\ IF ~garbled /\ SubSeq(in_, 1, FrameLength) = Frame(got)
         THEN /\ in_' = SubSeq(in_, FrameLength + 1, Len(in_))
              /\ got' = got + 1
              /\ UNCHANGED garbled
         ELSE in_' = <<>> /\ garbled' = TRUE /\ UNCHANGED got
    /\ CallKeeps /\ UNCHANGED <<tombstoned, pipeVars, ropen, timedOut>>

ExtractMore ==
    /\ Len(in_) < FrameLength
    /\ Moves("extract", "fill")
    /\ CallKeeps /\ UNCHANGED <<tombstoned, pipeVars, in_, ropen, got, garbled, timedOut>>

\* ::read blocks until there is something; it tests no signal.
Fill ==
    /\ Moves("fill", "extract")
    /\ \E n \in 1 .. Len(pipe) :
        /\ Len(in_) + n <= InCapacity
        /\ in_' = in_ \o SubSeq(pipe, 1, n)
        /\ pipe' = SubSeq(pipe, n + 1, Len(pipe))
    /\ CallKeeps /\ UNCHANGED <<tombstoned, wopen, ropen, got, garbled, timedOut>>

ReadEof ==
    /\ pipe = <<>> /\ ~wopen
    /\ Moves("fill", "eof")
    /\ CallKeeps /\ UNCHANGED <<tombstoned, pipeVars, in_, ropen, got, garbled, timedOut>>

\* The body returns, after a readRaw that answered false or before; so does a
\* consumer that could not be dispatched.
ConsumerReturns ==
    /\ cpc \in {"body", "eof"}
    /\ cpc' = "closeRead"
    /\ CallKeeps /\ UNCHANGED <<tombstoned, pipeVars, in_, ropen, got, garbled, timedOut>>

\* wait_for_producer: "SAY THE READER IS GONE BEFORE WAITING FOR THE WRITER"
CloseRead ==
    /\ Moves("closeRead", "wait")
    /\ ropen' = FALSE
    /\ CallKeeps /\ UNCHANGED <<tombstoned, pipeVars, in_, got, garbled, timedOut>>

ProducerGone ==
    /\ producers_live = 0
    /\ Moves("wait", "tear")
    /\ CallKeeps /\ UNCHANGED <<tombstoned, pipeVars, in_, ropen, got, garbled, timedOut>>

\* The two seconds are over.
TimeOut ==
    /\ producers_live # 0
    /\ Moves("wait", "tear")
    /\ timedOut' = TRUE
    /\ CallKeeps /\ UNCHANGED <<tombstoned, pipeVars, in_, ropen, got, garbled>>

TeardownPair ==
    /\ Moves("tear", "returned")
    /\ wopen' = FALSE
    /\ tombstoned' = TRUE
    /\ CallKeeps /\ UNCHANGED <<pipe, in_, ropen, got, garbled, timedOut>>

Read == Extract \/ ExtractMore \/ Fill \/ ReadEof

WaitForProducer == CloseRead \/ ProducerGone

-----------------------------------------------------------------------------
(* The shell kills the producer's side *)

Kill ==
    /\ ~killed /\ ppc # "done"
    /\ killed' = TRUE
    /\ UNCHANGED <<pageVars, pipeVars, producers_live, wrapped, bodyVars, callVars, dpc>>

-----------------------------------------------------------------------------
Body == StartBody \/ WriteRaw \/ WriteRefused \/ Flush \/ BodyReturns \/ CloseWrite \/ BodyLeaves

Call == ReadRaw \/ Read \/ ConsumerReturns \/ WaitForProducer \/ TimeOut \/ TeardownPair

Next == Dispatch \/ Body \/ Call \/ Kill

\* Pools run what is queued on them, and threads inside the runtime's own code
\* keep running. A body may stay between two calls as long as it likes, unless
\* a call has answered false. Nothing is assumed of the two seconds.
Fairness ==
    /\ WF_vars(Dispatch)
    /\ WF_vars(StartBody \/ Flush \/ CloseWrite \/ BodyLeaves)
    /\ WF_vars(Read \/ WaitForProducer \/ TeardownPair)
    /\ WF_vars(cpc = "eof" /\ ConsumerReturns)

Spec == Init /\ [][Next]_vars
FairSpec == Spec /\ Fairness

-----------------------------------------------------------------------------
(* Properties *)

\* The raises that have not been dropped: the dispatch's, and the body's from
\* the trampoline to the end of the body.
Raised ==
    (IF dpc = "returned" THEN 0 ELSE 1)
        + (IF dpc = "entered" \/ ppc \notin {"none", "done"} THEN 1 ELSE 0)

TypeOK ==
    /\ page \in Seq(Nat) /\ pipe \in Seq(Nat) /\ in_ \in Seq(Nat)
    /\ Len(pipe) <= PipeCapacity /\ Len(in_) <= InCapacity
    /\ sent \in Nat
    /\ staged \in 0 .. MaxFrames /\ accepted \in 0 .. staged /\ got \in Nat
    /\ tombstoned \in BOOLEAN /\ wopen \in BOOLEAN /\ ropen \in BOOLEAN /\ garbled \in BOOLEAN
    /\ wrapped \in BOOLEAN /\ tail \in BOOLEAN /\ killed \in BOOLEAN /\ cut \in BOOLEAN
    /\ timedOut \in BOOLEAN
    /\ producers_live = Raised
    /\ dpc \in {"queued", "entered", "leaving", "returned"}
    /\ ppc \in {"none", "queued", "body", "flush", "closing", "shut", "closed", "done"}
    /\ cpc \in {"body", "extract", "fill", "eof", "closeRead", "wait", "tear", "returned"}

\* What readRaw returns is what was written, frame by frame and in order, unless
\* a flush was interrupted in the middle of a frame (flushStaged leaves the
\* whole page to be sent again, MirrorBuffer.h:1185-1190).
FramesStayInSync == garbled => cut

\* Every frame writeRaw answered true for has been returned when readRaw answers
\* end of stream, unless the stream had lost its framing (closeWrite,
\* fillAndCopyInto).
EofAfterAccepted == cpc = "eof" => got >= accepted \/ garbled

\* The pair is torn down only after the last line of the produce body and of its
\* dispatch, or after the two seconds ("so the count never dips to zero in
\* between", Entity.h:1886-1890).
TornAfterBody ==
    cpc \in {"tear", "returned"} /\ ~timedOut => dpc = "returned" /\ ppc \in {"none", "done"}

\* A reader blocked in the pipe comes back once the producer's body is over, by
\* whatever path (StreamWriteGuard).
ReaderReturns == ppc = "closing" ~> cpc \notin {"extract", "fill"}

\* Once the consumer is done the call returns without the help of the two
\* seconds, unless the producer's body stays away from its stream ("it stops
\* being the ordinary case", Entity.h:1952-1956).
CallReturns == cpc = "wait" ~> cpc = "returned" \/ ppc = "body"
=============================================================================
