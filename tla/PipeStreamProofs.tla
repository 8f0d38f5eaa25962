-------------------------- MODULE PipeStreamProofs --------------------------
(***************************************************************************)
(* Proofs about PipeStream, for any capacity of the pipe and of in_ and any *)
(* number of frames.                                                        *)
(***************************************************************************)
EXTENDS PipeStream, SequenceTheorems, TLAPS

\* The body exists only once the trampoline has queued it.
DispatchInv == dpc \in {"queued", "entered"} => ppc = "none"

StreamInv == TypeOK /\ DispatchInv /\ TornAfterBody

LEMMA FrameIsSeq == \A n \in Nat : Frame(n) \in Seq(Nat)
  BY DEF Frame

\* What is left of the page after a staged frame, a write or a read.
LEMMA PrefixMoves ==
  ASSUME NEW s \in Seq(Nat), NEW t \in Seq(Nat), NEW k \in Nat, NEW n \in 1 .. Len(s) - k
  PROVE  /\ t \o SubSeq(s, k + 1, k + n) \in Seq(Nat)
         /\ Len(t \o SubSeq(s, k + 1, k + n)) = Len(t) + n
<1>1. Len(s) \in Nat
  OBVIOUS
<1>2. k + 1 \in 1 .. Len(s) + 1 /\ k + n \in k + 1 - 1 .. Len(s)
  BY <1>1
<1>3. \A i \in k + 1 .. k + n : i \in 1 .. Len(s)
  BY <1>1
<1>4. /\ SubSeq(s, k + 1, k + n) \in Seq(Nat)
      /\ Len(SubSeq(s, k + 1, k + n)) = n
  BY <1>1, <1>2, <1>3, SubSeqProperties
<1>5. QED BY <1>4, ConcatProperties

LEMMA SuffixStays ==
  ASSUME NEW s \in Seq(Nat), NEW n \in 1 .. Len(s)
  PROVE  /\ SubSeq(s, n + 1, Len(s)) \in Seq(Nat)
         /\ Len(SubSeq(s, n + 1, Len(s))) = Len(s) - n
<1>1. Len(s) \in Nat
  OBVIOUS
<1>2. n + 1 \in 1 .. Len(s) + 1 /\ Len(s) \in n + 1 - 1 .. Len(s)
  BY <1>1
<1>3. QED BY <1>1, <1>2, SubSeqProperties

LEMMA SuffixIsShorter ==
  ASSUME NEW s \in Seq(Nat), NEW n \in 1 .. Len(s)
  PROVE  \E rest \in Seq(Nat) : rest = SubSeq(s, n + 1, Len(s)) /\ Len(rest) <= Len(s)
<1>1. PICK rest : rest = SubSeq(s, n + 1, Len(s))
  OBVIOUS
<1>2. Len(s) \in Nat /\ n \in Nat
  OBVIOUS
<1>3. rest \in Seq(Nat) /\ Len(rest) = Len(s) - n
  BY <1>1, SuffixStays, Zenon
<1>4. Len(rest) <= Len(s)
  BY ONLY <1>2, <1>3
<1>5. QED BY <1>1, <1>3, <1>4

-----------------------------------------------------------------------------
LEMMA InitInv == Init => StreamInv
<1> SUFFICES ASSUME Init PROVE StreamInv
  OBVIOUS
<1>1. /\ tombstoned \in BOOLEAN /\ wopen \in BOOLEAN /\ ropen \in BOOLEAN /\ garbled \in BOOLEAN
      /\ wrapped \in BOOLEAN /\ tail \in BOOLEAN /\ killed \in BOOLEAN /\ cut \in BOOLEAN
      /\ timedOut \in BOOLEAN
  BY DEF Init
<1>2. /\ page = <<>> /\ pipe = <<>> /\ in_ = <<>> /\ sent = 0 /\ staged = 0 /\ accepted = 0
      /\ got = 0 /\ producers_live = 1 /\ dpc = "queued" /\ ppc = "none" /\ cpc = "body"
  BY DEF Init
<1>3. Raised = 1
  BY <1>2 DEF Raised
<1>4. TypeOK
  BY <1>1, <1>2, <1>3, PipeStreamAssumption DEF TypeOK
<1>5. DispatchInv /\ TornAfterBody
  BY <1>2 DEF DispatchInv, TornAfterBody
<1>6. QED BY <1>4, <1>5 DEF StreamInv

LEMMA DispatchStep ==
  ASSUME StreamInv, Dispatch
  PROVE  StreamInv'
<1> USE DEF StreamInv, TypeOK, DispatchInv, TornAfterBody, Raised, Dispatched, DispatchKeeps,
            pageVars, pipeVars, callVars
<1>1. CASE Enter BY <1>1 DEF Enter
<1>2. CASE EnqueueBody BY <1>2 DEF EnqueueBody
<1>3. CASE EnqueueThrows BY <1>3 DEF EnqueueThrows
<1>4. CASE DispatchFails BY <1>4 DEF DispatchFails
<1>5. CASE DispatchLeaves BY <1>5 DEF DispatchLeaves
<1>6. QED BY <1>1, <1>2, <1>3, <1>4, <1>5 DEF Dispatch

LEMMA StageType ==
  ASSUME TypeOK, StageFrame
  PROVE  /\ page' \in Seq(Nat) /\ sent' \in Nat
         /\ staged' \in 0 .. MaxFrames /\ accepted' \in 0 .. staged'
<1>1. Frame(staged) \in Seq(Nat)
  BY FrameIsSeq DEF TypeOK
<1>2. page \o Frame(staged) \in Seq(Nat)
  BY <1>1, ConcatProperties DEF TypeOK
<1>3. QED BY <1>2, PipeStreamAssumption DEF TypeOK, StageFrame

LEMMA BodyStep ==
  ASSUME StreamInv, Body
  PROVE  StreamInv'
<1> USE DEF StreamInv, DispatchInv, TornAfterBody, Raised, Goes, Flushed, BodyKeeps,
            pageVars, pipeVars, callVars, bodyVars
<1>1. CASE StartBody BY <1>1 DEF StartBody, TypeOK
<1>2. CASE WriteRaw
  <2>1. StageFrame BY <1>2 DEF WriteRaw
  <2>2. QED BY <1>2, <2>1, StageType DEF WriteRaw, StageFrame, TypeOK
<1>3. CASE WriteRefused BY <1>3 DEF WriteRefused, TypeOK
<1>4. CASE FlushSome
  <2>1. PICK n \in 1 .. Len(page) - sent :
          /\ Len(pipe) + n <= PipeCapacity
          /\ pipe' = pipe \o SubSeq(page, sent + 1, sent + n)
          /\ sent' = sent + n
    BY <1>4 DEF FlushSome
  <2>2. pipe' \in Seq(Nat) /\ Len(pipe') <= PipeCapacity
    BY <2>1, PrefixMoves DEF TypeOK
  <2>3. sent' \in Nat
    BY <2>1 DEF TypeOK
  <2>4. QED BY <1>4, <2>2, <2>3 DEF FlushSome, TypeOK
<1>5. CASE FlushDone BY <1>5 DEF FlushDone, TypeOK
<1>6. CASE FlushInterrupted BY <1>6 DEF FlushInterrupted, TypeOK
<1>7. CASE FlushFails BY <1>7 DEF FlushFails, TypeOK
<1>8. CASE BodyReturns BY <1>8 DEF BodyReturns, TypeOK
<1>9. CASE SendTerminator
  <2>1. StageFrame BY <1>9 DEF SendTerminator
  <2>2. QED BY <1>9, <2>1, StageType DEF SendTerminator, StageFrame, TypeOK
<1>10. CASE NoTerminator BY <1>10 DEF NoTerminator, TypeOK
<1>11. CASE Shut
  <2>1. wopen' \in BOOLEAN BY <1>11 DEF Shut
  <2>2. ppc = "shut" /\ ppc' = "closed" BY <1>11 DEF Shut
  <2>3. UNCHANGED <<pageVars, pipe, producers_live, tail, wrapped, killed, callVars, dpc>>
    BY <1>11 DEF Shut
  <2>4. QED BY <2>1, <2>2, <2>3 DEF TypeOK
<1>12. CASE BodyLeaves BY <1>12 DEF BodyLeaves, TypeOK
<1>13. QED
  BY <1>1, <1>2, <1>3, <1>4, <1>5, <1>6, <1>7, <1>8, <1>9, <1>10, <1>11, <1>12
     DEF Body, Flush, CloseWrite

LEMMA CallStep ==
  ASSUME StreamInv, Call
  PROVE  StreamInv'
<1> USE DEF StreamInv, DispatchInv, TornAfterBody, Raised, Moves, CallKeeps,
            pipeVars, bodyVars
<1>1. CASE ReadRaw BY <1>1 DEF ReadRaw, TypeOK
<1>2. CASE Extract
  <2>1. in_ \in Seq(Nat) /\ Len(in_) \in Nat /\ Len(in_) >= 2 /\ Len(in_) <= InCapacity
    BY <1>2 DEF Extract, FrameLength, TypeOK
  <2>2. PICK n \in 1 .. Len(in_) : n = FrameLength
    BY <2>1 DEF FrameLength
  <2>3. PICK rest \in Seq(Nat) : rest = SubSeq(in_, n + 1, Len(in_)) /\ Len(rest) <= Len(in_)
    BY ONLY <2>1, <2>2, SuffixIsShorter
  <2>4. CASE ~garbled /\ SubSeq(in_, 1, FrameLength) = Frame(got)
    <3>1. in_' = rest /\ got' = got + 1 /\ garbled' = garbled
      BY <1>2, <2>2, <2>3, <2>4 DEF Extract
    <3>2. in_' \in Seq(Nat) /\ Len(in_') <= InCapacity
      BY ONLY <2>1, <2>3, <3>1, PipeStreamAssumption
    <3>3. QED BY <1>2, <3>1, <3>2 DEF Extract, TypeOK
  <2>5. CASE ~(~garbled /\ SubSeq(in_, 1, FrameLength) = Frame(got))
    <3>0. (IF ~garbled /\ SubSeq(in_, 1, FrameLength) = Frame(got)
             THEN TRUE
             ELSE in_' = <<>> /\ garbled' = TRUE /\ got' = got)
      BY <1>2 DEF Extract
    <3>1. in_' = <<>> /\ garbled' = TRUE /\ got' = got
      BY <2>5, <3>0
    <3>2. garbled' \in BOOLEAN
      BY <3>1
    <3>3. in_' \in Seq(Nat) /\ Len(in_') <= InCapacity
      BY <3>1, PipeStreamAssumption
    <3>4. /\ cpc' = "body" /\ got' = got
          /\ UNCHANGED <<page, sent, staged, accepted, cut, producers_live, wrapped, killed,
                         bodyVars, dpc, tombstoned, pipeVars, ropen, timedOut>>
      BY <1>2, <3>1 DEF Extract
    <3>5. QED BY <3>2, <3>3, <3>4 DEF TypeOK
  <2>6. QED BY <2>4, <2>5
<1>3. CASE ExtractMore BY <1>3 DEF ExtractMore, TypeOK
<1>4. CASE Fill
  <2>1. PICK n \in 1 .. Len(pipe) :
          /\ Len(in_) + n <= InCapacity
          /\ in_' = in_ \o SubSeq(pipe, 1, n)
          /\ pipe' = SubSeq(pipe, n + 1, Len(pipe))
    BY <1>4 DEF Fill
  <2>2. pipe \in Seq(Nat) /\ in_ \in Seq(Nat) /\ Len(pipe) \in Nat /\ Len(pipe) <= PipeCapacity
    BY DEF TypeOK
  <2>3. in_' \in Seq(Nat) /\ Len(in_') <= InCapacity
    <3>1. in_' = in_ \o SubSeq(pipe, 0 + 1, 0 + n)
      BY ONLY <2>1
    <3>2. n \in 1 .. Len(pipe) - 0
      BY ONLY <2>1, <2>2
    <3>3. in_' \in Seq(Nat) /\ Len(in_') = Len(in_) + n
      BY ONLY <2>2, <3>1, <3>2, PrefixMoves
    <3>4. QED BY ONLY <2>1, <3>3
  <2>4. pipe' \in Seq(Nat) /\ Len(pipe') <= PipeCapacity
    <3>1. PICK rest \in Seq(Nat) : rest = pipe' /\ Len(rest) <= Len(pipe)
      BY ONLY <2>1, <2>2, SuffixIsShorter
    <3>2. QED BY ONLY <2>2, <3>1, PipeStreamAssumption
  <2>5. /\ cpc' = "extract"
        /\ UNCHANGED <<page, sent, staged, accepted, cut, producers_live, wrapped, killed,
                       bodyVars, dpc, tombstoned, wopen, ropen, got, garbled, timedOut>>
    BY <1>4 DEF Fill
  <2>6. QED BY <2>3, <2>4, <2>5 DEF TypeOK
<1>5. CASE ReadEof BY <1>5 DEF ReadEof, TypeOK
<1>6. CASE ConsumerReturns BY <1>6 DEF ConsumerReturns, TypeOK
<1>7. CASE CloseRead
  <2>1. ropen' \in BOOLEAN BY <1>7 DEF CloseRead
  <2>2. cpc' = "wait" BY <1>7 DEF CloseRead
  <2>3. UNCHANGED <<page, sent, staged, accepted, cut, producers_live, wrapped, killed, bodyVars,
                    dpc, tombstoned, pipeVars, in_, got, garbled, timedOut>>
    BY <1>7 DEF CloseRead
  <2>4. QED BY <2>1, <2>2, <2>3 DEF TypeOK
<1>8. CASE ProducerGone BY <1>8 DEF ProducerGone, TypeOK
<1>9. CASE TimeOut BY <1>9 DEF TimeOut, TypeOK
<1>10. CASE TeardownPair
  <2>1. wopen' \in BOOLEAN /\ tombstoned' \in BOOLEAN BY <1>10 DEF TeardownPair
  <2>2. cpc = "tear" /\ cpc' = "returned" BY <1>10 DEF TeardownPair
  <2>3. UNCHANGED <<page, sent, staged, accepted, cut, producers_live, wrapped, killed, bodyVars,
                    dpc, pipe, in_, ropen, got, garbled, timedOut>>
    BY <1>10 DEF TeardownPair
  <2>4. QED BY <2>1, <2>2, <2>3 DEF TypeOK
<1>11. QED
  BY <1>1, <1>2, <1>3, <1>4, <1>5, <1>6, <1>7, <1>8, <1>9, <1>10
     DEF Call, Read, WaitForProducer

LEMMA NextStep ==
  ASSUME StreamInv, [Next]_vars
  PROVE  StreamInv'
<1>1. CASE Kill
  BY <1>1 DEF Kill, StreamInv, TypeOK, DispatchInv, TornAfterBody, Raised,
              pageVars, pipeVars, bodyVars, callVars
<1>2. CASE UNCHANGED vars
  BY <1>2 DEF vars, StreamInv, TypeOK, DispatchInv, TornAfterBody, Raised,
              pageVars, pipeVars, bodyVars, callVars
<1>3. QED BY <1>1, <1>2, DispatchStep, BodyStep, CallStep DEF Next

-----------------------------------------------------------------------------
LEMMA PipeInvariant == Spec => []StreamInv
<1>1. StreamInv /\ [Next]_vars => StreamInv'
  BY NextStep
<1>2. QED BY <1>1, InitInv, PTL DEF Spec

\* Type correctness, and with it the account of producers_live: every raise is
\* dropped exactly once, for any capacities.
THEOREM PipeTypeCorrect == Spec => []TypeOK
<1>1. StreamInv => TypeOK BY DEF StreamInv
<1>2. QED BY <1>1, PipeInvariant, PTL

\* The pair is never torn down under a produce body or its dispatch before the
\* two seconds are over, for any capacities and any number of frames.
THEOREM NoTeardownUnderBody == Spec => []TornAfterBody
<1>1. StreamInv => TornAfterBody BY DEF StreamInv
<1>2. QED BY <1>1, PipeInvariant, PTL

-----------------------------------------------------------------------------
(* Delivery: what writeRaw accepted is returned before end of stream *)

\* How many units the writer has put in the pipe, and how many of the page's.
Position == 2 * got + Len(in_) + Len(pipe)
Ahead == IF ppc = "flush" THEN sent ELSE 0

\* Every staged frame is in the pipe or behind it, or still in the page; every
\* accepted one is past the page. Only closeWrite and teardownPair close the
\* writing end, and end of stream is read from an empty pipe.
CountInv ==
  /\ Ahead <= Len(page)
  /\ garbled \/ (2 * accepted <= Position /\ 2 * staged <= Position + Len(page) - Ahead)
  /\ ~wopen => ppc \in {"closed", "done"} \/ cpc = "returned"
  /\ cpc = "fill" => Len(in_) < 2
  /\ cpc = "eof" => pipe = <<>> /\ Len(in_) < 2 /\ ~wopen

LEMMA Lengths ==
  ASSUME TypeOK
  PROVE  /\ Len(page) \in Nat /\ Len(in_) \in Nat /\ Len(pipe) \in Nat
         /\ sent \in Nat /\ staged \in Nat /\ accepted \in Nat /\ got \in Nat
         /\ accepted <= staged
  BY PipeStreamAssumption DEF TypeOK

LEMMA StageLength ==
  ASSUME TypeOK, StageFrame
  PROVE  Len(page') = Len(page) + 2
<1>1. Frame(staged) \in Seq(Nat) /\ Len(Frame(staged)) = 2 /\ page \in Seq(Nat)
  BY FrameIsSeq DEF TypeOK, Frame
<1>2. Len(page \o Frame(staged)) = Len(page) + Len(Frame(staged))
  BY <1>1, ConcatProperties, Zenon
<1>3. page' = page \o Frame(staged)
  BY DEF StageFrame
<1>4. QED BY ONLY <1>1, <1>2, <1>3

LEMMA CountBody ==
  ASSUME TypeOK, CountInv, Body
  PROVE  CountInv'
<1> USE Lengths DEF CountInv, Position, Ahead, Goes, Flushed, BodyKeeps, pageVars, pipeVars,
                    callVars, bodyVars
<1>1. CASE StartBody BY <1>1 DEF StartBody
<1>2. CASE WriteRaw
  <2>1. StageFrame /\ Len(page') = Len(page) + 2 BY <1>2, StageLength DEF WriteRaw
  <2>2. QED BY <1>2, <2>1, SMTT(30) DEF WriteRaw, StageFrame
<1>3. CASE WriteRefused BY <1>3 DEF WriteRefused
<1>4. CASE FlushSome
  <2>1. PICK n \in 1 .. Len(page) - sent :
          /\ pipe' = pipe \o SubSeq(page, sent + 1, sent + n)
          /\ sent' = sent + n
    BY <1>4 DEF FlushSome
  <2>2. Len(pipe') = Len(pipe) + n
    BY <2>1, PrefixMoves DEF TypeOK
  <2>3. ppc = "flush" /\ wopen
        /\ UNCHANGED <<page, staged, accepted, in_, got, garbled, wopen, ppc, cpc>>
    BY <1>4 DEF FlushSome
  <2>4. n \in Nat /\ sent' = sent + n /\ sent + n <= Len(page)
    BY <2>1, Lengths
  <2>5. Position' = Position + n /\ Ahead' = Ahead + n /\ Ahead + n <= Len(page)
    BY <2>2, <2>3, <2>4, Lengths
  <2>6. Position \in Nat /\ Ahead \in Nat
    BY <2>3, Lengths
  <2>7. wopen' /\ cpc' # "eof" /\ (cpc' = "fill" => Len(in_') < 2)
    BY <2>3
  <2> HIDE DEF Position, Ahead
  <2>8. QED BY <2>3, <2>4, <2>5, <2>6, <2>7, Lengths, SMTT(30)
<1>5. CASE FlushDone
  <2>1. Len(page') = Len(page) \/ Len(page') = 0 BY <1>5 DEF FlushDone
  <2>2. QED BY <1>5, <2>1, SMTT(30) DEF FlushDone
<1>6. CASE FlushInterrupted BY <1>6 DEF FlushInterrupted
<1>7. CASE FlushFails BY <1>7 DEF FlushFails
<1>8. CASE BodyReturns BY <1>8 DEF BodyReturns
<1>9. CASE SendTerminator
  <2>1. StageFrame /\ Len(page') = Len(page) + 2 BY <1>9, StageLength DEF SendTerminator
  <2>2. QED BY <1>9, <2>1, SMTT(30) DEF SendTerminator, StageFrame
<1>10. CASE NoTerminator BY <1>10 DEF NoTerminator
<1>11. CASE Shut BY <1>11 DEF Shut
<1>12. CASE BodyLeaves BY <1>12 DEF BodyLeaves
<1>13. QED
  BY <1>1, <1>2, <1>3, <1>4, <1>5, <1>6, <1>7, <1>8, <1>9, <1>10, <1>11, <1>12
     DEF Body, Flush, CloseWrite

LEMMA CountCall ==
  ASSUME TypeOK, CountInv, Call
  PROVE  CountInv'
<1> USE Lengths DEF CountInv, Position, Ahead, Moves, CallKeeps, pipeVars, bodyVars
<1>1. CASE ReadRaw BY <1>1 DEF ReadRaw
<1>2. CASE Extract
  <2>1. PICK n \in 1 .. Len(in_) : n = FrameLength /\ n = 2
    BY <1>2 DEF Extract, FrameLength
  <2>2. garbled' \/ (in_' = SubSeq(in_, n + 1, Len(in_)) /\ got' = got + 1 /\ ~garbled)
    BY <1>2, <2>1 DEF Extract
  <2>3. Len(SubSeq(in_, n + 1, Len(in_))) = Len(in_) - 2
    BY <2>1, SuffixStays DEF TypeOK
  <2>4. cpc = "extract" /\ cpc' = "body"
        /\ UNCHANGED <<page, sent, staged, accepted, pipe, wopen, ppc>>
    BY <1>2 DEF Extract
  <2>5. garbled' \/ (~garbled /\ got' = got + 1 /\ Len(in_') = Len(in_) - 2)
    BY <2>2, <2>3, Zenon
  <2>6. ASSUME got' = got + 1, Len(in_') = Len(in_) - 2
        PROVE  Position' = Position
    <3>1. got \in Nat /\ Len(in_) \in Nat /\ Len(pipe) \in Nat
      BY Lengths
    <3>2. Len(pipe') = Len(pipe)
      BY <2>4
    <3>3. 2 * (got + 1) + (Len(in_) - 2) + Len(pipe) = 2 * got + Len(in_) + Len(pipe)
      BY <3>1
    <3>4. QED BY <2>6, <3>2, <3>3, Zenon
  <2>7. QED BY <2>4, <2>5, <2>6
<1>3. CASE ExtractMore BY <1>3 DEF ExtractMore, FrameLength
<1>4. CASE Fill
  <2>1. PICK n \in 1 .. Len(pipe) :
          /\ in_' = in_ \o SubSeq(pipe, 1, n)
          /\ pipe' = SubSeq(pipe, n + 1, Len(pipe))
    BY <1>4 DEF Fill
  <2>2. Len(in_') = Len(in_) + n
    <3>1. in_' = in_ \o SubSeq(pipe, 0 + 1, 0 + n)
      BY ONLY <2>1
    <3>2. n \in 1 .. Len(pipe) - 0 /\ pipe \in Seq(Nat) /\ in_ \in Seq(Nat)
      BY <2>1 DEF TypeOK
    <3>3. QED BY ONLY <3>1, <3>2, PrefixMoves
  <2>3. Len(pipe') = Len(pipe) - n
    BY <2>1, SuffixStays DEF TypeOK
  <2>4. cpc = "fill" /\ cpc' = "extract"
        /\ UNCHANGED <<page, sent, staged, accepted, got, garbled, wopen, ppc>>
    BY <1>4 DEF Fill
  <2>5. Position' = Position
    BY <2>1, <2>2, <2>3, <2>4, Lengths, SMTT(30)
  <2>6. QED BY <2>4, <2>5
<1>5. CASE ReadEof BY <1>5 DEF ReadEof
<1>6. CASE ConsumerReturns BY <1>6 DEF ConsumerReturns
<1>7. CASE CloseRead BY <1>7 DEF CloseRead
<1>8. CASE ProducerGone BY <1>8 DEF ProducerGone
<1>9. CASE TimeOut BY <1>9 DEF TimeOut
<1>10. CASE TeardownPair BY <1>10 DEF TeardownPair
<1>11. QED
  BY <1>1, <1>2, <1>3, <1>4, <1>5, <1>6, <1>7, <1>8, <1>9, <1>10
     DEF Call, Read, WaitForProducer

LEMMA CountStep ==
  ASSUME TypeOK, CountInv, DispatchInv, [Next]_vars
  PROVE  CountInv'
<1> USE DEF CountInv, Position, Ahead, pageVars, pipeVars, bodyVars, callVars
<1>1. CASE Dispatch
  <2>1. UNCHANGED <<pageVars, pipeVars, callVars>>
        /\ (UNCHANGED ppc \/ (ppc = "none" /\ ppc' = "queued"))
    BY <1>1 DEF Dispatch, Enter, EnqueueBody, EnqueueThrows, DispatchFails, DispatchLeaves,
                DispatchKeeps, Dispatched, DispatchInv
  <2>2. QED BY <2>1
<1>2. CASE Kill BY <1>2 DEF Kill
<1>3. CASE UNCHANGED vars BY <1>3 DEF vars
<1>4. QED BY <1>1, <1>2, <1>3, CountBody, CountCall DEF Next

\* Every frame writeRaw answered true for has been returned when readRaw answers
\* end of stream, or the framing was lost before: for any capacities, any split
\* of a frame over writes and reads, and any number of frames.
THEOREM AcceptedIsDelivered == Spec => []EofAfterAccepted
<1>1. Init => CountInv
  BY DEF Init, CountInv, Position, Ahead
<1>2. StreamInv /\ CountInv /\ [Next]_vars => CountInv'
  BY CountStep DEF StreamInv
<1>3. StreamInv /\ CountInv => EofAfterAccepted
  BY Lengths DEF StreamInv, CountInv, Position, EofAfterAccepted
<1>4. QED BY <1>1, <1>2, <1>3, PipeInvariant, PTL DEF Spec

-----------------------------------------------------------------------------
(* Framing: as long as no flush is cut, the pipe carries the units in order *)

\* s is the units from `from` on.
Units(s, from) == \A i \in 1 .. Len(s) : s[i] = from + i - 1

\* In in_ and the pipe there is what follows the frames returned.
InOrder == ~garbled /\ Units(in_, 2 * got) /\ Units(pipe, 2 * got + Len(in_))

\* A page that can still be flushed goes on where the pipe ends.
PageGoesOn ==
  wopen /\ ropen => Units(page, Position - Ahead) /\ 2 * staged = Position + Len(page) - Ahead

\* Both hold until a flush is cut; and a page is tombstoned only when the writing
\* end is closed.
FramingInv == (~cut => InOrder /\ PageGoesOn) /\ (tombstoned => ~wopen)

LEMMA UnitsConcat ==
  ASSUME NEW s \in Seq(Nat), NEW t \in Seq(Nat), NEW a \in Int,
         Units(s, a), Units(t, a + Len(s))
  PROVE  Units(s \o t, a)
<1>1. Len(s) \in Nat /\ Len(t) \in Nat
  OBVIOUS
<1>2. /\ Len(s \o t) = Len(s) + Len(t)
      /\ \A i \in 1 .. Len(s) + Len(t) :
            (s \o t)[i] = IF i <= Len(s) THEN s[i] ELSE t[i - Len(s)]
  BY ConcatProperties, Zenon
<1>3. ASSUME NEW i \in 1 .. Len(s) + Len(t)
      PROVE  (s \o t)[i] = a + i - 1
  <2>1. CASE i <= Len(s)
    <3>1. i \in 1 .. Len(s) BY <1>1, <2>1
    <3>2. s[i] = a + i - 1 BY <3>1 DEF Units
    <3>3. QED BY <1>2, <2>1, <3>2
  <2>2. CASE ~(i <= Len(s))
    <3>0. i - Len(s) \in 1 .. Len(t) BY <1>1, <2>2
    <3>1. PICK j \in 1 .. Len(t) : j = i - Len(s) BY <3>0
    <3>2. t[j] = a + Len(s) + j - 1 BY <3>1 DEF Units
    <3>3. a + Len(s) + j - 1 = a + i - 1 BY <1>1, <3>1
    <3>4. (s \o t)[i] = t[j] BY <1>2, <2>2, <3>1
    <3>5. QED BY <3>2, <3>3, <3>4
  <2>3. QED BY <2>1, <2>2
<1>4. QED BY <1>2, <1>3 DEF Units

LEMMA UnitsSub ==
  ASSUME NEW s \in Seq(Nat), NEW a \in Int, Units(s, a),
         NEW k \in Nat, NEW m \in Nat, m <= Len(s)
  PROVE  Units(SubSeq(s, k + 1, m), a + k)
<1>1. Len(s) \in Nat
  OBVIOUS
<1>2. \A i \in k + 1 .. m : s[i] \in Nat
  BY <1>1
<1>3. /\ Len(SubSeq(s, k + 1, m)) = IF k + 1 <= m THEN m - (k + 1) + 1 ELSE 0
      /\ \A i \in 1 .. m - (k + 1) + 1 : SubSeq(s, k + 1, m)[i] = s[k + 1 + i - 1]
  <2>1. k + 1 \in Int /\ m \in Int OBVIOUS
  <2>2. QED BY <1>2, <2>1, SubSeqProperties
<1>4. ASSUME NEW i \in 1 .. Len(SubSeq(s, k + 1, m))
      PROVE  SubSeq(s, k + 1, m)[i] = (a + k) + i - 1
  <2>1. i \in 1 .. m - (k + 1) + 1 /\ k + 1 + i - 1 \in 1 .. Len(s)
    BY <1>1, <1>3
  <2>2. PICK j \in 1 .. Len(s) : j = k + 1 + i - 1
    BY <2>1
  <2>3. SubSeq(s, k + 1, m)[i] = s[j]
    BY <1>3, <2>1, <2>2
  <2>4. s[j] = a + j - 1
    BY DEF Units
  <2>5. QED BY <2>1, <2>2, <2>3, <2>4
<1>5. QED BY <1>4 DEF Units

LEMMA FrameUnits == \A n \in Nat : Units(Frame(n), 2 * n) /\ Len(Frame(n)) = 2
  BY DEF Units, Frame

LEMMA Positions ==
  ASSUME TypeOK
  PROVE  Position \in Nat /\ Ahead \in Nat
<1>1. got \in Nat /\ Len(in_) \in Nat /\ Len(pipe) \in Nat /\ sent \in Nat
  BY Lengths
<1>2. QED BY <1>1 DEF Position, Ahead

\* Staging puts the next frame behind the page.
LEMMA FramingStage ==
  ASSUME TypeOK, PageGoesOn, StageFrame, ppc # "flush", ppc' = "flush",
         UNCHANGED <<in_, got, ropen>>
  PROVE  PageGoesOn'
<1>1. /\ page' = page \o Frame(staged) /\ staged' = staged + 1 /\ sent' = 0
      /\ UNCHANGED <<pipe, wopen>>
  BY DEF StageFrame, pipeVars
<1>2. Position' = Position /\ Ahead = 0 /\ Ahead' = 0
  BY <1>1 DEF Position, Ahead
<1>3. page \in Seq(Nat) /\ staged \in Nat /\ Position \in Nat /\ Len(page) \in Nat
  BY Lengths, Positions DEF TypeOK
<1>4. ASSUME wopen, ropen
      PROVE  Units(page', Position) /\ 2 * staged' = Position + Len(page')
  <2>1. Units(page, Position) /\ 2 * staged = Position + Len(page)
    BY <1>2, <1>3, <1>4 DEF PageGoesOn
  <2>2. Frame(staged) \in Seq(Nat) /\ Units(Frame(staged), Position + Len(page))
    BY <1>3, <2>1, FrameIsSeq, FrameUnits
  <2>3. Units(page', Position)
    BY <1>1, <1>3, <2>1, <2>2, UnitsConcat
  <2>4. Len(page') = Len(page) + 2
    BY StageLength
  <2>5. QED BY <1>1, <1>3, <2>1, <2>3, <2>4, SMTT(30)
<1>5. Position - 0 = Position /\ Len(page') \in Nat
  BY <1>1, <1>3, StageLength
<1>6. QED BY <1>1, <1>2, <1>3, <1>4, <1>5 DEF PageGoesOn

\* What a write moves from the page to the pipe keeps its place.
LEMMA FramingFlush ==
  ASSUME TypeOK, CountInv, InOrder, PageGoesOn, FlushSome
  PROVE  InOrder' /\ PageGoesOn'
<1>1. PICK n \in 1 .. Len(page) - sent :
        /\ pipe' = pipe \o SubSeq(page, sent + 1, sent + n)
        /\ sent' = sent + n
  BY DEF FlushSome
<1>2. /\ ppc = "flush" /\ wopen /\ ropen
      /\ UNCHANGED <<page, staged, in_, got, garbled, wopen, ropen, ppc>>
  BY DEF FlushSome, BodyKeeps, callVars, bodyVars
<1>3. /\ page \in Seq(Nat) /\ pipe \in Seq(Nat) /\ sent \in Nat /\ got \in Nat
      /\ Len(page) \in Nat /\ Len(pipe) \in Nat /\ Len(in_) \in Nat /\ n \in Nat
      /\ sent + n \in Nat /\ sent + n <= Len(page) /\ staged \in Nat
  BY <1>1, Lengths DEF TypeOK
<1>4. PICK m \in Nat : m = sent + n
  BY <1>3
<1>5. Units(page, Position - sent) /\ Position \in Nat
  BY <1>2, Positions DEF PageGoesOn, Ahead
<1>6. Units(SubSeq(page, sent + 1, m), (Position - sent) + sent)
  BY <1>3, <1>4, <1>5, UnitsSub
<1>7. (Position - sent) + sent = (2 * got + Len(in_)) + Len(pipe)
  BY <1>3 DEF Position
<1>8. Units(pipe', 2 * got + Len(in_))
  <2>1. SubSeq(page, sent + 1, m) \in Seq(Nat)
    BY <1>3, <1>4, SubSeqProperties
  <2>2. 2 * got + Len(in_) \in Int
    BY <1>3
  <2>3. Units(pipe, 2 * got + Len(in_))
    BY DEF InOrder
  <2>4. QED BY <1>1, <1>3, <1>4, <1>6, <1>7, <2>1, <2>2, <2>3, UnitsConcat
<1>9. InOrder'
  BY <1>2, <1>8 DEF InOrder
<1>10. Position' - Ahead' = Position - Ahead
  <2>1. Len(pipe') = Len(pipe) + n
    BY <1>1, <1>3, PrefixMoves
  <2>2. QED BY <1>1, <1>2, <1>3, <2>1 DEF Position, Ahead
<1>11. Position' \in Nat /\ Ahead' \in Nat /\ Ahead \in Nat
  <2>1. Len(pipe') = Len(pipe) + n
    BY <1>1, <1>3, PrefixMoves
  <2>2. QED BY <1>1, <1>2, <1>3, <2>1 DEF Position, Ahead
<1>12. Position' + Len(page) - Ahead' = Position + Len(page) - Ahead
  <2>1. PICK a \in Nat, b \in Nat, c \in Nat, d \in Nat, e \in Nat :
          a = Position' /\ b = Ahead' /\ c = Position /\ d = Ahead /\ e = Len(page)
    BY <1>3, <1>5, <1>11, Zenon
  <2>2. a - b = c - d
    BY <1>10, <2>1
  <2>3. a + e - b = c + e - d
    BY <2>2
  <2>4. QED BY <2>1, <2>3
<1>13. QED BY <1>2, <1>9, <1>10, <1>12 DEF PageGoesOn

\* A read takes units from the front of in_, or moves them there.
LEMMA FramingExtract ==
  ASSUME TypeOK, InOrder, PageGoesOn, Extract
  PROVE  InOrder' /\ PageGoesOn'
<1>1. /\ got \in Nat /\ in_ \in Seq(Nat) /\ pipe \in Seq(Nat)
      /\ Len(in_) \in Nat /\ Len(pipe) \in Nat /\ Len(in_) >= 2
  BY Lengths DEF TypeOK, Extract, FrameLength
<1>2. PICK m \in Nat : m = Len(in_)
  BY <1>1
<1>3. ~garbled /\ Units(in_, 2 * got) /\ Units(pipe, 2 * got + Len(in_))
  BY DEF InOrder
<1>4. SubSeq(in_, 1, 2) = Frame(got)
  <2>1. in_[1] = 2 * got /\ in_[2] = 2 * got + 1
    BY <1>1, <1>3 DEF Units
  <2>2. SubSeq(in_, 1, 2) = <<in_[1], in_[2]>>
    <3>1. \A i \in 1 .. 2 : in_[i] \in Nat
      BY <1>1
    <3>2. /\ SubSeq(in_, 1, 2) \in Seq(Nat) /\ Len(SubSeq(in_, 1, 2)) = 2
          /\ SubSeq(in_, 1, 2)[1] = in_[1] /\ SubSeq(in_, 1, 2)[2] = in_[2]
      BY <3>1, SubSeqProperties
    <3>3. <<in_[1], in_[2]>> \in Seq(Nat) /\ Len(<<in_[1], in_[2]>>) = 2
      BY <3>1
    <3>4. \A i \in 1 .. Len(SubSeq(in_, 1, 2)) : SubSeq(in_, 1, 2)[i] = <<in_[1], in_[2]>>[i]
      BY <3>2
    <3>5. QED BY <3>2, <3>3, <3>4, SeqEqual, Zenon
  <2>3. QED BY <2>1, <2>2 DEF Frame
<1>5. /\ in_' = SubSeq(in_, 2 + 1, m) /\ got' = got + 1 /\ garbled' = garbled
      /\ UNCHANGED <<page, sent, staged, pipe, wopen, ropen, ppc>>
  BY <1>2, <1>3, <1>4 DEF Extract, FrameLength, CallKeeps, pipeVars, bodyVars
<1>6. Units(in_', 2 * got + 2)
  BY <1>1, <1>2, <1>3, <1>5, UnitsSub
<1>7. Len(in_') = Len(in_) - 2
  <2>1. \A i \in 3 .. m : in_[i] \in Nat BY <1>1, <1>2
  <2>2. Len(SubSeq(in_, 3, m)) = IF 3 <= m THEN m - 3 + 1 ELSE 0 BY <2>1, SubSeqProperties
  <2>3. QED BY <1>1, <1>2, <1>5, <2>2
<1>8. 2 * got' = 2 * got + 2 /\ 2 * got' + Len(in_') = 2 * got + Len(in_)
  <2>1. PICK g \in Nat : g = got
    BY <1>1
  <2>2. got' = g + 1
    BY <1>5, <2>1
  <2>3. m - 2 \in Nat /\ Len(in_') = m - 2
    BY <1>1, <1>2, <1>7
  <2>4. 2 * (g + 1) = 2 * g + 2 /\ 2 * (g + 1) + (m - 2) = 2 * g + m
    OBVIOUS
  <2>5. QED BY <1>2, <2>1, <2>2, <2>3, <2>4, Zenon
<1>9. Position' = Position /\ Ahead' = Ahead
  BY <1>5, <1>8 DEF Position, Ahead
<1>10. QED BY <1>3, <1>5, <1>6, <1>8, <1>9 DEF InOrder, PageGoesOn

LEMMA FramingFill ==
  ASSUME TypeOK, InOrder, PageGoesOn, Fill
  PROVE  InOrder' /\ PageGoesOn'
<1>1. PICK n \in 1 .. Len(pipe) :
        /\ in_' = in_ \o SubSeq(pipe, 1, n)
        /\ pipe' = SubSeq(pipe, n + 1, Len(pipe))
  BY DEF Fill
<1>2. UNCHANGED <<page, sent, staged, got, garbled, wopen, ropen, ppc>>
  BY DEF Fill, CallKeeps, bodyVars
<1>3. /\ got \in Nat /\ in_ \in Seq(Nat) /\ pipe \in Seq(Nat)
      /\ Len(in_) \in Nat /\ Len(pipe) \in Nat /\ n \in Nat /\ n <= Len(pipe)
      /\ Units(in_, 2 * got) /\ Units(pipe, 2 * got + Len(in_)) /\ ~garbled
  BY <1>1, Lengths DEF TypeOK, InOrder
<1>4. PICK a \in Nat : a = 2 * got + Len(in_)
  BY <1>3
<1>5. Units(in_', 2 * got)
  <2>0. PICK k \in Nat : k = 0
    OBVIOUS
  <2>1. Units(SubSeq(pipe, k + 1, n), a + k)
    BY <1>3, <1>4, UnitsSub
  <2>2. k + 1 = 1 /\ a + k = 2 * got + Len(in_)
    BY <1>4, <2>0
  <2>3. SubSeq(pipe, 1, n) \in Seq(Nat)
    BY <1>3, SubSeqProperties
  <2>4. 2 * got \in Int
    BY <1>3
  <2>5. Units(SubSeq(pipe, 1, n), 2 * got + Len(in_))
    BY <2>1, <2>2
  <2>6. QED BY <1>1, <1>3, <2>3, <2>4, <2>5, UnitsConcat
<1>6. Len(in_') = Len(in_) + n
  <2>1. in_' = in_ \o SubSeq(pipe, 0 + 1, 0 + n)
    BY <1>1
  <2>2. QED BY <1>1, <1>3, <2>1, PrefixMoves
<1>7. Units(pipe', 2 * got + Len(in_'))
  <2>1. Units(SubSeq(pipe, n + 1, Len(pipe)), a + n)
    BY <1>3, <1>4, UnitsSub
  <2>2. a + n = 2 * got + Len(in_')
    BY <1>3, <1>4, <1>6
  <2>3. QED BY <1>1, <2>1, <2>2
<1>8. Len(pipe') = Len(pipe) - n
  BY <1>1, <1>3, SuffixStays
<1>9. Position' = Position /\ Ahead' = Ahead
  BY <1>2, <1>3, <1>6, <1>8 DEF Position, Ahead
<1>10. QED BY <1>2, <1>3, <1>5, <1>7, <1>9 DEF InOrder, PageGoesOn

LEMMA FramingBody ==
  ASSUME TypeOK, CountInv, FramingInv, Body
  PROVE  FramingInv'
<1> USE DEF FramingInv
<1>1. ASSUME UNCHANGED <<page, staged, in_, pipe, got, garbled, wopen, ropen, cut, tombstoned>>,
             ppc # "flush", ppc' # "flush"
      PROVE  FramingInv'
  <2>1. Position' = Position /\ Ahead' = Ahead BY <1>1 DEF Position, Ahead
  <2>2. QED BY <1>1, <2>1 DEF InOrder, PageGoesOn
<1>2. CASE StartBody \/ WriteRefused \/ BodyReturns \/ NoTerminator \/ BodyLeaves
  BY <1>1, <1>2 DEF StartBody, WriteRefused, BodyReturns, NoTerminator, BodyLeaves,
                    Goes, BodyKeeps, pageVars, pipeVars, callVars
<1>3. CASE WriteRaw \/ SendTerminator
  <2>1. /\ StageFrame /\ ppc # "flush" /\ ppc' = "flush"
        /\ UNCHANGED <<in_, got, garbled, ropen>>
    BY <1>3 DEF WriteRaw, SendTerminator, Goes, BodyKeeps, callVars
  <2>2. UNCHANGED <<pipe, wopen, cut, tombstoned>>
    BY <2>1 DEF StageFrame, pipeVars
  <2>3. InOrder => InOrder'
    BY <2>1, <2>2 DEF InOrder
  <2>4. PageGoesOn => PageGoesOn'
    BY <2>1, FramingStage
  <2>5. QED BY <2>2, <2>3, <2>4
<1>4. CASE FlushSome
  <2>1. UNCHANGED <<cut, tombstoned, wopen>>
    BY <1>4 DEF FlushSome
  <2>2. QED BY <1>4, <2>1, FramingFlush
<1>5. CASE FlushDone
  <2>1. /\ ppc = "flush" /\ ppc' # "flush" /\ sent = Len(page)
        /\ page' = IF tombstoned THEN page ELSE <<>>
        /\ UNCHANGED <<staged, in_, pipe, got, garbled, wopen, ropen, cut, tombstoned>>
    BY <1>5 DEF FlushDone, Flushed, Goes, BodyKeeps, callVars, pipeVars
  <2>2. Position' = Position /\ Ahead = Len(page) /\ Ahead' = 0 /\ Position \in Nat
    BY <2>1, Positions DEF Position, Ahead
  <2>3. Len(page) \in Nat /\ staged \in Nat
    BY Lengths
  <2>4. PageGoesOn /\ wopen /\ ropen => 2 * staged = Position
    BY <2>2, <2>3 DEF PageGoesOn
  <2>5. ~tombstoned => Units(page', Position - 0) /\ Position = Position + Len(page') - 0
    BY <2>1, <2>2 DEF Units
  <2>6. (tombstoned => ~wopen) /\ PageGoesOn => PageGoesOn'
    BY <2>1, <2>2, <2>4, <2>5 DEF PageGoesOn
  <2>7. QED BY <2>1, <2>6 DEF InOrder
<1>6. CASE FlushInterrupted
  <2>1. /\ ppc = "flush" /\ ppc' # "flush" /\ cut' = (cut \/ sent > 0) /\ sent \in Nat
        /\ UNCHANGED <<page, staged, in_, pipe, got, garbled, wopen, ropen, tombstoned>>
    BY <1>6, Lengths DEF FlushInterrupted, Flushed, Goes, BodyKeeps, callVars, pipeVars
  <2>2. ASSUME ~cut' PROVE Position' = Position /\ Ahead' = Ahead
    <3>1. ~(sent > 0) BY <2>1, <2>2, Zenon
    <3>2. sent = 0 BY <2>1, <3>1
    <3>3. QED BY <2>1, <3>2 DEF Position, Ahead
  <2>3. QED BY <2>1, <2>2 DEF InOrder, PageGoesOn
<1>7. CASE FlushFails
  <2>1. /\ ~(wopen /\ ropen)
        /\ UNCHANGED <<in_, pipe, got, garbled, wopen, ropen, cut, tombstoned>>
    BY <1>7 DEF FlushFails, BodyKeeps, callVars, pipeVars, pageVars
  <2>2. QED BY <2>1 DEF InOrder, PageGoesOn
<1>8. CASE Shut
  <2>1. ~wopen' /\ UNCHANGED <<in_, pipe, got, garbled, cut, tombstoned>>
    BY <1>8 DEF Shut, BodyKeeps, callVars, pageVars
  <2>2. QED BY <2>1 DEF InOrder, PageGoesOn
<1>9. QED
  BY <1>2, <1>3, <1>4, <1>5, <1>6, <1>7, <1>8 DEF Body, Flush, CloseWrite

LEMMA FramingCall ==
  ASSUME TypeOK, FramingInv, Call
  PROVE  FramingInv'
<1> USE DEF FramingInv
<1>1. UNCHANGED <<page, sent, staged, cut, ppc>>
  BY DEF Call, Read, WaitForProducer, ReadRaw, Extract, ExtractMore, Fill, ReadEof,
         ConsumerReturns, CloseRead, ProducerGone, TimeOut, TeardownPair, CallKeeps, bodyVars
<1>2. CASE Extract
  <2>1. UNCHANGED <<tombstoned, wopen>> BY <1>2 DEF Extract, pipeVars
  <2>2. QED BY <1>1, <1>2, <2>1, FramingExtract
<1>3. CASE Fill
  <2>1. UNCHANGED <<tombstoned, wopen>> BY <1>3 DEF Fill
  <2>2. QED BY <1>1, <1>3, <2>1, FramingFill
<1>4. CASE CloseRead \/ TeardownPair
  <2>1. /\ UNCHANGED <<in_, pipe, got, garbled>>
        /\ ~(wopen' /\ ropen') /\ (tombstoned' => (tombstoned /\ UNCHANGED wopen) \/ ~wopen')
    BY <1>4 DEF CloseRead, TeardownPair, pipeVars
  <2>2. QED BY <1>1, <2>1 DEF InOrder, PageGoesOn
<1>5. ASSUME UNCHANGED <<in_, pipe, got, garbled, wopen, ropen, tombstoned>>
      PROVE  FramingInv'
  <2>1. Position' = Position /\ Ahead' = Ahead BY <1>1, <1>5 DEF Position, Ahead
  <2>2. QED BY <1>1, <1>5, <2>1 DEF InOrder, PageGoesOn
<1>6. CASE ReadRaw \/ ExtractMore \/ ReadEof \/ ConsumerReturns \/ ProducerGone \/ TimeOut
  BY <1>5, <1>6 DEF ReadRaw, ExtractMore, ReadEof, ConsumerReturns, ProducerGone, TimeOut, pipeVars
<1>7. QED
  BY <1>2, <1>3, <1>4, <1>6 DEF Call, Read, WaitForProducer

LEMMA FramingStep ==
  ASSUME TypeOK, DispatchInv, CountInv, FramingInv, [Next]_vars
  PROVE  FramingInv'
<1>1. ASSUME UNCHANGED <<pageVars, pipeVars, callVars>>,
             UNCHANGED ppc \/ (ppc = "none" /\ ppc' = "queued")
      PROVE  FramingInv'
  <2>1. Position' = Position /\ Ahead' = Ahead
    BY <1>1 DEF Position, Ahead, pageVars, pipeVars, callVars
  <2>2. QED BY <1>1, <2>1 DEF FramingInv, InOrder, PageGoesOn, pageVars, pipeVars, callVars
<1>2. CASE Dispatch
  BY <1>1, <1>2 DEF Dispatch, Enter, EnqueueBody, EnqueueThrows, DispatchFails, DispatchLeaves,
                    DispatchKeeps, Dispatched, DispatchInv
<1>3. CASE Kill BY <1>1, <1>3 DEF Kill, bodyVars
<1>4. CASE UNCHANGED vars BY <1>1, <1>4 DEF vars, bodyVars
<1>5. QED BY <1>2, <1>3, <1>4, FramingBody, FramingCall DEF Next

\* What readRaw returns is what was written, whole and in order, unless a flush
\* was given up in the middle of a frame: for any capacities and any number of
\* frames (stageAndFlush, flushStaged, tryExtractInto).
THEOREM FramesAreInSync == Spec => []FramesStayInSync
<1>1. Init => CountInv /\ FramingInv
  BY DEF Init, CountInv, FramingInv, InOrder, PageGoesOn, Units, Position, Ahead
<1>2. StreamInv /\ CountInv /\ FramingInv /\ [Next]_vars => CountInv' /\ FramingInv'
  BY CountStep, FramingStep DEF StreamInv
<1>3. FramingInv => FramesStayInSync
  BY DEF FramingInv, InOrder, FramesStayInSync
<1>4. QED BY <1>1, <1>2, <1>3, PipeInvariant, PTL DEF Spec
=============================================================================
