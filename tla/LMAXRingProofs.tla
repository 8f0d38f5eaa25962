--------------------------- MODULE LMAXRingProofs ---------------------------
(***************************************************************************)
(* Proofs about LMAXRing, for any set of producers and any slot count.      *)
(***************************************************************************)
EXTENDS LMAXRing, FiniteSetTheorems, TLAPS

\* The arithmetic of a ring of n slots, number s in slot s % n: a slot number
\* is one, and two numbers less than a lap apart do not share a slot.
LEMMA SlotInRange ==
  ASSUME NEW n \in Nat \ {0}, NEW s \in Int
  PROVE  s % n \in 0 .. n - 1
  OBVIOUS

LEMMA SlotDistinct ==
  ASSUME NEW n \in Nat \ {0}, NEW s \in Int, NEW t \in Int, s < t, t - s < n
  PROVE  s % n # t % n
<1>1. \A x \in Int : x = (n * (x \div n)) + (x % n) /\ x \div n \in Int
  OBVIOUS
<1>2. \A k \in Int : k # 0 => (k * n >= n \/ k * n <= -n)
  OBVIOUS
<1> SUFFICES ASSUME s % n = t % n PROVE FALSE
  OBVIOUS
<1> DEFINE laps == (t \div n) - (s \div n)
<1>3. laps \in Int /\ t - s = (n * (t \div n)) - (n * (s \div n))
  BY <1>1
<1>4. t - s = laps * n
  BY <1>1, <1>3
<1>5. laps # 0
  BY <1>4
<1>6. QED
  BY <1>2, <1>3, <1>4, <1>5

\* An index is an index.
LEMMA IndexInRange == \A s \in Int : IndexOf(s) \in Indices
  BY SlotInRange, RingAssumption DEF IndexOf, Indices

\* Two frames less than a lap apart do not share a slot.
LEMMA IndexDistinct ==
  ASSUME NEW s \in Int, NEW t \in Int, s < t, t - s < Slots
  PROVE  IndexOf(s) # IndexOf(t)
  BY SlotDistinct, RingAssumption DEF IndexOf

-----------------------------------------------------------------------------
(* The type invariant *)

LEMMA TypeStep == TypeOK /\ [Next]_vars => TypeOK'
<1> SUFFICES ASSUME TypeOK, [Next]_vars PROVE TypeOK'
  OBVIOUS
<1> USE IndexInRange DEF TypeOK, Sequences, Goto, BeforeClaim, WritingFrame, Sweeping,
        cursorVars, frameVars, producerVars, consumerVars
<1>1. ASSUME NEW p \in Producers, BeginWrite(p) PROVE TypeOK'
  BY <1>1 DEF BeginWrite
<1>2. ASSUME NEW p \in Producers, Write(p) PROVE TypeOK'
  <2>1. CASE LoadSequence(p) BY <2>1 DEF LoadSequence
  <2>2. CASE LoadConsumer(p) BY <2>2 DEF LoadConsumer
  <2>3. CASE Refuse(p) BY <2>3 DEF Refuse
  <2>4. CASE Claim(p) BY <2>4 DEF Claim
  <2>5. CASE ClaimFails(p) BY <2>5 DEF ClaimFails
  <2>6. CASE ClearReady(p) BY <2>6 DEF ClearReady
  <2>7. CASE WriteSequence(p) BY <2>7 DEF WriteSequence
  <2>8. CASE CopyPayload(p) BY <2>8 DEF CopyPayload
  <2>9. CASE SetReady(p) BY <2>9 DEF SetReady
  <2>10. QED BY <1>2, <2>1, <2>2, <2>3, <2>4, <2>5, <2>6, <2>7, <2>8, <2>9 DEF Write
<1>3. ASSUME NEW p \in Producers, TryAdvancePublisher(p) PROVE TypeOK'
  <2>1. CASE LoadCursor(p) BY <2>1 DEF LoadCursor
  <2>2. CASE Peek(p) BY <2>2 DEF Peek, ReturnFrom
  <2>3. CASE ReloadCursor(p) BY <2>3 DEF ReloadCursor
  <2>4. CASE LoadReady(p) BY <2>4 DEF LoadReady, ReturnFrom
  <2>5. CASE LapGuard(p) BY <2>5 DEF LapGuard, ReturnFrom
  <2>6. CASE Publish(p) BY <2>6 DEF Publish
  <2>7. CASE PublishFails(p) BY <2>7 DEF PublishFails
  <2>8. QED BY <1>3, <2>1, <2>2, <2>3, <2>4, <2>5, <2>6, <2>7 DEF TryAdvancePublisher
<1>4. CASE Consume
  <2>1. CASE AcquireRead BY <2>1 DEF AcquireRead
  <2>2. CASE Callback BY <2>2 DEF Callback, Payload
  <2>3. CASE MarkNotReady BY <2>3 DEF MarkNotReady
  <2>4. CASE ReleaseSlot BY <2>4 DEF ReleaseSlot
  <2>5. QED BY <1>4, <2>1, <2>2, <2>3, <2>4 DEF Consume
<1>5. CASE UNCHANGED vars BY <1>5 DEF vars
<1>6. QED BY <1>1, <1>2, <1>3, <1>4, <1>5 DEF Next

\* Type correctness for every number of producers and slots: in particular no
\* counter or local copy ever leaves the sequence numbers.
THEOREM TypeCorrect == Spec => []TypeOK
<1>1. Init => TypeOK
  BY DEF Init, TypeOK, Sequences
<1>2. QED BY <1>1, TypeStep, PTL DEF Spec

-----------------------------------------------------------------------------
(* The cursors, for any clients *)

LEMMA CursorStep == CursorInv /\ [Next]_vars => CursorInv'
<1> SUFFICES ASSUME CursorInv, [Next]_vars PROVE CursorInv'
  OBVIOUS
<1> TypeOK /\ TypeOK'
  BY TypeStep DEF CursorInv
<1> USE RingAssumption, IndexInRange
    DEF TypeOK, CursorInv, CursorsOrdered, ClaimsDistinct, Claimed, Writing,
        Sequences, Goto, BeforeClaim, WritingFrame, Sweeping,
        cursorVars, frameVars, producerVars, consumerVars
<1>1. ASSUME NEW p \in Producers, BeginWrite(p) PROVE CursorInv'
  BY <1>1 DEF BeginWrite
<1>2. ASSUME NEW p \in Producers, Write(p) PROVE CursorInv'
  <2>1. CASE LoadSequence(p) BY <2>1 DEF LoadSequence
  <2>2. CASE LoadConsumer(p) BY <2>2 DEF LoadConsumer, HasRoom
  <2>3. CASE Refuse(p) BY <2>3 DEF Refuse, HasRoom
  <2>4. CASE Claim(p) BY <2>4 DEF Claim
  <2>5. CASE ClaimFails(p) BY <2>5 DEF ClaimFails
  <2>6. CASE ClearReady(p) BY <2>6 DEF ClearReady
  <2>7. CASE WriteSequence(p) BY <2>7 DEF WriteSequence
  <2>8. CASE CopyPayload(p) BY <2>8 DEF CopyPayload
  <2>9. CASE SetReady(p) BY <2>9 DEF SetReady
  <2>10. QED BY <1>2, <2>1, <2>2, <2>3, <2>4, <2>5, <2>6, <2>7, <2>8, <2>9 DEF Write
<1>3. ASSUME NEW p \in Producers, TryAdvancePublisher(p) PROVE CursorInv'
  <2>1. CASE LoadCursor(p) BY <2>1 DEF LoadCursor
  <2>2. CASE Peek(p) BY <2>2 DEF Peek, ReturnFrom
  <2>3. CASE ReloadCursor(p) BY <2>3 DEF ReloadCursor
  <2>4. CASE LoadReady(p) BY <2>4 DEF LoadReady, ReturnFrom, Ready
  <2>5. CASE LapGuard(p) BY <2>5 DEF LapGuard, ReturnFrom, Stamp
  <2>6. CASE Publish(p) BY <2>6 DEF Publish
  <2>7. CASE PublishFails(p) BY <2>7 DEF PublishFails
  <2>8. QED BY <1>3, <2>1, <2>2, <2>3, <2>4, <2>5, <2>6, <2>7 DEF TryAdvancePublisher
<1>4. CASE Consume
  <2>1. CASE AcquireRead BY <2>1 DEF AcquireRead
  <2>2. CASE Callback BY <2>2 DEF Callback
  <2>3. CASE MarkNotReady BY <2>3 DEF MarkNotReady
  <2>4. CASE ReleaseSlot BY <2>4 DEF ReleaseSlot
  <2>5. QED BY <1>4, <2>1, <2>2, <2>3, <2>4 DEF Consume
<1>5. CASE UNCHANGED vars BY <1>5 DEF vars
<1>6. QED BY <1>1, <1>2, <1>3, <1>4, <1>5 DEF Next

LEMMA CursorInvariant == Spec => []CursorInv
<1>1. Init => CursorInv
  BY RingAssumption DEF Init, CursorInv, TypeOK, Sequences, CursorsOrdered,
     ClaimsDistinct, Claimed, Writing, WritingFrame, Sweeping, BeforeClaim
<1>2. QED BY <1>1, CursorStep, PTL DEF Spec

\* The cursors never overtake each other and the claimed, unconsumed frames fit
\* in the ring, whatever the clients do: not even the torn lap guard, which
\* can publish an incomplete frame, lets a cursor pass another.
THEOREM CursorsStayOrdered == Spec => []CursorsOrdered
<1>1. CursorInv => CursorsOrdered BY DEF CursorInv
<1>2. QED BY <1>1, CursorInvariant, PTL

\* Every sequence number has at most one producer writing its frame.
THEOREM ClaimsStayDistinct == Spec => []ClaimsDistinct
<1>1. CursorInv => ClaimsDistinct BY DEF CursorInv
<1>2. QED BY <1>1, CursorInvariant, PTL

\* A published frame stays published and a consumed frame stays consumed, even
\* when a producer acts on a cursor it loaded long ago.
THEOREM CursorsGrow == Spec => CursorsMonotone
<1> DEFINE Grow ==
        /\ sequence_' >= sequence_
        /\ publisher_cursor_' >= publisher_cursor_
        /\ consumer_cursor_' >= consumer_cursor_
<1>1. CursorInv /\ [Next]_vars => Grow
  <2> SUFFICES ASSUME CursorInv, [Next]_vars PROVE Grow
    OBVIOUS
  <2> USE DEF CursorInv, TypeOK, Sequences, cursorVars
  <2>1. ASSUME NEW p \in Producers, BeginWrite(p) \/ Write(p) PROVE Grow
    BY <2>1 DEF BeginWrite, Write, LoadSequence, LoadConsumer, Refuse, Claim, ClaimFails,
                ClearReady, WriteSequence, CopyPayload, SetReady
  <2>2. ASSUME NEW p \in Producers, TryAdvancePublisher(p) PROVE Grow
    BY <2>2 DEF TryAdvancePublisher, LoadCursor, Peek, ReloadCursor, LoadReady, LapGuard,
                Publish, PublishFails
  <2>3. CASE Consume
    BY <2>3 DEF Consume, AcquireRead, Callback, MarkNotReady, ReleaseSlot
  <2>4. CASE UNCHANGED vars
    BY <2>4 DEF vars
  <2>5. QED BY <2>1, <2>2, <2>3, <2>4 DEF Next
<1>2. QED BY <1>1, CursorInvariant, PTL DEF Spec, CursorsMonotone

-----------------------------------------------------------------------------
(* Any clients: the frames themselves, while a slot is left *)

\* The numbers not consumed yet have slots of their own, full ring or not.
LEMMA ClaimedDistinct ==
  ASSUME CursorInv
  PROVE  \A s, t \in consumer_cursor_ .. sequence_ - 1 : IndexOf(s) = IndexOf(t) => s = t
<1>1. SUFFICES ASSUME NEW s \in consumer_cursor_ .. sequence_ - 1,
                      NEW t \in consumer_cursor_ .. sequence_ - 1,
                      IndexOf(s) = IndexOf(t), s < t
               PROVE  FALSE
  BY DEF CursorInv, TypeOK
<1>2. s \in Int /\ t \in Int /\ t - s < Slots
  BY RingAssumption DEF CursorInv, TypeOK, CursorsOrdered
<1>3. QED BY <1>1, <1>2, IndexDistinct

LEMMA WindowStep ==
  ASSUME SlotLeft, CursorInv, WindowInv, [Next]_vars
  PROVE  WindowInv'
<1> CursorInv' BY CursorStep
<1> DEFINE window == consumer_cursor_ .. sequence_ - 1
<1>0. \A s, t \in window : IndexOf(s) = IndexOf(t) => s = t
  BY ClaimedDistinct
<1> USE RingAssumption, IndexInRange, <1>0
    DEF WindowInv, CursorInv, CursorsOrdered, ClaimsDistinct, TypeOK, Finished, Claimed, Writing,
        Stamp, Ready, Payload,
        Sequences, Goto, BeforeClaim, WritingFrame, Sweeping,
        cursorVars, frameVars, producerVars, consumerVars
<1>1. ASSUME NEW p \in Producers, BeginWrite(p) PROVE WindowInv'
  BY <1>1 DEF BeginWrite
<1>2. ASSUME NEW p \in Producers, Write(p) PROVE WindowInv'
  <2>1. CASE LoadSequence(p) BY <2>1 DEF LoadSequence
  <2>2. CASE LoadConsumer(p) BY <2>2 DEF LoadConsumer, HasRoom
  <2>3. CASE Refuse(p) BY <2>3 DEF Refuse, HasRoom
  <2>4. CASE Claim(p)
    <3>1. seq[p] = sequence_ /\ sequence_ - consumer_cursor_ < Slots
      BY <2>4 DEF Claim
    <3>2. \A s \in window : s < sequence_ /\ sequence_ - s < Slots
      BY <3>1
    <3>3. \A s \in window : IndexOf(s) # IndexOf(seq[p])
      BY <3>1, <3>2, IndexDistinct
    <3>4. ~Ready(seq[p])
      BY <3>1, <3>3
    <3>5. QED BY <2>4, <3>1, <3>3, <3>4, SMTT(30) DEF Claim
  <2>5. CASE ClaimFails(p) BY <2>5 DEF ClaimFails
  <2>6. CASE ClearReady(p) BY <2>6 DEF ClearReady
  <2>7. CASE WriteSequence(p) BY <2>7 DEF WriteSequence
  <2>8. CASE CopyPayload(p) BY <2>8 DEF CopyPayload
  <2>9. CASE SetReady(p)
    <3>1. seq[p] \in window /\ seq[p] < sequence_ /\ Stamp(seq[p]) = seq[p] /\ Payload(seq[p]) = seq[p]
      BY <2>9 DEF SetReady
    <3>2. (\A i \in Indices : frameReady[i] =>
            /\ frameSequence[i] \in consumer_cursor_ .. sequence_ - 1
            /\ IndexOf(frameSequence[i]) = i)'
      BY <2>9, <3>1 DEF SetReady
    <3>3. \A q \in Producers : q # p /\ Writing(q) => IndexOf(seq[q]) # IndexOf(seq[p])
      BY <2>9, <3>1 DEF SetReady
    <3>5. (\A s \in consumer_cursor_ .. sequence_ - 1 :
            Finished(s) => Stamp(s) = s /\ Payload(s) = s)'
      BY <2>9, <3>1 DEF SetReady
    <3>6. (cpc = "release" => ~Ready(expected_seq_))'
      BY <2>9, <3>1 DEF SetReady
    <3>7. ASSUME NEW q \in Producers
          PROVE  /\ (Writing(q) => publisher_cursor_ < seq[q] /\ ~Ready(seq[q]))'
                 /\ (pc[q] \in {"payload", "ready"} => Stamp(seq[q]) = seq[q])'
                 /\ (pc[q] = "ready" => Payload(seq[q]) = seq[q])'
                 /\ (cur[q] <= publisher_cursor_)'
      <4>1. CASE q = p
        BY <2>9, <4>1 DEF SetReady
      <4>2. CASE q # p
        <5>1. pc'[q] = pc[q] /\ Writing(q)' = Writing(q)
          BY <2>9, <4>2 DEF SetReady
        <5>2. Writing(q) => Ready(seq[q])' = Ready(seq[q])
          <6> SUFFICES ASSUME Writing(q) PROVE Ready(seq[q])' = Ready(seq[q])
            OBVIOUS
          <6>1. IndexOf(seq[q]) # IndexOf(seq[p]) /\ seq[q] \in Int /\ seq'[q] = seq[q]
            BY <2>9, <3>3, <4>2 DEF SetReady
          <6>2. frameReady' = [frameReady EXCEPT ![IndexOf(seq[p])] = TRUE]
            BY <2>9 DEF SetReady
          <6>3. QED BY ONLY <6>1, <6>2, IndexInRange, TypeOK DEF Ready, TypeOK
        <5>3. QED BY <2>9, <5>1, <5>2 DEF SetReady
      <4>3. QED BY <4>1, <4>2
    <3>8. ASSUME NEW q \in Producers
          PROVE  (pc[q] \in {"guard", "publish"} /\ cur[q] = publisher_cursor_ =>
                    Finished(cur[q] + 1))'
      BY <2>9 DEF SetReady
    <3>9. QED BY ONLY <3>2, <3>5, <3>6, <3>7, <3>8, Zenon DEF WindowInv
  <2>10. QED BY <1>2, <2>1, <2>2, <2>3, <2>4, <2>5, <2>6, <2>7, <2>8, <2>9 DEF Write
<1>3. ASSUME NEW p \in Producers, TryAdvancePublisher(p) PROVE WindowInv'
  <2>1. CASE LoadCursor(p) BY <2>1 DEF LoadCursor
  <2>2. CASE Peek(p) BY <2>2 DEF Peek, ReturnFrom
  <2>3. CASE ReloadCursor(p) BY <2>3, SMTT(30) DEF ReloadCursor
  <2>4. CASE LoadReady(p)
    <3>1. ASSUME cur[p] = publisher_cursor_, Ready(cur[p] + 1) PROVE Finished(cur[p] + 1)
      <4> DEFINE next == cur[p] + 1
                 t == Stamp(next)
      <4>1. next \in Nat /\ t \in window /\ IndexOf(t) = IndexOf(next)
        BY <2>4, <3>1
      <4>2. next - t < Slots /\ t - next < Slots
        BY <3>1, <4>1 DEF SlotLeft
      <4>3. t = next
        BY <4>1, <4>2, IndexDistinct
      <4>4. QED BY <3>1, <4>1, <4>3
    <3>2. QED BY <2>4, <3>1 DEF LoadReady, ReturnFrom
  <2>5. CASE LapGuard(p) BY <2>5 DEF LapGuard, ReturnFrom
  <2>6. CASE Publish(p)
    <3>1. /\ publisher_cursor_ = cur[p] /\ publisher_cursor_' = cur[p] + 1
          /\ Finished(cur[p] + 1)
          /\ UNCHANGED <<sequence_, consumer_cursor_, frameVars, seq, cur, consumerVars>>
          /\ pc' = [pc EXCEPT ![p] = "walk"] /\ pc[p] = "publish"
      BY <2>6 DEF Publish
    <3>2. \A q \in Producers : Writing(q)' = Writing(q) /\ Claimed(q)' = Claimed(q)
                                 /\ (pc'[q] = "idle") = (pc[q] = "idle")
      <4> SUFFICES ASSUME NEW q \in Producers
                   PROVE  Writing(q)' = Writing(q) /\ Claimed(q)' = Claimed(q)
                            /\ (pc'[q] = "idle") = (pc[q] = "idle")
        OBVIOUS
      <4>1. CASE q = p
        <5>1. pc[q] = "publish" /\ pc'[q] = "walk"
          BY ONLY <3>1, <4>1, TypeOK DEF TypeOK
        <5>2. QED BY ONLY <5>1 DEF Writing, Claimed, WritingFrame, Sweeping
      <4>2. CASE q # p
        <5>1. pc'[q] = pc[q]
          BY ONLY <3>1, <4>2, TypeOK DEF TypeOK
        <5>2. QED BY ONLY <5>1 DEF Writing, Claimed
      <4>3. QED BY ONLY <4>1, <4>2
    <3>3. \A s : Finished(s)' = Finished(s)
      BY <3>1, <3>2, SMTT(30)
    <3>5. (\A s \in consumer_cursor_ .. sequence_ - 1 :
            Finished(s) => Stamp(s) = s /\ Payload(s) = s)'
      BY <3>1, <3>3
    <3>6. (\A i \in Indices : frameReady[i] =>
            /\ frameSequence[i] \in consumer_cursor_ .. sequence_ - 1
            /\ IndexOf(frameSequence[i]) = i)'
      BY <3>1
    <3>7. (cpc = "release" => ~Ready(expected_seq_))'
      BY <3>1
    <3>8. ASSUME NEW q \in Producers
          PROVE  /\ (Writing(q) => publisher_cursor_ < seq[q] /\ ~Ready(seq[q]))'
                 /\ (pc[q] \in {"payload", "ready"} => Stamp(seq[q]) = seq[q])'
                 /\ (pc[q] = "ready" => Payload(seq[q]) = seq[q])'
                 /\ (cur[q] <= publisher_cursor_)'
                 /\ (pc[q] \in {"guard", "publish"} /\ cur[q] = publisher_cursor_ =>
                        Finished(cur[q] + 1))'
      <4>1. (Writing(q) => publisher_cursor_ < seq[q] /\ ~Ready(seq[q]))'
        BY <3>1, <3>2
      <4>2. (pc[q] \in {"payload", "ready"} => Stamp(seq[q]) = seq[q])'
        BY <3>1
      <4>3. (pc[q] = "ready" => Payload(seq[q]) = seq[q])'
        BY <3>1
      <4>4. cur'[q] <= publisher_cursor_' /\ cur'[q] # publisher_cursor_'
        BY <3>1, SMTT(30)
      <4>5. QED BY ONLY <4>1, <4>2, <4>3, <4>4
    <3>9. QED BY ONLY <3>5, <3>6, <3>7, <3>8, Zenon DEF WindowInv
  <2>7. CASE PublishFails(p) BY <2>7 DEF PublishFails
  <2>8. QED BY <1>3, <2>1, <2>2, <2>3, <2>4, <2>5, <2>6, <2>7 DEF TryAdvancePublisher
<1>4. CASE Consume
  <2>1. CASE AcquireRead BY <2>1 DEF AcquireRead
  <2>2. CASE Callback BY <2>2 DEF Callback
  <2>3. CASE MarkNotReady BY <2>3 DEF MarkNotReady
  <2>4. CASE ReleaseSlot BY <2>4 DEF ReleaseSlot
  <2>5. QED BY <1>4, <2>1, <2>2, <2>3, <2>4 DEF Consume
<1>5. CASE UNCHANGED vars BY <1>5 DEF vars
<1>6. QED BY <1>1, <1>2, <1>3, <1>4, <1>5 DEF Next

LEMMA WindowInvariant == Spec /\ []SlotLeft => [](WindowInv /\ FramesIntact)
<1>1. Init => WindowInv
  BY RingAssumption DEF Init, WindowInv, Finished, Writing, Claimed, Indices,
     WritingFrame, Sweeping
<1>2. SlotLeft /\ WindowInv /\ CursorInv /\ [Next]_vars => WindowInv'
  BY WindowStep
<1>3. CursorInv /\ WindowInv => FramesIntact
  BY DEF CursorInv, CursorsOrdered, TypeOK, Sequences, WindowInv, FramesIntact, Finished
<1>4. QED BY <1>1, <1>2, <1>3, CursorInvariant, PTL DEF Spec

\* However many producers there are, however many slots, and whether anybody waits
\* for his frame or not: while the consumer is not a whole ring behind, every frame
\* between the consumer and the publisher cursor is complete and is the frame its
\* number says.
THEOREM PublishedFramesIntact == Spec => IntactUnlessFull
<1>1. QED BY WindowInvariant, PTL DEF IntactUnlessFull

-----------------------------------------------------------------------------
(* Clients that keep a slot left *)

\* While every unconsumed frame belongs to a producer of its own and there are
\* fewer producers than slots, the ring is never full.
LEMMA NeverFull ==
  ASSUME ClosedLoop, CursorInv, FramesOwned
  PROVE  sequence_ - consumer_cursor_ < Slots
<1> DEFINE window == consumer_cursor_ .. sequence_ - 1
           owner == [s \in window |-> CHOOSE p \in Producers : seq[p] = s]
<1>1. \A s \in window : owner[s] \in Producers /\ seq[owner[s]] = s
  BY DEF FramesOwned
<1>2. owner \in Injection(window, Producers)
  BY <1>1 DEF Injection, IsInjective
<1>3. Cardinality(window) <= Cardinality(Producers)
  BY <1>2, FS_Injection, RingAssumption
<1>4. consumer_cursor_ \in Int /\ sequence_ - 1 \in Int
  BY DEF CursorInv, TypeOK
<1>5. Cardinality(window) = IF consumer_cursor_ > sequence_ - 1 THEN 0
                            ELSE (sequence_ - 1) - consumer_cursor_ + 1
  BY <1>4, FS_Interval
<1>6. Cardinality(Producers) \in Nat
  BY FS_CardinalityType, RingAssumption
<1>7. QED
  BY <1>3, <1>4, <1>5, <1>6, RingAssumption DEF ClosedLoop, CursorInv, TypeOK

LEMMA OwnedStep ==
  ASSUME ClosedLoop, CursorInv, FramesOwned, [Next]_vars
  PROVE  FramesOwned'
<1> USE DEF Claimed, Goto, BeforeClaim, WritingFrame, Sweeping, cursorVars, frameVars,
        producerVars, consumerVars
<1>0. /\ sequence_ \in Nat /\ consumer_cursor_ \in Nat /\ expected_seq_ = consumer_cursor_
      /\ pc \in [Producers -> {"idle"} \cup BeforeClaim \cup WritingFrame \cup Sweeping]
      /\ seq \in [Producers -> Sequences]
  BY DEF CursorInv, TypeOK
<1>1. ASSUME UNCHANGED <<sequence_, consumer_cursor_>>, NEW p \in Producers,
             \A q \in Producers \ {p} : pc'[q] = pc[q] /\ seq'[q] = seq[q],
             \/ ~(seq[p] \in consumer_cursor_ .. sequence_ - 1 /\ (pc[p] = "idle" \/ Claimed(p)))
             \/ seq'[p] = seq[p] /\ (pc'[p] = "idle" \/ Claimed(p)')
      PROVE  FramesOwned'
  BY <1>1 DEF FramesOwned
<1>2. ASSUME NEW p \in Producers, BeginWrite(p) PROVE FramesOwned'
  BY <1>0, <1>1, <1>2 DEF BeginWrite, ClosedLoop, Sequences
<1>3. ASSUME NEW p \in Producers, Write(p) PROVE FramesOwned'
  <2>1. CASE Claim(p)
    <3>1. /\ seq[p] = sequence_ /\ sequence_' = sequence_ + 1 /\ pc' = [pc EXCEPT ![p] = "clear"]
          /\ pc[p] = "cas" /\ UNCHANGED <<consumer_cursor_, seq>>
      BY <2>1 DEF Claim
    <3>2. SUFFICES ASSUME NEW s \in consumer_cursor_ .. sequence_
                   PROVE  \E q \in Producers : seq[q] = s /\ (pc'[q] = "idle" \/ Claimed(q)')
      BY <1>0, <3>1 DEF FramesOwned
    <3>3. CASE s = sequence_
      BY <1>0, <3>1, <3>3
    <3>4. CASE s # sequence_
      <4>1. s \in consumer_cursor_ .. sequence_ - 1
        BY <1>0, <3>4
      <4>2. PICK q \in Producers : seq[q] = s /\ (pc[q] = "idle" \/ Claimed(q))
        BY <4>1 DEF FramesOwned
      <4>3. q # p
        BY <3>1, <4>2
      <4>4. QED BY <1>0, <3>1, <4>2, <4>3
    <3>5. QED BY <3>3, <3>4
  <2>2. CASE LoadSequence(p) BY <1>0, <1>1, <2>2 DEF LoadSequence
  <2>3. CASE LoadConsumer(p) BY <1>0, <1>1, <2>3 DEF LoadConsumer
  <2>4. CASE Refuse(p) BY <1>0, <1>1, <2>4 DEF Refuse
  <2>5. CASE ClaimFails(p) BY <1>0, <1>1, <2>5 DEF ClaimFails
  <2>6. CASE ClearReady(p) BY <1>0, <1>1, <2>6 DEF ClearReady
  <2>7. CASE WriteSequence(p) BY <1>0, <1>1, <2>7 DEF WriteSequence
  <2>8. CASE CopyPayload(p) BY <1>0, <1>1, <2>8 DEF CopyPayload
  <2>9. CASE SetReady(p) BY <1>0, <1>1, <2>9 DEF SetReady
  <2>10. QED BY <1>3, <2>1, <2>2, <2>3, <2>4, <2>5, <2>6, <2>7, <2>8, <2>9 DEF Write
<1>4. ASSUME NEW p \in Producers, TryAdvancePublisher(p) PROVE FramesOwned'
  <2>1. CASE LoadCursor(p) BY <1>0, <1>1, <2>1 DEF LoadCursor
  <2>2. CASE Peek(p) BY <1>0, <1>1, <2>2 DEF Peek, ReturnFrom
  <2>3. CASE ReloadCursor(p) BY <1>0, <1>1, <2>3 DEF ReloadCursor
  <2>4. CASE LoadReady(p) BY <1>0, <1>1, <2>4 DEF LoadReady, ReturnFrom
  <2>5. CASE LapGuard(p) BY <1>0, <1>1, <2>5 DEF LapGuard, ReturnFrom
  <2>6. CASE Publish(p) BY <1>0, <1>1, <2>6 DEF Publish
  <2>7. CASE PublishFails(p) BY <1>0, <1>1, <2>7 DEF PublishFails
  <2>8. QED BY <1>4, <2>1, <2>2, <2>3, <2>4, <2>5, <2>6, <2>7 DEF TryAdvancePublisher
<1>5. CASE Consume
  BY <1>0, <1>5 DEF FramesOwned, Consume, AcquireRead, Callback, MarkNotReady, ReleaseSlot
<1>6. CASE UNCHANGED vars
  BY <1>6 DEF vars, FramesOwned
<1>7. QED BY <1>2, <1>3, <1>4, <1>5, <1>6 DEF Next

\* Clients that wait for their frames, and are fewer than the slots, never let the
\* consumer fall a whole ring behind.
LEMMA ClosedLoopLeavesASlot ==
  ASSUME ClosedLoop
  PROVE  Spec => []SlotLeft
<1>1. Init => FramesOwned
  BY DEF Init, FramesOwned
<1>2. FramesOwned /\ CursorInv /\ [Next]_vars => FramesOwned'
  BY OwnedStep
<1>3. CursorInv /\ FramesOwned => SlotLeft
  BY NeverFull, RingAssumption DEF CursorInv, CursorsOrdered, TypeOK, Sequences, SlotLeft
<1>4. QED BY <1>1, <1>2, <1>3, CursorInvariant, PTL DEF Spec

-----------------------------------------------------------------------------
(* One producer: the frames themselves *)

LEMMA SoloStep ==
  ASSUME OneProducer, CursorInv, SoloInv, [Next]_vars
  PROVE  SoloInv'
<1> CursorInv' BY CursorStep
<1>0. \A s, t \in consumer_cursor_ .. sequence_ - 1 : IndexOf(s) = IndexOf(t) => s = t
  BY ClaimedDistinct
<1> USE RingAssumption, IndexInRange, <1>0
    DEF OneProducer, SoloInv, CursorInv, CursorsOrdered, TypeOK, Finished, Claimed, Writing,
        Stamp, Ready, Payload,
        Sequences, Goto, BeforeClaim, WritingFrame, Sweeping,
        cursorVars, frameVars, producerVars, consumerVars
<1>1. ASSUME NEW p \in Producers, BeginWrite(p) PROVE SoloInv'
  BY <1>1 DEF BeginWrite
<1>2. ASSUME NEW p \in Producers, Write(p) PROVE SoloInv'
  <2>1. CASE LoadSequence(p) BY <2>1 DEF LoadSequence
  <2>2. CASE LoadConsumer(p) BY <2>2 DEF LoadConsumer
  <2>3. CASE Refuse(p) BY <2>3 DEF Refuse
  <2>4. CASE Claim(p) BY <2>4 DEF Claim
  <2>5. CASE ClaimFails(p) BY <2>5 DEF ClaimFails
  <2>6. CASE ClearReady(p) BY <2>6 DEF ClearReady
  <2>7. CASE WriteSequence(p) BY <2>7 DEF WriteSequence
  <2>8. CASE CopyPayload(p) BY <2>8 DEF CopyPayload
  <2>9. CASE SetReady(p) BY <2>9 DEF SetReady
  <2>10. QED BY <1>2, <2>1, <2>2, <2>3, <2>4, <2>5, <2>6, <2>7, <2>8, <2>9 DEF Write
<1>3. ASSUME NEW p \in Producers, TryAdvancePublisher(p) PROVE SoloInv'
  <2>1. CASE LoadCursor(p) BY <2>1 DEF LoadCursor
  <2>2. ~Peek(p) BY DEF Peek, ReturnFrom
  <2>3. CASE ReloadCursor(p) BY <2>3 DEF ReloadCursor
  <2>4. CASE LoadReady(p) BY <2>4 DEF LoadReady, ReturnFrom
  <2>5. CASE LapGuard(p) BY <2>5 DEF LapGuard, ReturnFrom
  <2>6. CASE Publish(p) BY <2>6 DEF Publish
  <2>7. CASE PublishFails(p) BY <2>7 DEF PublishFails
  <2>8. QED BY <1>3, <2>1, <2>2, <2>3, <2>4, <2>5, <2>6, <2>7 DEF TryAdvancePublisher
<1>4. CASE Consume
  <2>1. CASE AcquireRead BY <2>1 DEF AcquireRead
  <2>2. CASE Callback BY <2>2 DEF Callback
  <2>3. CASE MarkNotReady BY <2>3 DEF MarkNotReady
  <2>4. CASE ReleaseSlot BY <2>4 DEF ReleaseSlot
  <2>5. QED BY <1>4, <2>1, <2>2, <2>3, <2>4 DEF Consume
<1>5. CASE UNCHANGED vars BY <1>5 DEF vars
<1>6. QED BY <1>1, <1>2, <1>3, <1>4, <1>5 DEF Next

LEMMA SoloInvariant ==
  ASSUME OneProducer
  PROVE  Spec => [](SoloInv /\ FramesIntact)
<1>1. Init => SoloInv
  BY RingAssumption DEF Init, SoloInv, Finished, Writing, Claimed, Indices, WritingFrame, Sweeping
<1>2. SoloInv /\ CursorInv /\ [Next]_vars => SoloInv'
  BY SoloStep
<1>3. CursorInv /\ SoloInv => FramesIntact
  BY DEF CursorInv, CursorsOrdered, TypeOK, Sequences, SoloInv, FramesIntact, Finished
<1>4. QED BY <1>1, <1>2, <1>3, CursorInvariant, PTL DEF Spec

-----------------------------------------------------------------------------
(* The refinement *)

\* The message handed out last is the one before the consumer's, until the
\* callback has been given the consumer's own.
HandedInv == got = IF cpc \in {"poll", "callback"} THEN expected_seq_ - 1 ELSE expected_seq_

LEMMA HandedStep ==
  ASSUME CursorInv, FramesIntact, HandedInv, [Next]_vars
  PROVE  HandedInv'
<1> USE DEF HandedInv, consumerVars
<1>1. ASSUME NEW p \in Producers, BeginWrite(p) \/ Write(p) PROVE HandedInv'
  BY <1>1 DEF BeginWrite, Write, LoadSequence, LoadConsumer, Refuse, Claim, ClaimFails,
              ClearReady, WriteSequence, CopyPayload, SetReady
<1>2. ASSUME NEW p \in Producers, TryAdvancePublisher(p) PROVE HandedInv'
  BY <1>2 DEF TryAdvancePublisher, LoadCursor, Peek, ReloadCursor, LoadReady, LapGuard,
              Publish, PublishFails
<1>3. CASE Consume
  <2>1. CASE AcquireRead BY <2>1 DEF AcquireRead
  <2>2. CASE Callback
    <3>1. Payload(expected_seq_) = expected_seq_
      BY <2>2 DEF Callback, CursorInv, TypeOK, Sequences, FramesIntact
    <3>2. QED BY <2>2, <3>1 DEF Callback
  <2>3. CASE MarkNotReady BY <2>3 DEF MarkNotReady
  <2>4. CASE ReleaseSlot BY <2>4 DEF ReleaseSlot, CursorInv, TypeOK
  <2>5. QED BY <1>3, <2>1, <2>2, <2>3, <2>4 DEF Consume
<1>4. CASE UNCHANGED vars BY <1>4 DEF vars
<1>5. QED BY <1>1, <1>2, <1>3, <1>4 DEF Next

\* The messages the mapping of Queue calls complete.
CompleteMessages ==
  {s \in 0 .. sequence_ - 1 : \A p \in Producers : Writing(p) => seq[p] # s}

\* A step of one producer that neither begins nor ends its writing, nor changes
\* the number of a frame it writes, completes nothing.
LEMMA SameComplete ==
  ASSUME UNCHANGED sequence_,
         \A p \in Producers : Writing(p)' = Writing(p) /\ (Writing(p) => seq'[p] = seq[p])
  PROVE  CompleteMessages' = CompleteMessages
  BY DEF CompleteMessages

\* The sweep publishes what is finished, if it publishes at all.
PublishesFinished ==
  \A p \in Producers :
    pc[p] = "publish" /\ cur[p] = publisher_cursor_ => Finished(cur[p] + 1)

LEMMA QueueStep ==
  ASSUME CursorInv, PublishesFinished, FramesIntact, HandedInv, [Next]_vars
  PROVE  [Queue!Next]_(Queue!qvars)
<1> USE DEF CursorInv, TypeOK, Sequences, Goto, BeforeClaim, WritingFrame, Sweeping,
        cursorVars, frameVars, producerVars, consumerVars
<1> DEFINE Stutter == UNCHANGED <<cursorVars, got>> /\ CompleteMessages' = CompleteMessages
<1>1. ASSUME Stutter PROVE UNCHANGED Queue!qvars
  BY <1>1 DEF Queue!qvars, CompleteMessages
<1>2. ASSUME NEW p \in Producers, BeginWrite(p) \/ Write(p) PROVE [Queue!Next]_(Queue!qvars)
  <2>1. CASE \/ BeginWrite(p) \/ LoadSequence(p) \/ LoadConsumer(p) \/ Refuse(p) \/ ClaimFails(p)
             \/ ClearReady(p) \/ WriteSequence(p) \/ CopyPayload(p)
    <3>1. \A q \in Producers : Writing(q)' = Writing(q) /\ (Writing(q) => seq'[q] = seq[q])
      BY <2>1 DEF BeginWrite, LoadSequence, LoadConsumer, Refuse, ClaimFails, ClearReady,
                  WriteSequence, CopyPayload, Writing
    <3>2. UNCHANGED <<cursorVars, got>>
      BY <2>1 DEF BeginWrite, LoadSequence, LoadConsumer, Refuse, ClaimFails, ClearReady,
                  WriteSequence, CopyPayload
    <3>3. Stutter
      BY <3>1, <3>2, SameComplete
    <3>4. QED BY <1>1, <3>3
  <2>2. CASE Claim(p)
    <3>1. /\ sequence_' = sequence_ + 1 /\ seq[p] = sequence_ /\ pc[p] = "cas"
          /\ UNCHANGED <<publisher_cursor_, consumer_cursor_, seq, got>>
          /\ pc' = [pc EXCEPT ![p] = "clear"]
      BY <2>2 DEF Claim
    <3>2. sequence_ - consumer_cursor_ < Slots
      BY <3>1
    <3>3. ~Writing(p) /\ Writing(p)' /\ \A q \in Producers \ {p} : Writing(q)' = Writing(q)
      BY <3>1 DEF Writing
    <3>4. \A q \in Producers : Writing(q) => seq[q] \in 0 .. sequence_ - 1
      BY DEF Claimed, Writing
    <3>5. /\ \A s \in 0 .. sequence_ - 1 : s \in 0 .. sequence_ /\ s # sequence_
          /\ \A s \in 0 .. sequence_ : s \in 0 .. sequence_ - 1 \/ s = sequence_
          /\ (sequence_ + 1) - 1 = sequence_
      OBVIOUS
    <3>6. CompleteMessages' = CompleteMessages
      <4>1. CompleteMessages' =
              {s \in 0 .. sequence_ : \A q \in Producers : Writing(q)' => seq[q] # s}
        BY <3>1, <3>5 DEF CompleteMessages
      <4>2. QED BY <3>1, <3>3, <3>5, <4>1 DEF CompleteMessages
    <3>7. Queue!Claim
      BY <3>1, <3>2, <3>6 DEF Queue!Claim, CompleteMessages
    <3>8. QED BY <3>7 DEF Queue!Next
  <2>3. CASE SetReady(p)
    <3>1. /\ pc' = [pc EXCEPT ![p] = "advance"] /\ pc[p] = "ready"
          /\ UNCHANGED <<cursorVars, seq, got>>
      BY <2>3 DEF SetReady
    <3>2. PICK n \in 0 .. sequence_ - 1 : n = seq[p]
      BY <3>1 DEF Claimed
    <3>3. Writing(p) /\ ~Writing(p)' /\ \A q \in Producers \ {p} : Writing(q)' = Writing(q)
      BY <3>1 DEF Writing
    <3>4. \A q \in Producers \ {p} : Writing(q) => seq[q] # n
      BY <3>2, <3>3 DEF ClaimsDistinct
    <3>5. n \notin CompleteMessages /\ CompleteMessages' = CompleteMessages \cup {n}
      BY <3>1, <3>2, <3>3, <3>4 DEF CompleteMessages
    <3>6. Queue!Complete(n)
      BY <3>1, <3>2, <3>5 DEF Queue!Complete, CompleteMessages
    <3>7. QED BY <3>2, <3>6 DEF Queue!Next
  <2>4. QED BY <1>2, <2>1, <2>2, <2>3 DEF Write
<1>3. ASSUME NEW p \in Producers, TryAdvancePublisher(p) PROVE [Queue!Next]_(Queue!qvars)
  <2>1. /\ UNCHANGED <<sequence_, consumer_cursor_, seq, got>>
        /\ \A q \in Producers : Writing(q)' = Writing(q)
    BY <1>3 DEF TryAdvancePublisher, LoadCursor, Peek, ReloadCursor, LoadReady, LapGuard,
                Publish, PublishFails, ReturnFrom, Writing
  <2>2. CompleteMessages' = CompleteMessages
    BY <2>1, SameComplete
  <2>3. CASE Publish(p)
    <3>1. publisher_cursor_ = cur[p] /\ publisher_cursor_' = cur[p] + 1 /\ pc[p] = "publish"
      BY <2>3 DEF Publish
    <3>2. Finished(publisher_cursor_ + 1)
      BY <3>1 DEF PublishesFinished
    <3>3. publisher_cursor_ + 1 \in CompleteMessages
      BY <3>2 DEF Finished, CompleteMessages
    <3>4. Queue!Publish
      BY <2>1, <2>2, <3>1, <3>3 DEF Queue!Publish, CompleteMessages
    <3>5. QED BY <3>4 DEF Queue!Next
  <2>4. CASE ~Publish(p)
    <3>1. UNCHANGED publisher_cursor_
      BY <1>3, <2>4 DEF TryAdvancePublisher, LoadCursor, Peek, ReloadCursor, LoadReady,
                        LapGuard, PublishFails
    <3>2. QED BY <1>1, <2>1, <2>2, <3>1
  <2>5. QED BY <2>3, <2>4
<1>4. CASE Consume
  <2>1. UNCHANGED producerVars /\ UNCHANGED <<sequence_, publisher_cursor_>>
    BY <1>4 DEF Consume, AcquireRead, Callback, MarkNotReady, ReleaseSlot
  <2>2. CompleteMessages' = CompleteMessages
    BY <2>1, SameComplete DEF Writing
  <2>3. CASE AcquireRead \/ MarkNotReady
    BY <1>1, <2>2, <2>3 DEF AcquireRead, MarkNotReady
  <2>4. CASE Callback
    <3>1. /\ expected_seq_ = consumer_cursor_ /\ consumer_cursor_ <= publisher_cursor_
          /\ got = consumer_cursor_ - 1 /\ cpc = "callback"
      BY <2>4 DEF Callback, HandedInv
    <3>2. got' = consumer_cursor_
      BY <2>4, <3>1 DEF Callback, FramesIntact
    <3>3. UNCHANGED cursorVars
      BY <2>4 DEF Callback
    <3>4. Queue!Hand
      BY <2>2, <3>1, <3>2, <3>3 DEF Queue!Hand, CompleteMessages
    <3>5. QED BY <3>4 DEF Queue!Next
  <2>5. CASE ReleaseSlot
    <3>1. got = consumer_cursor_ /\ consumer_cursor_' = consumer_cursor_ + 1 /\ UNCHANGED got
      BY <2>5 DEF ReleaseSlot, HandedInv
    <3>2. Queue!Take
      BY <2>1, <2>2, <3>1 DEF Queue!Take, CompleteMessages
    <3>3. QED BY <3>2 DEF Queue!Next
  <2>6. QED BY <1>4, <2>3, <2>4, <2>5 DEF Consume
<1>5. CASE UNCHANGED vars
  <2>1. CompleteMessages' = CompleteMessages
    BY <1>5, SameComplete DEF vars, Writing
  <2>2. QED BY <1>1, <1>5, <2>1 DEF vars
<1>6. QED BY <1>2, <1>3, <1>4, <1>5 DEF Next

\* What a ring that satisfies FramesIntact and PublishesFinished implements.
LEMMA QueueImplemented == Spec /\ [](PublishesFinished /\ FramesIntact) => ImplementsQueue
<1>1. Init => HandedInv
  BY DEF Init, HandedInv
<1>2. CursorInv /\ FramesIntact /\ HandedInv /\ [Next]_vars => HandedInv'
  BY HandedStep
<1>3. Init => Queue!Init
  BY DEF Init, Queue!Init
<1>4. CursorInv /\ PublishesFinished /\ FramesIntact /\ HandedInv /\ [Next]_vars
        => [Queue!Next]_(Queue!qvars)
  BY QueueStep
<1>5. QED BY <1>1, <1>2, <1>3, <1>4, CursorInvariant, PTL
          DEF Spec, ImplementsQueue, Queue!Spec

\* While the consumer is not a whole ring behind, the ring implements the abstract
\* queue, for any number of producers and of slots, whoever waits: a message is
\* published only when it is complete and all before it are, and each is handed to
\* the consumer once, in order and undamaged.
THEOREM RingImplementsQueue == Spec /\ []SlotLeft => ImplementsQueue
<1>1. WindowInv => PublishesFinished
  BY DEF WindowInv, PublishesFinished
<1>2. Spec /\ []SlotLeft => [](WindowInv /\ FramesIntact)
  BY WindowInvariant
<1>3. Spec /\ []SlotLeft => [](PublishesFinished /\ FramesIntact)
  BY <1>1, <1>2, PTL
<1>4. QED BY <1>3, QueueImplemented, PTL

\* Clients that wait for their frames and are fewer than the slots need no such
\* condition (the blocking emitters of an event stream, when they are alone on it).
THEOREM WaitingClientsRing ==
  ASSUME ClosedLoop
  PROVE  Spec => []FramesIntact /\ ImplementsQueue
<1>1. Spec => []SlotLeft
  BY ClosedLoopLeavesASlot
<1>2. QED BY <1>1, WindowInvariant, RingImplementsQueue, PTL

\* So does the ring of one producer, whether or not it waits: a ring as full as
\* its slots allow loses and damages nothing (LMAXStream's single writer).
THEOREM SoloRingImplementsQueue ==
  ASSUME OneProducer
  PROVE  Spec => ImplementsQueue
<1>1. CursorInv /\ SoloInv => PublishesFinished
  BY DEF CursorInv, CursorsOrdered, TypeOK, Sequences, SoloInv, OneProducer, PublishesFinished,
         Finished, Writing, Claimed, WritingFrame, Sweeping
<1>2. Spec => [](SoloInv /\ FramesIntact)
  BY SoloInvariant
<1>3. Spec => [](PublishesFinished /\ FramesIntact)
  BY <1>1, <1>2, CursorInvariant, PTL
<1>4. QED BY <1>3, QueueImplemented, PTL

\* With one producer every frame between the consumer and the publisher cursor
\* is complete and is its number's, although write() fills a slot as soon as
\* markConsumed has freed it.
THEOREM SoloFramesIntact ==
  ASSUME OneProducer
  PROVE  Spec => []FramesIntact
<1>1. Spec => [](SoloInv /\ FramesIntact)
  BY SoloInvariant
<1>2. QED BY <1>1, PTL
=============================================================================
