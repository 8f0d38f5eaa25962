-------------------------- MODULE RingStreamProofs --------------------------
(***************************************************************************)
(* Proofs about RingStream, for any number of slots and frames.             *)
(***************************************************************************)
EXTENDS RingStream, TLAPS

\* A writer that has tested the bound of the model has a frame left.
WritingInv == ppc \in {"stage", "offer", "claim", "signal"} => claimed < MaxFrames

\* The ring never holds more than its slots.
RoomInv == claimed - taken <= Slots

\* The frame being written is in its scratch entry already.
StagedInv ==
    wrapped /\ ppc \in {"offer", "claim", "signal"} => scratch[claimed % Slots] = claimed

\* As OnlyOldestDamaged, of the frames not yet published, too.
ScratchInv ==
    wrapped => \A s \in taken .. claimed - 1 : scratch[s % Slots] # s => s + Slots = claimed

StreamInv == TypeOK /\ WritingInv /\ RoomInv /\ StagedInv /\ ScratchInv

\* The arithmetic of a ring of n slots, number s in slot s % n: a slot number
\* is one, and two numbers less than a lap apart do not share a slot.
LEMMA SlotInRange ==
  ASSUME NEW n \in Nat \ {0}, NEW s \in Int
  PROVE  s % n \in 0 .. n - 1
  OBVIOUS

LEMMA SlotDistinct ==
  ASSUME NEW n \in Nat \ {0}, NEW s \in Int, NEW t \in Int, s < t, t - s < n
  PROVE  s % n # t % n
<1>1. \A x \in Int : x = (n * (x \div n)) + (x % n) /\ x \div n \in Int
  OBVIOUS
<1>2. \A k \in Int : k # 0 => (k * n >= n \/ k * n <= -n)
  OBVIOUS
<1> SUFFICES ASSUME s % n = t % n PROVE FALSE
  OBVIOUS
<1> DEFINE laps == (t \div n) - (s \div n)
<1>3. laps \in Int /\ t - s = (n * (t \div n)) - (n * (s \div n))
  BY <1>1
<1>4. t - s = laps * n
  BY <1>1, <1>3
<1>5. laps # 0
  BY <1>4
<1>6. QED
  BY <1>2, <1>3, <1>4, <1>5

LEMMA IndexInRange == \A s \in Nat : s % Slots \in 0 .. Slots - 1
  BY SlotInRange, RingStreamAssumption

LEMMA IndexDistinct ==
  ASSUME NEW s \in Int, NEW t \in Int, s < t, t - s < Slots
  PROVE  s % Slots # t % Slots
  BY SlotDistinct, RingStreamAssumption

LEMMA Counters ==
  ASSUME TypeOK
  PROVE  claimed \in Nat /\ taken \in Nat /\ taken <= claimed
  BY RingStreamAssumption DEF TypeOK

-----------------------------------------------------------------------------
LEMMA InitInv == Init => StreamInv
<1> SUFFICES ASSUME Init PROVE StreamInv
  OBVIOUS
<1> USE RingStreamAssumption DEF Init, Ring!Init
<1>1. TypeOK
  <2>1. /\ tombstoned \in BOOLEAN /\ wrapped \in BOOLEAN /\ flagged \in BOOLEAN
        /\ interrupt \in BOOLEAN /\ tail \in BOOLEAN
    BY Zenon
  <2>2. scratch \in [0 .. Slots - 1 -> -1 .. MaxFrames]
    OBVIOUS
  <2>3. /\ claimed = 0 /\ complete = {} /\ published = 0 /\ taken = 0 /\ handed = -1
        /\ killed = {} /\ tail = FALSE /\ ppc = "queued" /\ cpc = "body"
    OBVIOUS
  <2>4. QED BY <2>1, <2>2, <2>3 DEF TypeOK
<1>2. WritingInv /\ RoomInv /\ StagedInv /\ ScratchInv
  BY DEF WritingInv, RoomInv, StagedInv, ScratchInv
<1>3. QED BY <1>1, <1>2 DEF StreamInv

\* Staging overwrites the entry of a frame that is a lap behind, and of no other.
LEMMA StageStep ==
  ASSUME StreamInv, Stage
  PROVE  StagedInv' /\ ScratchInv'
<1>1. /\ claimed \in Nat /\ taken \in Nat /\ Slots \in Nat \ {0}
      /\ scratch \in [0 .. Slots - 1 -> -1 .. MaxFrames]
  BY Counters, RingStreamAssumption DEF StreamInv, TypeOK
<1>2. /\ scratch' = [scratch EXCEPT ![claimed % Slots] = claimed]
      /\ ppc' = "offer"
      /\ UNCHANGED <<claimed, taken, wrapped>>
  BY DEF Stage, ScratchIndex, Goes, ProducerKeeps, ring, pairVars
<1>3. claimed % Slots \in 0 .. Slots - 1
  BY <1>1, IndexInRange
<1>4. StagedInv'
  BY <1>1, <1>2, <1>3 DEF StagedInv
<1>5. ASSUME wrapped, NEW s \in taken .. claimed - 1, s + Slots # claimed
      PROVE  scratch'[s % Slots] = s
  <2>1. s \in Int /\ claimed \in Int /\ s \in Nat /\ s < claimed /\ claimed - s < Slots
    BY <1>1, <1>5 DEF StreamInv, RoomInv
  <2>2. s % Slots # claimed % Slots
    BY <2>1, IndexDistinct, Zenon
  <2>3. s % Slots \in 0 .. Slots - 1
    BY <2>1, IndexInRange
  <2>4. scratch[s % Slots] = s
    BY <1>5 DEF StreamInv, ScratchInv
  <2>5. QED BY <1>1, <1>2, <2>2, <2>3, <2>4
<1>6. QED BY <1>2, <1>4, <1>5 DEF ScratchInv

\* A claim takes a frame that has been staged, while the ring has room.
LEMMA ClaimStep ==
  ASSUME StreamInv, Claim
  PROVE  RoomInv' /\ StagedInv' /\ ScratchInv'
<1>1. claimed \in Nat /\ taken \in Nat /\ Slots \in Nat \ {0}
  BY Counters, RingStreamAssumption DEF StreamInv
<1>2. /\ claimed - taken < Slots /\ claimed' = claimed + 1
      /\ ppc = "claim" /\ ppc' = "fill"
      /\ UNCHANGED <<scratch, taken, wrapped>>
  BY DEF Claim, Ring!Claim, Goes, ProducerKeeps, pairVars
<1>3. RoomInv' /\ StagedInv'
  BY <1>1, <1>2 DEF RoomInv, StagedInv
<1>4. ASSUME wrapped, NEW s \in taken .. claimed
      PROVE  scratch[s % Slots] = s
  <2>1. CASE s = claimed
    BY <1>2, <1>4, <2>1 DEF StreamInv, StagedInv
  <2>2. CASE s # claimed
    <3>1. s \in taken .. claimed - 1 /\ s + Slots # claimed
      BY <1>1, <1>2, <2>2
    <3>2. QED BY <1>4, <3>1 DEF StreamInv, ScratchInv
  <2>3. QED BY <2>1, <2>2
<1>5. claimed' - 1 = claimed
  BY <1>1, <1>2
<1>6. QED BY <1>2, <1>3, <1>4, <1>5 DEF ScratchInv

LEMMA ProducerStep ==
  ASSUME StreamInv, Producer
  PROVE  StreamInv'
<1> USE RingStreamAssumption
    DEF StreamInv, WritingInv, RoomInv, StagedInv, ScratchInv, TypeOK, Goes, ProducerKeeps,
        ring, pairVars, signalVars
<1>1. CASE StartBody BY <1>1 DEF StartBody
<1>2. CASE WriteRaw BY <1>2 DEF WriteRaw
<1>3. CASE Stage
  <2>1. claimed % Slots \in 0 .. Slots - 1 BY Counters, IndexInRange
  <2>2. scratch' \in [0 .. Slots - 1 -> -1 .. MaxFrames] BY <1>3, <2>1 DEF Stage, ScratchIndex
  <2>3. ppc' = "offer" /\ ppc = "stage" /\ UNCHANGED <<ring, tombstoned, tail, pairVars, signalVars, cpc>>
    BY <1>3 DEF Stage
  <2>4. TypeOK' BY <2>2, <2>3
  <2>5. QED BY <1>3, <2>3, <2>4, StageStep
<1>4. CASE AssertFails BY <1>4 DEF AssertFails
<1>5. CASE AssertHolds BY <1>5 DEF AssertHolds
<1>6. CASE Claim
  <2>1. TypeOK' BY <1>6 DEF Claim, Ring!Claim
  <2>2. WritingInv' BY <1>6 DEF Claim
  <2>3. QED BY <1>6, <2>1, <2>2, ClaimStep
<1>7. CASE RingFull BY <1>7 DEF RingFull
<1>8. CASE TestSignal BY <1>8 DEF TestSignal
<1>9. CASE Fill BY <1>9 DEF Fill, Ring!Complete
<1>10. CASE Publish BY <1>10 DEF Publish, Ring!Publish
<1>11. CASE BodyReturns BY <1>11 DEF BodyReturns
<1>12. CASE SendTerminator
  <2>1. tail' \in BOOLEAN BY <1>12 DEF SendTerminator
  <2>2. wrapped /\ claimed < MaxFrames /\ ppc = "closing" /\ ppc' = "stage"
        /\ UNCHANGED <<ring, tombstoned, scratch, pairVars, signalVars, cpc>>
    BY <1>12 DEF SendTerminator
  <2>3. QED BY <2>1, <2>2
<1>13. CASE NoTerminator BY <1>13 DEF NoTerminator
<1>14. CASE Tombstone
  <2>1. tombstoned' \in BOOLEAN BY <1>14 DEF Tombstone
  <2>2. ppc = "tombstone" /\ ppc' = "done"
        /\ UNCHANGED <<ring, scratch, tail, pairVars, signalVars, cpc>>
    BY <1>14 DEF Tombstone
  <2>3. QED BY <2>1, <2>2
<1>15. QED
  BY <1>1, <1>2, <1>3, <1>4, <1>5, <1>6, <1>7, <1>8, <1>9, <1>10, <1>11, <1>12, <1>13, <1>14
     DEF Producer, Write, CloseWrite

LEMMA ConsumerStep ==
  ASSUME StreamInv, Consumer
  PROVE  StreamInv'
<1> USE RingStreamAssumption
    DEF StreamInv, WritingInv, RoomInv, StagedInv, ScratchInv, TypeOK, Moves, ConsumerKeeps,
        ring, pairVars, signalVars
<1>1. CASE ReadRaw BY <1>1 DEF ReadRaw
<1>2. CASE AcquireRead BY <1>2 DEF AcquireRead
<1>3. CASE TestTombstone BY <1>3 DEF TestTombstone
<1>4. CASE ReadSignal BY <1>4 DEF ReadSignal
<1>5. CASE CopyOut BY <1>5 DEF CopyOut, Ring!Hand
<1>6. CASE MarkConsumed
  <2>1. claimed \in Nat /\ taken \in Nat BY Counters
  <2>2. handed = taken /\ taken' = taken + 1 /\ cpc' = "body"
        /\ UNCHANGED <<claimed, complete, published, handed, tombstoned, interrupt,
                       scratch, pairVars, killed, tail, ppc>>
    BY <1>6 DEF MarkConsumed, Ring!Take
  <2>3. TypeOK' BY <2>2
  <2>4. ScratchInv'
    <3>1. \A s \in taken + 1 .. claimed - 1 : s \in taken .. claimed - 1 BY <2>1
    <3>2. QED BY <2>2, <3>1
  <2>5. WritingInv' /\ RoomInv' /\ StagedInv' BY <2>1, <2>2
  <2>6. QED BY <2>3, <2>4, <2>5
<1>7. CASE ConsumerReturns BY <1>7 DEF ConsumerReturns
<1>8. CASE RaiseInterrupt
  <2>1. interrupt' \in BOOLEAN BY <1>8 DEF RaiseInterrupt
  <2>2. cpc' = "tear" /\ UNCHANGED <<ring, tombstoned, scratch, pairVars, killed, tail, ppc>>
    BY <1>8 DEF RaiseInterrupt
  <2>3. QED BY <2>1, <2>2
<1>9. CASE TearTombstone
  <2>1. tombstoned' \in BOOLEAN BY <1>9 DEF TearTombstone
  <2>2. cpc' = "returned" /\ UNCHANGED <<ring, interrupt, scratch, pairVars, killed, tail, ppc>>
    BY <1>9 DEF TearTombstone
  <2>3. QED BY <2>1, <2>2
<1>10. QED
  BY <1>1, <1>2, <1>3, <1>4, <1>5, <1>6, <1>7, <1>8, <1>9 DEF Consumer, Read, Teardown

LEMMA NextStep ==
  ASSUME StreamInv, [Next]_vars
  PROVE  StreamInv'
<1> USE DEF StreamInv, WritingInv, RoomInv, StagedInv, ScratchInv, TypeOK, ring, pairVars, signalVars
<1>1. ASSUME NEW side \in Sides, Kill(side) PROVE StreamInv'
  BY <1>1 DEF Kill
<1>2. CASE UNCHANGED vars
  BY <1>2 DEF vars
<1>3. QED BY <1>1, <1>2, ProducerStep, ConsumerStep DEF Next

-----------------------------------------------------------------------------
LEMMA RingStreamInvariant == Spec => []StreamInv
<1>1. StreamInv /\ [Next]_vars => StreamInv'
  BY NextStep
<1>2. QED BY <1>1, InitInv, PTL DEF Spec

\* Type correctness: the counters of the ring stay in order, and a terminator is
\* only ever sent on a pair with a wrap chain.
THEOREM RingStreamTypeCorrect == Spec => []TypeOK
<1>1. StreamInv => TypeOK BY DEF StreamInv
<1>2. QED BY <1>1, RingStreamInvariant, PTL

\* Of the frames a reader has still to read, staging into the scratch pool ever
\* damages the oldest alone, for any number of slots (emitWrapped).
THEOREM StagingDamagesOne == Spec => []OnlyOldestDamaged
<1>1. StreamInv => OnlyOldestDamaged
  BY DEF StreamInv, TypeOK, ScratchInv, OnlyOldestDamaged
<1>2. QED BY <1>1, RingStreamInvariant, PTL
=============================================================================
