-------------------------- MODULE EventStreamProofs --------------------------
(***************************************************************************)
(* Proofs about EventStream, for any emitters, any masks, any window depth  *)
(* and any ring size.                                                       *)
(***************************************************************************)
EXTENDS EventStream, FiniteSetTheorems, TLAPS

\* The arithmetic of a ring of n slots, number s in slot s % n: a slot number
\* is one, and two numbers less than a lap apart do not share a slot.
LEMMA SlotInRange ==
  ASSUME NEW n \in Nat \ {0}, NEW s \in Int
  PROVE  s % n \in 0 .. n - 1
  OBVIOUS

LEMMA SlotDistinct ==
  ASSUME NEW n \in Nat \ {0}, NEW s \in Int, NEW t \in Int, s < t, t - s < n
  PROVE  s % n # t % n
<1>1. \A x \in Int : x = (n * (x \div n)) + (x % n) /\ x \div n \in Int
  OBVIOUS
<1>2. \A k \in Int : k # 0 => (k * n >= n \/ k * n <= -n)
  OBVIOUS
<1> SUFFICES ASSUME s % n = t % n PROVE FALSE
  OBVIOUS
<1> DEFINE laps == (t \div n) - (s \div n)
<1>3. laps \in Int /\ t - s = (n * (t \div n)) - (n * (s \div n))
  BY <1>1
<1>4. t - s = laps * n
  BY <1>1, <1>3
<1>5. laps # 0
  BY <1>4
<1>6. QED
  BY <1>2, <1>3, <1>4, <1>5

LEMMA IndexInRange == \A s \in Int : IndexOf(s) \in Slots
  BY SlotInRange, StreamAssumption DEF IndexOf, Slots

LEMMA IndexDistinct ==
  ASSUME NEW s \in Int, NEW t \in Int, s < t, t - s < Depth
  PROVE  IndexOf(s) # IndexOf(t)
  BY SlotDistinct, StreamAssumption DEF IndexOf

\* Admission reserves a slot nobody holds.
LEMMA AdmittedSlotFree ==
  ASSUME TypeOK, WindowInv, lpc = "read"
  PROVE  ~Live(IndexOf(in_seq_))
<1> DEFINE i == IndexOf(in_seq_)
<1>1. i \in Slots /\ in_seq_ \in Int
  BY IndexInRange DEF TypeOK
<1>2. SUFFICES ASSUME Live(i) PROVE FALSE
  OBVIOUS
<1>3. /\ sequence[i] \in Int /\ sequence[i] < in_seq_ /\ in_seq_ - sequence[i] < Depth
      /\ IndexOf(sequence[i]) = i
  BY <1>1, <1>2, StreamAssumption DEF WindowInv, TypeOK, NextSeq, Admitting
<1>4. QED BY <1>1, <1>3, IndexDistinct

\* A handler is only ever run on the slot of an event that was admitted.
LEMMA LaunchesParked ==
  ASSUME TypeOK, WindowInv, NEW i \in Slots, Live(i)
  PROVE  parked_[i] \in Events /\ sequence[i] \in Nat
  BY DEF TypeOK, WindowInv

LEMMA HandedOffInSlots ==
  ASSUME TypeOK, NEW s \in HandedOff
  PROVE  s \in Nat /\ IndexOf(s) \in Slots
<1>1. \A k \in 1 .. Len(completions) : completions[k] \in Nat
  BY DEF TypeOK
<1>2. working \subseteq Nat
  BY DEF TypeOK
<1>3. s \in Nat
  BY <1>1, <1>2 DEF HandedOff
<1>4. QED BY <1>3, IndexInRange

LEMMA HeadHandedOff ==
  ASSUME TypeOK, completions # << >>
  PROVE  Head(completions) \in HandedOff
<1>1. completions \in Seq(Nat)
  BY DEF TypeOK
<1>2. 1 \in 1 .. Len(completions) /\ Head(completions) = completions[1]
  BY <1>1
<1>3. QED BY <1>2 DEF HandedOff

-----------------------------------------------------------------------------
(* The type invariant *)

LEMMA LaunchType ==
  ASSUME TypeOK, NEW i \in Slots, parked_[i] \in Events, Launch(i)
  PROVE  /\ status' \in [Slots -> {"Empty", "Pending", "Running", "Complete"}]
         /\ blocked_by_' \in [Slots -> SUBSET Slots]
         /\ working' \in SUBSET Nat
         /\ emitter' \in [Emitters -> {"idle", "writing", "waiting", "refused"}]
         /\ UNCHANGED <<sequence, mask, parked_>>
<1>1. parked_[i].emitter \in Emitters
  BY DEF Events
<1>2. \A j \in Slots : blocked_by_[j] \ {i} \in SUBSET Slots
  BY DEF TypeOK
<1>3. Unblocking(i) \in [Slots -> SUBSET Slots]
  BY <1>2 DEF Unblocking
<1>4. Release(parked_[i].emitter) =>
        emitter' \in [Emitters -> {"idle", "writing", "waiting", "refused"}]
  BY <1>1 DEF Release, TypeOK
<1>5. sequence[i] \in Nat
  BY DEF TypeOK
<1>6. CASE parked_[i].kind = "Inline" BY <1>6 DEF TypeOK, Launch
<1>7. CASE parked_[i].kind = "Async" BY <1>5, <1>7 DEF TypeOK, Launch
<1>8. CASE parked_[i].kind = "Drop"
  <2>1. /\ blocked_by_' = Unblocking(i) /\ Release(parked_[i].emitter)
        /\ UNCHANGED <<working, sequence, mask, parked_>>
    BY <1>8 DEF Launch
  <2>2. status' = [status EXCEPT ![i] = "Empty"]
    BY <1>8 DEF Launch
  <2>3. status' \in [Slots -> {"Empty", "Pending", "Running", "Complete"}]
    BY <2>2 DEF TypeOK
  <2>4. QED BY <1>3, <1>4, <2>1, <2>3 DEF TypeOK
<1>9. QED BY <1>6, <1>7, <1>8 DEF Launch

LEMMA TypeStep ==
  ASSUME TypeOK, WindowInv, [Next]_vars
  PROVE  TypeOK'
<1> USE IndexInRange
    DEF TypeOK, ringVars, slotVars, windowVars, loopVars, flagVars
<1>1. ASSUME NEW e \in Emitters, Emit(e) PROVE TypeOK'
  <2>1. CASE Enqueue(e) BY <2>1 DEF Enqueue
  <2>2. CASE WriteEvent(e)
    <3>1. PICK ev \in Events : input' = Append(input, ev)
      BY <2>2 DEF WriteEvent
    <3>2. input' \in Seq(Events)
      BY <3>1
    <3>3. QED BY <2>2, <3>2 DEF WriteEvent
  <2>3. QED BY <1>1, <2>1, <2>2 DEF Emit
<1>2. ASSUME NEW s \in working, PostCompletion(s) PROVE TypeOK'
  <2>1. s \in Nat /\ working \ {s} \in SUBSET Nat
    OBVIOUS
  <2>2. completions' \in Seq(Nat)
    BY <1>2, <2>1 DEF PostCompletion
  <2>3. QED BY <1>2, <2>1, <2>2 DEF PostCompletion
<1>3. CASE OrderingLoop
  <2>1. CASE LoopTop BY <2>1 DEF LoopTop
  <2>2. CASE DrainCompletion
    <3>1. Head(completions) \in Nat /\ completions' \in Seq(Nat)
      <4>1. completions \in Seq(Nat) /\ completions # << >> /\ completions' = Tail(completions)
        BY <2>2 DEF DrainCompletion
      <4>2. QED BY ONLY <4>1
    <3>2. QED BY <2>2, <3>1 DEF DrainCompletion
  <2>3. CASE DrainDone BY <2>3 DEF DrainDone, CallService
  <2>4. ASSUME NEW i \in Slots, ServiceLaunch(i) PROVE TypeOK'
    <3>1. Live(i) BY <2>4 DEF ServiceLaunch, Live
    <3>2. parked_[i] \in Events BY <3>1, LaunchesParked
    <3>3. at' \in Nat /\ progress' \in BOOLEAN /\ UNCHANGED <<lpc, after>>
      BY <2>4 DEF ServiceLaunch, Visits, Slots
    <3>4. QED BY <2>4, <3>2, <3>3, LaunchType DEF ServiceLaunch
  <2>5. ASSUME NEW i \in Slots, ServiceCommit(i) PROVE TypeOK'
    <3>1. Live(i) BY <2>5 DEF ServiceCommit, Live
    <3>2. parked_[i].emitter \in Emitters BY <3>1, LaunchesParked DEF Events
    <3>3. \A j \in Slots : blocked_by_[j] \ {i} \in SUBSET Slots
      OBVIOUS
    <3>4. blocked_by_' \in [Slots -> SUBSET Slots]
      BY <2>5, <3>3 DEF ServiceCommit, Unblocking
    <3>5. at' \in Nat /\ progress' \in BOOLEAN /\ UNCHANGED <<lpc, after>>
      BY <2>5 DEF ServiceCommit, Visits, Slots
    <3>6. QED BY <2>5, <3>2, <3>4, <3>5 DEF ServiceCommit, Release
  <2>6. CASE SweepAgain BY <2>6 DEF SweepAgain
  <2>7. CASE ServiceReturns BY <2>7 DEF ServiceReturns
  <2>8. CASE AdvanceTail
    <3>1. tail_seq_' \in Nat /\ lpc' \in {"top", "read"}
      BY <2>8 DEF AdvanceTail
    <3>2. UNCHANGED <<ringVars, slotVars, in_seq_, at, progress, after, emitter, flagVars>>
      BY <2>8 DEF AdvanceTail
    <3>3. QED BY <3>1, <3>2
  <2>9. CASE NothingToRead BY <2>9 DEF NothingToRead
  <2>10. CASE Admit
    <3>1. Head(input) \in Events /\ Tail(input) \in Seq(Events)
      BY <2>10 DEF Admit
    <3>2. Head(input).mask \in Masks
      BY <3>1 DEF Events
    <3>3. {j \in Slots \ {IndexOf(in_seq_)} :
              Live(j) /\ Intersects(mask[j], Head(input).mask)} \in SUBSET Slots
      OBVIOUS
    <3>4. blocked_by_' \in [Slots -> SUBSET Slots]
      BY <2>10, <3>3 DEF Admit, Acquire
    <3>5. /\ status' \in [Slots -> {"Empty", "Pending", "Running", "Complete"}]
          /\ sequence' \in [Slots -> Nat]
          /\ mask' \in [Slots -> Masks \cup {{}}]
          /\ parked_' \in [Slots -> Events \cup {<< >>}]
      BY <2>10, <3>1, <3>2 DEF Admit, Acquire
    <3>6. QED BY <2>10, <3>1, <3>4, <3>5 DEF Admit
  <2>11. CASE LaunchAdmitted
    <3>1. IndexOf(in_seq_) \in Slots /\ Live(IndexOf(in_seq_))
      BY <2>11 DEF LaunchAdmitted, CallService, WindowInv, Live
    <3>2. parked_[IndexOf(in_seq_)] \in Events BY <3>1, LaunchesParked
    <3>3. QED BY <2>11, <3>1, <3>2, LaunchType DEF LaunchAdmitted, CallService
  <2>12. CASE ParkAdmitted BY <2>12 DEF ParkAdmitted, CallService
  <2>13. QED BY <1>3, <2>1, <2>2, <2>3, <2>4, <2>5, <2>6, <2>7, <2>8, <2>9, <2>10,
                <2>11, <2>12 DEF OrderingLoop, Service
<1>4. CASE Stop BY <1>4 DEF Stop, BeginCleanup, SetStop
<1>5. CASE UNCHANGED vars BY <1>5 DEF vars
<1>6. QED BY <1>1, <1>2, <1>3, <1>4, <1>5 DEF Next

-----------------------------------------------------------------------------
(* The window *)

\* No step but an admission puts an event in a slot, and none makes a slot that
\* was empty live or changes what a live one holds.
Shrinks ==
    /\ UNCHANGED <<sequence, mask, parked_>>
    /\ \A i \in Slots : Live(i)' => Live(i)

LEMMA ShrinkingWindow ==
  ASSUME TypeOK, WindowInv, Shrinks, NextSeq' = NextSeq, UNCHANGED windowVars,
         lpc' # "read", lpc' # "admitted", Admitting' => Admitting
  PROVE  WindowInv'
  BY DEF WindowInv, Shrinks, windowVars, Live, NextSeq

LEMMA LaunchShrinks ==
  ASSUME TypeOK, NEW i \in Slots, Live(i), Launch(i)
  PROVE  Shrinks
  BY DEF Shrinks, Launch, Live, TypeOK

LEMMA WindowStep ==
  ASSUME TypeOK, WindowInv, CompletionsInv, [Next]_vars
  PROVE  WindowInv'
<1> USE IndexInRange DEF ringVars, slotVars, windowVars, loopVars, flagVars
<1> DEFINE Same == UNCHANGED <<slotVars, windowVars, loopVars>>
<1>1. ASSUME Same PROVE WindowInv'
  BY <1>1 DEF WindowInv, Live, NextSeq, Admitting
<1>2. ASSUME NEW e \in Emitters, Emit(e) PROVE WindowInv'
  BY <1>1, <1>2 DEF Emit, Enqueue, WriteEvent
<1>3. ASSUME NEW s \in working, PostCompletion(s) PROVE WindowInv'
  BY <1>1, <1>3 DEF PostCompletion
<1>4. CASE OrderingLoop
  <2>1. CASE LoopTop
    BY <2>1 DEF LoopTop, WindowInv, Live, NextSeq, Admitting
  <2>2. CASE DrainCompletion
    <3>1. Head(completions) \in HandedOff
      BY <2>2, HeadHandedOff DEF DrainCompletion
    <3>2. Shrinks
      BY <2>2, <3>1, SMTT(30) DEF DrainCompletion, CompletionsInv, Shrinks, Live, TypeOK
    <3>3. QED BY <2>2, <3>2, ShrinkingWindow DEF DrainCompletion, NextSeq, Admitting
  <2>3. CASE DrainDone
    BY <2>3 DEF DrainDone, CallService, WindowInv, Live, NextSeq, Admitting
  <2>4. ASSUME NEW i \in Slots, ServiceLaunch(i) PROVE WindowInv'
    <3>1. Shrinks
      BY <2>4, LaunchShrinks DEF ServiceLaunch, Live
    <3>2. QED BY <2>4, <3>1, ShrinkingWindow DEF ServiceLaunch, Visits, NextSeq, Admitting
  <2>5. ASSUME NEW i \in Slots, ServiceCommit(i) PROVE WindowInv'
    <3>1. Shrinks
      BY <2>5 DEF ServiceCommit, Shrinks, Live, TypeOK
    <3>2. QED BY <2>5, <3>1, ShrinkingWindow DEF ServiceCommit, Visits, NextSeq, Admitting
  <2>6. CASE SweepAgain
    BY <2>6 DEF SweepAgain, WindowInv, Live, NextSeq, Admitting
  <2>7. CASE ServiceReturns
    BY <2>7, StreamAssumption
       DEF ServiceReturns, SweepDone, WindowInv, Live, NextSeq, Admitting, TypeOK
  <2>8. CASE AdvanceTail
    <3>1. PICK tail \in tail_seq_ .. in_seq_ :
            /\ \A s \in tail_seq_ .. tail - 1 : status[IndexOf(s)] = "Empty"
            /\ tail_seq_' = tail
            /\ lpc' = IF in_seq_ >= tail + Depth THEN "top" ELSE "read"
      BY <2>8 DEF AdvanceTail
    <3>2. UNCHANGED <<slotVars, in_seq_, after>> /\ lpc = "window"
      BY <2>8 DEF AdvanceTail
    <3>3. NextSeq' = in_seq_ /\ NextSeq = in_seq_ /\ ~Admitting' /\ lpc' # "admitted"
      BY <3>1, <3>2 DEF NextSeq, Admitting
    <3>4. tail_seq_ \in Int /\ in_seq_ \in Int /\ tail \in Int /\ Depth \in Int
          /\ tail_seq_ <= tail /\ tail <= in_seq_
      BY StreamAssumption DEF TypeOK
    <3>5. in_seq_ <= tail + Depth /\ (lpc' = "read" => in_seq_ < tail + Depth)
      BY <3>1, <3>4 DEF WindowInv
    <3>6. ASSUME NEW i \in Slots, Live(i) PROVE sequence[i] \in tail .. in_seq_ - 1
      <4>1. sequence[i] \in tail_seq_ .. in_seq_ - 1 /\ status[IndexOf(sequence[i])] # "Empty"
        BY <3>3, <3>6 DEF WindowInv, Live
      <4>2. sequence[i] \notin tail_seq_ .. tail - 1
        BY <3>1, <4>1
      <4>3. QED BY <3>4, <4>1, <4>2
    <3>7. /\ \A i \in Slots : Live(i)' = Live(i) /\ sequence'[i] = sequence[i]
                                /\ parked_'[i] = parked_[i] /\ mask'[i] = mask[i]
          /\ in_seq_' = in_seq_
      BY <3>2 DEF Live
    <3>8. (\A i \in Slots : Live(i) =>
            /\ sequence[i] \in tail_seq_ .. NextSeq - 1
            /\ IndexOf(sequence[i]) = i
            /\ parked_[i] \in Events /\ parked_[i].mask = mask[i])'
      BY <3>1, <3>3, <3>6, <3>7 DEF WindowInv
    <3>9. QED BY <3>1, <3>3, <3>4, <3>5, <3>7, <3>8 DEF WindowInv
  <2>9. CASE NothingToRead
    BY <2>9 DEF NothingToRead, WindowInv, Live, NextSeq, Admitting
  <2>10. CASE Admit
    <3> DEFINE n == IndexOf(in_seq_)
    <3>1. /\ n \in Slots /\ Head(input) \in Events
          /\ status' = [status EXCEPT ![n] = "Pending"]
          /\ sequence' = [sequence EXCEPT ![n] = in_seq_]
          /\ mask' = [mask EXCEPT ![n] = Head(input).mask]
          /\ parked_' = [parked_ EXCEPT ![n] = Head(input)]
          /\ UNCHANGED windowVars
          /\ lpc = "read" /\ lpc' = "admitted"
      BY <2>10 DEF Admit, Acquire, TypeOK
    <3>2. NextSeq = in_seq_ /\ NextSeq' = in_seq_ + 1
      BY <3>1 DEF NextSeq, Admitting
    <3>3. Head(input).mask = mask'[n] /\ parked_'[n] = Head(input) /\ sequence'[n] = in_seq_
          /\ status'[n] = "Pending"
      BY <3>1 DEF TypeOK
    <3>4. in_seq_ \in Int /\ tail_seq_ \in Int /\ in_seq_ < tail_seq_ + Depth
          /\ in_seq_ >= tail_seq_
      BY <3>1 DEF TypeOK, WindowInv
    <3>5. ASSUME NEW i \in Slots, Live(i)'
          PROVE  /\ sequence'[i] \in tail_seq_ .. in_seq_
                 /\ IndexOf(sequence'[i]) = i
                 /\ parked_'[i] \in Events /\ parked_'[i].mask = mask'[i]
      <4>1. CASE i = n BY <3>1, <3>3, <3>4, <4>1
      <4>2. CASE i # n
        <5>1. Live(i) /\ sequence'[i] = sequence[i] /\ parked_'[i] = parked_[i]
              /\ mask'[i] = mask[i]
          BY <3>1, <3>5, <4>2 DEF Live, TypeOK
        <5>2. QED BY <3>2, <3>4, <5>1 DEF WindowInv
      <4>3. QED BY <4>1, <4>2
    <3>6. in_seq_' = in_seq_ /\ tail_seq_' = tail_seq_ /\ Depth \in Int
      BY <3>1, StreamAssumption
    <3>7. QED BY <3>1, <3>2, <3>3, <3>4, <3>5, <3>6 DEF WindowInv
  <2>11. CASE LaunchAdmitted
    <3>1. Live(IndexOf(in_seq_)) /\ IndexOf(in_seq_) \in Slots
      BY <2>11 DEF LaunchAdmitted, CallService, WindowInv, Live, TypeOK
    <3>2. Shrinks
      BY <2>11, <3>1, LaunchShrinks DEF LaunchAdmitted
    <3>3. QED BY <2>11, <3>2, ShrinkingWindow
              DEF LaunchAdmitted, CallService, NextSeq, Admitting
  <2>12. CASE ParkAdmitted
    BY <2>12 DEF ParkAdmitted, CallService, WindowInv, Live, NextSeq, Admitting
  <2>13. QED BY <1>4, <2>1, <2>2, <2>3, <2>4, <2>5, <2>6, <2>7, <2>8, <2>9, <2>10,
                <2>11, <2>12 DEF OrderingLoop, Service
<1>5. CASE Stop BY <1>1, <1>5 DEF Stop, BeginCleanup, SetStop
<1>6. CASE UNCHANGED vars BY <1>1, <1>6 DEF vars
<1>7. QED BY <1>2, <1>3, <1>4, <1>5, <1>6 DEF Next

-----------------------------------------------------------------------------
(* The blockers *)

\* Starting or finishing a slot nobody blocks changes what no slot waits for.
LEMMA BlockersKept ==
  ASSUME TypeOK, BlockersInv, UNCHANGED <<sequence, mask, blocked_by_>>,
         \A i \in Slots : Live(i)' = Live(i),
         \A i \in Slots : Started(i)' => Started(i) \/ ~Blocked(i)
  PROVE  BlockersInv'
  BY DEF BlockersInv, Blocked, TypeOK

\* Commit and abandon.
LEMMA SlotLeaves ==
  ASSUME TypeOK, BlockersInv, NEW i \in Slots,
         status' = [status EXCEPT ![i] = "Empty"],
         blocked_by_' = Unblocking(i),
         UNCHANGED <<sequence, mask>>
  PROVE  BlockersInv'
<1>1. \A j \in Slots : (Live(j)' <=> Live(j) /\ j # i) /\ (Started(j)' => Started(j))
  BY DEF Live, Started, TypeOK
<1>2. \A j \in Slots : blocked_by_'[j] = blocked_by_[j] \ {i}
  BY DEF Unblocking
<1>3. QED BY <1>1, <1>2 DEF BlockersInv

LEMMA BlockersStep ==
  ASSUME TypeOK, WindowInv, BlockersInv, CompletionsInv, [Next]_vars
  PROVE  BlockersInv'
<1> USE IndexInRange DEF ringVars, slotVars, windowVars, loopVars, flagVars
<1>1. ASSUME UNCHANGED slotVars PROVE BlockersInv'
  BY <1>1 DEF BlockersInv, Live, Started
<1>2. ASSUME NEW e \in Emitters, Emit(e) PROVE BlockersInv'
  BY <1>1, <1>2 DEF Emit, Enqueue, WriteEvent
<1>3. ASSUME NEW s \in working, PostCompletion(s) PROVE BlockersInv'
  BY <1>1, <1>3 DEF PostCompletion
<1>4. ASSUME NEW i \in Slots, ~Blocked(i), status[i] = "Pending", Launch(i)
      PROVE  BlockersInv'
  <2>1. CASE parked_[i].kind = "Drop"
    BY <1>4, <2>1, SlotLeaves DEF Launch
  <2>2. CASE parked_[i].kind # "Drop"
    <3>1. /\ status' = [status EXCEPT ![i] = "Complete"]
             \/ status' = [status EXCEPT ![i] = "Running"]
          /\ UNCHANGED <<sequence, mask, blocked_by_>>
      BY <1>4, <2>2 DEF Launch
    <3>2. \A j \in Slots : Live(j)' = Live(j)
      BY <1>4, <3>1, SMTT(30) DEF Live, TypeOK
    <3>3. \A j \in Slots : Started(j)' => Started(j) \/ ~Blocked(j)
      BY <1>4, <3>1 DEF Started, TypeOK
    <3>4. QED BY <3>1, <3>2, <3>3, BlockersKept
  <2>3. QED BY <2>1, <2>2
<1>5. CASE OrderingLoop
  <2>1. CASE LoopTop \/ DrainDone \/ SweepAgain \/ ServiceReturns \/ AdvanceTail
             \/ NothingToRead \/ ParkAdmitted
    BY <1>1, <2>1, SMTT(30) DEF LoopTop, DrainDone, SweepAgain, ServiceReturns, AdvanceTail,
                                NothingToRead, ParkAdmitted
  <2>2. CASE DrainCompletion
    <3> DEFINE n == IndexOf(Head(completions))
    <3>1. n \in Slots /\ status[n] = "Running"
      BY <2>2, HeadHandedOff, HandedOffInSlots DEF DrainCompletion, CompletionsInv
    <3>2. /\ status' = [status EXCEPT ![n] = "Complete"]
          /\ UNCHANGED <<sequence, mask, blocked_by_>>
      BY <2>2 DEF DrainCompletion
    <3>3. \A i \in Slots : Live(i)' = Live(i) /\ (Started(i)' => Started(i))
      BY <3>1, <3>2, SMTT(30) DEF Live, Started, TypeOK
    <3>4. QED BY <3>2, <3>3, BlockersKept
  <2>3. ASSUME NEW i \in Slots, ServiceLaunch(i) PROVE BlockersInv'
    BY <1>4, <2>3 DEF ServiceLaunch, Visits, Serviceable
  <2>4. ASSUME NEW i \in Slots, ServiceCommit(i) PROVE BlockersInv'
    BY <2>4, SlotLeaves DEF ServiceCommit
  <2>5. CASE Admit
    <3>0. PICK n \in Slots : n = IndexOf(in_seq_)
      BY DEF TypeOK
    <3> DEFINE ev == Head(input)
               blockers == {j \in Slots \ {n} : Live(j) /\ Intersects(mask[j], ev.mask)}
    <3>1. /\ n \in Slots
          /\ status' = [status EXCEPT ![n] = "Pending"]
          /\ sequence' = [sequence EXCEPT ![n] = in_seq_]
          /\ mask' = [mask EXCEPT ![n] = ev.mask]
          /\ blocked_by_' = [blocked_by_ EXCEPT ![n] = blockers]
          /\ lpc = "read"
      BY <2>5, <3>0 DEF Admit, Acquire, TypeOK
    <3>2. ~Live(n)
      BY <3>0, <3>1, AdmittedSlotFree
    <3>3. \A j \in Slots : Live(j) => sequence[j] < in_seq_ /\ sequence[j] \in Int
                                        /\ in_seq_ \in Int
      BY <3>1 DEF WindowInv, NextSeq, Admitting, TypeOK
    <3>4. \A j \in Slots \ {n} :
            /\ Live(j)' = Live(j) /\ Started(j)' = Started(j)
            /\ sequence'[j] = sequence[j] /\ mask'[j] = mask[j]
            /\ blocked_by_'[j] = blocked_by_[j]
      BY <3>1 DEF Live, Started, TypeOK
    <3>5. /\ Live(n)' /\ ~Started(n)'
          /\ sequence'[n] = in_seq_ /\ mask'[n] = ev.mask
          /\ blocked_by_'[n] = blockers
      <4> HIDE DEF blockers, ev
      <4>1. QED BY <3>1 DEF Live, Started, TypeOK
    <3>6. ASSUME NEW i \in Slots, Live(i)'
          PROVE  blocked_by_'[i] =
                    {j \in Slots : Live(j)' /\ sequence'[j] < sequence'[i]
                                    /\ Intersects(mask'[j], mask'[i])}
      <4>1. CASE i = n
        <5>1. \A j \in Slots : j \in blockers <=> Live(j)' /\ sequence'[j] < sequence'[n]
                                            /\ Intersects(mask'[j], mask'[n])
          <6>1. ~(in_seq_ < in_seq_)
            BY DEF TypeOK
          <6>2. n \notin blockers /\ ~(sequence'[n] < sequence'[n])
            BY <3>5, <6>1
          <6>3. ASSUME NEW j \in Slots, j # n
                PROVE  j \in blockers <=> Live(j)' /\ sequence'[j] < sequence'[n]
                                                   /\ Intersects(mask'[j], mask'[n])
            BY <3>3, <3>4, <3>5, <6>3
          <6>4. QED BY <6>2, <6>3
        <5>2. QED BY <3>5, <4>1, <5>1
      <4>2. CASE i # n
        <5>1. Live(i) /\ blocked_by_'[i] = {j \in Slots : Live(j) /\ sequence[j] < sequence[i]
                                                /\ Intersects(mask[j], mask[i])}
          BY <3>4, <3>6, <4>2 DEF BlockersInv
        <5>2. ~(sequence'[n] < sequence'[i])
          BY <3>3, <3>4, <3>5, <4>2, <5>1
        <5>3. \A j \in Slots :
                (Live(j) /\ sequence[j] < sequence[i] /\ Intersects(mask[j], mask[i]))
                <=> (Live(j)' /\ sequence'[j] < sequence'[i] /\ Intersects(mask'[j], mask'[i]))
          BY <3>2, <3>4, <4>2, <5>2
        <5>4. QED BY <5>1, <5>3
      <4>3. QED BY <4>1, <4>2
    <3>7. \A i \in Slots : Started(i)' => blocked_by_'[i] = {}
      <4>1. \A i \in Slots : Started(i) => blocked_by_[i] = {}
        BY DEF BlockersInv
      <4>2. QED BY <3>4, <3>5, <4>1 DEF Started
    <3>8. QED BY <3>6, <3>7 DEF BlockersInv
  <2>6. CASE LaunchAdmitted
    <3>1. status[IndexOf(in_seq_)] = "Pending" /\ IndexOf(in_seq_) \in Slots
      BY <2>6 DEF LaunchAdmitted, CallService, WindowInv, TypeOK
    <3>2. QED BY <1>4, <2>6, <3>1 DEF LaunchAdmitted
  <2>7. QED BY <1>5, <2>1, <2>2, <2>3, <2>4, <2>5, <2>6 DEF OrderingLoop, Service
<1>6. CASE Stop BY <1>1, <1>6 DEF Stop, BeginCleanup, SetStop
<1>7. CASE UNCHANGED vars BY <1>1, <1>7 DEF vars
<1>8. QED BY <1>2, <1>3, <1>5, <1>6, <1>7 DEF Next

-----------------------------------------------------------------------------
(* The work handed off *)

LEMMA LaunchCompletions ==
  ASSUME TypeOK, WindowInv, CompletionsInv, UNCHANGED completions,
         NEW i \in Slots, status[i] = "Pending", Launch(i)
  PROVE  CompletionsInv'
<1>1. IndexOf(sequence[i]) = i /\ sequence[i] \notin HandedOff
      /\ \A s \in HandedOff : IndexOf(s) # i
  BY DEF WindowInv, Live, CompletionsInv
<1>2. working' = working \/ (parked_[i].kind = "Async" /\ working' = working \cup {sequence[i]})
  BY DEF Launch
<1>3. ASSUME NEW s \in HandedOff
      PROVE  status'[IndexOf(s)] = "Running" /\ sequence'[IndexOf(s)] = s
  <2>1. s \in Nat /\ IndexOf(s) \in Slots /\ IndexOf(s) # i
    BY <1>1, <1>3, HandedOffInSlots DEF CompletionsInv
  <2>2. QED BY <1>3, <2>1 DEF Launch, CompletionsInv, TypeOK
<1>4. parked_[i].kind = "Async" =>
        status'[IndexOf(sequence[i])] = "Running" /\ sequence'[IndexOf(sequence[i])] = sequence[i]
  BY <1>1 DEF Launch, TypeOK
<1>5. HandedOff' = HandedOff
      \/ (parked_[i].kind = "Async" /\ HandedOff' = HandedOff \cup {sequence[i]})
  BY <1>2 DEF HandedOff
<1>6. \A k \in 1 .. Len(completions) : completions[k] \notin working'
  BY <1>1, <1>2 DEF CompletionsInv, HandedOff
<1>7. QED BY <1>3, <1>4, <1>5, <1>6 DEF CompletionsInv

LEMMA CompletionsStep ==
  ASSUME TypeOK, WindowInv, CompletionsInv, [Next]_vars
  PROVE  CompletionsInv'
<1> USE DEF ringVars, slotVars, windowVars, loopVars, flagVars
<1>1. ASSUME UNCHANGED <<completions, working, status, sequence>> PROVE CompletionsInv'
  BY <1>1 DEF CompletionsInv, HandedOff
<1>2. ASSUME NEW e \in Emitters, Emit(e) PROVE CompletionsInv'
  BY <1>1, <1>2 DEF Emit, Enqueue, WriteEvent
<1>3. ASSUME NEW s \in working, PostCompletion(s) PROVE CompletionsInv'
  <2>1. /\ working' = working \ {s}
        /\ completions' = Append(completions, s)
        /\ Len(completions') = Len(completions) + 1 /\ Len(completions) \in Nat
        /\ completions'[Len(completions) + 1] = s
        /\ \A k \in 1 .. Len(completions) : completions'[k] = completions[k]
        /\ UNCHANGED <<status, sequence>>
    BY <1>3 DEF PostCompletion, TypeOK
  <2>2. HandedOff' = HandedOff
    BY <2>1 DEF HandedOff
  <2>3. \A k \in 1 .. Len(completions) : completions[k] # s
    BY DEF CompletionsInv
  <2>4. QED BY <2>1, <2>2, <2>3 DEF CompletionsInv
<1>4. CASE OrderingLoop
  <2>1. CASE LoopTop \/ DrainDone \/ SweepAgain \/ ServiceReturns \/ AdvanceTail
             \/ NothingToRead \/ ParkAdmitted
    BY <1>1, <2>1 DEF LoopTop, DrainDone, SweepAgain, ServiceReturns, AdvanceTail,
                      NothingToRead, ParkAdmitted
  <2>2. CASE DrainCompletion
    <3>0. PICK h \in Nat : h = Head(completions)
      BY <2>2 DEF DrainCompletion, TypeOK
    <3>1. /\ completions \in Seq(Nat) /\ completions # << >>
          /\ completions' = Tail(completions) /\ h = completions[1]
          /\ status' = [status EXCEPT ![IndexOf(h)] = "Complete"]
          /\ UNCHANGED <<working, sequence>>
      BY <2>2, <3>0 DEF DrainCompletion, TypeOK
    <3>2. /\ Len(completions) \in Nat /\ Len(completions) >= 1
          /\ Len(completions') = Len(completions) - 1
          /\ \A k \in 1 .. Len(completions') : completions'[k] = completions[k + 1]
      BY <3>1
    <3>3. h \in HandedOff
      BY <3>1, <3>2 DEF HandedOff
    <3>4. \A s \in HandedOff' : s \in HandedOff /\ s # h
      BY <3>1, <3>2 DEF HandedOff, CompletionsInv
    <3>5. ASSUME NEW s \in HandedOff'
          PROVE  status'[IndexOf(s)] = "Running" /\ sequence'[IndexOf(s)] = s
      <4>1. s \in Nat /\ IndexOf(s) \in Slots /\ IndexOf(h) \in Slots
        BY <3>3, <3>4, HandedOffInSlots
      <4>2. IndexOf(s) # IndexOf(h)
        BY <3>3, <3>4 DEF CompletionsInv
      <4>3. QED BY <3>1, <3>4, <4>1, <4>2 DEF CompletionsInv, TypeOK
    <3>6. \A k \in 1 .. Len(completions') : completions'[k] \notin working
      BY <3>2 DEF CompletionsInv
    <3>7. \A k, l \in 1 .. Len(completions') : completions'[k] = completions'[l] => k = l
      BY <3>2 DEF CompletionsInv
    <3>8. QED BY <3>1, <3>5, <3>6, <3>7 DEF CompletionsInv
  <2>3. ASSUME NEW i \in Slots, ServiceLaunch(i) PROVE CompletionsInv'
    BY <2>3, LaunchCompletions DEF ServiceLaunch
  <2>4. ASSUME NEW i \in Slots, ServiceCommit(i) PROVE CompletionsInv'
    <3>1. status[i] = "Complete" /\ status' = [status EXCEPT ![i] = "Empty"]
          /\ UNCHANGED <<completions, working, sequence>>
      BY <2>4 DEF ServiceCommit
    <3>2. \A s \in HandedOff : IndexOf(s) \in Slots /\ IndexOf(s) # i
      BY <3>1, HandedOffInSlots DEF CompletionsInv
    <3>3. HandedOff' = HandedOff
      BY <3>1 DEF HandedOff
    <3>4. QED BY <3>1, <3>2, <3>3 DEF CompletionsInv, TypeOK
  <2>5. CASE Admit
    <3>0. PICK n \in Slots : n = IndexOf(in_seq_)
      BY IndexInRange DEF TypeOK
    <3>1. /\ status' = [status EXCEPT ![n] = "Pending"]
          /\ sequence' = [sequence EXCEPT ![n] = in_seq_]
          /\ UNCHANGED <<completions, working>>
          /\ lpc = "read"
      BY <2>5, <3>0 DEF Admit, Acquire
    <3>2. ~Live(n)
      BY <3>0, <3>1, AdmittedSlotFree
    <3>3. \A s \in HandedOff : IndexOf(s) \in Slots /\ IndexOf(s) # n
      BY <3>2, HandedOffInSlots DEF CompletionsInv, Live
    <3>4. HandedOff' = HandedOff
      BY <3>1 DEF HandedOff
    <3>5. QED BY <3>1, <3>3, <3>4 DEF CompletionsInv, TypeOK
  <2>6. CASE LaunchAdmitted
    <3>1. status[IndexOf(in_seq_)] = "Pending" /\ IndexOf(in_seq_) \in Slots
      BY <2>6, IndexInRange DEF LaunchAdmitted, CallService, WindowInv, TypeOK
    <3>2. QED BY <2>6, <3>1, LaunchCompletions DEF LaunchAdmitted
  <2>7. QED BY <1>4, <2>1, <2>2, <2>3, <2>4, <2>5, <2>6 DEF OrderingLoop, Service
<1>5. CASE Stop BY <1>1, <1>5 DEF Stop, BeginCleanup, SetStop
<1>6. CASE UNCHANGED vars BY <1>1, <1>6 DEF vars
<1>7. QED BY <1>2, <1>3, <1>4, <1>5, <1>6 DEF Next

-----------------------------------------------------------------------------
LEMMA StreamInvariant == Spec => []StreamInv
<1>1. Init => StreamInv
  BY StreamAssumption
     DEF Init, StreamInv, TypeOK, WindowInv, BlockersInv, CompletionsInv, HandedOff,
         Live, Started, Admitting, NextSeq, Slots, Events
<1>2. StreamInv /\ [Next]_vars => StreamInv'
  BY TypeStep, WindowStep, BlockersStep, CompletionsStep DEF StreamInv
<1>3. QED BY <1>1, <1>2, PTL DEF Spec

\* Type correctness, for any number of emitters, masks and slots.
THEOREM StreamTypeCorrect == Spec => []TypeOK
<1>1. StreamInv => TypeOK BY DEF StreamInv
<1>2. QED BY <1>1, StreamInvariant, PTL

\* Events whose masks meet never run at the same time, for any masks, any depth
\* of the window and any mix of inline, handed-off and dropped handlers. The
\* argument: of two live slots whose masks meet the later one has the earlier
\* one in its blocked_by_, and a slot starts only when that is empty.
THEOREM ConflictsNeverConcurrent == Spec => []NeverConcurrent
<1>1. StreamInv => NeverConcurrent
  <2> SUFFICES ASSUME StreamInv, NEW i \in Slots, NEW j \in Slots, i # j,
                      Started(i), Started(j), Intersects(mask[i], mask[j])
               PROVE  FALSE
    BY DEF NeverConcurrent
  <2>1. Live(i) /\ Live(j) /\ Intersects(mask[j], mask[i])
    BY DEF Started, Live, Intersects
  <2>2. sequence[i] # sequence[j] /\ sequence[i] \in Nat /\ sequence[j] \in Nat
    BY <2>1 DEF StreamInv, WindowInv, TypeOK
  <2>3. ~(sequence[j] < sequence[i]) /\ ~(sequence[i] < sequence[j])
    BY <2>1 DEF StreamInv, BlockersInv
  <2>4. QED BY <2>2, <2>3
<1>2. QED BY <1>1, StreamInvariant, PTL

-----------------------------------------------------------------------------
(* The sweep *)

\* A sweep that has done nothing has not moved past a slot it could serve, and
\* outside service() and what leads to it there is none.
SweepInv ==
  /\ lpc = "service" /\ ~progress => at = 0
  /\ lpc \in {"top", "window", "read"} => Serviceable = {}

LEMMA SweepStep ==
  ASSUME TypeOK, SweepInv, [Next]_vars
  PROVE  SweepInv'
<1> USE DEF ringVars, slotVars, windowVars, loopVars, flagVars
<1>1. ASSUME UNCHANGED <<slotVars, loopVars>> PROVE SweepInv'
  BY <1>1 DEF SweepInv, Serviceable, Blocked
<1>2. ASSUME UNCHANGED slotVars, lpc # "service", lpc' \notin {"service", "top", "window", "read"}
      PROVE  SweepInv'
  BY <1>2 DEF SweepInv
<1>3. ASSUME UNCHANGED slotVars, lpc \in {"window", "read"}, lpc' # "service"
      PROVE  SweepInv'
  BY <1>3 DEF SweepInv, Serviceable, Blocked
<1>4. ASSUME lpc' = "service", at' = 0 PROVE SweepInv'
  BY <1>4 DEF SweepInv
<1>5. ASSUME NEW i \in Slots, Visits(i) PROVE SweepInv'
  BY <1>5 DEF SweepInv, Visits
<1>6. CASE ServiceReturns
  <2>1. lpc = "service" /\ ~progress /\ at = 0 /\ \A i \in Serviceable : i < at
    BY <1>6 DEF ServiceReturns, SweepDone, SweepInv
  <2>2. \A i \in Slots : i >= 0 /\ i \in Int
    BY DEF Slots
  <2>3. Serviceable = {}
    BY <2>1, <2>2 DEF Serviceable
  <2>4. UNCHANGED slotVars /\ lpc' \in {"window", "top"}
    BY <1>6 DEF ServiceReturns, TypeOK
  <2>5. QED BY <2>3, <2>4 DEF SweepInv, Serviceable, Blocked
<1>7. CASE OrderingLoop
  <2>1. CASE LoopTop BY <1>2, <2>1 DEF LoopTop
  <2>2. CASE DrainCompletion BY <2>2 DEF DrainCompletion, SweepInv
  <2>3. CASE DrainDone \/ LaunchAdmitted \/ ParkAdmitted
    BY <1>4, <2>3 DEF DrainDone, LaunchAdmitted, ParkAdmitted, CallService
  <2>4. ASSUME NEW i \in Slots, ServiceLaunch(i) \/ ServiceCommit(i) PROVE SweepInv'
    BY <1>5, <2>4 DEF ServiceLaunch, ServiceCommit
  <2>5. CASE SweepAgain BY <1>4, <2>5 DEF SweepAgain, SweepDone
  <2>6. CASE AdvanceTail BY <1>3, <2>6 DEF AdvanceTail
  <2>7. CASE NothingToRead BY <1>3, <2>7 DEF NothingToRead
  <2>8. CASE Admit BY <2>8 DEF Admit, SweepInv
  <2>9. QED BY <1>6, <1>7, <2>1, <2>2, <2>3, <2>4, <2>5, <2>6, <2>7, <2>8
            DEF OrderingLoop, Service
<1>8. CASE \/ \E e \in Emitters : Emit(e)
           \/ \E s \in working : PostCompletion(s)
           \/ Stop
           \/ UNCHANGED vars
  BY <1>1, <1>8 DEF Emit, Enqueue, WriteEvent, PostCompletion, Stop, BeginCleanup, SetStop, vars
<1>9. QED BY <1>7, <1>8 DEF Next

\* The loop never goes round with a slot it could have started or committed, for
\* any depth of the window (service()'s sweeps until one does nothing).
THEOREM NoPassIsMissed == Spec => []NothingLeftIdle
<1>1. Init => SweepInv
  BY DEF Init, SweepInv, Serviceable
<1>2. StreamInv /\ SweepInv /\ [Next]_vars => SweepInv'
  BY SweepStep DEF StreamInv
<1>3. SweepInv => NothingLeftIdle
  BY DEF SweepInv, NothingLeftIdle
<1>4. QED BY <1>1, <1>2, <1>3, StreamInvariant, PTL DEF Spec

-----------------------------------------------------------------------------
(* The emitters that wait *)

\* What is in the ring and what is in a live slot are the events of different
\* emitters, each of which waits, and every emitter that waits has one there.
WaitersInv ==
  /\ \A k \in 1 .. Len(input) : emitter[input[k].emitter] = "waiting"
  /\ \A k, l \in 1 .. Len(input) : input[k].emitter = input[l].emitter => k = l
  /\ \A i \in Slots : Live(i) => emitter[parked_[i].emitter] = "waiting"
  /\ \A i, j \in Slots :
        Live(i) /\ Live(j) /\ parked_[i].emitter = parked_[j].emitter => i = j
  /\ \A k \in 1 .. Len(input), i \in Slots :
        Live(i) => input[k].emitter # parked_[i].emitter
  /\ \A e \in Emitters : emitter[e] = "waiting" =>
        \/ \E k \in 1 .. Len(input) : input[k].emitter = e
        \/ \E i \in Slots : Live(i) /\ parked_[i].emitter = e

LEMMA InputEmitters ==
  ASSUME TypeOK
  PROVE  \A k \in 1 .. Len(input) : input[k].emitter \in Emitters
<1>1. \A k \in 1 .. Len(input) : input[k] \in Events
  BY DEF TypeOK
<1>2. QED BY <1>1 DEF Events

\* A slot that is left, its emitter released.
LEMMA ReleaseWaiters ==
  ASSUME TypeOK, WindowInv, WaitersInv, NEW i \in Slots, Live(i),
         status' = [status EXCEPT ![i] = "Empty"],
         Release(parked_[i].emitter), UNCHANGED <<input, parked_>>
  PROVE  WaitersInv'
<1> DEFINE e == parked_[i].emitter
<1>1. e \in Emitters
  BY LaunchesParked DEF Events
<1>2. emitter'[e] = "idle" /\ \A f \in Emitters \ {e} : emitter'[f] = emitter[f]
  BY <1>1 DEF Release, TypeOK
<1>3. ~Live(i)' /\ \A j \in Slots \ {i} : Live(j)' = Live(j)
  BY DEF Live, TypeOK
<1>4. \A k \in 1 .. Len(input) : input[k].emitter \in Emitters /\ input[k].emitter # e
  BY InputEmitters DEF WaitersInv
<1>5. \A j \in Slots : Live(j) /\ j # i => parked_[j].emitter \in Emitters \ {e}
  BY LaunchesParked DEF Events, WaitersInv
<1> HIDE DEF e
<1>6. ASSUME NEW f \in Emitters, emitter'[f] = "waiting"
      PROVE  \/ \E k \in 1 .. Len(input) : input[k].emitter = f
             \/ \E j \in Slots : Live(j)' /\ parked_[j].emitter = f
  <2>1. f # e /\ emitter[f] = "waiting"
    BY <1>2, <1>6
  <2>2. \A j \in Slots : Live(j) /\ parked_[j].emitter = f => j # i
    BY <2>1 DEF e
  <2>3. QED BY <1>3, <2>1, <2>2 DEF WaitersInv
<1>7. QED BY <1>2, <1>3, <1>4, <1>5, <1>6 DEF WaitersInv

\* A slot that is started, finished or left is one emitter's all the while.
LEMMA LaunchWaiters ==
  ASSUME TypeOK, WindowInv, WaitersInv, NEW i \in Slots, Live(i), Launch(i), UNCHANGED input
  PROVE  WaitersInv'
<1>1. CASE parked_[i].kind \in {"Inline", "Async"}
  <2>1. UNCHANGED <<emitter, parked_>> /\ \A j \in Slots : Live(j)' = Live(j)
    BY <1>1 DEF Launch, Live, TypeOK
  <2>2. QED BY <2>1 DEF WaitersInv
<1>2. CASE parked_[i].kind = "Drop"
  BY <1>2, ReleaseWaiters DEF Launch
<1>3. QED BY <1>1, <1>2 DEF Launch

LEMMA WaitersStep ==
  ASSUME TypeOK, WindowInv, CompletionsInv, WaitersInv, [Next]_vars
  PROVE  WaitersInv'
<1> USE DEF ringVars, slotVars, windowVars, loopVars, flagVars
<1>1. ASSUME UNCHANGED <<input, status, parked_, emitter>> PROVE WaitersInv'
  BY <1>1 DEF WaitersInv, Live
<1>2. ASSUME NEW e \in Emitters, Emit(e) PROVE WaitersInv'
  <2>0. /\ \A k \in 1 .. Len(input) : input[k].emitter \in Emitters
        /\ \A i \in Slots : Live(i) => parked_[i].emitter \in Emitters
        /\ \A i \in Slots : Live(i)' = Live(i)
        /\ UNCHANGED parked_
    <3>1. UNCHANGED slotVars
      BY <1>2 DEF Emit, Enqueue, WriteEvent
    <3>2. \A i \in Slots : Live(i) => parked_[i].emitter \in Emitters
      BY LaunchesParked DEF Events
    <3>3. QED BY <3>1, <3>2, InputEmitters DEF Live
  <2>1. CASE Enqueue(e)
    <3>1. /\ emitter[e] # "waiting" /\ emitter'[e] # "waiting"
          /\ \A f \in Emitters \ {e} : emitter'[f] = emitter[f]
          /\ UNCHANGED input
      BY <2>1 DEF Enqueue, TypeOK
    <3>2. QED BY <2>0, <3>1 DEF WaitersInv
  <2>2. CASE WriteEvent(e)
    <3>1. PICK ev \in Events : ev.emitter = e /\ input' = Append(input, ev)
      BY <2>2 DEF WriteEvent
    <3>2. PICK n \in Nat : n = Len(input)
      BY DEF TypeOK
    <3>3. /\ Len(input') = n + 1 /\ input'[n + 1].emitter = e
          /\ \A k \in 1 .. n : input'[k] = input[k]
      BY <3>1, <3>2 DEF TypeOK
    <3>4. /\ emitter[e] # "waiting" /\ emitter'[e] = "waiting"
          /\ \A f \in Emitters \ {e} : emitter'[f] = emitter[f]
      BY <2>2 DEF WriteEvent, TypeOK
    <3>5. /\ \A k \in 1 .. n : input[k].emitter # e
          /\ \A i \in Slots : Live(i) => parked_[i].emitter # e
      BY <3>2, <3>4 DEF WaitersInv
    <3>6. /\ \A k \in 1 .. n + 1 : k = n + 1 \/ k \in 1 .. n
          /\ n + 1 \in 1 .. n + 1 /\ \A k \in 1 .. n : k \in 1 .. n + 1
      BY <3>2
    <3>7. ASSUME NEW f \in Emitters, emitter'[f] = "waiting"
          PROVE  \/ \E k \in 1 .. n + 1 : input'[k].emitter = f
                 \/ \E i \in Slots : Live(i) /\ parked_[i].emitter = f
      BY <3>2, <3>3, <3>4, <3>6, <3>7 DEF WaitersInv
    <3>8. \A k \in 1 .. n + 1 : emitter'[input'[k].emitter] = "waiting"
      BY <2>0, <3>2, <3>3, <3>4, <3>6 DEF WaitersInv
    <3>9. \A k, l \in 1 .. n + 1 : input'[k].emitter = input'[l].emitter => k = l
      BY <3>2, <3>3, <3>5, <3>6 DEF WaitersInv
    <3>10. \A k \in 1 .. n + 1, i \in Slots : Live(i) => input'[k].emitter # parked_[i].emitter
      BY <3>2, <3>3, <3>5, <3>6 DEF WaitersInv
    <3>11. \A i \in Slots : Live(i) => emitter'[parked_[i].emitter] = "waiting"
      BY <2>0, <3>4 DEF WaitersInv
    <3>12. QED BY <2>0, <3>3, <3>7, <3>8, <3>9, <3>10, <3>11 DEF WaitersInv
  <2>3. QED BY <1>2, <2>1, <2>2 DEF Emit
<1>3. CASE OrderingLoop
  <2>1. CASE LoopTop \/ DrainDone \/ SweepAgain \/ ServiceReturns \/ AdvanceTail
             \/ NothingToRead \/ ParkAdmitted
    BY <1>1, <2>1 DEF LoopTop, DrainDone, CallService, SweepAgain, ServiceReturns, AdvanceTail,
                      NothingToRead, ParkAdmitted
  <2>2. CASE DrainCompletion
    <3>1. Head(completions) \in HandedOff
      BY <2>2, HeadHandedOff DEF DrainCompletion
    <3>2. IndexOf(Head(completions)) \in Slots /\ status[IndexOf(Head(completions))] = "Running"
      BY <3>1, HandedOffInSlots DEF CompletionsInv
    <3>3. UNCHANGED <<input, parked_, emitter>> /\ \A i \in Slots : Live(i)' = Live(i)
      BY <2>2, <3>2 DEF DrainCompletion, Live, TypeOK
    <3>4. QED BY <3>3 DEF WaitersInv
  <2>3. ASSUME NEW i \in Slots, ServiceLaunch(i) PROVE WaitersInv'
    BY <2>3, LaunchWaiters DEF ServiceLaunch, Live
  <2>4. ASSUME NEW i \in Slots, ServiceCommit(i) PROVE WaitersInv'
    BY <2>4, ReleaseWaiters DEF ServiceCommit, Live
  <2>5. CASE Admit
    <3>1. PICK n \in Slots : n = IndexOf(in_seq_)
      BY IndexInRange DEF TypeOK
    <3>2. ~Live(n)
      BY <2>5, <3>1, AdmittedSlotFree DEF Admit
    <3>3. PICK m \in Nat : m = Len(input) - 1
      <4>1. input \in Seq(Events) /\ input # << >>
        BY <2>5 DEF Admit, TypeOK
      <4>2. Len(input) - 1 \in Nat
        BY <4>1
      <4>3. QED BY <4>2
    <3>4. /\ Len(input) = m + 1 /\ Len(input') = m
          /\ \A k \in 1 .. m : input'[k] = input[k + 1]
          /\ Head(input) = input[1] /\ UNCHANGED emitter
      BY <2>5, <3>3 DEF Admit, TypeOK
    <3>5. /\ Live(n)' /\ parked_'[n] = input[1]
          /\ \A i \in Slots \ {n} : Live(i)' = Live(i) /\ parked_'[i] = parked_[i]
      BY <2>5, <3>1, <3>4 DEF Admit, Acquire, Live, TypeOK
    <3>6. /\ 1 \in 1 .. m + 1
          /\ \A k \in 1 .. m : k + 1 \in 1 .. m + 1 /\ k + 1 # 1 /\ k \in Int
          /\ \A k \in 1 .. m + 1 : k = 1 \/ \E l \in 1 .. m : k = l + 1
      <4>1. \A k \in 1 .. m + 1 : k = 1 \/ (k - 1 \in 1 .. m /\ k = (k - 1) + 1)
        BY <3>3
      <4>2. QED BY <3>3, <4>1
    <3>7. ASSUME NEW f \in Emitters, emitter[f] = "waiting"
          PROVE  \/ \E k \in 1 .. m : input'[k].emitter = f
                 \/ \E i \in Slots : Live(i)' /\ parked_'[i].emitter = f
      <4>1. CASE \E k \in 1 .. m + 1 : input[k].emitter = f
        <5>1. PICK k \in 1 .. m + 1 : input[k].emitter = f
          BY <4>1
        <5>2. CASE k = 1 BY <3>5, <5>1, <5>2
        <5>3. CASE k # 1
          <6>1. PICK l \in 1 .. m : k = l + 1
            BY <3>6, <5>3
          <6>2. QED BY <3>4, <5>1, <6>1
        <5>4. QED BY <5>2, <5>3
      <4>2. CASE \E i \in Slots : Live(i) /\ parked_[i].emitter = f
        BY <3>2, <3>5, <4>2
      <4>3. QED BY <3>4, <3>7, <4>1, <4>2 DEF WaitersInv
    <3>8. \A k \in 1 .. m : emitter[input'[k].emitter] = "waiting"
      BY <3>4, <3>6 DEF WaitersInv
    <3>9. \A k, l \in 1 .. m : input'[k].emitter = input'[l].emitter => k = l
      <4>1. \A k, l \in 1 .. m : input'[k].emitter = input'[l].emitter => k + 1 = l + 1
        BY <3>4, <3>6 DEF WaitersInv
      <4>2. QED BY <3>6, <4>1
    <3>10. \A i \in Slots : Live(i)' => emitter[parked_'[i].emitter] = "waiting"
      BY <3>4, <3>5, <3>6 DEF WaitersInv
    <3>11. \A i, j \in Slots :
              Live(i)' /\ Live(j)' /\ parked_'[i].emitter = parked_'[j].emitter => i = j
      <4>1. \A i \in Slots \ {n} : Live(i)' => parked_'[i].emitter # parked_'[n].emitter
        BY <3>4, <3>5, <3>6 DEF WaitersInv
      <4>2. \A i, j \in Slots \ {n} :
              Live(i)' /\ Live(j)' /\ parked_'[i].emitter = parked_'[j].emitter => i = j
        BY <3>5 DEF WaitersInv
      <4>3. QED BY <4>1, <4>2
    <3>12. \A k \in 1 .. m, i \in Slots : Live(i)' => input'[k].emitter # parked_'[i].emitter
      <4>1. \A k \in 1 .. m : input'[k].emitter # parked_'[n].emitter
        BY <3>4, <3>5, <3>6 DEF WaitersInv
      <4>2. \A k \in 1 .. m, i \in Slots \ {n} :
              Live(i)' => input'[k].emitter # parked_'[i].emitter
        BY <3>4, <3>5, <3>6 DEF WaitersInv
      <4>3. QED BY <4>1, <4>2
    <3>13. QED BY <3>4, <3>7, <3>8, <3>9, <3>10, <3>11, <3>12 DEF WaitersInv
  <2>6. CASE LaunchAdmitted
    <3>1. Live(IndexOf(in_seq_)) /\ IndexOf(in_seq_) \in Slots
      BY <2>6, IndexInRange DEF LaunchAdmitted, CallService, WindowInv, Live, TypeOK
    <3>2. QED BY <2>6, <3>1, LaunchWaiters DEF LaunchAdmitted
  <2>7. QED BY <1>3, <2>1, <2>2, <2>3, <2>4, <2>5, <2>6 DEF OrderingLoop, Service
<1>4. CASE \/ \E s \in working : PostCompletion(s)
           \/ Stop
           \/ UNCHANGED vars
  BY <1>1, <1>4 DEF PostCompletion, Stop, BeginCleanup, SetStop, vars
<1>5. QED BY <1>2, <1>3, <1>4 DEF Next

\* Every emitter that waits has exactly one event in the ring or in a slot, and
\* nobody else has one: no release is lost or given twice when slots are reused,
\* dropped or committed, for any emitters and any depth.
THEOREM NoReleaseIsLost == Spec => []WaitersAccounted
<1>1. Init => WaitersInv
  BY DEF Init, WaitersInv, Live
<1>2. StreamInv /\ WaitersInv /\ [Next]_vars => WaitersInv'
  BY WaitersStep DEF StreamInv
<1>3. StreamInv /\ WaitersInv => WaitersAccounted
  <2> SUFFICES ASSUME StreamInv, WaitersInv, NEW e \in Emitters
               PROVE  Cardinality({k \in 1 .. Len(input) : input[k].emitter = e})
                        + Cardinality({i \in Slots : Live(i) /\ parked_[i].emitter = e})
                      = IF emitter[e] = "waiting" THEN 1 ELSE 0
    BY DEF WaitersAccounted
  <2> DEFINE inRing == {k \in 1 .. Len(input) : input[k].emitter = e}
             inSlot == {i \in Slots : Live(i) /\ parked_[i].emitter = e}
  <2>1. CASE emitter[e] # "waiting"
    <3>1. inRing = {} /\ inSlot = {}
      BY <2>1 DEF WaitersInv
    <3>2. Cardinality(inRing) = 0 /\ Cardinality(inSlot) = 0
      BY <3>1, FS_EmptySet
    <3> HIDE DEF inRing, inSlot
    <3>3. Cardinality(inRing) + Cardinality(inSlot) = 0
      BY <3>2
    <3>4. QED BY <2>1, <3>3 DEF inRing, inSlot
  <2>2. ASSUME emitter[e] = "waiting", NEW k \in inRing
        PROVE  Cardinality(inRing) + Cardinality(inSlot) = 1
    <3>1. inRing = {k} /\ inSlot = {}
      BY <2>2 DEF WaitersInv
    <3>2. Cardinality(inRing) = 1 /\ Cardinality(inSlot) = 0
      BY <3>1, FS_EmptySet, FS_Singleton
    <3>3. QED BY <3>2
  <2>3. ASSUME emitter[e] = "waiting", inRing = {}, NEW i \in inSlot
        PROVE  Cardinality(inRing) + Cardinality(inSlot) = 1
    <3>1. inSlot = {i}
      BY <2>3 DEF WaitersInv
    <3>2. Cardinality(inRing) = 0 /\ Cardinality(inSlot) = 1
      BY <2>3, <3>1, FS_EmptySet, FS_Singleton
    <3>3. QED BY <3>2
  <2>4. emitter[e] = "waiting" => inRing # {} \/ inSlot # {}
    BY DEF WaitersInv
  <2>5. QED BY <2>1, <2>2, <2>3, <2>4
<1>4. QED BY <1>1, <1>2, <1>3, StreamInvariant, PTL DEF Spec

-----------------------------------------------------------------------------
(* The refinement *)

\* What the mapping of Dispatch makes of a slot, and of all of them.
EventOf(i) == [seq |-> sequence[i], mask |-> mask[i], phase |-> Phase(i)]
LiveEvents == {EventOf(i) : i \in {j \in Slots : Live(j)}}

\* No two slots hold the same event.
LEMMA EventsDistinct ==
  ASSUME WindowInv, NEW i \in Slots, NEW j \in Slots, Live(i), Live(j),
         EventOf(i) = EventOf(j)
  PROVE  i = j
<1>1. sequence[i] = sequence[j]
  BY DEF EventOf
<1>2. QED BY <1>1 DEF WindowInv

LEMMA SlotMoves ==
  ASSUME TypeOK, WindowInv, UNCHANGED <<sequence, mask>>,
         NEW i \in Slots, Live(i),
         NEW s \in {"Running", "Complete"}, status' = [status EXCEPT ![i] = s]
  PROVE  LiveEvents' = (LiveEvents \ {EventOf(i)}) \cup
            {[EventOf(i) EXCEPT !.phase = IF s = "Running" THEN "started" ELSE "finished"]}
<1> DEFINE moved == [EventOf(i) EXCEPT !.phase = IF s = "Running" THEN "started" ELSE "finished"]
<1>1. Live(i)' /\ \A j \in Slots \ {i} : Live(j)' = Live(j)
  BY DEF Live, TypeOK
<1>2. \A j \in Slots \ {i} : EventOf(j)' = EventOf(j)
  BY DEF EventOf, Phase, TypeOK
<1>3. EventOf(i)' = moved
  <2>1. Phase(i)' = IF s = "Running" THEN "started" ELSE "finished"
    BY DEF Phase, TypeOK
  <2>2. QED BY <2>1 DEF EventOf
<1> HIDE DEF moved
<1>4. \A j \in Slots \ {i} : Live(j) => EventOf(j) # EventOf(i)
  BY EventsDistinct
<1>5. LiveEvents' = {EventOf(j)' : j \in {j \in Slots : Live(j)'}}
  BY DEF LiveEvents
<1>6. LiveEvents' = (LiveEvents \ {EventOf(i)}) \cup {moved}
  BY <1>1, <1>2, <1>3, <1>4, <1>5 DEF LiveEvents
<1>7. QED BY <1>6 DEF moved

LEMMA SlotEmpties ==
  ASSUME TypeOK, WindowInv, UNCHANGED <<sequence, mask>>,
         NEW i \in Slots, Live(i), status' = [status EXCEPT ![i] = "Empty"]
  PROVE  LiveEvents' = LiveEvents \ {EventOf(i)}
<1>1. ~Live(i)' /\ \A j \in Slots \ {i} : Live(j)' = Live(j)
  BY DEF Live, TypeOK
<1>2. \A j \in Slots \ {i} : EventOf(j)' = EventOf(j)
  BY DEF EventOf, Phase, TypeOK
<1>3. \A j \in Slots \ {i} : Live(j) => EventOf(j) # EventOf(i)
  BY EventsDistinct
<1>4. LiveEvents' = {EventOf(j)' : j \in {j \in Slots : Live(j)'}}
  BY DEF LiveEvents
<1>5. QED BY <1>1, <1>2, <1>3, <1>4 DEF LiveEvents

LEMMA StepOfSlot ==
  ASSUME NEW i \in Slots, Live(i),
         \/ Dispatch!Start(EventOf(i))
         \/ Dispatch!Finish(EventOf(i))
         \/ Dispatch!Commit(EventOf(i))
  PROVE  Dispatch!Next
<1>1. EventOf(i) \in LiveEvents
  BY DEF LiveEvents
<1>2. LiveEvents = {[seq |-> sequence[j], mask |-> mask[j], phase |-> Phase(j)] :
                        j \in {k \in Slots : Live(k)}}
  BY DEF LiveEvents, EventOf
<1>3. (\E e \in LiveEvents : Dispatch!Start(e) \/ Dispatch!Finish(e) \/ Dispatch!Commit(e))
        => Dispatch!Next
  BY <1>2, Zenon DEF Dispatch!Next
<1>4. \E e \in LiveEvents : Dispatch!Start(e) \/ Dispatch!Finish(e) \/ Dispatch!Commit(e)
  BY <1>1, Zenon DEF Dispatch!Start, Dispatch!Finish, Dispatch!Commit, Dispatch!MayStart,
                     Dispatch!Move, Dispatch!Leave
<1>5. QED BY <1>3, <1>4

\* Starting a slot that nothing blocks is a Start: whatever its mask meets came
\* after it.
LEMMA LaunchStarts ==
  ASSUME TypeOK, WindowInv, BlockersInv, NextSeq' = NextSeq,
         NEW i \in Slots, status[i] = "Pending", ~Blocked(i), Launch(i)
  PROVE  Dispatch!Next
<1> DEFINE e == EventOf(i)
<1>1. Live(i) /\ e \in LiveEvents
  BY DEF Live, LiveEvents
<1>2. e.phase = "waiting" /\ e.seq = sequence[i] /\ e.mask = mask[i]
  BY DEF EventOf, Phase
<1>3. ASSUME NEW f \in LiveEvents, f.mask \cap e.mask # {}
      PROVE  f.seq >= e.seq
  <2>1. PICK j \in Slots : Live(j) /\ f = EventOf(j)
    BY DEF LiveEvents
  <2>2. f.mask = mask[j] /\ f.seq = sequence[j]
    BY <2>1 DEF EventOf
  <2>3. sequence[i] \in Nat /\ sequence[j] \in Nat
    BY DEF TypeOK
  <2>4. ~(sequence[j] < sequence[i])
    BY <1>1, <1>2, <1>3, <2>1, <2>2 DEF BlockersInv, Blocked, Intersects
  <2>5. QED BY <1>2, <2>2, <2>3, <2>4
<1>4. Dispatch!MayStart(e)
  BY <1>2, <1>3 DEF Dispatch!MayStart, LiveEvents, EventOf
<1>5. CASE parked_[i].kind = "Inline"
  <2>1. LiveEvents' = (LiveEvents \ {e}) \cup {[e EXCEPT !.phase = "finished"]}
    BY <1>1, <1>5, SlotMoves DEF Launch
  <2>2. Dispatch!Move(e, "finished")
    BY <2>1 DEF Dispatch!Move, LiveEvents, EventOf
  <2>3. Dispatch!Start(e)
    BY <1>4, <2>2, Zenon DEF Dispatch!Start
  <2>4. QED BY <1>1, <2>3, StepOfSlot
<1>6. CASE parked_[i].kind = "Async"
  <2>1. LiveEvents' = (LiveEvents \ {e}) \cup {[e EXCEPT !.phase = "started"]}
    BY <1>1, <1>6, SlotMoves DEF Launch
  <2>2. Dispatch!Move(e, "started")
    BY <2>1 DEF Dispatch!Move, LiveEvents, EventOf
  <2>3. Dispatch!Start(e)
    BY <1>4, <2>2, Zenon DEF Dispatch!Start
  <2>4. QED BY <1>1, <2>3, StepOfSlot
<1>7. CASE parked_[i].kind = "Drop"
  <2>1. LiveEvents' = LiveEvents \ {e}
    BY <1>1, <1>7, SlotEmpties DEF Launch
  <2>2. Dispatch!Leave(e)
    BY <2>1 DEF Dispatch!Leave, LiveEvents, EventOf
  <2>3. Dispatch!Start(e)
    BY <1>4, <2>2, Zenon DEF Dispatch!Start
  <2>4. QED BY <1>1, <2>3, StepOfSlot
<1>8. QED BY <1>5, <1>6, <1>7 DEF Launch

LEMMA DispatchStep ==
  ASSUME StreamInv, [Next]_vars
  PROVE  [Dispatch!Next]_(Dispatch!vars)
<1> USE DEF StreamInv, ringVars, slotVars, windowVars, loopVars, flagVars
<1>1. ASSUME UNCHANGED <<status, sequence, mask>>, NextSeq' = NextSeq
      PROVE  UNCHANGED Dispatch!vars
  BY <1>1 DEF Dispatch!vars, Live, Phase
<1>2. CASE OrderingLoop
  <2>1. CASE LoopTop \/ DrainDone \/ SweepAgain \/ AdvanceTail \/ NothingToRead \/ ParkAdmitted
    <3>1. UNCHANGED <<status, sequence, mask, in_seq_>>
      BY <2>1 DEF LoopTop, DrainDone, SweepAgain, AdvanceTail, NothingToRead, ParkAdmitted
    <3>2. Admitting' = Admitting
      BY <2>1 DEF LoopTop, DrainDone, CallService, SweepAgain, SweepDone, AdvanceTail,
                  NothingToRead, ParkAdmitted, Admitting
    <3>3. QED BY <1>1, <3>1, <3>2 DEF NextSeq
  <2>2. CASE ServiceReturns
    BY <1>1, <2>2 DEF ServiceReturns, SweepDone, NextSeq, Admitting, TypeOK
  <2>3. CASE DrainCompletion
    <3>1. PICK i \in Slots : i = IndexOf(Head(completions)) /\ status[i] = "Running"
      <4>1. Head(completions) \in HandedOff
        BY <2>3, HeadHandedOff DEF DrainCompletion
      <4>2. QED BY <4>1, HandedOffInSlots DEF CompletionsInv
    <3>2. /\ status' = [status EXCEPT ![i] = "Complete"]
          /\ UNCHANGED <<sequence, mask>> /\ NextSeq' = NextSeq
      BY <2>3, <3>1 DEF DrainCompletion, NextSeq, Admitting
    <3>3. Live(i) /\ EventOf(i) \in LiveEvents /\ EventOf(i).phase = "started"
      BY <3>1 DEF Live, LiveEvents, EventOf, Phase
    <3>4. LiveEvents' = (LiveEvents \ {EventOf(i)}) \cup {[EventOf(i) EXCEPT !.phase = "finished"]}
      BY <3>2, <3>3, SlotMoves
    <3>5. Dispatch!Finish(EventOf(i))
      BY <3>2, <3>3, <3>4 DEF Dispatch!Finish, Dispatch!Move, LiveEvents, EventOf
    <3>6. Dispatch!Next
      BY <3>3, <3>5, StepOfSlot
    <3>7. QED BY <3>6
  <2>4. ASSUME NEW i \in Slots, ServiceLaunch(i) PROVE Dispatch!Next
    <3>1. NextSeq' = NextSeq
      BY <2>4 DEF ServiceLaunch, Visits, NextSeq, Admitting
    <3>2. QED BY <2>4, <3>1, LaunchStarts DEF ServiceLaunch, Visits, Serviceable
  <2>5. ASSUME NEW i \in Slots, ServiceCommit(i) PROVE Dispatch!Next
    <3>1. /\ status[i] = "Complete" /\ status' = [status EXCEPT ![i] = "Empty"]
          /\ UNCHANGED <<sequence, mask>> /\ NextSeq' = NextSeq
      BY <2>5 DEF ServiceCommit, Visits, NextSeq, Admitting
    <3>2. Live(i) /\ EventOf(i) \in LiveEvents /\ EventOf(i).phase = "finished"
      BY <3>1 DEF Live, LiveEvents, EventOf, Phase
    <3>3. LiveEvents' = LiveEvents \ {EventOf(i)}
      BY <3>1, <3>2, SlotEmpties
    <3>4. Dispatch!Commit(EventOf(i))
      BY <3>1, <3>2, <3>3 DEF Dispatch!Commit, Dispatch!Leave, LiveEvents, EventOf
    <3>5. QED BY <3>2, <3>4, StepOfSlot
  <2>6. CASE Admit
    <3>1. PICK n \in Slots : n = IndexOf(in_seq_)
      BY IndexInRange DEF TypeOK
    <3>2. PICK m \in Masks : m = Head(input).mask
      <4>1. Head(input) \in Events
        BY <2>6 DEF Admit, TypeOK
      <4>2. QED BY <4>1 DEF Events
    <3>3. /\ status' = [status EXCEPT ![n] = "Pending"]
          /\ sequence' = [sequence EXCEPT ![n] = in_seq_]
          /\ mask' = [mask EXCEPT ![n] = m]
          /\ lpc = "read" /\ lpc' = "admitted" /\ in_seq_' = in_seq_
      BY <2>6, <3>1, <3>2 DEF Admit, Acquire
    <3>4. ~Live(n)
      BY <3>1, <3>3, AdmittedSlotFree
    <3>5. NextSeq = in_seq_ /\ NextSeq' = in_seq_ + 1
      BY <3>3 DEF NextSeq, Admitting
    <3>6. Live(n)' /\ EventOf(n)' = [seq |-> NextSeq, mask |-> m, phase |-> "waiting"]
      BY <3>3, <3>5 DEF Live, EventOf, Phase, TypeOK
    <3>7. \A j \in Slots \ {n} : Live(j)' = Live(j) /\ EventOf(j)' = EventOf(j)
      BY <3>3 DEF Live, EventOf, Phase, TypeOK
    <3>8. LiveEvents' = {EventOf(j)' : j \in {j \in Slots : Live(j)'}}
      BY DEF LiveEvents
    <3>9. LiveEvents' = LiveEvents \cup {[seq |-> NextSeq, mask |-> m, phase |-> "waiting"]}
      BY <3>4, <3>6, <3>7, <3>8 DEF LiveEvents
    <3>10. Dispatch!Admit(m)
      BY <3>5, <3>9 DEF Dispatch!Admit, LiveEvents, EventOf
    <3>11. QED BY <3>10 DEF Dispatch!Next
  <2>7. CASE LaunchAdmitted
    <3>1. PICK n \in Slots : n = IndexOf(in_seq_) /\ status[n] = "Pending"
      BY <2>7, IndexInRange DEF LaunchAdmitted, CallService, WindowInv, TypeOK
    <3>2. NextSeq' = NextSeq
      BY <2>7 DEF LaunchAdmitted, CallService, NextSeq, Admitting
    <3>3. Dispatch!Next
      BY <2>7, <3>1, <3>2, LaunchStarts DEF LaunchAdmitted
    <3>4. QED BY <3>3
  <2>8. QED BY <1>2, <2>1, <2>2, <2>3, <2>4, <2>5, <2>6, <2>7 DEF OrderingLoop, Service
<1>3. CASE \/ \E e \in Emitters : Emit(e)
           \/ \E s \in working : PostCompletion(s)
           \/ Stop
           \/ UNCHANGED vars
  <2>1. UNCHANGED <<status, sequence, mask, in_seq_, lpc, after>>
    BY <1>3 DEF Emit, Enqueue, WriteEvent, PostCompletion, Stop, BeginCleanup, SetStop, vars
  <2>2. NextSeq' = NextSeq
    BY <2>1 DEF NextSeq, Admitting
  <2>3. QED BY <1>1, <2>1, <2>2
<1>4. QED BY <1>2, <1>3 DEF Next

\* The stream implements ordered dispatch, for any emitters, masks, depth and
\* ring sizes: reading an event admits it, launching a slot that nothing blocks
\* starts it, and completions and commits finish and end it; every other step of
\* any thread changes nothing an emitter was promised.
THEOREM StreamImplementsDispatch == Spec => ImplementsDispatch
<1>1. Init => Dispatch!Init
  BY DEF Init, Dispatch!Init, NextSeq, Admitting, Live
<1>2. StreamInv /\ [Next]_vars => [Dispatch!Next]_(Dispatch!vars)
  BY DispatchStep
<1>3. QED BY <1>1, <1>2, StreamInvariant, PTL DEF Spec, ImplementsDispatch, Dispatch!Spec
=============================================================================
