----------------------------- MODULE EntityProofs -----------------------------
(***************************************************************************)
(* Proofs about DeleteGate, for any finite set of walkers and any number of *)
(* entities in the block, and about EntityScopes, which puts an entity's    *)
(* stream calls on top of it, for any calls and labels.                     *)
(***************************************************************************)
EXTENDS EntityScopes, FiniteSetTheorems, TLAPS

\* The walkers inside can be counted.
LEMMA InsideFinite == IsFiniteSet(Inside) /\ Cardinality(Inside) \in Nat
<1>1. Inside \in SUBSET Walkers BY DEF Inside
<1>2. IsFiniteSet(Inside) BY <1>1, FS_Subset, GateAssumption
<1>3. QED BY <1>2, FS_CardinalityType

-----------------------------------------------------------------------------
(* The type invariant *)

LEMMA GateTypeWalk ==
  ASSUME GateTypeOK, NEW w \in Walkers, Walk(w)
  PROVE  GateTypeOK'
<1> USE DEF GateTypeOK, WalkerAt, Writes, lifeVars, countVars, destroyVars
<1>1. CASE Resolve(w) BY <1>1 DEF Resolve
<1>2. CASE TestGate(w) BY <1>2 DEF TestGate
<1>3. CASE Raise(w) BY <1>3 DEF Raise
<1>4. CASE Reread(w) BY <1>4 DEF Reread
<1>5. CASE TakeBack(w) BY <1>5 DEF TakeBack
<1>6. CASE ReleaseHold(w) BY <1>6 DEF ReleaseHold
<1>7. QED BY <1>1, <1>2, <1>3, <1>4, <1>5, <1>6 DEF Walk

LEMMA GateTypeDestroy ==
  ASSUME GateTypeOK, DestructionInOrder, DestroyImpl \/ Reclaim \/ Destroy \/ Reuse
  PROVE  GateTypeOK'
<1> USE DEF GateTypeOK, DestroyerAt, lifeVars, countVars, walkVars, destroyVars
<1>1. CASE DestroyImpl BY <1>1 DEF DestroyImpl
<1>2. CASE Reclaim BY <1>2 DEF Reclaim
<1>3. CASE BeginRetire BY <1>3 DEF BeginRetire
<1>4. CASE FanIn
  <2>1. rounds' \in 0..3 BY <1>4 DEF FanIn, DestructionInOrder
  <2>2. dpc' \in {"drain", "gate", "free"} BY <1>4 DEF FanIn
  <2>3. QED BY <1>4, <2>1, <2>2 DEF FanIn
<1>5. CASE AwaitQuiesced BY <1>5 DEF AwaitQuiesced
<1>6. CASE Free
  <2>1. alive' \in BOOLEAN /\ retiring_' \in BOOLEAN /\ quiesced' \in BOOLEAN
    BY <1>6, Zenon DEF Free
  <2>2. lifetime_holds_' = 0 /\ life' \in Nat BY <1>6 DEF Free
  <2>3. QED BY <1>6, <2>1, <2>2 DEF Free
<1>7. CASE Reuse
  <2>1. alive' \in BOOLEAN /\ listed' \in BOOLEAN /\ retiring_' \in BOOLEAN
    BY <1>7, Zenon DEF Reuse
  <2>2. QED BY <1>7, <2>1 DEF Reuse
<1>8. QED BY <1>1, <1>2, <1>3, <1>4, <1>5, <1>6, <1>7 DEF Destroy

-----------------------------------------------------------------------------
(* The order of the destruction *)

LEMMA OrderWalk ==
  ASSUME GateInv, NEW w \in Walkers, Walk(w)
  PROVE  DestructionInOrder' /\ PointersAreOld'
<1> USE DEF GateInv, GateTypeOK, DestructionInOrder, PointersAreOld, WalkerAt, Writes,
            lifeVars, countVars, destroyVars
<1>1. CASE Resolve(w) BY <1>1 DEF Resolve
<1>2. CASE TestGate(w) BY <1>2 DEF TestGate
<1>3. CASE Raise(w) BY <1>3 DEF Raise
<1>4. CASE Reread(w) BY <1>4 DEF Reread
<1>5. CASE TakeBack(w) BY <1>5 DEF TakeBack
<1>6. CASE ReleaseHold(w) BY <1>6 DEF ReleaseHold
<1>7. QED BY <1>1, <1>2, <1>3, <1>4, <1>5, <1>6 DEF Walk

LEMMA OrderDestroy ==
  ASSUME GateInv, DestroyImpl \/ Reclaim \/ Destroy \/ Reuse
  PROVE  DestructionInOrder' /\ PointersAreOld'
<1> USE DEF GateInv, GateTypeOK, DestructionInOrder, PointersAreOld, DestroyerAt,
            lifeVars, countVars, walkVars, destroyVars
<1>1. CASE DestroyImpl BY <1>1 DEF DestroyImpl
<1>2. CASE Reclaim BY <1>2 DEF Reclaim
<1>3. CASE BeginRetire BY <1>3 DEF BeginRetire
<1>4. CASE FanIn BY <1>4 DEF FanIn
<1>5. CASE AwaitQuiesced BY <1>5 DEF AwaitQuiesced
<1>6. CASE Free BY <1>6 DEF Free
<1>7. CASE Reuse BY <1>7 DEF Reuse
<1>8. QED BY <1>1, <1>2, <1>3, <1>4, <1>5, <1>6, <1>7 DEF Destroy

-----------------------------------------------------------------------------
(* The count *)

\* A write of the count goes with a walker that comes in or leaves.
LEMMA CountWalk ==
  ASSUME GateInv, NEW w \in Walkers, Walk(w)
  PROVE  CountIsInside'
<1> SUFFICES ASSUME ~strayed' PROVE lifetime_holds_' = Cardinality(Inside')
  BY DEF CountIsInside
<1> USE DEF GateInv, GateTypeOK, WalkerAt, lifeVars, countVars, destroyVars
<1>1. CASE Resolve(w)
  <2>1. Inside' = Inside BY <1>1 DEF Resolve, Inside
  <2>2. QED BY <1>1, <2>1 DEF Resolve, CountIsInside
<1>2. CASE TestGate(w)
  <2>1. Inside' = Inside BY <1>2 DEF TestGate, Inside
  <2>2. QED BY <1>2, <2>1 DEF TestGate, CountIsInside
<1>3. CASE Raise(w)
  <2>1. ~strayed /\ wlife[w] = life BY <1>3 DEF Raise, Writes
  <2>2. Inside' = Inside \cup {w} BY <1>3, <2>1 DEF Raise, Writes, Inside
  <2>3. w \notin Inside BY <1>3 DEF Raise, Inside
  <2>4. Cardinality(Inside') = Cardinality(Inside) + 1 BY <2>2, <2>3, InsideFinite, FS_AddElement
  <2>5. QED BY <1>3, <2>1, <2>4 DEF Raise, Writes, CountIsInside
<1>4. CASE Reread(w)
  <2>1. Inside' = Inside BY <1>4 DEF Reread, Inside
  <2>2. QED BY <1>4, <2>1 DEF Reread, CountIsInside
<1>5. CASE TakeBack(w) \/ ReleaseHold(w)
  <2>1. ~strayed /\ wlife[w] = life BY <1>5 DEF TakeBack, ReleaseHold, Writes
  <2>2. Inside' = Inside \ {w} BY <1>5, <2>1 DEF TakeBack, ReleaseHold, Writes, Inside
  <2>3. w \in Inside BY <1>5, <2>1 DEF TakeBack, ReleaseHold, Inside
  <2>4. Cardinality(Inside') = Cardinality(Inside) - 1
    BY <2>2, <2>3, InsideFinite, FS_RemoveElement
  <2>5. QED BY <1>5, <2>1, <2>4 DEF TakeBack, ReleaseHold, Writes, CountIsInside
<1>6. QED BY <1>1, <1>2, <1>3, <1>4, <1>5 DEF Walk

\* A new count, of an entity that is gone or new, is that of nobody.
LEMMA CountDestroy ==
  ASSUME GateInv, DestroyImpl \/ Reclaim \/ Destroy \/ Reuse
  PROVE  CountIsInside'
<1> USE DEF GateInv, GateTypeOK, DestroyerAt, lifeVars, countVars, walkVars, destroyVars
<1>1. CASE Free \/ Reuse
  <2>1. Inside' = {} BY <1>1 DEF Free, Reuse, Inside, PointersAreOld
  <2>2. lifetime_holds_' = 0 BY <1>1 DEF Free, Reuse
  <2>3. QED BY <2>1, <2>2, FS_EmptySet DEF CountIsInside
<1>2. CASE DestroyImpl \/ Reclaim \/ BeginRetire \/ FanIn \/ AwaitQuiesced
  <2>1. UNCHANGED <<lifetime_holds_, strayed, wpc, wlife, life>>
    BY <1>2 DEF DestroyImpl, Reclaim, BeginRetire, FanIn, AwaitQuiesced
  <2>2. Inside' = Inside BY <2>1 DEF Inside
  <2>3. QED BY <2>1, <2>2 DEF CountIsInside
<1>3. QED BY <1>1, <1>2 DEF Destroy

-----------------------------------------------------------------------------
(* Nobody walks what has quiesced *)

LEMMA QuiescedWalk ==
  ASSUME GateInv, NEW w \in Walkers, Walk(w)
  PROVE  NobodyAfterQuiesced'
<1> USE DEF GateInv, GateTypeOK, NobodyAfterQuiesced, WalkerAt, Writes,
            lifeVars, countVars, destroyVars
<1>1. CASE Resolve(w) BY <1>1 DEF Resolve
<1>2. CASE TestGate(w) BY <1>2 DEF TestGate
<1>3. CASE Raise(w) BY <1>3 DEF Raise
<1>4. CASE Reread(w) BY <1>4 DEF Reread
<1>5. CASE TakeBack(w) BY <1>5 DEF TakeBack
<1>6. CASE ReleaseHold(w) BY <1>6 DEF ReleaseHold
<1>7. QED BY <1>1, <1>2, <1>3, <1>4, <1>5, <1>6 DEF Walk

LEMMA QuiescedDestroy ==
  ASSUME GateInv, DestroyImpl \/ Reclaim \/ Destroy \/ Reuse
  PROVE  NobodyAfterQuiesced'
<1> USE DEF GateInv, GateTypeOK, NobodyAfterQuiesced, DestroyerAt,
            lifeVars, countVars, walkVars, destroyVars
<1>1. CASE DestroyImpl BY <1>1 DEF DestroyImpl
<1>2. CASE Reclaim BY <1>2 DEF Reclaim
<1>3. CASE BeginRetire BY <1>3 DEF BeginRetire
<1>4. CASE FanIn BY <1>4 DEF FanIn
<1>5. CASE AwaitQuiesced
  <2>1. retiring_' BY <1>5 DEF AwaitQuiesced, DestructionInOrder
  <2>2. ASSUME quiesced', ~strayed', NEW w \in Walkers
        PROVE  ~(wpc'[w] = "holding" /\ wlife'[w] = life')
    <3>1. CASE quiesced BY <1>5, <2>2, <3>1 DEF AwaitQuiesced
    <3>2. CASE lifetime_holds_ = 0
      <4>1. Inside = {} BY <1>5, <2>2, <3>2, InsideFinite, FS_EmptySet DEF AwaitQuiesced, CountIsInside
      <4>2. QED BY <1>5, <4>1 DEF AwaitQuiesced, Inside
    <3>3. QED BY <1>5, <2>2, <3>1, <3>2 DEF AwaitQuiesced
  <2>3. QED BY <2>1, <2>2
<1>6. CASE Free BY <1>6 DEF Free
<1>7. CASE Reuse BY <1>7 DEF Reuse, DestructionInOrder
<1>8. QED BY <1>1, <1>2, <1>3, <1>4, <1>5, <1>6, <1>7 DEF Destroy

-----------------------------------------------------------------------------
(* The inductive invariant, and what follows *)

\* The invariant of the gate, for every number of walkers and of lives.
THEOREM GateCorrect == GateSpec => []GateInv
<1>1. GateInit => GateInv
  <2> SUFFICES ASSUME GateInit PROVE GateInv
    OBVIOUS
  <2>1. Inside = {} BY DEF GateInit, Inside
  <2>2. CountIsInside BY <2>1, FS_EmptySet DEF GateInit, CountIsInside
  <2>3. GateTypeOK
    <3>1. alive \in BOOLEAN /\ listed \in BOOLEAN /\ retiring_ \in BOOLEAN /\ quiesced \in BOOLEAN
          /\ strayed \in BOOLEAN
      BY Zenon DEF GateInit
    <3>2. QED BY <3>1 DEF GateInit, GateTypeOK
  <2>4. PointersAreOld /\ DestructionInOrder /\ NobodyAfterQuiesced
    BY DEF GateInit, PointersAreOld, DestructionInOrder, NobodyAfterQuiesced
  <2>5. QED BY <2>2, <2>3, <2>4 DEF GateInv
<1>2. GateInv /\ [GateNext]_gateVars => GateInv'
  <2> SUFFICES ASSUME GateInv, [GateNext]_gateVars PROVE GateInv'
    OBVIOUS
  <2>1. ASSUME NEW w \in Walkers, Walk(w) PROVE GateInv'
    BY <2>1, GateTypeWalk, OrderWalk, CountWalk, QuiescedWalk DEF GateInv
  <2>2. CASE DestroyImpl \/ Reclaim \/ Destroy \/ Reuse
    BY <2>2, GateTypeDestroy, OrderDestroy, CountDestroy, QuiescedDestroy DEF GateInv
  <2>3. CASE UNCHANGED gateVars
    BY <2>3 DEF gateVars, lifeVars, countVars, walkVars, destroyVars, GateInv, GateTypeOK, Inside,
                CountIsInside, PointersAreOld, DestructionInOrder, NobodyAfterQuiesced
  <2>4. QED BY <2>1, <2>2, <2>3 DEF GateNext
<1>3. QED BY <1>1, <1>2, PTL DEF GateSpec

\* The count is the number of walkers inside, as long as none is astray.
THEOREM CountStaysTrue == GateSpec => []CountIsInside
<1>1. GateInv => CountIsInside BY DEF GateInv
<1>2. QED BY <1>1, GateCorrect, PTL

\* After a wait that found nobody, the memory goes under nobody's feet.
THEOREM NobodyIsFreedUnder == GateSpec => []FreedUnderNobody
<1>1. GateInv => FreedUnderNobody BY DEF GateInv, NobodyAfterQuiesced, FreedUnderNobody
<1>2. QED BY <1>1, GateCorrect, PTL

-----------------------------------------------------------------------------
(* Sequences: the registry, and the events of the ordering stream *)

\* No call is registered twice.
Distinct(s) == \A i, j \in DOMAIN s : i # j => s[i] # s[j]

\* Removing the first occurrence takes an element out of a sequence that has
\* it once, and keeps the rest.
LEMMA RemoveFirstRange ==
  ASSUME NEW T, NEW s \in Seq(T), Distinct(s), NEW e \in Range(s)
  PROVE  /\ RemoveFirst(s, e) \in Seq(T)
         /\ Range(RemoveFirst(s, e)) = Range(s) \ {e}
         /\ Distinct(RemoveFirst(s, e))
<1>1. PICK k \in 1 .. Len(s) : s[k] = e BY DEF Range
<1> DEFINE I == {i \in 1 .. Len(s) : s[i] = e}
<1>2. I = {k} BY <1>1 DEF Distinct
<1>3. Min(I) = k BY <1>2 DEF Min
<1>4. SelectInSeq(s, LAMBDA v : v = e) = k BY <1>2, <1>3 DEF SelectInSeq
<1>5. RemoveFirst(s, e) = SubSeq(s, 1, k - 1) \o SubSeq(s, k + 1, Len(s))
  BY <1>1, <1>4 DEF RemoveFirst, RemoveAt
<1>6. PICK n \in Nat : n = Len(s) OBVIOUS
<1>7. PICK a : a = SubSeq(s, 1, k - 1) OBVIOUS
<1>8. PICK b : b = SubSeq(s, k + 1, n) OBVIOUS
<1>9. a \in Seq(T) /\ Len(a) = k - 1 /\ \A i \in 1 .. k - 1 : a[i] = s[i]
  BY <1>1, <1>7
<1>10. b \in Seq(T) /\ Len(b) = n - k /\ \A i \in 1 .. n - k : b[i] = s[i + k]
  BY <1>1, <1>6, <1>8
<1>11. PICK r : r = a \o b OBVIOUS
<1>12. r \in Seq(T) /\ Len(r) = n - 1 /\ \A i \in 1 .. n - 1 : r[i] = IF i < k THEN s[i] ELSE s[i + 1]
  <2>0. a \in Seq(T) /\ b \in Seq(T) BY <1>9, <1>10
  <2>1. r \in Seq(T) /\ Len(r) = (k - 1) + (n - k)
    <3>1. r \in Seq(T) BY ONLY <2>0, <1>11
    <3>2. Len(r) = Len(a) + Len(b) BY ONLY <2>0, <1>11
    <3>3. QED BY <3>1, <3>2, <1>9, <1>10
  <2>2. (k - 1) + (n - k) = n - 1 BY <1>1, <1>6
  <2>3. ASSUME NEW i \in 1 .. n - 1, i < k PROVE r[i] = s[i]
    <3>1. i \in 1 .. k - 1 BY <2>3, <1>1, <1>6
    <3>2. r[i] = a[i] BY <3>1, <1>9, <1>10, <1>11
    <3>3. QED BY <3>1, <3>2, <1>9
  <2>4. ASSUME NEW i \in 1 .. n - 1, ~(i < k) PROVE r[i] = s[i + 1]
    <3>1. i - (k - 1) \in 1 .. n - k /\ (i - (k - 1)) + k = i + 1 /\ i > Len(a) /\ i <= Len(a) + Len(b)
      BY <2>4, <1>1, <1>6, <1>9, <1>10
    <3>2. r[i] = b[i - (k - 1)] BY <3>1, <1>9, <1>10, <1>11
    <3>3. QED BY <3>1, <3>2, <1>10
  <2>5. QED BY <2>1, <2>2, <2>3, <2>4
<1>13. r = RemoveFirst(s, e) BY <1>5, <1>6, <1>7, <1>8, <1>11
<1>14. DOMAIN r = 1 .. n - 1 /\ DOMAIN s = 1 .. n BY <1>6, <1>12
<1>15. Distinct(r)
  <2> DEFINE at(i) == IF i < k THEN i ELSE i + 1
  <2>1. \A i, j \in 1 .. n - 1 : i # j => at(i) # at(j) BY <1>1, <1>6
  <2>2. \A i \in 1 .. n - 1 : at(i) \in 1 .. n /\ r[i] = s[at(i)] BY <1>1, <1>6, <1>12
  <2> HIDE DEF at
  <2>3. QED BY <2>1, <2>2, <1>14 DEF Distinct
<1>16. ASSUME NEW x PROVE x \in Range(r) <=> x \in Range(s) \ {e}
  <2>1. ASSUME x \in Range(r) PROVE x \in Range(s) \ {e}
    <3>1. PICK i \in 1 .. n - 1 : x = r[i] BY <2>1, <1>14 DEF Range
    <3>2. PICK j \in 1 .. n : x = s[j] /\ j # k BY <3>1, <1>1, <1>6, <1>12
    <3>3. QED BY <3>2, <1>1, <1>6, <1>14 DEF Range, Distinct
  <2>2. ASSUME x \in Range(s) \ {e} PROVE x \in Range(r)
    <3>1. PICK j \in 1 .. n : x = s[j] BY <2>2, <1>14 DEF Range
    <3>2. j # k BY <3>1, <2>2, <1>1
    <3>3. PICK i \in 1 .. n - 1 : r[i] = s[j]
      <4>1. CASE j < k BY <4>1, <1>1, <1>6, <1>12
      <4>2. CASE j > k
        <5>1. j - 1 \in 1 .. n - 1 /\ ~(j - 1 < k) /\ (j - 1) + 1 = j BY <4>2, <1>1
        <5>2. QED BY <5>1, <1>12
      <4>3. QED BY <3>2, <4>1, <4>2, <1>1
    <3>4. QED BY <3>1, <3>3, <1>14 DEF Range
  <2>3. QED BY <2>1, <2>2
<1>17. QED BY <1>12, <1>13, <1>15, <1>16

LEMMA AppendRange ==
  ASSUME NEW T, NEW s \in Seq(T), Distinct(s), NEW e \in T, e \notin Range(s)
  PROVE  /\ Append(s, e) \in Seq(T)
         /\ Range(Append(s, e)) = Range(s) \cup {e}
         /\ Distinct(Append(s, e))
<1>1. PICK n \in Nat : n = Len(s) OBVIOUS
<1>2. PICK r : r = Append(s, e) OBVIOUS
<1>3. r \in Seq(T) /\ Len(r) = n + 1 /\ \A i \in 1 .. n + 1 : r[i] = IF i <= n THEN s[i] ELSE e
  BY <1>1, <1>2
<1>4. DOMAIN r = 1 .. n + 1 /\ DOMAIN s = 1 .. n BY <1>1, <1>3
<1>5. Distinct(r) BY <1>3, <1>4 DEF Distinct, Range
<1>6. Range(r) = Range(s) \cup {e} BY <1>3, <1>4 DEF Range
<1>7. QED BY <1>2, <1>3, <1>5, <1>6

\* Append and Tail, position by position.
LEMMA AppendAt ==
  ASSUME NEW T, NEW s \in Seq(T), NEW e \in T
  PROVE  /\ Append(s, e) \in Seq(T)
         /\ \A i \in DOMAIN Append(s, e) :
              \/ i \in DOMAIN s /\ Append(s, e)[i] = s[i]
              \/ i = Len(s) + 1 /\ i \notin DOMAIN s /\ Append(s, e)[i] = e
<1>1. PICK n \in Nat : n = Len(s) OBVIOUS
<1>2. PICK r : r = Append(s, e) OBVIOUS
<1>3. r \in Seq(T) /\ Len(r) = n + 1 /\ \A i \in 1 .. n + 1 : r[i] = IF i <= n THEN s[i] ELSE e
  BY <1>1, <1>2
<1>4. DOMAIN r = 1 .. n + 1 /\ DOMAIN s = 1 .. n BY <1>1, <1>3
<1>5. QED BY <1>1, <1>2, <1>3, <1>4

LEMMA TailAt ==
  ASSUME NEW T, NEW s \in Seq(T), s # << >>
  PROVE  /\ 1 \in DOMAIN s /\ Head(s) = s[1] /\ Head(s) \in T
         /\ Tail(s) \in Seq(T)
         /\ \A i \in DOMAIN Tail(s) : i + 1 \in DOMAIN s /\ i + 1 # 1 /\ Tail(s)[i] = s[i + 1]
         /\ DOMAIN s \subseteq Nat /\ DOMAIN Tail(s) \subseteq Nat
<1>1. PICK n \in Nat : n = Len(s) OBVIOUS
<1>2. PICK r : r = Tail(s) OBVIOUS
<1>3. n >= 1 /\ Head(s) = s[1] BY <1>1
<1>4. r \in Seq(T) /\ Len(r) = n - 1 /\ \A i \in 1 .. n - 1 : r[i] = s[i + 1] BY <1>1, <1>2
<1>5. DOMAIN r = 1 .. n - 1 /\ DOMAIN s = 1 .. n BY <1>1, <1>3, <1>4
<1>6. s[1] \in T BY <1>1, <1>3
<1>7. QED BY <1>2, <1>3, <1>4, <1>5, <1>6

-----------------------------------------------------------------------------
(* The entity's gate is the gate *)

\* Nothing the scopes add writes the gate's state: every step is a step of
\* the gate or leaves it alone.
LEMMA GateStep == Next => [GateNext]_gateVars
<1> SUFFICES ASSUME Next PROVE GateNext \/ UNCHANGED gateVars
  OBVIOUS
<1>1. ASSUME NEW c \in Calls, Call(c) \/ InterruptAt(c) PROVE UNCHANGED gateVars
  BY <1>1 DEF Call, Dispatch, Register, AddTag, BodyEnds, ResolveAgain, Unregister, RemoveTag, InterruptAt
<1>2. ASSUME NEW l \in Labels, RemoveFlag(l) PROVE UNCHANGED gateVars
  BY <1>2 DEF RemoveFlag
<1>3. ASSUME NEW by \in Calls \cup {Shell}, Delete(by) PROVE UNCHANGED gateVars
  BY <1>3 DEF Delete
<1>4. ASSUME ServeTagEvent \/ DrainEnds \/ DrainRefuses PROVE UNCHANGED gateVars
  BY <1>4 DEF ServeTagEvent, DrainEnds, DrainRefuses
<1>5. ASSUME ServeDestroy PROVE DestroyImpl \/ UNCHANGED gateVars
  BY <1>5 DEF ServeDestroy
<1>6. ASSUME OtherGateStep \/ FreeEntity PROVE GateNext
  BY <1>6 DEF OtherGateStep, FreeEntity, GateNext, Destroy
<1>7. QED BY <1>1, <1>2, <1>3, <1>4, <1>5, <1>6 DEF Next, GateNext

\* An entity with calls on it goes through the gate of DeleteGate.
THEOREM ScopesKeepGate == Spec => GateSpec
<1>1. Init => GateInit BY DEF Init
<1>2. [Next]_vars => [GateNext]_gateVars
  <2>1. UNCHANGED vars => UNCHANGED gateVars BY DEF vars
  <2>2. QED BY <2>1, GateStep
<1>3. QED BY <1>1, <1>2, PTL DEF Spec, GateSpec

\* No step but the memory's end touches whether there is an entity.
LEMMA LifeStep ==
  ASSUME [Next]_vars
  PROVE  UNCHANGED <<life, alive>> \/ FreeEntity
<1>1. ASSUME NEW c \in Calls, Call(c) \/ InterruptAt(c) PROVE UNCHANGED <<life, alive>>
  BY <1>1 DEF Call, Dispatch, Register, AddTag, BodyEnds, ResolveAgain, Unregister, RemoveTag,
              InterruptAt, gateVars, lifeVars
<1>2. ASSUME NEW l \in Labels, RemoveFlag(l) PROVE UNCHANGED <<life, alive>>
  BY <1>2 DEF RemoveFlag, gateVars, lifeVars
<1>3. ASSUME NEW by \in Calls \cup {Shell}, Delete(by) PROVE UNCHANGED <<life, alive>>
  BY <1>3 DEF Delete, gateVars, lifeVars
<1>4. ASSUME ServeTagEvent \/ DrainEnds \/ DrainRefuses \/ ServeDestroy PROVE UNCHANGED <<life, alive>>
  BY <1>4 DEF ServeTagEvent, DrainEnds, DrainRefuses, ServeDestroy, DestroyImpl, gateVars, lifeVars
<1>5. ASSUME OtherGateStep PROVE UNCHANGED <<life, alive>>
  <2>1. ASSUME NEW w \in Walkers, Walk(w) PROVE UNCHANGED <<life, alive>>
    BY <2>1 DEF Walk, Resolve, TestGate, Raise, Reread, TakeBack, ReleaseHold, Writes, lifeVars
  <2>2. QED BY <1>5, <2>1 DEF OtherGateStep, Reclaim, BeginRetire, FanIn, AwaitQuiesced, lifeVars
<1>6. CASE UNCHANGED vars BY <1>6 DEF vars, gateVars, lifeVars
<1>7. QED BY <1>1, <1>2, <1>3, <1>4, <1>5, <1>6 DEF Next

-----------------------------------------------------------------------------
(* The inductive invariant *)

InRegistry == {"registered", "adding", "running", "deleting", "ending", "found"}
Gone == {"unregistered", "removing", "done"}
TagEvents == [by : Calls \cup {Shell}, label : Labels, life : Nat, remove : BOOLEAN]

ScopesTypeOK ==
    /\ entries \in Seq(Calls) /\ signalled \subseteq Calls /\ flags_ \subseteq Labels
    /\ cpc \in [Calls -> InRegistry \cup Gone \cup {"idle", "dispatched", "wild"}]
    /\ clife \in [Calls -> Nat]
    /\ stream \in Seq(TagEvents)
    /\ delpc \in {"none", "draining", "requested", "refused", "serving", "answered"}
    /\ drained \subseteq Calls

\* The registry holds, once each, the calls of this life between registering
\* and leaving, and no others but those that found the RID gone on their way
\* out.
RegistryInv ==
    /\ Distinct(entries)
    /\ \A c \in Registered : alive /\ clife[c] = life /\ cpc[c] \in InRegistry \cup {"done"}
    /\ alive => \A c \in Calls : clife[c] = life /\ cpc[c] \in InRegistry => c \in Registered

\* A call waits for at most one tag event, and an event is of the call that
\* waits for it.
WaitsFor(e) ==
    IF e.by = Shell THEN e.remove
    ELSE /\ e.label = Label[e.by] /\ e.life = clife[e.by]
         /\ cpc[e.by] = IF e.remove THEN "removing" ELSE "adding"

EventsInv ==
    /\ \A i \in DOMAIN stream : WaitsFor(stream[i])
    /\ \A i, j \in DOMAIN stream : i # j => stream[i].by # stream[j].by \/ stream[i].by = Shell

\* The calls the drain waits for are of this life, and still registered or
\* past their last look at the registry; past it for good when it has ended.
DrainInv ==
    alive =>
        /\ delpc = "draining" =>
             \A c \in drained : clife[c] = life /\ (c \in Registered \/ cpc[c] \in Gone)
        /\ delpc \in {"requested", "serving"} =>
             \A c \in drained : clife[c] = life /\ cpc[c] \in Gone

ScopesInv == ScopesTypeOK /\ RegistryInv /\ EventsInv /\ FlagMirrorsScopes /\ DrainInv

\* A step that touches neither the calls nor what they share keeps all of it
\* but, perhaps, the drain's part.
LEMMA QuietStep ==
  ASSUME ScopesInv, UNCHANGED <<life, alive, entries, flags_, cpc, clife, stream>>
  PROVE  RegistryInv' /\ EventsInv' /\ FlagMirrorsScopes' /\ Registered' = Registered
<1>1. Registered' = Registered BY DEF Registered
<1>2. \A l : Carrying(l)' = Carrying(l) BY <1>1 DEF Carrying
<1>3. RegistryInv' BY <1>1 DEF ScopesInv, RegistryInv
<1>4. EventsInv' BY DEF ScopesInv, EventsInv, WaitsFor
<1>5. FlagMirrorsScopes' BY <1>2 DEF ScopesInv, FlagMirrorsScopes, Stage
<1>6. QED BY <1>1, <1>3, <1>4, <1>5

LEMMA EntityUnchanged ==
  ASSUME UNCHANGED gateVars
  PROVE  life' = life /\ alive' = alive
  BY DEF gateVars, lifeVars

\* Types.
LEMMA EventIsEvent ==
  ASSUME ScopesTypeOK, NEW c \in Calls, NEW r \in BOOLEAN
  PROVE  TagEvent(c, r) \in TagEvents
  BY ScopesAssumption DEF ScopesTypeOK, TagEvent, TagEvents

LEMMA ScopesTypeStep ==
  ASSUME GateInv, ScopesInv, [Next]_vars
  PROVE  ScopesTypeOK'
<1> USE DEF ScopesTypeOK, scopeVars, callVars, deleteVars, DeleterAt, DeleterGoesOn
<1>0. life \in Nat /\ ScopesTypeOK BY DEF GateInv, GateTypeOK, ScopesInv
<1>1. ASSUME NEW c \in Calls, Call(c) PROVE ScopesTypeOK'
  <2> USE <1>0 DEF CallStep, InRegistry, Gone
  <2>1. CASE Dispatch(c) BY <2>1 DEF Dispatch
  <2>2. CASE Register(c)
    <3>1. entries' \in Seq(Calls) BY <2>2 DEF Register
    <3>2. QED BY <2>2, <3>1 DEF Register
  <2>3. CASE AddTag(c)
    <3>1. TagEvent(c, FALSE) \in TagEvents BY EventIsEvent
    <3>2. stream' \in Seq(TagEvents) BY <2>3, <3>1, AppendAt DEF AddTag
    <3>3. QED BY <2>3, <3>2 DEF AddTag
  <2>4. CASE BodyEnds(c) BY <2>4 DEF BodyEnds
  <2>5. CASE ResolveAgain(c) BY <2>5 DEF ResolveAgain
  <2>6. CASE Unregister(c)
    <3>1. entries' \in Seq(Calls)
      <4>1. CASE InTheEntity(c)
        <5>1. c \in Registered BY <2>6, <4>1 DEF Unregister, InTheEntity, ScopesInv, RegistryInv
        <5>2. QED BY <2>6, <4>1, <5>1, RemoveFirstRange DEF Unregister, ScopesInv, RegistryInv, Registered
      <4>2. CASE ~InTheEntity(c) BY <2>6, <4>2 DEF Unregister
      <4>3. QED BY <4>1, <4>2
    <3>2. QED BY <2>6, <3>1 DEF Unregister
  <2>7. CASE RemoveTag(c)
    <3>1. TagEvent(c, TRUE) \in TagEvents BY EventIsEvent
    <3>2. stream' \in Seq(TagEvents) BY <2>7, <3>1, AppendAt DEF RemoveTag
    <3>3. QED BY <2>7, <3>2 DEF RemoveTag
  <2>8. QED BY <1>1, <2>1, <2>2, <2>3, <2>4, <2>5, <2>6, <2>7 DEF Call
<1>2. ASSUME NEW c \in Calls, InterruptAt(c) PROVE ScopesTypeOK'
  BY <1>0, <1>2 DEF InterruptAt
<1>3. ASSUME NEW l \in Labels, RemoveFlag(l) PROVE ScopesTypeOK'
  <2>1. [by |-> Shell, label |-> l, life |-> life, remove |-> TRUE] \in TagEvents
    BY <1>0 DEF TagEvents
  <2>2. stream' \in Seq(TagEvents) BY <1>0, <1>3, <2>1 DEF RemoveFlag
  <2>3. QED BY <1>0, <1>3, <2>2 DEF RemoveFlag
<1>4. CASE ServeTagEvent
  <2>1. stream' \in Seq(TagEvents) /\ Head(stream) \in TagEvents
    BY <1>0, <1>4, TailAt DEF ServeTagEvent
  <2>2. signalled' \subseteq Calls /\ flags_' \subseteq Labels
    <3>1. \A l : Carrying(l) \subseteq Calls BY <1>0 DEF Carrying, Registered, Range
    <3>2. Head(stream).label \in Labels BY <2>1 DEF TagEvents
    <3>3. QED BY <1>0, <1>4, <3>1, <3>2 DEF ServeTagEvent, Modify
  <2>3. cpc' \in [Calls -> InRegistry \cup Gone \cup {"idle", "dispatched", "wild"}]
    BY <1>0, <1>4 DEF ServeTagEvent, InRegistry, Gone
  <2>4. QED BY <1>0, <1>4, <2>1, <2>2, <2>3 DEF ServeTagEvent
<1>5. ASSUME NEW by \in Calls \cup {Shell}, Delete(by) PROVE ScopesTypeOK'
  <2>1. Registered \subseteq Calls BY <1>0 DEF Registered, Range
  <2>2. QED BY <1>0, <1>5, <2>1 DEF Delete, InRegistry
<1>6. CASE DrainEnds \/ DrainRefuses \/ ServeDestroy
  BY <1>0, <1>6 DEF DrainEnds, DrainRefuses, ServeDestroy, InRegistry
<1>7. CASE OtherGateStep BY <1>0, <1>7 DEF OtherGateStep
<1>8. CASE FreeEntity BY <1>0, <1>8 DEF FreeEntity, InRegistry
<1>9. CASE UNCHANGED vars BY <1>0, <1>9 DEF vars
<1>10. QED BY <1>1, <1>2, <1>3, <1>4, <1>5, <1>6, <1>7, <1>8, <1>9 DEF Next

-----------------------------------------------------------------------------
(* The call's own steps *)

\* A step of the calls that leaves the registry and the flags alone, and no
\* call's part in a flag undone.
Putting == {"registered", "adding"}
Taking == {"unregistered", "removing"}

LEMMA FlagsKept ==
  ASSUME FlagMirrorsScopes, UNCHANGED <<life, alive, entries, flags_>>,
         alive => \A d \in Calls : clife[d] = life =>
             /\ clife'[d] = life
             /\ cpc[d] \in Putting => cpc'[d] \in Putting
             /\ cpc[d] \in Taking => cpc'[d] \in Taking
  PROVE  FlagMirrorsScopes'
<1> SUFFICES ASSUME alive', NEW l \in Labels
             PROVE  /\ Carrying(l)' # {} => l \in flags_' \/ Stage(l, Putting)'
                    /\ l \in flags_' => Carrying(l)' # {} \/ Stage(l, Taking)'
  BY DEF FlagMirrorsScopes, Putting, Taking
<1>1. Carrying(l)' = Carrying(l) BY DEF Carrying, Registered
<1>2. Stage(l, Putting) => Stage(l, Putting)' BY DEF Stage
<1>3. Stage(l, Taking) => Stage(l, Taking)' BY DEF Stage
<1>4. /\ Carrying(l) # {} => l \in flags_ \/ Stage(l, Putting)
      /\ l \in flags_ => Carrying(l) # {} \/ Stage(l, Taking)
  BY DEF FlagMirrorsScopes, Putting, Taking
<1>5. QED BY <1>1, <1>2, <1>3, <1>4

\* A step that emits and serves nothing, of calls that wait for nothing.
LEMMA EventsKept ==
  ASSUME ScopesTypeOK, EventsInv, stream' = stream,
         \A d \in Calls : cpc[d] \in {"adding", "removing"} => cpc'[d] = cpc[d] /\ clife'[d] = clife[d]
  PROVE  EventsInv'
<1>1. \A i \in DOMAIN stream : stream[i] \in TagEvents BY DEF ScopesTypeOK
<1>2. ASSUME NEW i \in DOMAIN stream PROVE WaitsFor(stream[i])'
  <2>1. stream[i].by \in Calls \cup {Shell} BY <1>1, <1>2 DEF TagEvents
  <2>2. QED BY <2>1 DEF EventsInv, WaitsFor
<1>3. QED BY <1>2 DEF EventsInv

LEMMA DispatchStep ==
  ASSUME GateInv, ScopesInv, NEW c \in Calls, Dispatch(c)
  PROVE  RegistryInv' /\ EventsInv' /\ FlagMirrorsScopes' /\ DrainInv'
<1> USE EntityUnchanged DEF ScopesInv, ScopesTypeOK, Dispatch, scopeVars, deleteVars
<1>1. Registered' = Registered BY DEF Registered
<1>2. c \notin Registered BY DEF RegistryInv, InRegistry
<1>3. RegistryInv' BY <1>1, <1>2 DEF RegistryInv, InRegistry
<1>4. EventsInv' BY EventsKept
<1>5. FlagMirrorsScopes' BY FlagsKept DEF Putting, Taking
<1>6. DrainInv' BY <1>1, <1>2 DEF DrainInv, Gone
<1>7. QED BY <1>3, <1>4, <1>5, <1>6

LEMMA RegisterStep ==
  ASSUME GateInv, ScopesInv, NEW c \in Calls, Register(c)
  PROVE  RegistryInv' /\ EventsInv' /\ FlagMirrorsScopes' /\ DrainInv'
<1> USE EntityUnchanged DEF ScopesInv, ScopesTypeOK, Register, CallStep
<1>1. CASE InTheEntity(c)
  <2>1. c \notin Registered BY DEF RegistryInv, InRegistry
  <2>2. Registered' = Registered \cup {c} /\ Distinct(entries')
    BY <1>1, <2>1, AppendRange DEF Registered, RegistryInv
  <2>3. RegistryInv' BY <1>1, <2>2 DEF RegistryInv, InRegistry, InTheEntity
  <2>4. EventsInv' BY EventsKept
  <2>5. FlagMirrorsScopes'
    <3> SUFFICES ASSUME NEW l \in Labels, alive
                 PROVE  /\ Carrying(l)' # {} => l \in flags_ \/ Stage(l, Putting)'
                        /\ l \in flags_ => Carrying(l)' # {} \/ Stage(l, Taking)'
      BY DEF FlagMirrorsScopes, Putting, Taking
    <3>1. /\ Carrying(l) # {} => l \in flags_ \/ Stage(l, Putting)
          /\ l \in flags_ => Carrying(l) # {} \/ Stage(l, Taking)
      BY DEF FlagMirrorsScopes, Putting, Taking
    <3>2. Stage(l, Putting) => Stage(l, Putting)' BY DEF Stage, Putting
    <3>3. Stage(l, Taking) => Stage(l, Taking)' BY DEF Stage, Taking
    <3>4. CASE Label[c] = l /\ Carrying(l) = {}
      <4>1. Stage(l, Putting)' BY <1>1, <3>4 DEF Stage, Putting, InTheEntity
      <4>2. c \in Carrying(l)' BY <2>2, <3>4 DEF Carrying
      <4>3. QED BY <4>1, <4>2
    <3>5. CASE Label[c] = l /\ Carrying(l) # {}
      <4>1. Carrying(l)' # {} BY <2>2, <3>5 DEF Carrying
      <4>2. QED BY <3>1, <3>2, <3>5, <4>1
    <3>6. CASE Label[c] # l
      <4>1. Carrying(l)' = Carrying(l) BY <2>2, <3>6 DEF Carrying
      <4>2. QED BY <3>1, <3>2, <3>3, <4>1
    <3>7. QED BY <3>4, <3>5, <3>6
  <2>6. DrainInv' BY <2>2 DEF DrainInv, Gone, deleteVars
  <2>7. QED BY <2>3, <2>4, <2>5, <2>6
<1>2. CASE ~InTheEntity(c)
  <2>1. Registered' = Registered BY <1>2 DEF Registered
  <2>2. RegistryInv' BY <1>2, <2>1 DEF RegistryInv, InRegistry, InTheEntity
  <2>3. EventsInv' BY EventsKept
  <2>4. FlagMirrorsScopes' BY <1>2, FlagsKept DEF Putting, Taking
  <2>5. DrainInv' BY <1>2, <2>1 DEF DrainInv, Gone, deleteVars
  <2>6. QED BY <2>2, <2>3, <2>4, <2>5
<1>3. QED BY <1>1, <1>2

\* A call, or the shell, that has no event on the stream emits one.
LEMMA EventEmitted ==
  ASSUME ScopesTypeOK, EventsInv, NEW e \in TagEvents, stream' = Append(stream, e), WaitsFor(e)',
         \A i \in DOMAIN stream : stream[i].by # e.by,
         \A x \in TagEvents : WaitsFor(x) /\ x.by # e.by => WaitsFor(x)'
  PROVE  EventsInv'
<1>1. stream \in Seq(TagEvents) BY DEF ScopesTypeOK
<1>2. \A i \in DOMAIN stream : stream[i] \in TagEvents BY <1>1
<1>3. \A i \in DOMAIN stream' : \/ i \in DOMAIN stream /\ stream'[i] = stream[i]
                                \/ i = Len(stream) + 1 /\ i \notin DOMAIN stream /\ stream'[i] = e
  BY <1>1, AppendAt
<1>4. ASSUME NEW i \in DOMAIN stream' PROVE WaitsFor(stream[i])'
  <2>1. PICK x : x = stream'[i] OBVIOUS
  <2>2. WaitsFor(x)'
    <3>1. CASE i \in DOMAIN stream /\ stream'[i] = stream[i]
      BY <1>2, <2>1, <3>1 DEF EventsInv
    <3>2. CASE stream'[i] = e BY <2>1, <3>2
    <3>3. QED BY <1>3, <3>1, <3>2
  <2>3. QED BY <2>1, <2>2 DEF WaitsFor
<1>5. ASSUME NEW i \in DOMAIN stream', NEW j \in DOMAIN stream', i # j
      PROVE  stream'[i].by # stream'[j].by \/ stream'[i].by = Shell
  <2>1. CASE i \in DOMAIN stream /\ j \in DOMAIN stream BY <1>3, <1>5, <2>1 DEF EventsInv
  <2>2. CASE i \in DOMAIN stream /\ j \notin DOMAIN stream BY <1>3, <2>2
  <2>3. CASE i \notin DOMAIN stream /\ j \in DOMAIN stream BY <1>3, <2>3
  <2>4. CASE i \notin DOMAIN stream /\ j \notin DOMAIN stream BY <1>3, <1>5, <2>4
  <2>5. QED BY <2>1, <2>2, <2>3, <2>4
<1>6. QED BY <1>4, <1>5 DEF EventsInv

LEMMA AddTagStep ==
  ASSUME GateInv, ScopesInv, NEW c \in Calls, AddTag(c) \/ RemoveTag(c)
  PROVE  RegistryInv' /\ EventsInv' /\ FlagMirrorsScopes' /\ DrainInv'
<1> USE EntityUnchanged DEF ScopesInv, ScopesTypeOK, AddTag, RemoveTag, CallStep, scopeVars
<1>1. Registered' = Registered BY DEF Registered
<1>2. RegistryInv'
  <2>1. CASE AddTag(c) BY <1>1, <2>1 DEF RegistryInv, InRegistry, InTheEntity
  <2>2. CASE RemoveTag(c) BY <1>1, <2>2 DEF RegistryInv, InRegistry, InTheEntity
  <2>3. QED BY <2>1, <2>2
<1>3. FlagMirrorsScopes' BY FlagsKept DEF Putting, Taking, InTheEntity
<1>4. DrainInv' BY <1>1 DEF DrainInv, Gone, deleteVars, InTheEntity
<1>5. EventsInv'
  <2>1. c # Shell BY ScopesAssumption
  <2>2. \A i \in DOMAIN stream : stream[i].by # c
    BY <2>1 DEF EventsInv, WaitsFor
  <2>3. ASSUME NEW x \in TagEvents, WaitsFor(x), x.by # c PROVE WaitsFor(x)'
    BY <2>3 DEF WaitsFor, TagEvents
  <2>4. CASE InTheEntity(c)
    <3>1. PICK r \in BOOLEAN : /\ stream' = Append(stream, TagEvent(c, r))
                               /\ cpc' = [cpc EXCEPT ![c] = IF r THEN "removing" ELSE "adding"]
      BY <2>4
    <3>2. PICK e : e = TagEvent(c, r) OBVIOUS
    <3>3. e \in TagEvents /\ e.by = c /\ stream' = Append(stream, e)
      BY <3>1, <3>2, EventIsEvent DEF TagEvent
    <3>4. WaitsFor(e)' BY <2>1, <3>1, <3>2, <2>4 DEF WaitsFor, TagEvent
    <3>5. QED BY <2>2, <2>3, <3>3, <3>4, EventEmitted
  <2>5. CASE ~InTheEntity(c) BY <2>5, EventsKept
  <2>6. QED BY <2>4, <2>5
<1>6. QED BY <1>2, <1>3, <1>4, <1>5

LEMMA LeavingStep ==
  ASSUME GateInv, ScopesInv, NEW c \in Calls, BodyEnds(c) \/ ResolveAgain(c)
  PROVE  RegistryInv' /\ EventsInv' /\ FlagMirrorsScopes' /\ DrainInv'
<1> USE EntityUnchanged DEF ScopesInv, ScopesTypeOK, BodyEnds, ResolveAgain, scopeVars
<1>1. Registered' = Registered BY DEF Registered
<1>3. RegistryInv'
  <2>1. CASE BodyEnds(c) BY <1>1, <2>1 DEF RegistryInv, InRegistry
  <2>2. CASE ResolveAgain(c) BY <1>1, <2>2 DEF RegistryInv, InRegistry
  <2>3. QED BY <2>1, <2>2
<1>4. FlagMirrorsScopes' BY FlagsKept DEF Putting, Taking
<1>5. DrainInv' BY <1>1 DEF DrainInv, Gone, deleteVars
<1>6. EventsInv' BY EventsKept
<1>7. QED BY <1>3, <1>4, <1>5, <1>6

LEMMA UnregisterStep ==
  ASSUME GateInv, ScopesInv, NEW c \in Calls, Unregister(c)
  PROVE  RegistryInv' /\ EventsInv' /\ FlagMirrorsScopes' /\ DrainInv'
<1> USE EntityUnchanged DEF ScopesInv, ScopesTypeOK, Unregister, CallStep
<1>1. EventsInv' BY EventsKept
<1>2. CASE InTheEntity(c)
  <2>1. c \in Registered BY <1>2 DEF RegistryInv, InRegistry, InTheEntity
  <2>2. Registered' = Registered \ {c} /\ Distinct(entries')
    BY <1>2, <2>1, RemoveFirstRange DEF Registered, RegistryInv
  <2>3. RegistryInv' BY <1>2, <2>2 DEF RegistryInv, InRegistry, InTheEntity
  <2>4. DrainInv' BY <1>2, <2>2 DEF DrainInv, Gone, deleteVars, InTheEntity
  <2>5. FlagMirrorsScopes'
    <3> SUFFICES ASSUME NEW l \in Labels, alive
                 PROVE  /\ Carrying(l)' # {} => l \in flags_ \/ Stage(l, Putting)'
                        /\ l \in flags_ => Carrying(l)' # {} \/ Stage(l, Taking)'
      BY DEF FlagMirrorsScopes, Putting, Taking
    <3>1. /\ Carrying(l) # {} => l \in flags_ \/ Stage(l, Putting)
          /\ l \in flags_ => Carrying(l) # {} \/ Stage(l, Taking)
      BY DEF FlagMirrorsScopes, Putting, Taking
    <3>2. Stage(l, Putting) => Stage(l, Putting)' BY DEF Stage, Putting
    <3>3. Stage(l, Taking) => Stage(l, Taking)' BY DEF Stage, Taking
    <3>4. CASE Label[c] = l /\ Carrying(l) = {c}
      <4>1. Carrying(l)' = {} BY <2>2, <3>4 DEF Carrying
      <4>2. Stage(l, Taking)' BY <1>2, <3>4 DEF Stage, Taking, InTheEntity
      <4>3. QED BY <4>1, <4>2
    <3>5. CASE Label[c] = l /\ Carrying(l) # {c}
      <4>1. Carrying(l)' = Carrying(l) \ {c} /\ c \in Carrying(l) BY <2>1, <2>2, <3>5 DEF Carrying
      <4>2. Carrying(l)' # {} BY <3>5, <4>1
      <4>3. QED BY <3>1, <3>2, <4>1, <4>2
    <3>6. CASE Label[c] # l
      <4>1. Carrying(l)' = Carrying(l) BY <2>2, <3>6 DEF Carrying
      <4>2. QED BY <3>1, <3>2, <3>3, <4>1
    <3>7. QED BY <3>4, <3>5, <3>6
  <2>6. QED BY <1>1, <2>3, <2>4, <2>5
<1>3. CASE ~InTheEntity(c)
  <2>1. Registered' = Registered BY <1>3 DEF Registered
  <2>2. RegistryInv' BY <1>3, <2>1 DEF RegistryInv, InRegistry, InTheEntity
  <2>3. FlagMirrorsScopes' BY <1>3, FlagsKept DEF Putting, Taking, InTheEntity
  <2>4. DrainInv' BY <1>3, <2>1 DEF DrainInv, Gone, deleteVars, InTheEntity
  <2>5. QED BY <1>1, <2>2, <2>3, <2>4
<1>4. QED BY <1>2, <1>3

-----------------------------------------------------------------------------
(* The shell, the ordering thread, the deletion *)

LEMMA ShellStep ==
  ASSUME GateInv, ScopesInv,
         (\E c \in Calls : InterruptAt(c)) \/ (\E l \in Labels : RemoveFlag(l))
  PROVE  RegistryInv' /\ EventsInv' /\ FlagMirrorsScopes' /\ DrainInv'
<1> USE EntityUnchanged DEF callVars, deleteVars, scopeVars
<1>1. ASSUME NEW c \in Calls, InterruptAt(c) PROVE RegistryInv' /\ EventsInv' /\ FlagMirrorsScopes' /\ DrainInv'
  <2>1. RegistryInv' /\ EventsInv' /\ FlagMirrorsScopes' /\ Registered' = Registered
    BY <1>1, QuietStep DEF InterruptAt
  <2>2. DrainInv' BY <1>1, <2>1 DEF InterruptAt, DrainInv, ScopesInv
  <2>3. QED BY <2>1, <2>2
<1>2. ASSUME NEW l \in Labels, RemoveFlag(l) PROVE RegistryInv' /\ EventsInv' /\ FlagMirrorsScopes' /\ DrainInv'
  <2> USE <1>2 DEF RemoveFlag
  <2>1. Registered' = Registered BY DEF Registered
  <2>2. RegistryInv' BY <2>1 DEF ScopesInv, RegistryInv
  <2>3. DrainInv' BY <2>1 DEF ScopesInv, DrainInv
  <2>4. FlagMirrorsScopes' BY FlagsKept DEF ScopesInv
  <2>5. EventsInv'
    <3>1. PICK e : e = [by |-> Shell, label |-> l, life |-> life, remove |-> TRUE] OBVIOUS
    <3>2. e \in TagEvents /\ e.by = Shell /\ e.remove BY <3>1 DEF TagEvents, GateInv, GateTypeOK
    <3>3. WaitsFor(e)' BY <3>2 DEF WaitsFor
    <3>4. \A x \in TagEvents : WaitsFor(x) => WaitsFor(x)' BY DEF WaitsFor
    <3>5. QED BY <3>1, <3>2, <3>3, <3>4, EventEmitted DEF ScopesInv
  <2>6. QED BY <2>2, <2>3, <2>4, <2>5
<1>3. QED BY <1>1, <1>2

LEMMA ServeStep ==
  ASSUME GateInv, ScopesInv, ServeTagEvent
  PROVE  RegistryInv' /\ EventsInv' /\ FlagMirrorsScopes' /\ DrainInv'
<1> USE EntityUnchanged DEF ScopesInv, ScopesTypeOK
<1>1. PICK e : e = Head(stream) OBVIOUS
<1>2. e \in TagEvents /\ e = stream[1] /\ 1 \in DOMAIN stream
  BY <1>1, TailAt DEF ServeTagEvent
<1>3. WaitsFor(e) BY <1>2 DEF EventsInv
<1> DEFINE live == alive /\ e.life = life
<1>4. /\ IF live THEN Modify(e) ELSE UNCHANGED <<signalled, flags_>>
      /\ IF e.by \in Calls
         THEN cpc' = [cpc EXCEPT ![e.by] = IF ~live THEN "wild"
                                           ELSE IF e.remove THEN "done" ELSE "running"]
         ELSE UNCHANGED cpc
      /\ stream' = Tail(stream) /\ stream # << >>
      /\ UNCHANGED <<gateVars, entries, clife, deleteVars>>
  BY <1>1 DEF ServeTagEvent
<1>5. e.by \in Calls =>
        /\ e.label = Label[e.by] /\ e.life = clife[e.by]
        /\ cpc[e.by] = IF e.remove THEN "removing" ELSE "adding"
  BY <1>3, ScopesAssumption DEF WaitsFor
<1>6. e.by \notin Calls => e.by = Shell /\ e.remove BY <1>2, <1>3 DEF WaitsFor, TagEvents
<1>7. Registered' = Registered BY <1>4 DEF Registered
<1>8. \A l : Carrying(l)' = Carrying(l) BY <1>7 DEF Carrying
<1>9. RegistryInv'
  <2>1. ASSUME NEW c \in Registered PROVE cpc'[c] \in InRegistry \cup {"done"}
    <3>1. c \in Calls BY DEF Registered, Range
    <3>2. alive /\ clife[c] = life /\ cpc[c] \in InRegistry \cup {"done"} BY DEF RegistryInv
    <3>3. CASE c = e.by
      <4>1. live /\ ~e.remove BY <1>5, <3>1, <3>2, <3>3 DEF InRegistry
      <4>2. QED BY <1>4, <3>1, <3>3, <4>1 DEF InRegistry
    <3>4. CASE c # e.by BY <1>4, <3>1, <3>2, <3>4
    <3>5. QED BY <3>3, <3>4
  <2>2. ASSUME NEW c \in Calls, alive, clife[c] = life, cpc'[c] \in InRegistry PROVE c \in Registered
    <3>1. cpc[c] \in InRegistry BY <1>4, <1>5, <2>2 DEF InRegistry
    <3>2. QED BY <2>2, <3>1 DEF RegistryInv
  <2>3. QED BY <1>4, <1>7, <2>1, <2>2 DEF RegistryInv
<1>10. DrainInv'
  <2>1. ASSUME NEW c \in Calls, alive, clife[c] = life, cpc[c] \in Gone PROVE cpc'[c] \in Gone
    BY <1>4, <1>5, <2>1 DEF Gone
  <2>2. QED BY <1>4, <1>7, <2>1 DEF DrainInv, deleteVars
<1>11. EventsInv'
  <2>1. \A i \in DOMAIN stream' : /\ i + 1 \in DOMAIN stream /\ i + 1 # 1 /\ i \in Nat
                                  /\ stream'[i] = stream[i + 1]
    BY <1>4, TailAt
  <2>2. \A i \in DOMAIN stream : stream[i] \in TagEvents OBVIOUS
  <2>3. ASSUME NEW i \in DOMAIN stream' PROVE WaitsFor(stream[i])'
    <3>1. PICK x : x = stream'[i] OBVIOUS
    <3>2. x \in TagEvents /\ WaitsFor(x) BY <2>1, <2>2, <3>1 DEF EventsInv
    <3>3. x.by # e.by \/ x.by = Shell BY <1>2, <2>1, <3>1 DEF EventsInv
    <3>4. WaitsFor(x)' BY <1>4, <3>2, <3>3, ScopesAssumption DEF WaitsFor, TagEvents
    <3>5. QED BY <3>1, <3>4 DEF WaitsFor
  <2>4. ASSUME NEW i \in DOMAIN stream', NEW j \in DOMAIN stream', i # j
        PROVE  stream'[i].by # stream'[j].by \/ stream'[i].by = Shell
    BY <2>1, <2>4 DEF EventsInv
  <2>5. QED BY <2>3, <2>4 DEF EventsInv
<1>12. FlagMirrorsScopes'
  <2> SUFFICES ASSUME NEW l \in Labels, alive
               PROVE  /\ Carrying(l) # {} => l \in flags_' \/ Stage(l, Putting)'
                      /\ l \in flags_' => Carrying(l) # {} \/ Stage(l, Taking)'
    BY <1>4, <1>8 DEF FlagMirrorsScopes, Putting, Taking
  <2>1. /\ Carrying(l) # {} => l \in flags_ \/ Stage(l, Putting)
        /\ l \in flags_ => Carrying(l) # {} \/ Stage(l, Taking)
    BY DEF FlagMirrorsScopes, Putting, Taking
  <2>2. CASE live /\ e.label = l
    <3>1. CASE e.remove
      <4>1. Stage(l, Putting) => Stage(l, Putting)' BY <1>4, <1>5, <3>1 DEF Stage, Putting
      <4>2. flags_' = IF Carrying(l) = {} THEN flags_ \ {l} ELSE flags_
        BY <1>4, <2>2, <3>1 DEF Modify
      <4>3. QED BY <2>1, <4>1, <4>2
    <3>2. CASE ~e.remove
      <4>1. e.by \in Calls BY <1>6, <3>2
      <4>2. e.by \in Registered BY <1>5, <2>2, <3>2, <4>1 DEF RegistryInv, InRegistry
      <4>3. Carrying(l) # {} BY <1>5, <2>2, <4>1, <4>2 DEF Carrying
      <4>4. l \in flags_' BY <1>4, <2>2, <3>2 DEF Modify
      <4>5. QED BY <4>3, <4>4
    <3>3. QED BY <3>1, <3>2
  <2>3. CASE ~(live /\ e.label = l)
    <3>1. l \in flags_' <=> l \in flags_ BY <1>4, <2>3 DEF Modify
    <3>2. \A c \in Calls : Label[c] = l /\ clife[c] = life => cpc'[c] = cpc[c]
      BY <1>4, <1>5, <2>3
    <3>3. (Stage(l, Putting) => Stage(l, Putting)') /\ (Stage(l, Taking) => Stage(l, Taking)')
      BY <1>4, <3>2 DEF Stage
    <3>4. QED BY <2>1, <3>1, <3>3
  <2>4. QED BY <2>2, <2>3
<1>13. QED BY <1>9, <1>10, <1>11, <1>12

LEMMA DeleteStep ==
  ASSUME GateInv, ScopesInv, NEW by \in Calls \cup {Shell}, Delete(by)
  PROVE  RegistryInv' /\ EventsInv' /\ FlagMirrorsScopes' /\ DrainInv'
<1> USE EntityUnchanged DEF ScopesInv, ScopesTypeOK, Delete
<1>1. Registered' = Registered BY DEF Registered
<1>2. \A c \in Calls : cpc'[c] = cpc[c] \/ (cpc[c] = "running" /\ cpc'[c] = "deleting")
  OBVIOUS
<1>3. RegistryInv' BY <1>1, <1>2 DEF RegistryInv, InRegistry, Registered, Range
<1>4. EventsInv' BY <1>2, EventsKept
<1>5. FlagMirrorsScopes' BY <1>2, FlagsKept DEF Putting, Taking
<1>6. DrainInv' BY <1>1 DEF DrainInv, RegistryInv
<1>7. QED BY <1>3, <1>4, <1>5, <1>6

\* The request's own steps release at most the call that deletes.
LEMMA RequestStep ==
  ASSUME GateInv, ScopesInv, DrainEnds \/ DrainRefuses \/ ServeDestroy, UNCHANGED <<life, alive>>
  PROVE  RegistryInv' /\ EventsInv' /\ FlagMirrorsScopes' /\ DrainInv'
<1> USE DEF ScopesInv, ScopesTypeOK, DrainEnds, DrainRefuses, ServeDestroy, DeleterAt, DeleterGoesOn,
            scopeVars, callVars
<1>1. Registered' = Registered BY DEF Registered
<1>2. \A c \in Calls : cpc'[c] = cpc[c] \/ (cpc[c] = "deleting" /\ cpc'[c] = "running")
  OBVIOUS
<1>3. UNCHANGED <<entries, flags_, clife, stream, drained>> OBVIOUS
<1>4. RegistryInv' BY <1>1, <1>2, <1>3 DEF RegistryInv, InRegistry, Registered, Range
<1>5. EventsInv' BY <1>2, <1>3, EventsKept
<1>6. FlagMirrorsScopes' BY <1>2, <1>3, FlagsKept DEF Putting, Taking
<1>7. DrainInv'
  <2>1. \A c \in drained : cpc[c] \in Gone => cpc'[c] \in Gone BY <1>2 DEF Gone
  <2>2. CASE DrainEnds
    <3>1. Registered = {} BY <2>2 DEF Registered, Range
    <3>2. QED BY <1>3, <2>1, <2>2, <3>1 DEF DrainInv
  <2>3. CASE DrainRefuses \/ ServeDestroy BY <1>1, <1>3, <2>1, <2>3 DEF DrainInv
  <2>4. QED BY <2>2, <2>3
<1>8. QED BY <1>4, <1>5, <1>6, <1>7

LEMMA OtherStep ==
  ASSUME GateInv, ScopesInv, OtherGateStep \/ UNCHANGED vars, UNCHANGED <<life, alive>>
  PROVE  RegistryInv' /\ EventsInv' /\ FlagMirrorsScopes' /\ DrainInv'
<1>1. UNCHANGED <<callVars, scopeVars, stream, deleteVars>> BY DEF OtherGateStep, vars
<1>2. RegistryInv' /\ EventsInv' /\ FlagMirrorsScopes' /\ Registered' = Registered
  BY <1>1, QuietStep DEF callVars, scopeVars
<1>3. DrainInv' BY <1>1, <1>2 DEF ScopesInv, DrainInv, callVars, deleteVars
<1>4. QED BY <1>2, <1>3

LEMMA FreeStep ==
  ASSUME GateInv, ScopesInv, FreeEntity
  PROVE  RegistryInv' /\ EventsInv' /\ FlagMirrorsScopes' /\ DrainInv'
<1> USE DEF ScopesInv, ScopesTypeOK, FreeEntity, Free
<1>1. ~alive' /\ Registered' = {} BY DEF Registered, Range
<1>2. RegistryInv' BY <1>1 DEF RegistryInv, Distinct
<1>3. EventsInv'
  <2>1. \A c \in Calls : cpc[c] # "deleting" => cpc'[c] = cpc[c]
    BY DEF DeleterGoesOn
  <2>2. QED BY <2>1, EventsKept
<1>4. FlagMirrorsScopes' BY <1>1 DEF FlagMirrorsScopes
<1>5. DrainInv' BY <1>1 DEF DrainInv
<1>6. QED BY <1>2, <1>3, <1>4, <1>5

-----------------------------------------------------------------------------
(* The invariant of the scopes, and what follows *)

\* The gate's invariant and the scopes': what ScopeTag, tagModifyBody and the
\* drain keep true together, step by step, for any calls, labels and lives.
THEOREM ScopesCorrect == Spec => [](GateInv /\ ScopesInv)
<1>1. Spec => []GateInv BY ScopesKeepGate, GateCorrect, PTL
<1>2. Init => ScopesInv
  <2> SUFFICES ASSUME Init PROVE ScopesInv
    OBVIOUS
  <2>1. Registered = {} BY DEF Init, Registered, Range
  <2>2. \A l : Carrying(l) = {} BY <2>1 DEF Carrying
  <2>3. ScopesTypeOK BY DEF Init, ScopesTypeOK
  <2>4. RegistryInv BY <2>1 DEF Init, RegistryInv, Distinct, InRegistry
  <2>5. EventsInv BY DEF Init, EventsInv
  <2>6. FlagMirrorsScopes BY <2>2 DEF Init, FlagMirrorsScopes
  <2>7. DrainInv BY DEF Init, DrainInv
  <2>8. QED BY <2>3, <2>4, <2>5, <2>6, <2>7 DEF ScopesInv
<1>3. GateInv /\ ScopesInv /\ [Next]_vars => ScopesInv'
  <2> SUFFICES ASSUME GateInv, ScopesInv, [Next]_vars PROVE ScopesInv'
    OBVIOUS
  <2>1. ScopesTypeOK' BY ScopesTypeStep
  <2>2. UNCHANGED <<life, alive>> \/ FreeEntity BY LifeStep
  <2> DEFINE Kept == RegistryInv' /\ EventsInv' /\ FlagMirrorsScopes' /\ DrainInv'
  <2>3. ASSUME NEW c \in Calls, Call(c) PROVE Kept
    BY <2>3, DispatchStep, RegisterStep, AddTagStep, LeavingStep, UnregisterStep DEF Call
  <2>4. ASSUME (\E c \in Calls : InterruptAt(c)) \/ (\E l \in Labels : RemoveFlag(l)) PROVE Kept
    BY <2>4, ShellStep
  <2>5. ASSUME ServeTagEvent PROVE Kept BY <2>5, ServeStep
  <2>6. ASSUME NEW by \in Calls \cup {Shell}, Delete(by) PROVE Kept BY <2>6, DeleteStep
  <2>7. ASSUME FreeEntity PROVE Kept BY <2>7, FreeStep
  <2>8. ASSUME ~FreeEntity, DrainEnds \/ DrainRefuses \/ ServeDestroy PROVE Kept
    BY <2>2, <2>8, RequestStep
  <2>9. ASSUME ~FreeEntity, OtherGateStep \/ UNCHANGED vars PROVE Kept BY <2>2, <2>9, OtherStep
  <2>10. Kept BY <2>3, <2>4, <2>5, <2>6, <2>7, <2>8, <2>9 DEF Next
  <2>11. QED BY <2>1, <2>10 DEF ScopesInv
<1>4. QED BY <1>1, <1>2, <1>3, PTL DEF Spec

\* What the shell lists is what runs, whatever is called, interrupted,
\* untagged and deleted, for any calls and labels: ScopeTag puts up and takes
\* down the flag by events that are served late, and it is right all the same.
THEOREM FlagsMirrorScopes == Spec => []FlagMirrorsScopes
<1>1. ScopesInv => FlagMirrorsScopes BY DEF ScopesInv
<1>2. QED BY <1>1, ScopesCorrect, PTL

\* An entity that goes by request goes after the calls its drain interrupted and
\* waited for: none of them looks into the registry again.
THEOREM CallsAreSeenOff == Spec => []DrainSeesCallsOff
<1>1. GateInv /\ ScopesInv => DrainSeesCallsOff
  BY DEF GateInv, DestructionInOrder, ScopesInv, DrainInv, DrainSeesCallsOff, Gone
<1>2. QED BY <1>1, ScopesCorrect, PTL
=============================================================================
