---------------------------- MODULE StateHashProofs ----------------------------
(***************************************************************************)
(* Proofs about StateHash, for any depth, any movers and pullers, and any   *)
(* number of transitions.                                                   *)
(***************************************************************************)
EXTENDS StateHash, SequenceTheorems, TLAPS

(* The calls of a puller: types and control *)

Modes == {"lazy", "digest", "audit"}
Points == {"epoch", "valid", "hit", "current", "was", "surface", "child", "compare", "mark",
           "digest1", "digest2", "cached", "stamp", "half1", "half2", "again", "again2"}

Frames == [node : Nodes, mode : Modes, pc : Points, epoch : Nat, val : Seq(Nat),
           was : Seq(Seq(Nat)), up : 0 .. Depth]

HashTypeOK ==
    /\ surface \in [Nodes -> Nat]
    /\ leaf \in {"absent", "attached", "retiring", "left"}
    /\ hash_epoch_ \in [Nodes -> Nat \ {0}]
    /\ hash_valid_epoch_ \in [Nodes -> Nat]
    /\ hash_cached_ \in [Nodes -> Seq(Nat)]
    /\ hash_digest_ \in [1 .. 2 -> Seq(Nat)]
    /\ mark \in [Movers -> 0 .. Depth] /\ changes \in Nat
    /\ stack \in [Pullers -> Seq(Frames)]
    /\ moved \in [Pullers -> BOOLEAN] /\ diverged \in [Pullers -> BOOLEAN]
    /\ overlapped \in BOOLEAN /\ crossed \in BOOLEAN

\* Every call but the innermost waits for the one inside it, of the child or,
\* in getDigest, of the top.
Shape(s) ==
    /\ \A i, j \in DOMAIN s : i < j =>
         /\ s[i].mode # "digest"
         /\ IF s[j].mode = "digest"
            THEN /\ j = Len(s) /\ s[j].pc = "valid" /\ s[i].mode = "lazy"
                 /\ s[i].node = Top + (j - 1 - i)
            ELSE s[j].mode = s[i].mode /\ s[j].pc = "child" /\ s[i].node = s[j].node + (j - i)
    /\ s # << >> /\ s[Len(s)].mode # "lazy" => s[Len(s)].node = Top

\* Where a call of each mode can be, and what it has read by then.
Local(f) ==
    /\ f.mode = "digest" => f.pc \in {"epoch", "valid", "half1", "half2", "again", "again2"}
    /\ f.mode = "digest" => f.node = Top
    /\ f.mode # "digest" => f.pc \notin {"half1", "half2", "again", "again2"}
    /\ f.mode = "lazy" => f.pc \notin {"current", "was", "mark"} /\ f.was = << >>
    /\ f.mode = "audit" => f.pc \notin {"valid", "hit"}
    /\ f.mode # "digest" =>
         (f.epoch = 0 <=> f.pc = "epoch" \/ (f.pc \in {"current", "was"} /\ f.node # Top))
    /\ f.mode = "audit" /\ (f.pc \in {"current", "was"} \/ (f.pc = "epoch" /\ f.node = Top))
         => f.was = << >>
    /\ f.pc \in {"digest1", "digest2"} => f.node = Top
    /\ f.pc = "mark" => f.up \in Top .. f.node

WellFormed(s) == Shape(s) /\ \A i \in DOMAIN s : Local(s[i])

ControlInv ==
    /\ HashTypeOK
    /\ \A p \in Pullers : WellFormed(stack[p])
    /\ \A p \in Pullers : \A i \in DOMAIN stack[p] :
         stack[p][i].epoch <= hash_epoch_[stack[p][i].node]
    /\ \A n \in Nodes : hash_valid_epoch_[n] <= hash_epoch_[n]
    /\ leaf = "absent" =>
         /\ hash_valid_epoch_[Depth] = 0
         /\ \A p \in Pullers : \A i \in DOMAIN stack[p] : stack[p][i].node # Depth

-----------------------------------------------------------------------------
(* What is under way, and what it may be believed *)

\* The recompute f has read its node's epoch, and has not stamped it yet.
Busy(f) == f.mode # "digest" /\ f.epoch # 0 /\ f.pc # "hit"

\* No transition has reached f's node, nor is one about to, since f read the
\* epoch.
Clean(f) ==
    /\ f.node <= Bottom
    /\ f.epoch # 0 /\ f.epoch = hash_epoch_[f.node]
    /\ ~Unmarked(f.node)

\* Recomputes of one node that are under way together are so from one epoch.
OneEpoch ==
    \A p, q \in Pullers : p # q =>
        \A i \in DOMAIN stack[p], j \in DOMAIN stack[q] :
            /\ stack[p][i].node = stack[q][j].node
            /\ Busy(stack[p][i]) /\ Busy(stack[q][j])
            => stack[p][i].epoch = stack[q][j].epoch

\* All that is under way at node n is so from the present epoch.
AllCurrent(n) ==
    \A p \in Pullers : \A i \in DOMAIN stack[p] :
        stack[p][i].node = n /\ Busy(stack[p][i]) => stack[p][i].epoch = hash_epoch_[n]

\* A cache that is current is recomputed from the present epoch only.
CurrentInv ==
    \A n \in Nodes : hash_valid_epoch_[n] = hash_epoch_[n] => AllCurrent(n)

\* A clean recompute has what it has read from the state as it is.
Recomputed(f) ==
    Busy(f) /\ Clean(f) =>
        /\ f.pc = "child" => f.val = <<surface[f.node]>>
        /\ f.pc \in {"compare", "mark", "digest1", "digest2", "cached", "stamp"} => f.val = Hash(f.node)
        /\ f.pc = "stamp" => hash_cached_[f.node] = Hash(f.node)

\* A call that this one answers to, or, for the top, the call itself, is
\* clean: what is read here counts.
Vouched(s, i) ==
    \E j \in DOMAIN s :
        /\ i < j \/ (i = j /\ s[i].node = Top)
        /\ s[j].mode # "digest" /\ Clean(s[j])

\* What counts is true: the epoch is the present one, a cache that is about
\* to be believed or compared is right, and no audit finds it wrong.
Trusted(f) ==
    /\ f.node <= Bottom
    /\ f.epoch # 0 /\ f.mode # "digest" => f.epoch = hash_epoch_[f.node]
    /\ f.pc \in {"hit", "was"} => hash_cached_[f.node] = Hash(f.node) /\ AllCurrent(f.node)
    /\ f.mode = "audit" /\ f.was # << >> => f.was = <<Hash(f.node)>>
    /\ f.pc # "mark"

\* An audit in whose time nothing has moved is clean.
UnmovedInv ==
    \A p \in Pullers : Auditing(p) /\ ~moved[p] =>
        /\ ~Unmarked(Top)
        /\ LET b == stack[p][Len(stack[p])] IN b.epoch # 0 => b.epoch = hash_epoch_[Top]

BelievedInv ==
    \A n \in Top .. Bottom :
        hash_valid_epoch_[n] = hash_epoch_[n] /\ ~Unmarked(n) => hash_cached_[n] = Hash(n)

CacheOK ==
    /\ OneEpoch /\ CurrentInv /\ UnmovedInv /\ BelievedInv
    /\ \A p \in Pullers : \A i \in DOMAIN stack[p] :
         /\ Recomputed(stack[p][i])
         /\ Vouched(stack[p], i) => Trusted(stack[p][i])
    /\ \A p \in Pullers : diverged[p] => moved[p]

CacheInv == ~crossed => CacheOK

-----------------------------------------------------------------------------
(* The digest, as long as there is one recompute of the top at a time *)

\* A recompute of the top under way.
TopBusy(f) == f.node = Top /\ Busy(f)

TopAt(pcs) ==
    \E p \in Pullers : \E i \in DOMAIN stack[p] : TopBusy(stack[p][i]) /\ stack[p][i].pc \in pcs

\* While the recompute f is the only one, a current stamp means that what f is
\* about to store is there already; and what a digest's call f has copied is
\* the value that was stored under the epoch f has read.
DigestFrame(f) ==
    /\ TopBusy(f) =>
         /\ hash_valid_epoch_[Top] <= f.epoch
         /\ f.mode = "lazy" /\ f.pc # "valid" => hash_valid_epoch_[Top] # hash_epoch_[Top]
         /\ f.mode = "audit" /\ hash_valid_epoch_[Top] = hash_epoch_[Top] =>
              /\ f.pc \in {"surface", "child", "compare", "mark"} => f.was = <<hash_cached_[Top]>>
              /\ f.pc \in {"digest1", "digest2", "cached", "stamp"} => f.val = hash_cached_[Top]
         /\ f.pc \in {"digest2", "cached"} => hash_digest_[1] = f.val
         /\ f.pc = "cached" => hash_digest_[2] = f.val
    /\ f.mode = "digest" /\ f.epoch = hash_epoch_[Top] =>
         /\ f.pc \in {"half1", "half2", "again", "again2"} => hash_valid_epoch_[Top] = hash_epoch_[Top]
         /\ f.pc = "half2" => f.was = <<hash_cached_[Top]>>
         /\ f.pc \in {"again", "again2"} => f.was = <<hash_cached_[Top], hash_cached_[Top]>>

DigestOK ==
    /\ \A p, q \in Pullers : p # q =>
         \A i \in DOMAIN stack[p], j \in DOMAIN stack[q] :
            ~(TopBusy(stack[p][i]) /\ TopBusy(stack[q][j]))
    /\ \A p \in Pullers : \A i \in DOMAIN stack[p] : DigestFrame(stack[p][i])
    /\ hash_digest_[1] # hash_cached_[Top] => TopAt({"digest2", "cached"})
    /\ hash_digest_[2] # hash_cached_[Top] => TopAt({"cached"})

DigestInv == ~overlapped => DigestOK

-----------------------------------------------------------------------------
(* Sequences: the hash of a chain, and the calls of a puller *)

LEMMA Chain ==
  /\ Depth \in Nat /\ Depth >= 2 /\ Top = 1 /\ Nodes = 1 .. Depth
  /\ Bottom \in Nodes /\ Depth - 1 <= Bottom /\ Bottom <= Depth
  BY HashAssumption DEF Top, Nodes, Bottom

LEMMA SurfaceSeq ==
  ASSUME HashTypeOK
  PROVE  surface \in Seq(Nat) /\ Len(surface) = Depth
<1>1. surface \in [1 .. Depth -> Nat] BY Chain DEF HashTypeOK
<1>2. QED BY <1>1, Chain

\* A node's hash is its surface, and then the hash of its child.
LEMMA HashOfChild ==
  ASSUME HashTypeOK, NEW n \in Nodes, n < Bottom
  PROVE  Hash(n) = <<surface[n]>> \o Hash(n + 1)
<1>1. n \in 1 .. Len(surface) /\ Bottom \in n .. Len(surface) BY Chain, SurfaceSeq
<1>2. QED BY <1>1, SurfaceSeq, SubSeqRecursiveFirst DEF Hash

LEMMA HashOfBottom ==
  ASSUME HashTypeOK
  PROVE  Hash(Bottom) = <<surface[Bottom]>>
<1>1. Bottom \in 1 .. Len(surface) /\ Bottom \in Bottom .. Len(surface) BY Chain, SurfaceSeq
<1>2. Hash(Bottom) = <<surface[Bottom]>> \o SubSeq(surface, Bottom + 1, Bottom)
  BY <1>1, SurfaceSeq, SubSeqRecursiveFirst DEF Hash
<1>3. SubSeq(surface, Bottom + 1, Bottom) = << >>
  BY <1>1, SubSeqEmpty
<1>4. PICK x \in Nat : x = surface[Bottom] BY Chain DEF HashTypeOK
<1>5. <<x>> \in Seq(Nat) OBVIOUS
<1>6. <<x>> \o << >> = <<x>> BY <1>5, ConcatEmptySeq
<1>7. QED BY <1>2, <1>3, <1>4, <1>6

\* The head of the calls replaced,
LEMMA BecomesAt ==
  ASSUME NEW T, NEW s \in Seq(T), s # << >>, NEW f \in T
  PROVE  LET r == <<f>> \o Tail(s) IN
         /\ r \in Seq(T) /\ Len(r) = Len(s) /\ DOMAIN r = DOMAIN s
         /\ r[1] = f /\ \A i \in DOMAIN s : i # 1 => r[i] = s[i]
<1>1. PICK n \in Nat : n = Len(s) OBVIOUS
<1>2. n >= 1 BY <1>1
<1>3. PICK t : t = Tail(s) OBVIOUS
<1>4. t \in Seq(T) /\ Len(t) = n - 1 /\ \A i \in 1 .. n - 1 : t[i] = s[i + 1] BY <1>1, <1>2, <1>3
<1>5. PICK r : r = <<f>> \o t OBVIOUS
<1>6. r \in Seq(T) /\ Len(r) = n /\ \A i \in 1 .. n : r[i] = IF i = 1 THEN f ELSE t[i - 1]
  BY <1>2, <1>4, <1>5
<1>7. DOMAIN r = 1 .. n /\ DOMAIN s = 1 .. n BY <1>1, <1>6
<1>8. \A i \in 1 .. n : i # 1 => r[i] = s[i]
  <2>1. ASSUME NEW i \in 1 .. n, i # 1 PROVE r[i] = s[i]
    <3>1. i - 1 \in 1 .. n - 1 /\ (i - 1) + 1 = i BY <1>2, <2>1
    <3>2. QED BY <1>4, <1>6, <2>1, <3>1
  <2>2. QED BY <2>1
<1>9. QED BY <1>1, <1>2, <1>3, <1>5, <1>6, <1>7, <1>8

\* a call on top of them,
LEMMA CallsAt ==
  ASSUME NEW T, NEW s \in Seq(T), NEW f \in T
  PROVE  LET r == <<f>> \o s IN
         /\ r \in Seq(T) /\ Len(r) = Len(s) + 1
         /\ DOMAIN s = 1 .. Len(s) /\ DOMAIN r = 1 .. Len(s) + 1
         /\ r[1] = f /\ \A i \in DOMAIN r : i # 1 => i - 1 \in DOMAIN s /\ r[i] = s[i - 1]
<1>1. PICK n \in Nat : n = Len(s) OBVIOUS
<1>2. PICK r : r = <<f>> \o s OBVIOUS
<1>3. r \in Seq(T) /\ Len(r) = n + 1 /\ \A i \in 1 .. n + 1 : r[i] = IF i = 1 THEN f ELSE s[i - 1]
  BY <1>1, <1>2
<1>4. DOMAIN r = 1 .. n + 1 /\ DOMAIN s = 1 .. n BY <1>1, <1>3
<1>5. QED BY <1>1, <1>2, <1>3, <1>4

\* and the head gone, with the next one changed.
LEMMA AnswersAt ==
  ASSUME NEW T, NEW s \in Seq(T), Len(s) > 1, NEW f \in T
  PROVE  LET r == <<f>> \o SubSeq(s, 3, Len(s)) IN
         /\ r \in Seq(T) /\ Len(r) = Len(s) - 1
         /\ DOMAIN s = 1 .. Len(s) /\ DOMAIN r = 1 .. Len(s) - 1
         /\ r[1] = f /\ \A i \in DOMAIN r : i # 1 => r[i] = s[i + 1]
<1>1. PICK n \in Nat : n = Len(s) OBVIOUS
<1>2. n >= 2 BY <1>1
<1>3. PICK t : t = SubSeq(s, 3, n) OBVIOUS
<1>4. t \in Seq(T) /\ Len(t) = n - 2 /\ \A i \in 1 .. n - 2 : t[i] = s[i + 2]
  BY <1>1, <1>2, <1>3
<1>5. PICK r : r = <<f>> \o t OBVIOUS
<1>6. r \in Seq(T) /\ Len(r) = n - 1 /\ \A i \in 1 .. n - 1 : r[i] = IF i = 1 THEN f ELSE t[i - 1]
  BY <1>2, <1>4, <1>5
<1>7. DOMAIN r = 1 .. n - 1 /\ DOMAIN s = 1 .. n BY <1>1, <1>6
<1>8. \A i \in 1 .. n - 1 : i # 1 => r[i] = s[i + 1]
  <2>1. ASSUME NEW i \in 1 .. n - 1, i # 1 PROVE r[i] = s[i + 1]
    <3>1. i - 1 \in 1 .. n - 2 /\ (i - 1) + 2 = i + 1 BY <1>2, <2>1
    <3>2. QED BY <1>4, <1>6, <2>1, <3>1
  <2>2. QED BY <2>1
<1>9. QED BY <1>1, <1>3, <1>5, <1>6, <1>7, <1>8

-----------------------------------------------------------------------------
(* The calls of a puller stay well formed *)

LEMMA InnermostAt ==
  ASSUME ControlInv, NEW p \in Pullers, stack[p] # << >>
  PROVE  /\ stack[p] \in Seq(Frames) /\ 1 \in DOMAIN stack[p] /\ Len(stack[p]) \in Nat \ {0}
         /\ Head(stack[p]) = stack[p][1] /\ stack[p][1] \in Frames
         /\ WellFormed(stack[p]) /\ Local(stack[p][1])
         /\ stack[p][1].epoch <= hash_epoch_[stack[p][1].node]
<1>1. PICK s \in Seq(Frames) : s = stack[p] BY DEF ControlInv, HashTypeOK
<1>2. Len(s) \in Nat \ {0} /\ DOMAIN s = 1 .. Len(s) BY <1>1
<1>3. 1 \in DOMAIN s /\ s[1] \in Frames /\ Head(s) = s[1] BY <1>2
<1>4. WellFormed(s) /\ Local(s[1]) BY <1>1, <1>3 DEF ControlInv, WellFormed
<1>5. s[1].epoch <= hash_epoch_[s[1].node] BY <1>1, <1>3 DEF ControlInv
<1>6. QED BY <1>1, <1>2, <1>3, <1>4, <1>5

LEMMA BecomesWellFormed ==
  ASSUME NEW s \in Seq(Frames), s # << >>, WellFormed(s), NEW f \in Frames, Local(f),
         f.node = s[1].node, f.mode = s[1].mode
  PROVE  <<f>> \o Tail(s) \in Seq(Frames) /\ WellFormed(<<f>> \o Tail(s))
<1>1. PICK r : r = <<f>> \o Tail(s) OBVIOUS
<1>2. r \in Seq(Frames) /\ Len(r) = Len(s) /\ DOMAIN r = DOMAIN s /\ r[1] = f
      /\ \A i \in DOMAIN s : i # 1 => r[i] = s[i]
  BY <1>1, BecomesAt
<1>3. \A i \in DOMAIN s : r[i].node = s[i].node /\ r[i].mode = s[i].mode BY <1>2
<1>4. DOMAIN s = 1 .. Len(s) /\ Len(s) \in DOMAIN s /\ 1 \in DOMAIN s BY LenProperties, EmptySeq
<1>5. Shape(r)
  <2>1. ASSUME NEW i \in DOMAIN r, NEW j \in DOMAIN r, i < j
        PROVE  /\ r[i].mode # "digest"
               /\ IF r[j].mode = "digest"
                  THEN /\ j = Len(r) /\ r[j].pc = "valid" /\ r[i].mode = "lazy"
                       /\ r[i].node = Top + (j - 1 - i)
                  ELSE r[j].mode = r[i].mode /\ r[j].pc = "child" /\ r[i].node = r[j].node + (j - i)
    <3>1. i \in DOMAIN s /\ j \in DOMAIN s /\ j # 1 BY <1>2, <1>4, <2>1
    <3>2. r[j] = s[j] BY <1>2, <3>1
    <3>3. QED BY <1>2, <1>3, <2>1, <3>1, <3>2 DEF WellFormed, Shape
  <2>2. r[Len(r)].mode # "lazy" => r[Len(r)].node = Top
    BY <1>2, <1>3, <1>4 DEF WellFormed, Shape
  <2>3. QED BY <2>1, <2>2 DEF Shape
<1>6. QED BY <1>1, <1>2, <1>4, <1>5 DEF WellFormed

LEMMA CallsWellFormed ==
  ASSUME NEW s \in Seq(Frames), s # << >>, WellFormed(s), NEW f \in Frames, Local(f),
         \/ /\ s[1].mode = "digest" /\ s[1].pc = "valid" /\ f.mode = "lazy" /\ f.node = Top
         \/ /\ s[1].mode # "digest" /\ s[1].pc = "child" /\ f.mode = s[1].mode
            /\ f.node = s[1].node + 1
  PROVE  <<f>> \o s \in Seq(Frames) /\ WellFormed(<<f>> \o s)
<1>1. PICK r : r = <<f>> \o s OBVIOUS
<1>2. PICK n \in Nat \ {0} : n = Len(s) BY LenProperties, EmptySeq
<1>3. r \in Seq(Frames) /\ Len(r) = n + 1 /\ DOMAIN r = 1 .. n + 1 /\ DOMAIN s = 1 .. n /\ r[1] = f
      /\ \A i \in DOMAIN r : i # 1 => i - 1 \in DOMAIN s /\ r[i] = s[i - 1]
  BY <1>1, <1>2, CallsAt
<1>4. \A i \in DOMAIN s : s[i].node \in Int
  <2>1. ASSUME NEW i \in DOMAIN s PROVE s[i] \in Frames BY ElementOfSeq, <1>2, <1>3
  <2>2. QED BY <2>1, Chain DEF Frames
<1>5. Shape(r)
  <2>1. ASSUME NEW i \in DOMAIN r, NEW j \in DOMAIN r, i < j
        PROVE  /\ r[i].mode # "digest"
               /\ IF r[j].mode = "digest"
                  THEN /\ j = Len(r) /\ r[j].pc = "valid" /\ r[i].mode = "lazy"
                       /\ r[i].node = Top + (j - 1 - i)
                  ELSE r[j].mode = r[i].mode /\ r[j].pc = "child" /\ r[i].node = r[j].node + (j - i)
    <3>1. PICK k \in DOMAIN s : k = j - 1 /\ r[j] = s[k] BY <1>3, <2>1
    <3>2. CASE i = 1
      <4>1. CASE k = 1
        <5>1. CASE s[1].mode = "digest"
          <6>1. \A l \in DOMAIN s : ~(1 < l) BY <5>1, <3>1, <4>1 DEF WellFormed, Shape
          <6>2. n = 1 BY <1>3, <6>1
          <6>3. QED BY <1>3, <3>1, <3>2, <4>1, <5>1, <6>2, Chain
        <5>2. CASE s[1].mode # "digest" BY <1>3, <1>4, <3>1, <3>2, <4>1, <5>2
        <5>3. QED BY <5>1, <5>2
      <4>2. CASE k # 1
        <5>1. 1 < k /\ 1 \in DOMAIN s BY <1>3, <3>1, <4>2
        <5>2. s[1].mode # "digest" BY <5>1, <3>1 DEF WellFormed, Shape
        <5>3. IF s[k].mode = "digest"
              THEN /\ k = Len(s) /\ s[k].pc = "valid" /\ s[1].mode = "lazy"
                   /\ s[1].node = Top + (k - 1 - 1)
              ELSE s[k].mode = s[1].mode /\ s[k].pc = "child" /\ s[1].node = s[k].node + (k - 1)
          BY <5>1, <3>1 DEF WellFormed, Shape
        <5>4. QED BY <1>2, <1>3, <1>4, <3>1, <3>2, <5>2, <5>3, Chain
      <4>3. QED BY <4>1, <4>2
    <3>3. CASE i # 1
      <4>1. PICK h \in DOMAIN s : h = i - 1 /\ r[i] = s[h] BY <1>3, <3>3
      <4>2. h < k BY <2>1, <3>1, <4>1, <1>3
      <4>3. /\ s[h].mode # "digest"
            /\ IF s[k].mode = "digest"
               THEN /\ k = Len(s) /\ s[k].pc = "valid" /\ s[h].mode = "lazy"
                    /\ s[h].node = Top + (k - 1 - h)
               ELSE s[k].mode = s[h].mode /\ s[k].pc = "child" /\ s[h].node = s[k].node + (k - h)
        BY <4>2 DEF WellFormed, Shape
      <4>4. k - h = j - i /\ k - 1 - h = j - 1 - i /\ (k = Len(s) => j = Len(r))
        BY <1>2, <1>3, <3>1, <4>1
      <4>5. QED BY <3>1, <4>1, <4>3, <4>4
    <3>4. QED BY <3>2, <3>3
  <2>2. r[Len(r)] = s[Len(s)] BY <1>2, <1>3
  <2>3. s[Len(s)].mode # "lazy" => s[Len(s)].node = Top BY DEF WellFormed, Shape
  <2>4. QED BY <2>1, <2>2, <2>3 DEF Shape
<1>6. \A i \in DOMAIN r : Local(r[i]) BY <1>3 DEF WellFormed
<1>7. QED BY <1>1, <1>3, <1>5, <1>6 DEF WellFormed

LEMMA AnswersWellFormed ==
  ASSUME NEW s \in Seq(Frames), Len(s) > 1, WellFormed(s), NEW f \in Frames, Local(f),
         f.node = s[2].node, f.mode = s[2].mode
  PROVE  <<f>> \o SubSeq(s, 3, Len(s)) \in Seq(Frames) /\ WellFormed(<<f>> \o SubSeq(s, 3, Len(s)))
<1>1. PICK r : r = <<f>> \o SubSeq(s, 3, Len(s)) OBVIOUS
<1>2. PICK n \in Nat : n = Len(s) /\ n > 1 BY LenProperties
<1>3. r \in Seq(Frames) /\ Len(r) = n - 1 /\ DOMAIN r = 1 .. n - 1 /\ DOMAIN s = 1 .. n /\ r[1] = f
      /\ \A i \in DOMAIN r : i # 1 => r[i] = s[i + 1]
  <2>1. Len(s) > 1 OBVIOUS
  <2>2. LET t == <<f>> \o SubSeq(s, 3, Len(s)) IN
        /\ t \in Seq(Frames) /\ Len(t) = Len(s) - 1
        /\ DOMAIN s = 1 .. Len(s) /\ DOMAIN t = 1 .. Len(s) - 1
        /\ t[1] = f /\ \A i \in DOMAIN t : i # 1 => t[i] = s[i + 1]
    BY ONLY <2>1, AnswersAt, s \in Seq(Frames), f \in Frames
  <2>3. QED BY ONLY <1>1, <1>2, <2>2
<1>4. \A i \in DOMAIN r : i + 1 \in DOMAIN s /\ r[i].node = s[i + 1].node /\ r[i].mode = s[i + 1].mode
  BY <1>2, <1>3
<1>5. Shape(r)
  <2>1. ASSUME NEW i \in DOMAIN r, NEW j \in DOMAIN r, i < j
        PROVE  /\ r[i].mode # "digest"
               /\ IF r[j].mode = "digest"
                  THEN /\ j = Len(r) /\ r[j].pc = "valid" /\ r[i].mode = "lazy"
                       /\ r[i].node = Top + (j - 1 - i)
                  ELSE r[j].mode = r[i].mode /\ r[j].pc = "child" /\ r[i].node = r[j].node + (j - i)
    <3>1. r[j] = s[j + 1] BY <1>3, <2>1
    <3>2. PICK h \in DOMAIN s, k \in DOMAIN s : h = i + 1 /\ k = j + 1 BY <1>4
    <3>3. h < k BY <1>3, <2>1, <3>2
    <3>4. /\ s[h].mode # "digest"
          /\ IF s[k].mode = "digest"
             THEN /\ k = Len(s) /\ s[k].pc = "valid" /\ s[h].mode = "lazy"
                  /\ s[h].node = Top + (k - 1 - h)
             ELSE s[k].mode = s[h].mode /\ s[k].pc = "child" /\ s[h].node = s[k].node + (k - h)
      BY <3>3 DEF WellFormed, Shape
    <3>5. k - h = j - i /\ k - 1 - h = j - 1 - i /\ (k = Len(s) => j = Len(r))
      BY <1>2, <1>3, <3>2
    <3>6. QED BY <1>4, <3>1, <3>2, <3>4, <3>5
  <2>2. r[Len(r)].mode = s[Len(s)].mode /\ r[Len(r)].node = s[Len(s)].node BY <1>2, <1>3, <1>4
  <2>3. s # << >> BY <1>2
  <2>4. s[Len(s)].mode # "lazy" => s[Len(s)].node = Top BY <2>3 DEF WellFormed, Shape
  <2>5. QED BY <2>1, <2>2, <2>4 DEF Shape
<1>6. \A i \in DOMAIN r : Local(r[i]) BY <1>3, <1>4 DEF WellFormed
<1>7. QED BY <1>1, <1>3, <1>5, <1>6 DEF WellFormed

\* What a step does to the other variables: epochs only grow, and no cache is
\* stamped with one that has not been.
OthersOK ==
    /\ surface' \in [Nodes -> Nat] /\ changes' \in Nat
    /\ leaf' \in {"absent", "attached", "retiring", "left"}
    /\ hash_epoch_' \in [Nodes -> Nat \ {0}]
    /\ hash_valid_epoch_' \in [Nodes -> Nat]
    /\ \A n \in Nodes : hash_epoch_[n] <= hash_epoch_'[n] /\ hash_valid_epoch_'[n] <= hash_epoch_'[n]
    /\ leaf' = "absent" => leaf = "absent" /\ hash_valid_epoch_'[Depth] = 0
    /\ hash_cached_' \in [Nodes -> Seq(Nat)] /\ hash_digest_' \in [1 .. 2 -> Seq(Nat)]
    /\ mark' \in [Movers -> 0 .. Depth]
    /\ moved' \in [Pullers -> BOOLEAN] /\ diverged' \in [Pullers -> BOOLEAN]
    /\ overlapped' \in BOOLEAN /\ crossed' \in BOOLEAN

LEMMA ControlKept ==
  ASSUME ControlInv, OthersOK, stack' = stack
  PROVE  ControlInv'
<1>1. HashTypeOK' BY DEF ControlInv, HashTypeOK, OthersOK
<1>2. ASSUME NEW q \in Pullers, NEW i \in DOMAIN stack[q]
      PROVE  stack[q][i].epoch <= hash_epoch_'[stack[q][i].node]
  <2>1. stack[q][i] \in Frames BY ElementOfSeq DEF ControlInv, HashTypeOK
  <2>2. PICK n \in Nodes, e \in Nat : n = stack[q][i].node /\ e = stack[q][i].epoch BY <2>1 DEF Frames
  <2>3. e <= hash_epoch_[n] BY <2>2 DEF ControlInv
  <2>4. hash_epoch_[n] \in Nat /\ hash_epoch_'[n] \in Nat /\ hash_epoch_[n] <= hash_epoch_'[n]
    BY DEF OthersOK, ControlInv, HashTypeOK
  <2>5. QED BY <2>2, <2>3, <2>4
<1>3. QED BY <1>1, <1>2 DEF ControlInv, OthersOK

LEMMA ControlStep ==
  ASSUME ControlInv, OthersOK, NEW p \in Pullers, NEW r \in Seq(Frames), WellFormed(r),
         stack' = [stack EXCEPT ![p] = r],
         \A i \in DOMAIN r : /\ r[i].epoch <= hash_epoch_[r[i].node]
                             /\ leaf = "absent" => r[i].node # Depth
  PROVE  ControlInv'
<1>0. \A q \in Pullers : stack'[q] = IF q = p THEN r ELSE stack[q] BY DEF ControlInv, HashTypeOK
<1>1. HashTypeOK' BY DEF ControlInv, HashTypeOK, OthersOK
<1>2. ASSUME NEW q \in Pullers, NEW i \in DOMAIN stack'[q]
      PROVE  /\ stack'[q][i].epoch <= hash_epoch_'[stack'[q][i].node]
             /\ leaf' = "absent" => stack'[q][i].node # Depth
  <2>0. stack'[q][i].epoch <= hash_epoch_[stack'[q][i].node]
    BY <1>0 DEF ControlInv
  <2>1. PICK f \in Frames : f = stack'[q][i]
    <3>1. stack'[q] \in Seq(Frames) BY <1>1 DEF HashTypeOK
    <3>2. QED BY <3>1, ElementOfSeq
  <2>2. PICK n \in Nodes, e \in Nat : n = f.node /\ e = f.epoch BY DEF Frames
  <2>3. e <= hash_epoch_[n] BY <2>0, <2>1, <2>2
  <2>4. hash_epoch_[n] \in Nat /\ hash_epoch_'[n] \in Nat /\ hash_epoch_[n] <= hash_epoch_'[n]
    BY DEF OthersOK, ControlInv, HashTypeOK
  <2>5. leaf' = "absent" => stack'[q][i].node # Depth
    BY <1>0 DEF OthersOK, ControlInv
  <2>6. QED BY <2>1, <2>2, <2>3, <2>4, <2>5
<1>3. \A q \in Pullers : WellFormed(stack[q])' BY <1>0 DEF ControlInv
<1>4. QED BY <1>1, <1>2, <1>3 DEF ControlInv, OthersOK

LEMMA ControlBecomes ==
  ASSUME ControlInv, OthersOK, NEW p \in Pullers, stack[p] # << >>,
         NEW g \in Frames, Becomes(p, g), Local(g),
         g.node = stack[p][1].node, g.mode = stack[p][1].mode, g.epoch <= hash_epoch_[g.node]
  PROVE  ControlInv'
<1>1. PICK s \in Seq(Frames) : s = stack[p] /\ WellFormed(s) /\ s # << >> BY InnermostAt
<1>2. PICK r : r = <<g>> \o Tail(s) OBVIOUS
<1>3. r \in Seq(Frames) /\ WellFormed(r) BY <1>1, <1>2, BecomesWellFormed
<1>4. DOMAIN r = DOMAIN s /\ r[1] = g /\ \A i \in DOMAIN s : i # 1 => r[i] = s[i]
  BY <1>1, <1>2, BecomesAt
<1>5. ASSUME NEW i \in DOMAIN r
      PROVE  r[i].epoch <= hash_epoch_[r[i].node] /\ (leaf = "absent" => r[i].node # Depth)
  <2>1. 1 \in DOMAIN s BY <1>1, InnermostAt
  <2>2. CASE i = 1 BY <1>1, <1>4, <2>1, <2>2 DEF ControlInv
  <2>3. CASE i # 1 BY <1>1, <1>4, <2>3 DEF ControlInv
  <2>4. QED BY <2>2, <2>3
<1>6. stack' = [stack EXCEPT ![p] = r] BY <1>1, <1>2 DEF Becomes
<1>7. QED BY <1>3, <1>5, <1>6, ControlStep

LEMMA ControlCalls ==
  ASSUME ControlInv, OthersOK, NEW p \in Pullers, stack[p] # << >>,
         NEW g \in Frames, Calls(p, g), Local(g), g.epoch = 0, leaf = "absent" => g.node # Depth,
         \/ /\ stack[p][1].mode = "digest" /\ stack[p][1].pc = "valid"
            /\ g.mode = "lazy" /\ g.node = Top
         \/ /\ stack[p][1].mode # "digest" /\ stack[p][1].pc = "child"
            /\ g.mode = stack[p][1].mode /\ g.node = stack[p][1].node + 1
  PROVE  ControlInv'
<1>1. PICK s \in Seq(Frames) : s = stack[p] /\ WellFormed(s) /\ s # << >> BY InnermostAt
<1>2. PICK r : r = <<g>> \o s OBVIOUS
<1>3. r \in Seq(Frames) /\ WellFormed(r) BY <1>1, <1>2, CallsWellFormed
<1>4. r[1] = g /\ \A i \in DOMAIN r : i # 1 => i - 1 \in DOMAIN s /\ r[i] = s[i - 1]
  BY <1>1, <1>2, CallsAt
<1>5. ASSUME NEW i \in DOMAIN r
      PROVE  r[i].epoch <= hash_epoch_[r[i].node] /\ (leaf = "absent" => r[i].node # Depth)
  <2>1. 0 <= hash_epoch_[g.node] BY DEF Frames, ControlInv, HashTypeOK
  <2>2. CASE i = 1 BY <1>4, <2>1, <2>2
  <2>3. CASE i # 1 BY <1>1, <1>4, <2>3 DEF ControlInv
  <2>4. QED BY <2>2, <2>3
<1>6. stack' = [stack EXCEPT ![p] = r] BY <1>1, <1>2 DEF Calls
<1>7. QED BY <1>3, <1>5, <1>6, ControlStep

\* The frame that is next after an answer.
Resumed(c, v) ==
    IF c.mode = "digest" THEN [c EXCEPT !.pc = "epoch"]
    ELSE [c EXCEPT !.pc = "compare", !.val = @ \o v]

LEMMA ResumedOK ==
  ASSUME NEW s \in Seq(Frames), Len(s) > 1, WellFormed(s), NEW v \in Seq(Nat)
  PROVE  /\ Resumed(s[2], v) \in Frames /\ Local(Resumed(s[2], v))
         /\ Resumed(s[2], v).node = s[2].node /\ Resumed(s[2], v).mode = s[2].mode
         /\ Resumed(s[2], v).epoch = s[2].epoch /\ Resumed(s[2], v).was = s[2].was
<1>1. 1 \in DOMAIN s /\ 2 \in DOMAIN s BY LenProperties
<1>2. PICK c \in Frames : c = s[2] BY <1>1, ElementOfSeq, LenProperties
<1>3. Local(c) BY <1>1, <1>2 DEF WellFormed
<1>4. CASE c.mode = "digest"
  <2>1. PICK g : g = [c EXCEPT !.pc = "epoch"] OBVIOUS
  <2>2. g \in Frames /\ g.node = c.node /\ g.mode = c.mode /\ g.epoch = c.epoch /\ g.pc = "epoch"
        /\ g.was = c.was
    BY <2>1 DEF Frames, Points
  <2>3. Local(g) BY <1>3, <1>4, <2>2 DEF Local
  <2>4. QED BY <1>2, <1>4, <2>1, <2>2, <2>3 DEF Resumed
<1>5. CASE c.mode # "digest"
  <2>0. c.pc = "child" BY <1>1, <1>2, <1>5 DEF WellFormed, Shape
  <2>1. PICK w \in Seq(Nat) : w = c.val \o v BY ConcatProperties DEF Frames
  <2>2. PICK g : g = [c EXCEPT !.pc = "compare", !.val = w] OBVIOUS
  <2>3. g \in Frames /\ g.node = c.node /\ g.mode = c.mode /\ g.epoch = c.epoch /\ g.pc = "compare"
        /\ g.was = c.was
    BY <2>2 DEF Frames, Points
  <2>4. Local(g) BY <1>3, <1>5, <2>0, <2>3 DEF Local
  <2>5. g = Resumed(c, v) BY <1>5, <2>1, <2>2 DEF Resumed
  <2>6. QED BY <1>2, <2>3, <2>4, <2>5
<1>6. QED BY <1>4, <1>5

LEMMA ControlAnswers ==
  ASSUME ControlInv, OthersOK, NEW p \in Pullers, stack[p] # << >>,
         NEW v, Answers(p, v), Len(stack[p]) = 1 \/ v \in Seq(Nat)
  PROVE  ControlInv'
<1>1. PICK s \in Seq(Frames) : s = stack[p] /\ WellFormed(s) /\ s # << >> BY InnermostAt
<1>2. CASE Len(s) = 1
  <2>1. stack' = [stack EXCEPT ![p] = << >>] BY <1>1, <1>2 DEF Answers, ControlInv, HashTypeOK
  <2>2. << >> \in Seq(Frames) /\ DOMAIN << >> = {} /\ WellFormed(<< >>) BY DEF WellFormed, Shape
  <2>3. QED BY <2>1, <2>2, ControlStep
<1>3. CASE Len(s) # 1
  <2>0. PICK n \in Nat \ {0} : n = Len(s) /\ DOMAIN s = 1 .. n BY <1>1, LenProperties, EmptySeq
  <2>1. Len(s) > 1 /\ 2 \in DOMAIN s /\ v \in Seq(Nat)
    <3>1. n > 1 BY <1>3, <2>0
    <3>2. v \in Seq(Nat) BY <1>1, <1>3, Zenon
    <3>3. QED BY <2>0, <3>1, <3>2
  <2>2. PICK g : g = Resumed(s[2], v) OBVIOUS
  <2>3. g \in Frames /\ Local(g) /\ g.node = s[2].node /\ g.mode = s[2].mode /\ g.epoch = s[2].epoch
    BY <1>1, <2>1, <2>2, ResumedOK
  <2>4. PICK r : r = <<g>> \o SubSeq(s, 3, Len(s)) OBVIOUS
  <2>5. r \in Seq(Frames) /\ WellFormed(r) BY <1>1, <2>1, <2>3, <2>4, AnswersWellFormed
  <2>6. /\ DOMAIN s = 1 .. Len(s) /\ DOMAIN r = 1 .. Len(s) - 1
        /\ r[1] = g /\ \A i \in DOMAIN r : i # 1 => r[i] = s[i + 1]
    BY <2>1, <2>3, <2>4, AnswersAt
  <2>7. ASSUME NEW i \in DOMAIN r
        PROVE  r[i].epoch <= hash_epoch_[r[i].node] /\ (leaf = "absent" => r[i].node # Depth)
    <3>1. PICK k \in DOMAIN s : k = i + 1 BY <2>1, <2>6
    <3>2. r[i].epoch = s[k].epoch /\ r[i].node = s[k].node BY <2>3, <2>6, <3>1
    <3>3. QED BY <1>1, <3>2 DEF ControlInv
  <2>8. stack' = [stack EXCEPT ![p] = r]
    BY <1>1, <1>3, <2>2, <2>4 DEF Answers, Resumed, ControlInv, HashTypeOK
  <2>9. QED BY <2>5, <2>7, <2>8, ControlStep
<1>4. QED BY <1>2, <1>3

-----------------------------------------------------------------------------
(* Types and control, step by step *)

LEMMA ControlTransition ==
  ASSUME ControlInv, NEW m \in Movers, NEW n \in Nodes, Transition(m, n),
         surface' \in [Nodes -> Nat], leaf' \in {"attached", "left"} \/ leaf' = leaf
  PROVE  ControlInv'
<1>1. stack' = stack /\ hash_epoch_' = hash_epoch_ /\ hash_valid_epoch_' = hash_valid_epoch_
      /\ hash_cached_' = hash_cached_ /\ hash_digest_' = hash_digest_
      /\ diverged' = diverged /\ overlapped' = overlapped /\ crossed' = crossed
  BY DEF Transition, cacheVars, pullVars
<1>2. changes' \in Nat /\ mark' \in [Movers -> 0 .. Depth]
  <2>1. changes \in Nat /\ mark \in [Movers -> 0 .. Depth] BY DEF ControlInv, HashTypeOK
  <2>2. changes' = changes + 1 /\ mark' = [mark EXCEPT ![m] = n] BY DEF Transition
  <2>3. n \in 0 .. Depth BY Chain
  <2>4. QED BY ONLY <2>1, <2>2, <2>3
<1>3. moved' \in [Pullers -> BOOLEAN] BY Zenon DEF Transition
<1>4. leaf' \in {"absent", "attached", "retiring", "left"} /\ (leaf' = "absent" => leaf = "absent")
  BY DEF ControlInv, HashTypeOK
<1>5. OthersOK
  <2>1. HashTypeOK /\ \A k \in Nodes : hash_valid_epoch_[k] <= hash_epoch_[k] BY DEF ControlInv
  <2>2. leaf = "absent" => hash_valid_epoch_[Depth] = 0 BY DEF ControlInv
  <2>3. QED BY <1>1, <1>2, <1>3, <1>4, <2>1, <2>2 DEF OthersOK, HashTypeOK
<1>6. QED BY <1>1, <1>5, ControlKept

LEMMA ControlMove ==
  ASSUME ControlInv, (\E m \in Movers : Move(m)) \/ BeginRetire
  PROVE  ControlInv'
<1>1. CASE BeginRetire
  <2>1. moved' \in [Pullers -> BOOLEAN] BY <1>1, Zenon DEF BeginRetire
  <2>2. OthersOK /\ stack' = stack
    BY <1>1, <2>1 DEF BeginRetire, OthersOK, ControlInv, HashTypeOK, cacheVars, pullVars
  <2>3. QED BY <2>2, ControlKept
<1>2. ASSUME NEW m \in Movers, Move(m) PROVE ControlInv'
  <2>1. CASE \E n \in Nodes : ModifyTag(m, n)
    <3>1. PICK n \in Nodes : ModifyTag(m, n) BY <2>1
    <3>2. surface' \in [Nodes -> Nat] /\ leaf' = leaf BY <3>1 DEF ModifyTag, ControlInv, HashTypeOK
    <3>3. QED BY <3>1, <3>2, ControlTransition DEF ModifyTag
  <2>2. CASE AddChild(m) \/ DetachFromParent(m)
    <3>1. surface' \in [Nodes -> Nat] /\ leaf' \in {"attached", "left"} /\ Transition(m, Depth - 1)
      BY <2>2 DEF AddChild, DetachFromParent, ControlInv, HashTypeOK
    <3>2. QED BY <3>1, Chain, ControlTransition
  <2>3. CASE MarkStateChange(m)
    <3>1. PICK k \in 1 .. Depth : k = mark[m] BY <2>3 DEF MarkStateChange, ControlInv, HashTypeOK
    <3>2. PICK j \in 0 .. Depth : j = k - 1 BY Chain
    <3>3. PICK e \in Nat \ {0} : e = hash_epoch_[k] + 1
      <4>1. PICK d \in Nat \ {0} : d = hash_epoch_[k] BY Chain DEF ControlInv, HashTypeOK
      <4>2. d + 1 \in Nat \ {0} OBVIOUS
      <4>3. QED BY <4>1, <4>2
    <3>4. mark' = [mark EXCEPT ![m] = j] /\ hash_epoch_' = [hash_epoch_ EXCEPT ![k] = e]
      BY <2>3, <3>1, <3>2, <3>3 DEF MarkStateChange
    <3>5. mark' \in [Movers -> 0 .. Depth] BY <3>4 DEF ControlInv, HashTypeOK
    <3>6. hash_epoch_' \in [Nodes -> Nat \ {0}] BY <3>4 DEF ControlInv, HashTypeOK
    <3>7. ASSUME NEW n \in Nodes
          PROVE  hash_epoch_[n] <= hash_epoch_'[n] /\ hash_valid_epoch_[n] <= hash_epoch_'[n]
      <4>1. hash_epoch_'[n] = IF n = k THEN e ELSE hash_epoch_[n] BY <3>4 DEF ControlInv, HashTypeOK
      <4>2. hash_valid_epoch_[n] <= hash_epoch_[n] /\ hash_valid_epoch_[n] \in Nat /\ hash_epoch_[n] \in Nat
        BY DEF ControlInv, HashTypeOK
      <4>3. QED BY <3>3, <4>1, <4>2
    <3>8. OthersOK /\ stack' = stack
      BY <2>3, <3>5, <3>6, <3>7 DEF MarkStateChange, OthersOK, ControlInv, HashTypeOK, stateVars, cacheVars, pullVars
    <3>9. QED BY <3>8, ControlKept
  <2>4. QED BY <1>2, <2>1, <2>2, <2>3 DEF Move
<1>3. QED BY <1>1, <1>2

\* Steps that change only the calls.
LEMMA OnlyStackOK ==
  ASSUME ControlInv, OnlyStack
  PROVE  OthersOK
BY DEF OnlyStack, OthersOK, ControlInv, HashTypeOK, stateVars, cacheVars

LEMMA ControlPull ==
  ASSUME ControlInv, NEW p \in Pullers, Pull(p)
  PROVE  ControlInv'
<1>1. PICK mode \in Asks[p], n \in Top .. Depth - 1 :
        /\ mode # "lazy" => n = Top
        /\ Calls(p, Frame(n, mode, "epoch"))
        /\ moved' = [moved EXCEPT ![p] = mode = "audit" /\ Unmarked(Top)]
  BY DEF Pull
<1>2. mode \in Modes BY HashAssumption DEF Modes
<1>3. n \in Nodes /\ n # Depth BY Chain
<1>4. PICK g : g = Frame(n, mode, "epoch") OBVIOUS
<1>5. /\ g.node = n /\ g.mode = mode /\ g.pc = "epoch" /\ g.epoch = 0 /\ g.was = << >>
      /\ g \in Frames
  BY <1>2, <1>3, <1>4, Chain DEF Frame, Frames, Points
<1>6. PICK r : r = <<g>> OBVIOUS
<1>7. r \in Seq(Frames) /\ Len(r) = 1 /\ DOMAIN r = {1} /\ r[1] = g BY <1>5, <1>6
<1>8. Local(g) BY <1>1, <1>5 DEF Local
<1>9. WellFormed(r) BY <1>1, <1>5, <1>7, <1>8 DEF WellFormed, Shape
<1>10. stack' = [stack EXCEPT ![p] = r]
  <2>1. <<g>> \o << >> = <<g>> BY <1>5, <1>6, <1>7, ConcatEmptySeq
  <2>2. stack[p] = << >> /\ stack' = [stack EXCEPT ![p] = <<g>> \o stack[p]] BY <1>1, <1>4 DEF Pull, Calls
  <2>3. QED BY <1>6, <2>1, <2>2
<1>11. moved' \in [Pullers -> BOOLEAN] /\ diverged' \in [Pullers -> BOOLEAN]
  <2>1. \A x \in BOOLEAN : [moved EXCEPT ![p] = x] \in [Pullers -> BOOLEAN]
    BY Zenon DEF ControlInv, HashTypeOK
  <2>2. (mode = "audit" /\ Unmarked(Top)) \in BOOLEAN BY Zenon
  <2>3. moved' \in [Pullers -> BOOLEAN] BY <1>1, <2>1, <2>2, Zenon
  <2>4. diverged' \in [Pullers -> BOOLEAN] BY Zenon DEF Pull, ControlInv, HashTypeOK
  <2>5. QED BY <2>3, <2>4
<1>12. OthersOK BY <1>11 DEF Pull, OthersOK, ControlInv, HashTypeOK, stateVars, cacheVars
<1>13. g.epoch <= hash_epoch_[g.node] BY <1>3, <1>5 DEF ControlInv, HashTypeOK
<1>14. QED BY <1>3, <1>5, <1>7, <1>9, <1>10, <1>12, <1>13, ControlStep

LEMMA ControlLoadEpoch ==
  ASSUME ControlInv, NEW p \in Pullers, LoadEpoch(p)
  PROVE  ControlInv'
<1>1. stack[p] # << >> BY DEF LoadEpoch, At
<1>2. PICK f \in Frames : f = stack[p][1] /\ Head(stack[p]) = f /\ Local(f) BY <1>1, InnermostAt
<1>3. f.pc = "epoch" BY <1>2 DEF LoadEpoch, At
<1>4. PICK e \in Nat \ {0} : e = hash_epoch_[f.node] BY DEF Frames, ControlInv, HashTypeOK
<1>5. PICK next : next = IF f.mode # "audit" THEN "valid" ELSE IF f.node = Top THEN "current" ELSE "surface"
  OBVIOUS
<1>6. PICK g : g = [f EXCEPT !.epoch = e, !.pc = next] OBVIOUS
<1>7. /\ g \in Frames /\ g.node = f.node /\ g.mode = f.mode /\ g.epoch = e /\ g.pc = next
      /\ g.was = f.was /\ g.up = f.up
  BY <1>5, <1>6 DEF Frames, Points
<1>8. Local(g) BY <1>2, <1>3, <1>4, <1>5, <1>7 DEF Local, Frames, Modes
<1>9. Becomes(p, g) BY <1>2, <1>4, <1>5, <1>6 DEF LoadEpoch
<1>10. overlapped' \in BOOLEAN /\ crossed' \in BOOLEAN
  BY Zenon DEF LoadEpoch, ControlInv, HashTypeOK
<1>11. OthersOK BY <1>10 DEF LoadEpoch, OthersOK, ControlInv, HashTypeOK, stateVars, cacheVars
<1>12. g.epoch <= hash_epoch_[g.node] BY <1>4, <1>7
<1>13. QED BY <1>1, <1>2, <1>7, <1>8, <1>9, <1>11, <1>12, ControlBecomes

\* The innermost call of p goes from f to g, which is a call of the same kind.
Advances(p, f, g) ==
    /\ stack[p] # << >> /\ f = stack[p][1] /\ Becomes(p, g)
    /\ f \in Frames /\ g \in Frames /\ Local(f) /\ Local(g)
    /\ g.node = f.node /\ g.mode = f.mode /\ g.epoch = f.epoch

LEMMA ControlAdvances ==
  ASSUME ControlInv, OthersOK, NEW p \in Pullers, NEW f, NEW g, Advances(p, f, g)
  PROVE  ControlInv'
<1>1. g.epoch <= hash_epoch_[g.node] BY InnermostAt DEF Advances
<1>2. QED BY <1>1, ControlBecomes DEF Advances

LEMMA LoadValidDoes ==
  ASSUME ControlInv, NEW p \in Pullers, LoadValid(p),
         ~(stack[p][1].mode = "digest" /\ hash_valid_epoch_[stack[p][1].node] # stack[p][1].epoch)
  PROVE  \E f, g : /\ Advances(p, f, g) /\ f.pc = "valid" /\ g.val = f.val /\ g.was = f.was
                   /\ \/ /\ hash_valid_epoch_[f.node] = f.epoch
                         /\ g.pc = IF f.mode = "digest" THEN "half1" ELSE "hit"
                      \/ hash_valid_epoch_[f.node] # f.epoch /\ f.mode = "lazy" /\ g.pc = "surface"
<1>1. stack[p] # << >> BY DEF LoadValid, At
<1>2. PICK f \in Frames : f = stack[p][1] /\ Head(stack[p]) = f /\ Local(f) BY <1>1, InnermostAt
<1>3. f.pc = "valid" BY <1>2 DEF LoadValid, At
<1>4. PICK next : next = IF hash_valid_epoch_[f.node] = f.epoch
                         THEN IF f.mode = "digest" THEN "half1" ELSE "hit" ELSE "surface"
  OBVIOUS
<1>5. PICK g : g = [f EXCEPT !.pc = next] OBVIOUS
<1>6. Becomes(p, g) BY <1>2, <1>4, <1>5 DEF LoadValid
<1>7. g \in Frames /\ g.node = f.node /\ g.mode = f.mode /\ g.epoch = f.epoch /\ g.pc = next
      /\ g.val = f.val /\ g.was = f.was
  BY <1>4, <1>5 DEF Frames, Points
<1>8. f.mode \in {"digest", "lazy"} BY <1>2, <1>3 DEF Local, Frames, Modes
<1>9. Local(g) BY <1>2, <1>3, <1>4, <1>7, <1>8 DEF Local
<1>10. QED BY <1>1, <1>2, <1>3, <1>4, <1>6, <1>7, <1>8, <1>9 DEF Advances

LEMMA AuditCurrentDoes ==
  ASSUME ControlInv, NEW p \in Pullers, AuditCurrent(p)
  PROVE  \E f, g : /\ Advances(p, f, g) /\ f.pc = "current" /\ f.mode = "audit" /\ g.val = f.val
                   /\ f.was = << >> /\ g.was = << >>
                   /\ \/ hash_valid_epoch_[f.node] = hash_epoch_[f.node] /\ g.pc = "was"
                      \/ /\ hash_valid_epoch_[f.node] # hash_epoch_[f.node]
                         /\ g.pc = AuditGoesOn(f) /\ g.pc \in {"surface", "epoch"}
<1>1. stack[p] # << >> BY DEF AuditCurrent, At
<1>2. PICK f \in Frames : f = stack[p][1] /\ Head(stack[p]) = f /\ Local(f) BY <1>1, InnermostAt
<1>3. f.pc = "current" BY <1>2 DEF AuditCurrent, At
<1>4. PICK next : next = IF hash_valid_epoch_[f.node] = hash_epoch_[f.node] THEN "was" ELSE AuditGoesOn(f)
  OBVIOUS
<1>5. PICK g : g = [f EXCEPT !.pc = next] OBVIOUS
<1>6. Becomes(p, g) BY <1>2, <1>4, <1>5 DEF AuditCurrent
<1>7. g \in Frames /\ g.node = f.node /\ g.mode = f.mode /\ g.epoch = f.epoch /\ g.pc = next
      /\ g.val = f.val /\ g.was = f.was
  BY <1>4, <1>5 DEF Frames, Points, AuditGoesOn
<1>8. f.mode = "audit" BY <1>2, <1>3 DEF Local, Frames, Modes
<1>9. Local(g) BY <1>2, <1>3, <1>4, <1>7, <1>8 DEF Local, AuditGoesOn
<1>10. f.was = << >> BY <1>2, <1>3, <1>8 DEF Local
<1>11. QED BY <1>1, <1>2, <1>3, <1>4, <1>6, <1>7, <1>8, <1>9, <1>10 DEF Advances, AuditGoesOn

LEMMA AuditCachedDoes ==
  ASSUME ControlInv, NEW p \in Pullers, AuditCached(p)
  PROVE  \E f, g : /\ Advances(p, f, g) /\ f.pc = "was" /\ f.mode = "audit" /\ g.val = f.val
                   /\ g.was = <<hash_cached_[f.node]>>
                   /\ g.pc = AuditGoesOn(f) /\ g.pc \in {"surface", "epoch"}
<1>1. stack[p] # << >> BY DEF AuditCached, At
<1>2. PICK f \in Frames : f = stack[p][1] /\ Head(stack[p]) = f /\ Local(f) BY <1>1, InnermostAt
<1>3. f.pc = "was" BY <1>2 DEF AuditCached, At
<1>4. PICK next : next = AuditGoesOn(f) OBVIOUS
<1>5. PICK c \in Seq(Nat) : c = hash_cached_[f.node] BY DEF Frames, ControlInv, HashTypeOK
<1>6. PICK w : w = <<c>> OBVIOUS
<1>6a. w \in Seq(Seq(Nat)) BY <1>6
<1>7. PICK g : g = [f EXCEPT !.pc = next, !.was = w] OBVIOUS
<1>8. Becomes(p, g) BY <1>2, <1>4, <1>5, <1>6, <1>7 DEF AuditCached
<1>9. g \in Frames /\ g.node = f.node /\ g.mode = f.mode /\ g.epoch = f.epoch /\ g.pc = next
      /\ g.val = f.val /\ g.was = w
  BY <1>4, <1>6a, <1>7 DEF Frames, Points, AuditGoesOn
<1>10. f.mode = "audit" BY <1>2, <1>3 DEF Local, Frames, Modes
<1>11. Local(g) BY <1>2, <1>3, <1>4, <1>9, <1>10 DEF Local, AuditGoesOn
<1>12. QED BY <1>1, <1>2, <1>3, <1>4, <1>5, <1>6, <1>8, <1>9, <1>10, <1>11 DEF Advances, AuditGoesOn

LEMMA ReadSurfaceDoes ==
  ASSUME ControlInv, NEW p \in Pullers, ReadSurface(p)
  PROVE  \E f, g : /\ Advances(p, f, g) /\ f.pc = "surface" /\ f.mode # "digest"
                   /\ g.pc = "child" /\ g.val = <<surface[f.node]>> /\ g.was = f.was
<1>1. stack[p] # << >> BY DEF ReadSurface, At
<1>2. PICK f \in Frames : f = stack[p][1] /\ Head(stack[p]) = f /\ Local(f) BY <1>1, InnermostAt
<1>3. f.pc = "surface" BY <1>2 DEF ReadSurface, At
<1>4. PICK x \in Nat : x = surface[f.node] BY DEF Frames, ControlInv, HashTypeOK
<1>5. PICK v : v = <<x>> OBVIOUS
<1>5a. v \in Seq(Nat) BY <1>5
<1>6. PICK g : g = [f EXCEPT !.pc = "child", !.val = v] OBVIOUS
<1>7. Becomes(p, g) BY <1>2, <1>4, <1>5, <1>6 DEF ReadSurface
<1>8. g \in Frames /\ g.node = f.node /\ g.mode = f.mode /\ g.epoch = f.epoch /\ g.pc = "child"
      /\ g.val = v /\ g.was = f.was
  BY <1>5a, <1>6 DEF Frames, Points
<1>9. f.mode # "digest" BY <1>2, <1>3 DEF Local
<1>10. Local(g) BY <1>2, <1>3, <1>8, <1>9 DEF Local
<1>11. QED BY <1>1, <1>2, <1>3, <1>4, <1>5, <1>7, <1>8, <1>9, <1>10 DEF Advances

LEMMA ReadChildDoes ==
  ASSUME ControlInv, NEW p \in Pullers, ReadChild(p),
         ~(stack[p][1].node + 1 < Depth \/ (stack[p][1].node + 1 = Depth /\ leaf = "attached"))
  PROVE  \E f, g : /\ Advances(p, f, g) /\ f.pc = "child" /\ f.mode # "digest"
                   /\ g.pc = "compare" /\ g.val = f.val /\ g.was = f.was
<1>1. stack[p] # << >> BY DEF ReadChild, At
<1>2. PICK f \in Frames : f = stack[p][1] /\ Head(stack[p]) = f /\ Local(f) BY <1>1, InnermostAt
<1>3. f.pc = "child" BY <1>2 DEF ReadChild, At
<1>4. PICK g : g = [f EXCEPT !.pc = "compare"] OBVIOUS
<1>5. Becomes(p, g) BY <1>2, <1>4 DEF ReadChild
<1>6. g \in Frames /\ g.node = f.node /\ g.mode = f.mode /\ g.epoch = f.epoch /\ g.pc = "compare"
      /\ g.val = f.val /\ g.was = f.was
  BY <1>4 DEF Frames, Points
<1>7. f.mode # "digest" BY <1>2, <1>3 DEF Local
<1>8. Local(g) BY <1>2, <1>3, <1>6, <1>7 DEF Local
<1>9. QED BY <1>1, <1>2, <1>3, <1>5, <1>6, <1>7, <1>8 DEF Advances

LEMMA CompareDoes ==
  ASSUME ControlInv, NEW p \in Pullers, Compare(p)
  PROVE  \E f, g : /\ Advances(p, f, g) /\ f.pc = "compare" /\ f.mode # "digest"
                   /\ g.val = f.val /\ g.was = f.was
                   /\ \/ /\ f.was # << >> /\ f.was # <<f.val>> /\ f.mode = "audit" /\ g.pc = "mark"
                         /\ diverged' = [diverged EXCEPT ![p] = TRUE]
                      \/ /\ f.was = << >> \/ f.was = <<f.val>>
                         /\ g.pc = StampPC(f) /\ g.pc \in {"digest1", "cached"} /\ diverged' = diverged
<1>1. stack[p] # << >> BY DEF Compare, At
<1>2. PICK f \in Frames : f = stack[p][1] /\ Head(stack[p]) = f /\ Local(f) BY <1>1, InnermostAt
<1>3. f.pc = "compare" BY <1>2 DEF Compare, At
<1>4. f.mode # "digest" BY <1>2, <1>3 DEF Local
<1>5. CASE f.was # << >> /\ f.was # <<f.val>>
  <2>1. PICK u \in 1 .. Depth : u = f.node BY Chain DEF Frames
  <2>2. u \in 0 .. Depth BY Chain
  <2>3. PICK g : g = [f EXCEPT !.pc = "mark", !.up = u] OBVIOUS
  <2>4. Becomes(p, g) BY <1>2, <1>5, <2>1, <2>3 DEF Compare
  <2>5. g \in Frames /\ g.node = f.node /\ g.mode = f.mode /\ g.epoch = f.epoch /\ g.pc = "mark"
        /\ g.val = f.val /\ g.was = f.was /\ g.up = u
    BY <2>2, <2>3 DEF Frames, Points
  <2>6. f.mode = "audit" BY <1>2, <1>4, <1>5 DEF Local, Frames, Modes
  <2>7. Local(g) BY <1>2, <1>3, <2>1, <2>5, <2>6, Chain DEF Local
  <2>8. diverged' = [diverged EXCEPT ![p] = TRUE]
    BY <1>2, <1>5 DEF Compare, ControlInv, HashTypeOK
  <2>9. QED BY <1>1, <1>2, <1>3, <1>4, <1>5, <2>4, <2>5, <2>6, <2>7, <2>8 DEF Advances
<1>6. CASE ~(f.was # << >> /\ f.was # <<f.val>>)
  <2>1. PICK g : g = [f EXCEPT !.pc = StampPC(f)] OBVIOUS
  <2>2. Becomes(p, g) BY <1>2, <1>6, <2>1 DEF Compare
  <2>3. g \in Frames /\ g.node = f.node /\ g.mode = f.mode /\ g.epoch = f.epoch /\ g.pc = StampPC(f)
        /\ g.val = f.val /\ g.was = f.was
    BY <2>1 DEF Frames, Points, StampPC
  <2>4. Local(g) BY <1>2, <1>3, <1>4, <2>3 DEF Local, StampPC
  <2>5. diverged' = diverged
    <3>1. diverged' = [diverged EXCEPT ![p] = diverged[p] \/ FALSE] BY <1>2, <1>6 DEF Compare
    <3>2. diverged \in [Pullers -> BOOLEAN] BY DEF ControlInv, HashTypeOK
    <3>3. (diverged[p] \/ FALSE) = diverged[p] BY <3>2, Zenon
    <3>4. QED BY <3>1, <3>2, <3>3, Zenon
  <2>6. QED BY <1>1, <1>2, <1>3, <1>4, <1>6, <2>2, <2>3, <2>4, <2>5 DEF Advances, StampPC
<1>7. QED BY <1>5, <1>6

LEMMA AuditMarksDoes ==
  ASSUME ControlInv, NEW p \in Pullers, AuditMarks(p)
  PROVE  \E f, g : /\ Advances(p, f, g) /\ f.pc = "mark" /\ f.mode = "audit" /\ f.up \in Top .. f.node
                   /\ hash_epoch_' = [hash_epoch_ EXCEPT ![f.up] = @ + 1]
                   /\ g.val = f.val /\ g.was = f.was
                   /\ \/ f.up # Top /\ g.pc = "mark"
                      \/ f.up = Top /\ g.pc = StampPC(f) /\ g.pc \in {"digest1", "cached"}
<1>1. stack[p] # << >> BY DEF AuditMarks, At
<1>2. PICK f \in Frames : f = stack[p][1] /\ Head(stack[p]) = f /\ Local(f) BY <1>1, InnermostAt
<1>3. f.pc = "mark" BY <1>2 DEF AuditMarks, At
<1>4. f.mode = "audit" BY <1>2, <1>3 DEF Local, Frames, Modes
<1>5. PICK k \in 1 .. Depth : k = f.up /\ f.up \in Top .. f.node
  BY <1>2, <1>3, Chain DEF Local, Frames
<1>6. PICK u \in 0 .. Depth : u = k - 1 BY Chain
<1>7. PICK next : next = IF f.up = Top THEN StampPC(f) ELSE "mark" OBVIOUS
<1>8. PICK g : g = [f EXCEPT !.up = u, !.pc = next] OBVIOUS
<1>9. Becomes(p, g) BY <1>2, <1>5, <1>6, <1>7, <1>8 DEF AuditMarks
<1>10. g \in Frames /\ g.node = f.node /\ g.mode = f.mode /\ g.epoch = f.epoch /\ g.pc = next
       /\ g.val = f.val /\ g.was = f.was /\ g.up = u
  BY <1>7, <1>8 DEF Frames, Points, StampPC
<1>11. f.node \in 1 .. Depth BY Chain DEF Frames
<1>12. f.up # Top => u \in Top .. f.node BY <1>5, <1>6, <1>11, Chain
<1>13. Local(g) BY <1>2, <1>3, <1>4, <1>7, <1>10, <1>12 DEF Local, StampPC
<1>14. hash_epoch_' = [hash_epoch_ EXCEPT ![f.up] = @ + 1] BY <1>2 DEF AuditMarks
<1>15. QED BY <1>1, <1>2, <1>3, <1>4, <1>5, <1>7, <1>9, <1>10, <1>13, <1>14 DEF Advances, StampPC

LEMMA StampDigestDoes ==
  ASSUME ControlInv, NEW p \in Pullers, StampDigest(p)
  PROVE  \E f, g : /\ Advances(p, f, g) /\ f.mode # "digest" /\ f.node = Top
                   /\ g.val = f.val /\ g.was = f.was
                   /\ \/ /\ f.pc = "digest1" /\ g.pc = "digest2"
                         /\ hash_digest_' = [hash_digest_ EXCEPT ![1] = f.val]
                      \/ /\ f.pc = "digest2" /\ g.pc = "cached"
                         /\ hash_digest_' = [hash_digest_ EXCEPT ![2] = f.val]
<1>1. stack[p] # << >> BY DEF StampDigest, At
<1>2. PICK f \in Frames : f = stack[p][1] /\ Head(stack[p]) = f /\ Local(f) BY <1>1, InnermostAt
<1>3. f.pc \in {"digest1", "digest2"} BY <1>2 DEF StampDigest, At
<1>4. PICK next : next = IF f.pc = "digest1" THEN "digest2" ELSE "cached" OBVIOUS
<1>5. PICK g : g = [f EXCEPT !.pc = next] OBVIOUS
<1>6. Becomes(p, g) BY <1>2, <1>4, <1>5 DEF StampDigest
<1>7. g \in Frames /\ g.node = f.node /\ g.mode = f.mode /\ g.epoch = f.epoch /\ g.pc = next
      /\ g.val = f.val /\ g.was = f.was
  BY <1>4, <1>5 DEF Frames, Points
<1>8. f.mode # "digest" /\ f.node = Top BY <1>2, <1>3 DEF Local
<1>9. Local(g) BY <1>2, <1>3, <1>4, <1>7, <1>8 DEF Local
<1>10. hash_digest_' = [hash_digest_ EXCEPT ![IF f.pc = "digest1" THEN 1 ELSE 2] = f.val]
  BY <1>2 DEF StampDigest
<1>11. Advances(p, f, g) BY <1>1, <1>2, <1>6, <1>7, <1>9 DEF Advances
<1>12. CASE f.pc = "digest1"
  <2>1. g.pc = "digest2" /\ hash_digest_' = [hash_digest_ EXCEPT ![1] = f.val]
    BY <1>4, <1>7, <1>10, <1>12
  <2>2. QED BY <1>7, <1>8, <1>11, <1>12, <2>1
<1>13. CASE f.pc = "digest2"
  <2>1. g.pc = "cached" /\ hash_digest_' = [hash_digest_ EXCEPT ![2] = f.val]
    BY <1>4, <1>7, <1>10, <1>13
  <2>2. QED BY <1>7, <1>8, <1>11, <1>13, <2>1
<1>14. QED BY <1>3, <1>12, <1>13

LEMMA StampCachedDoes ==
  ASSUME ControlInv, NEW p \in Pullers, StampCached(p)
  PROVE  \E f, g : /\ Advances(p, f, g) /\ f.pc = "cached" /\ f.mode # "digest"
                   /\ g.pc = "stamp" /\ g.val = f.val /\ g.was = f.was
                   /\ hash_cached_' = [hash_cached_ EXCEPT ![f.node] = f.val]
<1>1. stack[p] # << >> BY DEF StampCached, At
<1>2. PICK f \in Frames : f = stack[p][1] /\ Head(stack[p]) = f /\ Local(f) BY <1>1, InnermostAt
<1>3. f.pc = "cached" BY <1>2 DEF StampCached, At
<1>4. PICK g : g = [f EXCEPT !.pc = "stamp"] OBVIOUS
<1>5. Becomes(p, g) BY <1>2, <1>4 DEF StampCached
<1>6. g \in Frames /\ g.node = f.node /\ g.mode = f.mode /\ g.epoch = f.epoch /\ g.pc = "stamp"
      /\ g.val = f.val /\ g.was = f.was
  BY <1>4 DEF Frames, Points
<1>7. f.mode # "digest" BY <1>2, <1>3 DEF Local
<1>8. Local(g) BY <1>2, <1>3, <1>6, <1>7 DEF Local
<1>9. hash_cached_' = [hash_cached_ EXCEPT ![f.node] = f.val] BY <1>2 DEF StampCached
<1>10. QED BY <1>1, <1>2, <1>3, <1>5, <1>6, <1>7, <1>8, <1>9 DEF Advances

LEMMA CopyDigestDoes ==
  ASSUME ControlInv, NEW p \in Pullers, CopyDigest(p)
  PROVE  \E f, g : /\ Advances(p, f, g) /\ f.mode = "digest" /\ f.node = Top /\ g.val = f.val
                   /\ \/ f.pc = "half1" /\ g.pc = "half2" /\ g.was = <<hash_digest_[1]>>
                      \/ f.pc = "half2" /\ g.pc = "again" /\ g.was = Append(f.was, hash_digest_[2])
<1>1. stack[p] # << >> BY DEF CopyDigest, At
<1>2. PICK f \in Frames : f = stack[p][1] /\ Head(stack[p]) = f /\ Local(f) BY <1>1, InnermostAt
<1>3. f.pc \in {"half1", "half2"} BY <1>2 DEF CopyDigest, At
<1>4. PICK c \in Seq(Nat), d \in Seq(Nat) : c = hash_digest_[1] /\ d = hash_digest_[2]
  BY DEF ControlInv, HashTypeOK
<1>5. PICK w : w = (IF f.pc = "half1" THEN <<c>> ELSE Append(f.was, d)) OBVIOUS
<1>6. w \in Seq(Seq(Nat)) BY <1>5 DEF Frames
<1>7. PICK next : next = IF f.pc = "half1" THEN "half2" ELSE "again" OBVIOUS
<1>8. PICK g : g = [f EXCEPT !.pc = next, !.was = w] OBVIOUS
<1>9. Becomes(p, g)
  <2>1. CASE f.pc = "half1" BY <1>2, <1>4, <1>5, <1>7, <1>8, <2>1 DEF CopyDigest
  <2>2. CASE f.pc # "half1" BY <1>2, <1>4, <1>5, <1>7, <1>8, <2>2 DEF CopyDigest
  <2>3. QED BY <2>1, <2>2
<1>10. g \in Frames /\ g.node = f.node /\ g.mode = f.mode /\ g.epoch = f.epoch /\ g.pc = next
       /\ g.val = f.val /\ g.was = w
  BY <1>6, <1>7, <1>8 DEF Frames, Points
<1>11. f.mode = "digest" /\ f.node = Top BY <1>2, <1>3 DEF Local
<1>12. Local(g) BY <1>2, <1>3, <1>7, <1>10, <1>11 DEF Local
<1>13. QED BY <1>1, <1>2, <1>3, <1>4, <1>5, <1>7, <1>9, <1>10, <1>11, <1>12 DEF Advances

\* The innermost call is a digest's: there is no other.
LEMMA DigestAlone ==
  ASSUME ControlInv, NEW p \in Pullers, stack[p] # << >>, stack[p][1].mode = "digest"
  PROVE  Len(stack[p]) = 1 /\ DOMAIN stack[p] = {1}
<1>1. PICK s \in Seq(Frames) : s = stack[p] /\ WellFormed(s) /\ s # << >> BY InnermostAt
<1>2. PICK n \in Nat \ {0} : n = Len(s) /\ DOMAIN s = 1 .. n BY <1>1, LenProperties, EmptySeq
<1>3. ~(1 < n) BY <1>1, <1>2 DEF WellFormed, Shape
<1>4. n = 1 BY <1>3
<1>5. QED BY <1>1, <1>2, <1>4

LEMMA RecheckDoes ==
  ASSUME ControlInv, NEW p \in Pullers, Recheck(p)
  PROVE  \/ \E f, g : /\ Advances(p, f, g) /\ f.mode = "digest" /\ f.pc \in {"again", "again2"}
                      /\ g.val = f.val /\ g.was = f.was
                      /\ \/ f.pc = "again" /\ g.pc = "again2" /\ f.epoch = hash_valid_epoch_[Top]
                         \/ g.pc = "epoch"
         \/ /\ stack[p][1].pc = "again2" /\ stack[p][1].mode = "digest"
            /\ stack[p][1].epoch = hash_epoch_[Top]
            /\ Len(stack[p]) = 1 /\ Answers(p, stack[p][1].was)
<1>1. stack[p] # << >> BY DEF Recheck, At
<1>2. PICK f \in Frames : f = stack[p][1] /\ Head(stack[p]) = f /\ Local(f) BY <1>1, InnermostAt
<1>3. f.pc \in {"again", "again2"} BY <1>2 DEF Recheck, At
<1>4. f.mode = "digest" BY <1>2, <1>3 DEF Local
<1>5. PICK same : same = (f.epoch = IF f.pc = "again" THEN hash_valid_epoch_[Top] ELSE hash_epoch_[Top])
  OBVIOUS
<1>6. CASE same /\ f.pc = "again2"
  <2>1. Len(stack[p]) = 1 BY <1>1, <1>2, <1>4, DigestAlone
  <2>2. Answers(p, f.was) BY <1>2, <1>5, <1>6 DEF Recheck
  <2>3. QED BY <1>2, <1>4, <1>5, <1>6, <2>1, <2>2
<1>7. CASE ~(same /\ f.pc = "again2")
  <2>1. PICK next : next = IF same THEN "again2" ELSE "epoch" OBVIOUS
  <2>2. PICK g : g = [f EXCEPT !.pc = next] OBVIOUS
  <2>3. Becomes(p, g) BY <1>2, <1>5, <1>7, <2>1, <2>2 DEF Recheck
  <2>4. g \in Frames /\ g.node = f.node /\ g.mode = f.mode /\ g.epoch = f.epoch /\ g.pc = next
        /\ g.val = f.val /\ g.was = f.was
    BY <2>1, <2>2 DEF Frames, Points
  <2>5. Local(g) BY <1>2, <1>3, <1>4, <2>1, <2>4 DEF Local
  <2>6. Advances(p, f, g) BY <1>1, <1>2, <2>3, <2>4, <2>5 DEF Advances
  <2>7. \/ f.pc = "again" /\ g.pc = "again2" /\ f.epoch = hash_valid_epoch_[Top]
        \/ g.pc = "epoch"
    BY <1>3, <1>5, <1>7, <2>1, <2>4
  <2>8. QED BY <1>3, <1>4, <2>4, <2>6, <2>7
<1>8. QED BY <1>6, <1>7

\* The two ways to answer a caller: from the cache, and with what has been
\* recomputed.
LEMMA AnswerDoes ==
  ASSUME ControlInv, NEW p \in Pullers, LoadCached(p) \/ StampEpoch(p)
  PROVE  \E f \in Frames, v \in Seq(Nat) :
            /\ stack[p] # << >> /\ f = stack[p][1] /\ Local(f) /\ f.mode # "digest"
            /\ Answers(p, v)
            /\ \/ /\ LoadCached(p) /\ f.pc = "hit" /\ f.mode = "lazy" /\ v = hash_cached_[f.node]
                  /\ hash_valid_epoch_' = hash_valid_epoch_
               \/ /\ StampEpoch(p) /\ f.pc = "stamp" /\ v = f.val
                  /\ hash_valid_epoch_' = [hash_valid_epoch_ EXCEPT ![f.node] = f.epoch]
<1>1. stack[p] # << >> BY DEF LoadCached, StampEpoch, At
<1>2. PICK f \in Frames : f = stack[p][1] /\ Head(stack[p]) = f /\ Local(f) BY <1>1, InnermostAt
<1>3. CASE LoadCached(p)
  <2>1. f.pc = "hit" /\ Answers(p, hash_cached_[f.node]) BY <1>2, <1>3 DEF LoadCached, At
  <2>2. f.mode = "lazy" BY <1>2, <2>1 DEF Local, Frames, Modes
  <2>3. hash_cached_[f.node] \in Seq(Nat) BY DEF Frames, ControlInv, HashTypeOK
  <2>4. hash_valid_epoch_' = hash_valid_epoch_ BY <1>3 DEF LoadCached, OnlyStack, cacheVars
  <2>5. QED BY <1>1, <1>2, <1>3, <2>1, <2>2, <2>3, <2>4
<1>4. CASE StampEpoch(p)
  <2>1. /\ f.pc = "stamp" /\ Answers(p, f.val)
        /\ hash_valid_epoch_' = [hash_valid_epoch_ EXCEPT ![f.node] = f.epoch]
    BY <1>2, <1>4 DEF StampEpoch, At
  <2>2. f.mode # "digest" BY <1>2, <2>1 DEF Local
  <2>3. f.val \in Seq(Nat) BY DEF Frames
  <2>4. QED BY <1>1, <1>2, <1>4, <2>1, <2>2, <2>3
<1>5. QED BY <1>3, <1>4

\* A call for a child, or getDigest's for a recompute.
LEMMA CallDoes ==
  ASSUME ControlInv, NEW p \in Pullers,
         \/ /\ LoadValid(p) /\ stack[p][1].mode = "digest"
            /\ hash_valid_epoch_[stack[p][1].node] # stack[p][1].epoch
         \/ /\ ReadChild(p)
            /\ stack[p][1].node + 1 < Depth \/ (stack[p][1].node + 1 = Depth /\ leaf = "attached")
  PROVE  \E f, g \in Frames :
            /\ stack[p] # << >> /\ f = stack[p][1] /\ Calls(p, g) /\ Local(g)
            /\ g.epoch = 0 /\ g.was = << >> /\ g.pc \in {"epoch", "current"}
            /\ leaf = "absent" => g.node # Depth
            /\ g.node <= Bottom
            /\ \/ f.mode = "digest" /\ f.pc = "valid" /\ g.mode = "lazy" /\ g.node = Top
               \/ f.mode # "digest" /\ f.pc = "child" /\ g.mode = f.mode /\ g.node = f.node + 1
<1>1. stack[p] # << >> BY DEF LoadValid, ReadChild, At
<1>2. PICK f \in Frames : f = stack[p][1] /\ Head(stack[p]) = f /\ Local(f) BY <1>1, InnermostAt
<1>3. CASE LoadValid(p) /\ f.mode = "digest" /\ hash_valid_epoch_[f.node] # f.epoch
  <2>1. f.pc = "valid" BY <1>2, <1>3 DEF LoadValid, At
  <2>2. PICK g : g = Frame(Top, "lazy", "epoch") OBVIOUS
  <2>3. /\ g.node = Top /\ g.mode = "lazy" /\ g.pc = "epoch" /\ g.epoch = 0 /\ g.was = << >>
        /\ g \in Frames
    BY <2>2, Chain DEF Frame, Frames, Points, Modes
  <2>4. Local(g) BY <2>3 DEF Local
  <2>5. Calls(p, g) BY <1>2, <1>3, <2>2 DEF LoadValid
  <2>6. g.node # Depth /\ g.node <= Bottom BY <2>3, Chain
  <2>7. QED BY <1>1, <1>2, <1>3, <2>1, <2>3, <2>4, <2>5, <2>6
<1>4. CASE ReadChild(p) /\ (f.node + 1 < Depth \/ (f.node + 1 = Depth /\ leaf = "attached"))
  <2>1. f.pc = "child" BY <1>2, <1>4 DEF ReadChild, At
  <2>2. f.mode # "digest" BY <1>2, <2>1 DEF Local
  <2>3. PICK n \in Nodes : n = f.node + 1 /\ n # Top
    <3>1. f.node \in 1 .. Depth BY Chain DEF Frames
    <3>2. f.node + 1 \in Nodes /\ f.node + 1 # Top BY <1>4, <3>1, Chain
    <3>3. QED BY <3>2
  <2>4. PICK pc : pc = IF f.mode = "audit" THEN "current" ELSE "epoch" OBVIOUS
  <2>5. PICK g : g = Frame(n, f.mode, pc) OBVIOUS
  <2>6. /\ g.node = n /\ g.mode = f.mode /\ g.pc = pc /\ g.epoch = 0 /\ g.was = << >>
        /\ g \in Frames
    BY <2>4, <2>5, Chain DEF Frame, Frames, Points
  <2>7. Local(g) BY <2>2, <2>3, <2>4, <2>6 DEF Local, Frames, Modes
  <2>8. Calls(p, g) BY <1>2, <1>4, <2>3, <2>4, <2>5 DEF ReadChild
  <2>9. leaf = "absent" => n # Depth BY <1>4, <2>3, Chain
  <2>10. n <= Bottom BY <1>4, <2>3, Chain DEF Bottom
  <2>11. QED BY <1>1, <1>2, <2>1, <2>2, <2>3, <2>4, <2>6, <2>7, <2>8, <2>9, <2>10
<1>5. QED BY <1>2, <1>3, <1>4

LEMMA ControlPuller ==
  ASSUME ControlInv, NEW p \in Pullers, Pull(p) \/ Recomputation(p)
  PROVE  ControlInv'
<1>1. CASE Pull(p) BY <1>1, ControlPull
<1>2. CASE LoadEpoch(p) BY <1>2, ControlLoadEpoch
<1>3. CASE LoadValid(p) \/ ReadChild(p)
  <2>1. OnlyStack /\ OthersOK BY <1>3, OnlyStackOK DEF LoadValid, ReadChild
  <2>2. CASE \/ /\ LoadValid(p) /\ stack[p][1].mode = "digest"
                /\ hash_valid_epoch_[stack[p][1].node] # stack[p][1].epoch
             \/ /\ ReadChild(p)
                /\ stack[p][1].node + 1 < Depth \/ (stack[p][1].node + 1 = Depth /\ leaf = "attached")
    BY <2>1, <2>2, CallDoes, ControlCalls
  <2>3. CASE LoadValid(p) /\ ~(stack[p][1].mode = "digest" /\ hash_valid_epoch_[stack[p][1].node] # stack[p][1].epoch)
    BY <2>1, <2>3, LoadValidDoes, ControlAdvances
  <2>4. CASE /\ ReadChild(p)
             /\ ~(stack[p][1].node + 1 < Depth \/ (stack[p][1].node + 1 = Depth /\ leaf = "attached"))
    BY <2>1, <2>4, ReadChildDoes, ControlAdvances
  <2>5. QED BY <1>3, <2>2, <2>3, <2>4
<1>4. CASE AuditCurrent(p)
  <2>1. OthersOK BY <1>4, OnlyStackOK DEF AuditCurrent
  <2>2. QED BY <1>4, <2>1, AuditCurrentDoes, ControlAdvances
<1>5. CASE AuditCached(p)
  <2>1. OthersOK BY <1>5, OnlyStackOK DEF AuditCached
  <2>2. QED BY <1>5, <2>1, AuditCachedDoes, ControlAdvances
<1>6. CASE ReadSurface(p)
  <2>1. OthersOK BY <1>6, OnlyStackOK DEF ReadSurface
  <2>2. QED BY <1>6, <2>1, ReadSurfaceDoes, ControlAdvances
<1>7. CASE CopyDigest(p)
  <2>1. OthersOK BY <1>7, OnlyStackOK DEF CopyDigest
  <2>2. QED BY <1>7, <2>1, CopyDigestDoes, ControlAdvances
<1>8. CASE Recheck(p)
  <2>1. OthersOK BY <1>8, OnlyStackOK DEF Recheck
  <2>2. \/ \E f, g : Advances(p, f, g)
        \/ stack[p] # << >> /\ Len(stack[p]) = 1 /\ Answers(p, stack[p][1].was)
    BY <1>8, RecheckDoes DEF Recheck, At
  <2>3. QED BY <2>1, <2>2, ControlAdvances, ControlAnswers
<1>9. CASE LoadCached(p)
  <2>1. OthersOK BY <1>9, OnlyStackOK DEF LoadCached
  <2>2. QED BY <1>9, <2>1, AnswerDoes, ControlAnswers
<1>10. CASE Compare(p)
  <2>1. diverged' \in [Pullers -> BOOLEAN] BY <1>10, Zenon DEF Compare, ControlInv, HashTypeOK
  <2>2. OthersOK BY <1>10, <2>1 DEF Compare, OthersOK, ControlInv, HashTypeOK, stateVars, cacheVars
  <2>3. QED BY <1>10, <2>2, CompareDoes, ControlAdvances
<1>11. CASE AuditMarks(p)
  <2>1. PICK f, g : Advances(p, f, g) /\ f.up \in Top .. f.node
                    /\ hash_epoch_' = [hash_epoch_ EXCEPT ![f.up] = @ + 1]
    BY <1>11, AuditMarksDoes
  <2>2. PICK k \in Nodes : k = f.up
    <3>1. f.node \in 1 .. Depth BY <2>1, Chain DEF Advances, Frames
    <3>2. QED BY <2>1, <3>1, Chain
  <2>3. PICK d \in Nat \ {0} : d = hash_epoch_[k] BY DEF ControlInv, HashTypeOK
  <2>4. PICK e \in Nat \ {0} : e = d + 1 OBVIOUS
  <2>5. hash_epoch_' = [hash_epoch_ EXCEPT ![k] = e] BY <2>1, <2>2, <2>3, <2>4
  <2>6. hash_epoch_' \in [Nodes -> Nat \ {0}] BY <2>5 DEF ControlInv, HashTypeOK
  <2>7. ASSUME NEW n \in Nodes
        PROVE  hash_epoch_[n] <= hash_epoch_'[n] /\ hash_valid_epoch_[n] <= hash_epoch_'[n]
    <3>1. hash_epoch_'[n] = IF n = k THEN e ELSE hash_epoch_[n] BY <2>5 DEF ControlInv, HashTypeOK
    <3>2. hash_valid_epoch_[n] <= hash_epoch_[n] /\ hash_valid_epoch_[n] \in Nat /\ hash_epoch_[n] \in Nat
      BY DEF ControlInv, HashTypeOK
    <3>3. QED BY <2>3, <2>4, <3>1, <3>2
  <2>8. OthersOK
    BY <1>11, <2>6, <2>7 DEF AuditMarks, OthersOK, ControlInv, HashTypeOK, stateVars, cacheVars
  <2>9. QED BY <2>1, <2>8, ControlAdvances
<1>12. CASE StampDigest(p)
  <2>1. PICK f, g : Advances(p, f, g)
                    /\ \/ hash_digest_' = [hash_digest_ EXCEPT ![1] = f.val]
                       \/ hash_digest_' = [hash_digest_ EXCEPT ![2] = f.val]
    BY <1>12, StampDigestDoes
  <2>2. hash_digest_' \in [1 .. 2 -> Seq(Nat)]
    BY <2>1 DEF Advances, Frames, ControlInv, HashTypeOK
  <2>3. OthersOK BY <1>12, <2>2 DEF StampDigest, Stamping, OthersOK, ControlInv, HashTypeOK, stateVars
  <2>4. QED BY <2>1, <2>3, ControlAdvances
<1>13. CASE StampCached(p)
  <2>1. PICK f, g : Advances(p, f, g) /\ hash_cached_' = [hash_cached_ EXCEPT ![f.node] = f.val]
    BY <1>13, StampCachedDoes
  <2>2. hash_cached_' \in [Nodes -> Seq(Nat)]
    BY <2>1 DEF Advances, Frames, ControlInv, HashTypeOK
  <2>3. OthersOK BY <1>13, <2>2 DEF StampCached, Stamping, OthersOK, ControlInv, HashTypeOK, stateVars
  <2>4. QED BY <2>1, <2>3, ControlAdvances
<1>14. CASE StampEpoch(p)
  <2>1. PICK f \in Frames, v \in Seq(Nat) :
          /\ stack[p] # << >> /\ f = stack[p][1] /\ Answers(p, v)
          /\ hash_valid_epoch_' = [hash_valid_epoch_ EXCEPT ![f.node] = f.epoch]
    <3>1. ~LoadCached(p) BY <1>14, InnermostAt DEF StampEpoch, LoadCached, At
    <3>2. QED BY <1>14, <3>1, AnswerDoes
  <2>2. PICK n \in Nodes, e \in Nat : n = f.node /\ e = f.epoch BY DEF Frames
  <2>3. e <= hash_epoch_[n] /\ (leaf = "absent" => n # Depth)
    BY <2>1, <2>2, InnermostAt DEF ControlInv
  <2>4. hash_valid_epoch_' = [hash_valid_epoch_ EXCEPT ![n] = e] BY <2>1, <2>2
  <2>5. hash_valid_epoch_' \in [Nodes -> Nat] BY <2>4 DEF ControlInv, HashTypeOK
  <2>6. \A k \in Nodes : hash_epoch_[k] <= hash_epoch_[k] /\ hash_valid_epoch_'[k] <= hash_epoch_[k]
    BY <2>3, <2>4 DEF ControlInv, HashTypeOK
  <2>7. leaf = "absent" => hash_valid_epoch_'[Depth] = 0
    BY <2>3, <2>4, Chain DEF ControlInv, HashTypeOK
  <2>8. OthersOK
    BY <1>14, <2>5, <2>6, <2>7 DEF StampEpoch, Stamping, OthersOK, ControlInv, HashTypeOK, stateVars
  <2>9. QED BY <2>1, <2>8, ControlAnswers
<1>15. QED BY <1>1, <1>2, <1>3, <1>4, <1>5, <1>6, <1>7, <1>8, <1>9, <1>10, <1>11, <1>12, <1>13, <1>14
           DEF Recomputation

LEMMA ControlInit == Init => ControlInv
<1>1. ASSUME Init PROVE ControlInv
  <2>1. << >> \in Seq(Frames) /\ << >> \in Seq(Nat) /\ DOMAIN << >> = {} OBVIOUS
  <2>2. HashTypeOK
    <3>1. << << >>, << >> >> \in [1 .. 2 -> Seq(Nat)]
      <4>1. PICK e \in Seq(Nat) : e = << >> BY <2>1
      <4>2. PICK d : d = <<e, e>> OBVIOUS
      <4>3. d \in Seq(Seq(Nat)) /\ Len(d) = 2 BY <4>2
      <4>4. d \in [1 .. 2 -> Seq(Nat)] BY <4>3, LenProperties
      <4>5. QED BY <4>1, <4>2, <4>4
    <3>2. moved \in [Pullers -> BOOLEAN] /\ diverged \in [Pullers -> BOOLEAN]
          /\ overlapped \in BOOLEAN /\ crossed \in BOOLEAN
      BY <1>1, Zenon DEF Init
    <3>3. QED BY <1>1, <2>1, <3>1, <3>2, Chain DEF Init, HashTypeOK
  <2>3. \A p \in Pullers : stack[p] = << >> BY <1>1 DEF Init
  <2>4. WellFormed(<< >>) BY <2>1 DEF WellFormed, Shape
  <2>5. QED BY <1>1, <2>1, <2>2, <2>3, <2>4, Chain DEF Init, ControlInv
<1>2. QED BY <1>1

LEMMA ControlNext ==
  ASSUME ControlInv, [Next]_vars
  PROVE  ControlInv'
<1>1. CASE Next BY <1>1, ControlMove, ControlPuller DEF Next
<1>2. CASE UNCHANGED vars
  <2>1. OthersOK /\ stack' = stack
    BY <1>2 DEF vars, stateVars, cacheVars, pullVars, OthersOK, ControlInv, HashTypeOK
  <2>2. QED BY <2>1, ControlKept
<1>3. QED BY <1>1, <1>2

-----------------------------------------------------------------------------
(* Where the calls of a puller are after a step *)

LEMMA AdvancesStack ==
  ASSUME ControlInv, NEW p \in Pullers, NEW f, NEW g, Advances(p, f, g)
  PROVE  \E r \in Seq(Frames) :
            /\ stack' = [stack EXCEPT ![p] = r] /\ stack'[p] = r
            /\ \A q \in Pullers : q # p => stack'[q] = stack[q]
            /\ Len(r) = Len(stack[p]) /\ DOMAIN r = DOMAIN stack[p] /\ 1 \in DOMAIN r
            /\ r[1] = g /\ \A i \in DOMAIN r : i # 1 => r[i] = stack[p][i]
<1>1. PICK s \in Seq(Frames) : s = stack[p] /\ s # << >> /\ 1 \in DOMAIN s BY InnermostAt DEF Advances
<1>2. PICK r : r = <<g>> \o Tail(s) OBVIOUS
<1>3. r \in Seq(Frames) /\ Len(r) = Len(s) /\ DOMAIN r = DOMAIN s
      /\ r[1] = g /\ \A i \in DOMAIN s : i # 1 => r[i] = s[i]
  BY <1>1, <1>2, BecomesAt DEF Advances
<1>4. stack' = [stack EXCEPT ![p] = r] BY <1>1, <1>2 DEF Advances, Becomes
<1>5. stack'[p] = r /\ \A q \in Pullers : q # p => stack'[q] = stack[q]
  BY <1>4 DEF ControlInv, HashTypeOK
<1>6. QED BY <1>1, <1>3, <1>4, <1>5

LEMMA CallsStack ==
  ASSUME ControlInv, NEW p \in Pullers, stack[p] # << >>, NEW g \in Frames, Calls(p, g)
  PROVE  \E r \in Seq(Frames) :
            /\ stack' = [stack EXCEPT ![p] = r] /\ stack'[p] = r
            /\ \A q \in Pullers : q # p => stack'[q] = stack[q]
            /\ Len(stack[p]) \in Nat \ {0} /\ DOMAIN stack[p] = 1 .. Len(stack[p])
            /\ Len(r) = Len(stack[p]) + 1 /\ DOMAIN r = 1 .. Len(stack[p]) + 1
            /\ r[1] = g
            /\ \A i \in DOMAIN r : i # 1 => i - 1 \in DOMAIN stack[p] /\ r[i] = stack[p][i - 1]
<1>1. PICK s \in Seq(Frames) : s = stack[p] /\ s # << >> /\ Len(s) \in Nat \ {0} BY InnermostAt
<1>2. PICK r : r = <<g>> \o s OBVIOUS
<1>3. /\ r \in Seq(Frames) /\ Len(r) = Len(s) + 1
      /\ DOMAIN s = 1 .. Len(s) /\ DOMAIN r = 1 .. Len(s) + 1
      /\ r[1] = g /\ \A i \in DOMAIN r : i # 1 => i - 1 \in DOMAIN s /\ r[i] = s[i - 1]
  BY <1>2, CallsAt
<1>4. stack' = [stack EXCEPT ![p] = r] BY <1>1, <1>2 DEF Calls
<1>5. stack'[p] = r /\ \A q \in Pullers : q # p => stack'[q] = stack[q]
  BY <1>4 DEF ControlInv, HashTypeOK
<1>6. QED BY <1>1, <1>3, <1>4, <1>5

\* What the last call answers nobody hashes.
Answerable(p, v) == Len(stack[p]) = 1 \/ v \in Seq(Nat)

LEMMA AnswersStack ==
  ASSUME ControlInv, NEW p \in Pullers, stack[p] # << >>, NEW v, Answers(p, v),
         Answerable(p, v)
  PROVE  \E r \in Seq(Frames) :
            /\ stack' = [stack EXCEPT ![p] = r] /\ stack'[p] = r
            /\ \A q \in Pullers : q # p => stack'[q] = stack[q]
            /\ Len(stack[p]) \in Nat \ {0} /\ DOMAIN stack[p] = 1 .. Len(stack[p])
            /\ Len(r) = Len(stack[p]) - 1 /\ DOMAIN r = 1 .. Len(stack[p]) - 1
            /\ \A i \in DOMAIN r :
                 /\ i + 1 \in DOMAIN stack[p]
                 /\ r[i] = IF i = 1 THEN Resumed(stack[p][2], v) ELSE stack[p][i + 1]
<1>1. PICK s \in Seq(Frames) : s = stack[p] /\ WellFormed(s) /\ s # << >> BY InnermostAt
<1>2. PICK n \in Nat \ {0} : n = Len(s) /\ DOMAIN s = 1 .. n BY <1>1, LenProperties, EmptySeq
<1>3. CASE n = 1
  <2>0. << >> \in Seq(Frames) OBVIOUS
  <2>1. PICK r \in Seq(Frames) : r = << >> BY <2>0
  <2>2. Len(r) = n - 1 /\ DOMAIN r = 1 .. n - 1 /\ DOMAIN r = {} BY <1>3, <2>1
  <2>3. stack' = [stack EXCEPT ![p] = r] BY <1>1, <1>2, <1>3, <2>1 DEF Answers, ControlInv, HashTypeOK
  <2>4. stack'[p] = r /\ \A q \in Pullers : q # p => stack'[q] = stack[q]
    BY <2>3 DEF ControlInv, HashTypeOK
  <2>5. QED BY <1>1, <1>2, <2>2, <2>3, <2>4
<1>4. CASE n # 1
  <2>1. n > 1 BY <1>4
  <2>2. v \in Seq(Nat) BY <1>1, <1>2, <1>4, Zenon DEF Answerable
  <2>3. PICK g : g = Resumed(s[2], v) OBVIOUS
  <2>4. g \in Frames BY <1>1, <1>2, <2>1, <2>2, <2>3, ResumedOK
  <2>5. PICK r : r = <<g>> \o SubSeq(s, 3, n) OBVIOUS
  <2>6. /\ r \in Seq(Frames) /\ Len(r) = n - 1 /\ DOMAIN r = 1 .. n - 1
        /\ r[1] = g /\ \A i \in DOMAIN r : i # 1 => r[i] = s[i + 1]
    <3>1. Len(s) > 1 /\ n = Len(s) BY <1>2, <2>1
    <3>2. QED BY ONLY <2>4, <2>5, <3>1, AnswersAt, s \in Seq(Frames)
  <2>7. stack' = [stack EXCEPT ![p] = r]
    BY <1>1, <1>2, <1>4, <2>3, <2>5 DEF Answers, Resumed, ControlInv, HashTypeOK
  <2>8. stack'[p] = r /\ \A q \in Pullers : q # p => stack'[q] = stack[q]
    BY <2>7 DEF ControlInv, HashTypeOK
  <2>9. \A i \in DOMAIN r : i + 1 \in DOMAIN s BY <1>2, <2>1, <2>6
  <2>10. \A i \in DOMAIN r : r[i] = IF i = 1 THEN Resumed(s[2], v) ELSE s[i + 1] BY <2>3, <2>6
  <2>11. QED BY <1>1, <1>2, <2>6, <2>7, <2>8, <2>9, <2>10
<1>5. QED BY <1>3, <1>4

LEMMA FrameAt ==
  ASSUME ControlInv, NEW p \in Pullers, NEW i \in DOMAIN stack[p]
  PROVE  /\ stack[p] # << >> /\ stack[p][i] \in Frames /\ Local(stack[p][i])
         /\ stack[p][i].epoch <= hash_epoch_[stack[p][i].node]
<1>1. PICK s \in Seq(Frames) : s = stack[p] BY DEF ControlInv, HashTypeOK
<1>2. s # << >> /\ s[i] \in Frames BY <1>1, ElementOfSeq, LenProperties
<1>3. QED BY <1>1, <1>2 DEF ControlInv, WellFormed

\* Two calls of one puller for different nodes, unless getDigest's.
LEMMA CallsApart ==
  ASSUME ControlInv, NEW p \in Pullers, NEW i \in DOMAIN stack[p], NEW j \in DOMAIN stack[p],
         i < j, stack[p][j].mode # "digest"
  PROVE  /\ stack[p][j].pc = "child" /\ stack[p][i].mode = stack[p][j].mode
         /\ stack[p][i].node = stack[p][j].node + (j - i)
         /\ stack[p][j].node < stack[p][i].node
<1>1. PICK s \in Seq(Frames) : s = stack[p] /\ WellFormed(s) BY FrameAt, InnermostAt
<1>2. s[j].pc = "child" /\ s[i].mode = s[j].mode /\ s[i].node = s[j].node + (j - i)
  BY <1>1 DEF WellFormed, Shape
<1>3. PICK a \in Int, b \in Int : a = i /\ b = j BY <1>1, LenProperties
<1>4. PICK n \in Int, k \in Int : n = s[j].node /\ k = s[i].node
  <2>1. s[i] \in Frames /\ s[j] \in Frames BY <1>1, FrameAt
  <2>2. s[i].node \in 1 .. Depth /\ s[j].node \in 1 .. Depth BY <2>1, Chain DEF Frames
  <2>3. s[i].node \in Int /\ s[j].node \in Int BY <2>2, Chain
  <2>4. QED BY <2>3
<1>5. k = n + (b - a) /\ a < b BY <1>2, <1>3, <1>4
<1>6. QED BY <1>1, <1>2, <1>4, <1>5

\* Under the innermost call, if it is a recompute of the top, there is only
\* the getDigest that has asked for it.
LEMMA TopAlone ==
  ASSUME ControlInv, NEW p \in Pullers, NEW i \in DOMAIN stack[p], i # 1,
         stack[p][1].node = Top
  PROVE  stack[p][i].mode = "digest" /\ stack[p][i].pc = "valid"
<1>1. PICK s \in Seq(Frames) : s = stack[p] /\ WellFormed(s) /\ 1 \in DOMAIN s BY FrameAt, InnermostAt
<1>2. 1 < i BY <1>1, LenProperties
<1>3. s[i].mode = "digest"
  <2>1. SUFFICES ASSUME s[i].mode # "digest" PROVE FALSE OBVIOUS
  <2>2. s[i].node < Top BY <1>1, <1>2, <2>1, CallsApart
  <2>3. s[i].node \in 1 .. Depth BY <1>1, FrameAt, Chain DEF Frames
  <2>4. QED BY <2>2, <2>3, Chain
<1>4. s[i].pc = "valid" BY <1>1, <1>2, <1>3 DEF WellFormed, Shape
<1>5. QED BY <1>1, <1>3, <1>4

-----------------------------------------------------------------------------
(* The digest is one stamp's *)

\* A step that leaves the words of the top alone.
TopKept ==
    /\ hash_epoch_'[Top] = hash_epoch_[Top] /\ hash_valid_epoch_'[Top] = hash_valid_epoch_[Top]
    /\ hash_cached_'[Top] = hash_cached_[Top] /\ hash_digest_' = hash_digest_

LEMMA FrameKept ==
  ASSUME TopKept, NEW f
  PROVE  DigestFrame(f)' <=> DigestFrame(f)
BY DEF TopKept, DigestFrame, TopBusy, Busy

LEMMA DigestStep ==
  ASSUME ControlInv, DigestOK, NEW p \in Pullers, NEW r, stack'[p] = r,
         \A q \in Pullers : q # p => stack'[q] = stack[q],
         \A i \in DOMAIN r : TopBusy(r[i]) =>
            \/ \E k \in DOMAIN stack[p] : TopBusy(stack[p][k])
            \/ \A q \in Pullers : q # p => \A j \in DOMAIN stack[q] : ~TopBusy(stack[q][j]),
         \A i \in DOMAIN r : DigestFrame(r[i])',
         \A q \in Pullers : q # p => \A j \in DOMAIN stack[q] : \A x : x = stack[q][j] => DigestFrame(x)',
         hash_digest_'[1] # hash_cached_'[Top] => TopAt({"digest2", "cached"})',
         hash_digest_'[2] # hash_cached_'[Top] => TopAt({"cached"})'
  PROVE  DigestOK'
<1>1. ASSUME NEW q \in Pullers, q # p, NEW i \in DOMAIN r, NEW j \in DOMAIN stack[q]
      PROVE  ~(TopBusy(r[i]) /\ TopBusy(stack[q][j]))
  BY <1>1 DEF DigestOK
<1>2. ASSUME NEW a \in Pullers, NEW b \in Pullers, a # b,
             NEW i \in DOMAIN stack'[a], NEW j \in DOMAIN stack'[b]
      PROVE  ~(TopBusy(stack'[a][i]) /\ TopBusy(stack'[b][j]))
  BY <1>1, <1>2 DEF DigestOK
<1>3. \A a, b \in Pullers : a # b =>
          \A i \in DOMAIN stack'[a], j \in DOMAIN stack'[b] :
             ~(TopBusy(stack[a][i])' /\ TopBusy(stack[b][j])')
  BY <1>2 DEF TopBusy, Busy
<1>4. ASSUME NEW q \in Pullers, NEW i \in DOMAIN stack'[q] PROVE DigestFrame(stack[q][i])'
  <2>1. PICK x : x = stack'[q][i] OBVIOUS
  <2>2. DigestFrame(x)'
    <3>1. CASE q = p BY <2>1, <3>1
    <3>2. CASE q # p BY <2>1, <3>2
    <3>3. QED BY <3>1, <3>2
  <2>3. QED BY <2>1, <2>2 DEF DigestFrame, TopBusy, Busy
<1>5. QED BY <1>3, <1>4 DEF DigestOK

LEMMA TopAtKept ==
  ASSUME NEW p \in Pullers, \A q \in Pullers : q # p => stack'[q] = stack[q], NEW pcs, TopAt(pcs),
         \A i \in DOMAIN stack[p] : TopBusy(stack[p][i]) /\ stack[p][i].pc \in pcs =>
            \E k \in DOMAIN stack'[p] : stack'[p][k] = stack[p][i]
  PROVE  TopAt(pcs)'
<1>1. PICK q \in Pullers : \E i \in DOMAIN stack[q] : TopBusy(stack[q][i]) /\ stack[q][i].pc \in pcs
  BY DEF TopAt
<1>2. PICK i \in DOMAIN stack[q] : TopBusy(stack[q][i]) /\ stack[q][i].pc \in pcs BY <1>1
<1>3. PICK k \in DOMAIN stack'[q] : stack'[q][k] = stack[q][i] BY <1>2
<1>4. TopBusy(stack'[q][k]) /\ stack'[q][k].pc \in pcs BY <1>2, <1>3
<1>5. QED BY <1>4 DEF TopAt, TopBusy, Busy

\* The halves of the digest, when the stores have not touched them.
LEMMA HalvesKept ==
  ASSUME DigestOK, TopKept, NEW p \in Pullers, \A q \in Pullers : q # p => stack'[q] = stack[q],
         \A i \in DOMAIN stack[p] : TopBusy(stack[p][i]) /\ stack[p][i].pc \in {"digest2", "cached"} =>
            \E k \in DOMAIN stack'[p] : stack'[p][k] = stack[p][i]
  PROVE  /\ hash_digest_'[1] # hash_cached_'[Top] => TopAt({"digest2", "cached"})'
         /\ hash_digest_'[2] # hash_cached_'[Top] => TopAt({"cached"})'
<1>1. TopAt({"digest2", "cached"}) => TopAt({"digest2", "cached"})' BY TopAtKept
<1>2. TopAt({"cached"}) => TopAt({"cached"})' BY TopAtKept
<1>3. QED BY <1>1, <1>2 DEF DigestOK, TopKept

LEMMA OthersKept ==
  ASSUME DigestOK, TopKept, NEW p \in Pullers
  PROVE  \A q \in Pullers : q # p => \A j \in DOMAIN stack[q] : \A x : x = stack[q][j] => DigestFrame(x)'
BY FrameKept DEF DigestOK

LEMMA DigestAdvances ==
  ASSUME ControlInv, DigestInv, TopKept, overlapped' = overlapped,
         NEW p \in Pullers, NEW f, NEW g, Advances(p, f, g),
         TopBusy(g) => TopBusy(f), f.pc \in {"digest2", "cached"} => f.node # Top,
         ~overlapped => DigestFrame(g)
  PROVE  DigestInv'
<1> SUFFICES ASSUME ~overlapped PROVE DigestOK' BY DEF DigestInv
<1>1. DigestOK BY DEF DigestInv
<1>2. PICK r \in Seq(Frames) :
        /\ stack'[p] = r /\ \A q \in Pullers : q # p => stack'[q] = stack[q]
        /\ DOMAIN r = DOMAIN stack[p] /\ 1 \in DOMAIN r
        /\ r[1] = g /\ \A i \in DOMAIN r : i # 1 => r[i] = stack[p][i]
  BY AdvancesStack
<1>3. f = stack[p][1] BY DEF Advances
<1>4. \A i \in DOMAIN r : TopBusy(r[i]) => \E k \in DOMAIN stack[p] : TopBusy(stack[p][k])
  BY <1>2, <1>3
<1>5. \A i \in DOMAIN r : DigestFrame(r[i])' BY <1>1, <1>2, FrameKept DEF DigestOK
<1>6. ASSUME NEW i \in DOMAIN stack[p], TopBusy(stack[p][i]), stack[p][i].pc \in {"digest2", "cached"}
      PROVE  \E k \in DOMAIN stack'[p] : stack'[p][k] = stack[p][i]
  BY <1>2, <1>3, <1>6 DEF TopBusy
<1>7. stack'[p] = r /\ \A q \in Pullers : q # p => stack'[q] = stack[q] BY <1>2
<1>8. /\ hash_digest_'[1] # hash_cached_'[Top] => TopAt({"digest2", "cached"})'
      /\ hash_digest_'[2] # hash_cached_'[Top] => TopAt({"cached"})'
  BY <1>1, <1>6, <1>7, HalvesKept
<1>9. \A q \in Pullers : q # p => \A j \in DOMAIN stack[q] : \A x : x = stack[q][j] => DigestFrame(x)'
  BY <1>1, OthersKept
<1>10. QED BY <1>1, <1>4, <1>5, <1>7, <1>8, <1>9, DigestStep

LEMMA DigestCalls ==
  ASSUME ControlInv, DigestInv, TopKept, overlapped' = overlapped,
         NEW p \in Pullers, stack[p] # << >>, NEW g \in Frames, Calls(p, g),
         g.epoch = 0, g.pc \in {"epoch", "current"}
  PROVE  DigestInv'
<1> SUFFICES ASSUME ~overlapped PROVE DigestOK' BY DEF DigestInv
<1>1. DigestOK BY DEF DigestInv
<1>2. PICK r \in Seq(Frames) :
        /\ stack'[p] = r /\ \A q \in Pullers : q # p => stack'[q] = stack[q]
        /\ Len(stack[p]) \in Nat \ {0} /\ DOMAIN stack[p] = 1 .. Len(stack[p])
        /\ DOMAIN r = 1 .. Len(stack[p]) + 1
        /\ r[1] = g /\ \A i \in DOMAIN r : i # 1 => i - 1 \in DOMAIN stack[p] /\ r[i] = stack[p][i - 1]
  BY CallsStack
<1>3. ~TopBusy(g) /\ DigestFrame(g) BY DEF TopBusy, Busy, DigestFrame
<1>4. \A i \in DOMAIN r : TopBusy(r[i]) => \E k \in DOMAIN stack[p] : TopBusy(stack[p][k])
  BY <1>2, <1>3
<1>5. \A i \in DOMAIN r : DigestFrame(r[i])' BY <1>1, <1>2, <1>3, FrameKept DEF DigestOK
<1>6. ASSUME NEW i \in DOMAIN stack[p] PROVE \E k \in DOMAIN stack'[p] : stack'[p][k] = stack[p][i]
  <2>1. i + 1 \in DOMAIN r /\ i + 1 # 1 /\ (i + 1) - 1 = i BY <1>2
  <2>2. r[i + 1] = stack[p][i] BY <1>2, <2>1
  <2>3. QED BY <1>2, <2>1, <2>2
<1>7. stack'[p] = r /\ \A q \in Pullers : q # p => stack'[q] = stack[q] BY <1>2
<1>8. /\ hash_digest_'[1] # hash_cached_'[Top] => TopAt({"digest2", "cached"})'
      /\ hash_digest_'[2] # hash_cached_'[Top] => TopAt({"cached"})'
  BY <1>1, <1>6, <1>7, HalvesKept
<1>9. \A q \in Pullers : q # p => \A j \in DOMAIN stack[q] : \A x : x = stack[q][j] => DigestFrame(x)'
  BY <1>1, OthersKept
<1>10. QED BY <1>1, <1>4, <1>5, <1>7, <1>8, <1>9, DigestStep

LEMMA ResumedFrame ==
  ASSUME ControlInv, DigestOK, NEW p \in Pullers, NEW v, Len(stack[p]) > 1, stack[p] # << >>
  PROVE  /\ TopBusy(Resumed(stack[p][2], v)) => TopBusy(stack[p][2])
         /\ DigestFrame(Resumed(stack[p][2], v))
<1>1. 1 \in DOMAIN stack[p] /\ 2 \in DOMAIN stack[p] BY InnermostAt, LenProperties
<1>2. PICK c \in Frames : c = stack[p][2] /\ Local(c) BY <1>1, FrameAt
<1>3. DigestFrame(c) BY <1>1, <1>2 DEF DigestOK
<1>4. PICK g : g = Resumed(c, v) OBVIOUS
<1>5. CASE c.mode = "digest"
  <2>1. g.mode = "digest" /\ g.pc = "epoch" BY <1>4, <1>5 DEF Resumed, Frames
  <2>2. QED BY <1>2, <1>4, <2>1 DEF TopBusy, Busy, DigestFrame
<1>6. CASE c.mode # "digest"
  <2>1. c.pc = "child" BY <1>1, <1>2, <1>6, CallsApart
  <2>2. g.mode = c.mode /\ g.pc = "compare" /\ g.epoch = c.epoch /\ g.node = c.node /\ g.was = c.was
    BY <1>4, <1>6 DEF Resumed, Frames
  <2>3. TopBusy(g) <=> TopBusy(c) BY <2>1, <2>2 DEF TopBusy, Busy
  <2>4. DigestFrame(g) BY <1>3, <1>6, <2>1, <2>2, <2>3 DEF DigestFrame
  <2>5. QED BY <1>2, <1>4, <2>3, <2>4
<1>7. QED BY <1>5, <1>6

LEMMA DigestAnswers ==
  ASSUME ControlInv, DigestInv, TopKept, overlapped' = overlapped,
         NEW p \in Pullers, stack[p] # << >>, stack[p][1].pc \notin {"digest2", "cached"},
         NEW v, Answers(p, v), Answerable(p, v)
  PROVE  DigestInv'
<1> SUFFICES ASSUME ~overlapped PROVE DigestOK' BY DEF DigestInv
<1>1. DigestOK BY DEF DigestInv
<1>2. PICK r \in Seq(Frames) :
        /\ stack' = [stack EXCEPT ![p] = r] /\ stack'[p] = r
        /\ \A q \in Pullers : q # p => stack'[q] = stack[q]
        /\ Len(stack[p]) \in Nat \ {0} /\ DOMAIN stack[p] = 1 .. Len(stack[p])
        /\ Len(r) = Len(stack[p]) - 1 /\ DOMAIN r = 1 .. Len(stack[p]) - 1
        /\ \A i \in DOMAIN r :
             /\ i + 1 \in DOMAIN stack[p]
             /\ r[i] = IF i = 1 THEN Resumed(stack[p][2], v) ELSE stack[p][i + 1]
  BY AnswersStack
<1>3. ASSUME NEW i \in DOMAIN r
      PROVE  /\ TopBusy(r[i]) => \E k \in DOMAIN stack[p] : TopBusy(stack[p][k])
             /\ DigestFrame(r[i])'
  <2>1. CASE i = 1
    <3>1. Len(stack[p]) > 1 /\ 2 \in DOMAIN stack[p] BY <1>2, <2>1
    <3>2. /\ TopBusy(Resumed(stack[p][2], v)) => TopBusy(stack[p][2])
          /\ DigestFrame(Resumed(stack[p][2], v))
      BY <1>1, <3>1, ResumedFrame
    <3>3. r[i] = Resumed(stack[p][2], v) BY <1>2, <2>1
    <3>4. (TopBusy(r[i]) => TopBusy(stack[p][2])) /\ DigestFrame(r[i]) BY <3>2, <3>3, Zenon
    <3>5. QED BY <3>1, <3>4, FrameKept
  <2>2. CASE i # 1
    <3>1. r[i] = stack[p][i + 1] /\ i + 1 \in DOMAIN stack[p] BY <1>2, <2>2
    <3>2. DigestFrame(r[i]) BY <1>1, <3>1 DEF DigestOK
    <3>3. QED BY <3>1, <3>2, FrameKept
  <2>3. QED BY <2>1, <2>2
<1>4. ASSUME NEW i \in DOMAIN stack[p], TopBusy(stack[p][i]), stack[p][i].pc \in {"digest2", "cached"}
      PROVE  \E k \in DOMAIN stack'[p] : stack'[p][k] = stack[p][i]
  <2>1. i # 1 BY <1>4
  <2>2. CASE stack[p][i].mode = "digest" BY <1>4, <2>2 DEF TopBusy, Busy
  <2>3. CASE stack[p][i].mode # "digest"
    <3>1. 1 \in DOMAIN stack[p] /\ 1 < i BY <1>2, <2>1
    <3>2. stack[p][i].pc = "child" BY <2>3, <3>1, CallsApart
    <3>3. QED BY <1>4, <3>2
  <2>4. QED BY <2>2, <2>3
<1>5. stack'[p] = r /\ \A q \in Pullers : q # p => stack'[q] = stack[q] BY <1>2
<1>6. /\ hash_digest_'[1] # hash_cached_'[Top] => TopAt({"digest2", "cached"})'
      /\ hash_digest_'[2] # hash_cached_'[Top] => TopAt({"cached"})'
  BY <1>1, <1>4, <1>5, HalvesKept
<1>7. \A q \in Pullers : q # p => \A j \in DOMAIN stack[q] : \A x : x = stack[q][j] => DigestFrame(x)'
  BY <1>1, OthersKept
<1>8. QED BY <1>1, <1>3, <1>5, <1>6, <1>7, DigestStep

\* A recompute of the top under way is the only one,
LEMMA OnlyBusy ==
  ASSUME DigestOK, NEW p \in Pullers, NEW i \in DOMAIN stack[p], TopBusy(stack[p][i])
  PROVE  \A q \in Pullers : q # p => \A j \in DOMAIN stack[q] : ~TopBusy(stack[q][j])
BY DEF DigestOK

\* and if it is the innermost call, it is the only one in its puller, too.
LEMMA OnlyInnermost ==
  ASSUME ControlInv, NEW p \in Pullers, stack[p] # << >>, stack[p][1].node = Top,
         NEW i \in DOMAIN stack[p], i # 1
  PROVE  \A x : x = stack[p][i] => ~TopBusy(x) /\ DigestFrame(x) /\ DigestFrame(x)'
<1>1. stack[p][i].mode = "digest" /\ stack[p][i].pc = "valid" BY TopAlone
<1>2. QED BY <1>1 DEF TopBusy, Busy, DigestFrame

LEMMA TopStays ==
  ASSUME UNCHANGED <<hash_epoch_, cacheVars>>
  PROVE  TopKept
BY DEF cacheVars, TopKept

LEMMA DigestPull ==
  ASSUME ControlInv, DigestInv, NEW p \in Pullers, Pull(p)
  PROVE  DigestInv'
<1>0. overlapped' = overlapped /\ TopKept BY TopStays DEF Pull
<1> SUFFICES ASSUME ~overlapped PROVE DigestOK' BY <1>0 DEF DigestInv
<1>1. DigestOK BY DEF DigestInv
<1>2. PICK mode \in Asks[p], n \in Top .. Depth - 1 : Calls(p, Frame(n, mode, "epoch")) BY DEF Pull
<1>3. PICK g : g = Frame(n, mode, "epoch") OBVIOUS
<1>4. PICK r : r = <<g>> \o << >> OBVIOUS
<1>5. Len(r) = 1 /\ DOMAIN r = {1} /\ r[1] = g
  <2>1. g \in {g} /\ << >> \in Seq({g}) OBVIOUS
  <2>2. Len(r) = 1 /\ DOMAIN r = 1 .. 1 /\ r[1] = g BY <1>4, <2>1, CallsAt, EmptySeq
  <2>3. QED BY <2>2
<1>6. stack[p] = << >> BY DEF Pull
<1>7. stack'[p] = r /\ \A q \in Pullers : q # p => stack'[q] = stack[q]
  BY <1>2, <1>3, <1>4, <1>6 DEF Calls, ControlInv, HashTypeOK
<1>8. ~TopBusy(g) /\ DigestFrame(g)' BY <1>3 DEF Frame, TopBusy, Busy, DigestFrame
<1>9. \A i \in DOMAIN stack[p] : FALSE BY <1>6
<1>10. QED BY <1>0, <1>1, <1>5, <1>7, <1>8, <1>9, HalvesKept, OthersKept, DigestStep

LEMMA DigestLoadEpoch ==
  ASSUME ControlInv, DigestInv, NEW p \in Pullers, LoadEpoch(p)
  PROVE  DigestInv'
<1> SUFFICES ASSUME ~overlapped' PROVE DigestOK' BY DEF DigestInv
<1>1. stack[p] # << >> BY DEF LoadEpoch, At
<1>2. PICK f \in Frames : f = stack[p][1] /\ Head(stack[p]) = f /\ Local(f) BY <1>1, InnermostAt
<1>3. f.pc = "epoch" BY <1>2 DEF LoadEpoch, At
<1>4. PICK e \in Nat \ {0} : e = hash_epoch_[f.node] BY DEF Frames, ControlInv, HashTypeOK
<1>5. PICK next : next = IF f.mode # "audit" THEN "valid" ELSE IF f.node = Top THEN "current" ELSE "surface"
  OBVIOUS
<1>6. PICK g : g = [f EXCEPT !.epoch = e, !.pc = next] OBVIOUS
<1>7. /\ g \in Frames /\ g.node = f.node /\ g.mode = f.mode /\ g.epoch = e /\ g.pc = next
  BY <1>5, <1>6 DEF Frames, Points
<1>8. Becomes(p, g) BY <1>2, <1>4, <1>5, <1>6 DEF LoadEpoch
<1>9. PICK s \in Seq(Frames) : s = stack[p] /\ 1 \in DOMAIN s BY <1>1, InnermostAt
<1>10. PICK r : r = <<g>> \o Tail(s) OBVIOUS
<1>11. /\ DOMAIN r = DOMAIN s /\ r[1] = g /\ \A i \in DOMAIN s : i # 1 => r[i] = s[i]
  BY <1>1, <1>7, <1>9, <1>10, BecomesAt
<1>12. stack'[p] = r /\ \A q \in Pullers : q # p => stack'[q] = stack[q]
  BY <1>8, <1>9, <1>10 DEF Becomes, ControlInv, HashTypeOK
<1>13. TopKept BY TopStays DEF LoadEpoch
<1>14. ~overlapped
       /\ (f.mode # "digest" => \A q \in Pullers : q # p => \A j \in DOMAIN stack[q] :
              ~(stack[q][j].node = f.node /\ Busy(stack[q][j])))
  BY <1>2 DEF LoadEpoch, UnderWay, Busy
<1>15. DigestOK BY <1>14 DEF DigestInv
<1>16. TopBusy(g) => \A q \in Pullers : q # p => \A j \in DOMAIN stack[q] : ~TopBusy(stack[q][j])
  BY <1>7, <1>14 DEF TopBusy, Busy
<1>17. DigestFrame(g)
  <2>1. hash_valid_epoch_[Top] <= hash_epoch_[Top] BY Chain DEF ControlInv
  <2>2. g.node = Top => g.epoch = hash_epoch_[Top] BY <1>4, <1>7
  <2>3. QED BY <1>5, <1>7, <2>1, <2>2 DEF DigestFrame, TopBusy, Busy
<1>18. ASSUME NEW i \in DOMAIN r
       PROVE  /\ TopBusy(r[i]) =>
                   \/ \E k \in DOMAIN stack[p] : TopBusy(stack[p][k])
                   \/ \A q \in Pullers : q # p => \A j \in DOMAIN stack[q] : ~TopBusy(stack[q][j])
              /\ DigestFrame(r[i])'
  <2>1. CASE i = 1 BY <1>11, <1>13, <1>16, <1>17, <2>1, FrameKept
  <2>2. CASE i # 1
    <3>1. r[i] = stack[p][i] /\ i \in DOMAIN stack[p] BY <1>9, <1>11, <2>2
    <3>2. DigestFrame(r[i]) BY <1>15, <3>1 DEF DigestOK
    <3>3. QED BY <1>13, <3>1, <3>2, FrameKept
  <2>3. QED BY <2>1, <2>2
<1>19. ASSUME NEW i \in DOMAIN stack[p], TopBusy(stack[p][i]), stack[p][i].pc \in {"digest2", "cached"}
       PROVE  \E k \in DOMAIN stack'[p] : stack'[p][k] = stack[p][i]
  BY <1>2, <1>3, <1>9, <1>11, <1>12, <1>19
<1>20. QED BY <1>12, <1>13, <1>15, <1>18, <1>19, HalvesKept, OthersKept, DigestStep

\* Reading steps of a recompute.
LEMMA DigestReads ==
  ASSUME ControlInv, DigestInv, NEW p \in Pullers,
         LoadValid(p) \/ AuditCurrent(p) \/ AuditCached(p) \/ ReadSurface(p) \/ ReadChild(p) \/ Compare(p)
  PROVE  DigestInv'
<1>0. TopKept /\ overlapped' = overlapped
  BY TopStays DEF LoadValid, AuditCurrent, AuditCached, ReadSurface, ReadChild, Compare, OnlyStack
<1>a. ASSUME NEW f, NEW g, Advances(p, f, g), ~overlapped PROVE DigestFrame(f)
  BY <1>a, InnermostAt DEF DigestInv, DigestOK, Advances
<1>b. ASSUME NEW f, NEW g, Advances(p, f, g), TopBusy(f)
      PROVE  /\ f.epoch \in Nat /\ f.epoch <= hash_epoch_[Top]
             /\ hash_epoch_[Top] \in Nat /\ hash_valid_epoch_[Top] \in Nat
             /\ hash_valid_epoch_[Top] <= hash_epoch_[Top]
  <2>1. f.epoch \in Nat /\ f.epoch <= hash_epoch_[Top] BY <1>b, InnermostAt DEF Advances, Frames, TopBusy
  <2>2. Top \in Nodes BY Chain
  <2>3. hash_epoch_[Top] \in Nat \ {0} /\ hash_valid_epoch_[Top] \in Nat BY <2>2 DEF ControlInv, HashTypeOK
  <2>4. hash_valid_epoch_[Top] <= hash_epoch_[Top] BY <2>2 DEF ControlInv
  <2>5. QED BY <2>1, <2>3, <2>4
<1>1. CASE LoadValid(p) /\ ~(stack[p][1].mode = "digest" /\ hash_valid_epoch_[stack[p][1].node] # stack[p][1].epoch)
  <2>1. PICK f, g : /\ Advances(p, f, g) /\ f.pc = "valid" /\ g.val = f.val /\ g.was = f.was
                    /\ \/ /\ hash_valid_epoch_[f.node] = f.epoch
                          /\ g.pc = IF f.mode = "digest" THEN "half1" ELSE "hit"
                       \/ hash_valid_epoch_[f.node] # f.epoch /\ f.mode = "lazy" /\ g.pc = "surface"
    BY <1>1, LoadValidDoes
  <2>2. TopBusy(g) => TopBusy(f) BY <2>1 DEF Advances, TopBusy, Busy
  <2>3. ASSUME ~overlapped PROVE DigestFrame(g)
    <3>1. DigestFrame(f) BY <1>a, <2>1, <2>3
    <3>2. CASE g.mode = "digest"
      <4>1. g.pc = "half1" /\ g.epoch = f.epoch /\ hash_valid_epoch_[Top] = f.epoch
        BY <2>1, <3>2 DEF Advances, Local
      <4>2. QED BY <3>2, <4>1 DEF DigestFrame, TopBusy, Busy
    <3>3. CASE g.mode # "digest" /\ TopBusy(g)
      <4>1. g.pc = "surface" /\ f.mode = "lazy" /\ hash_valid_epoch_[Top] # f.epoch
            /\ g.mode = f.mode /\ g.epoch = f.epoch
        BY <2>1, <3>3 DEF Advances, TopBusy, Busy
      <4>2. hash_valid_epoch_[Top] <= f.epoch BY <2>2, <3>1, <3>3 DEF DigestFrame
      <4>3. hash_valid_epoch_[Top] # hash_epoch_[Top] BY <1>b, <2>1, <2>2, <3>3, <4>1, <4>2
      <4>4. QED BY <4>1, <4>2, <4>3 DEF DigestFrame
    <3>4. CASE g.mode # "digest" /\ ~TopBusy(g) BY <3>4 DEF DigestFrame
    <3>5. QED BY <3>2, <3>3, <3>4
  <2>4. QED BY <1>0, <2>1, <2>2, <2>3, DigestAdvances
<1>2. CASE \/ LoadValid(p) /\ stack[p][1].mode = "digest" /\ hash_valid_epoch_[stack[p][1].node] # stack[p][1].epoch
           \/ /\ ReadChild(p)
              /\ stack[p][1].node + 1 < Depth \/ (stack[p][1].node + 1 = Depth /\ leaf = "attached")
  BY <1>0, <1>2, CallDoes, DigestCalls
<1>3. CASE AuditCurrent(p)
  <2>1. PICK f, g : /\ Advances(p, f, g) /\ f.pc = "current" /\ f.mode = "audit" /\ g.val = f.val
                    /\ f.was = << >> /\ g.was = << >>
                    /\ \/ hash_valid_epoch_[f.node] = hash_epoch_[f.node] /\ g.pc = "was"
                       \/ /\ hash_valid_epoch_[f.node] # hash_epoch_[f.node]
                          /\ g.pc = AuditGoesOn(f) /\ g.pc \in {"surface", "epoch"}
    BY <1>3, AuditCurrentDoes
  <2>2. TopBusy(g) <=> TopBusy(f) BY <2>1 DEF Advances, TopBusy, Busy
  <2>3. ASSUME ~overlapped PROVE DigestFrame(g)
    <3>1. DigestFrame(f) BY <1>a, <2>1, <2>3
    <3>2. QED BY <2>1, <2>2, <3>1 DEF Advances, DigestFrame, TopBusy
  <2>4. QED BY <1>0, <2>1, <2>2, <2>3, DigestAdvances
<1>4. CASE AuditCached(p)
  <2>1. PICK f, g : /\ Advances(p, f, g) /\ f.pc = "was" /\ f.mode = "audit" /\ g.val = f.val
                    /\ g.was = <<hash_cached_[f.node]>>
                    /\ g.pc = AuditGoesOn(f) /\ g.pc \in {"surface", "epoch"}
    BY <1>4, AuditCachedDoes
  <2>2. TopBusy(g) <=> TopBusy(f) BY <2>1 DEF Advances, TopBusy, Busy
  <2>3. ASSUME ~overlapped PROVE DigestFrame(g)
    <3>1. DigestFrame(f) BY <1>a, <2>1, <2>3
    <3>2. QED BY <2>1, <2>2, <3>1 DEF Advances, DigestFrame, TopBusy
  <2>4. QED BY <1>0, <2>1, <2>2, <2>3, DigestAdvances
<1>5. CASE ReadSurface(p)
  <2>1. PICK f, g : /\ Advances(p, f, g) /\ f.pc = "surface" /\ f.mode # "digest"
                    /\ g.pc = "child" /\ g.was = f.was
    BY <1>5, ReadSurfaceDoes
  <2>2. TopBusy(g) <=> TopBusy(f) BY <2>1 DEF Advances, TopBusy, Busy
  <2>3. ASSUME ~overlapped PROVE DigestFrame(g)
    <3>1. DigestFrame(f) BY <1>a, <2>1, <2>3
    <3>2. QED BY <2>1, <2>2, <3>1 DEF Advances, DigestFrame, TopBusy
  <2>4. QED BY <1>0, <2>1, <2>2, <2>3, DigestAdvances
<1>6. CASE /\ ReadChild(p)
           /\ ~(stack[p][1].node + 1 < Depth \/ (stack[p][1].node + 1 = Depth /\ leaf = "attached"))
  <2>1. PICK f, g : /\ Advances(p, f, g) /\ f.pc = "child" /\ f.mode # "digest"
                    /\ g.pc = "compare" /\ g.was = f.was
    BY <1>6, ReadChildDoes
  <2>2. TopBusy(g) <=> TopBusy(f) BY <2>1 DEF Advances, TopBusy, Busy
  <2>3. ASSUME ~overlapped PROVE DigestFrame(g)
    <3>1. DigestFrame(f) BY <1>a, <2>1, <2>3
    <3>2. QED BY <2>1, <2>2, <3>1 DEF Advances, DigestFrame, TopBusy
  <2>4. QED BY <1>0, <2>1, <2>2, <2>3, DigestAdvances
<1>7. CASE Compare(p)
  <2>1. PICK f, g : /\ Advances(p, f, g) /\ f.pc = "compare" /\ f.mode # "digest"
                    /\ g.val = f.val /\ g.was = f.was
                    /\ \/ f.was # << >> /\ f.was # <<f.val>> /\ f.mode = "audit" /\ g.pc = "mark"
                       \/ /\ f.was = << >> \/ f.was = <<f.val>>
                          /\ g.pc = StampPC(f) /\ g.pc \in {"digest1", "cached"}
    BY <1>7, CompareDoes
  <2>2. TopBusy(g) <=> TopBusy(f) BY <2>1 DEF Advances, TopBusy, Busy
  <2>3. ASSUME ~overlapped PROVE DigestFrame(g)
    <3>1. DigestFrame(f) BY <1>a, <2>1, <2>3
    <3>2. CASE g.pc = "mark" BY <2>1, <2>2, <3>1, <3>2 DEF Advances, DigestFrame, TopBusy
    <3>3. CASE g.pc # "mark" /\ TopBusy(g)
      <4>1. g.pc = "digest1" /\ g.mode = f.mode /\ g.epoch = f.epoch
        BY <2>1, <3>3 DEF Advances, StampPC, TopBusy
      <4>2. \A x, y : <<x>> = <<y>> => x = y OBVIOUS
      <4>3. \A x : <<x>> # << >> OBVIOUS
      <4>4. f.mode = "audit" /\ hash_valid_epoch_[Top] = hash_epoch_[Top] => f.was = <<hash_cached_[Top]>>
        BY <2>1, <2>2, <3>1, <3>3 DEF DigestFrame
      <4>5. f.mode = "audit" /\ hash_valid_epoch_[Top] = hash_epoch_[Top] => g.val = hash_cached_[Top]
        BY <2>1, <3>3, <4>2, <4>3, <4>4
      <4>6. QED BY <2>1, <2>2, <3>1, <3>3, <4>1, <4>5 DEF DigestFrame
    <3>4. CASE ~TopBusy(g) BY <2>1, <3>4 DEF DigestFrame, Advances
    <3>5. QED BY <3>2, <3>3, <3>4
  <2>4. QED BY <1>0, <2>1, <2>2, <2>3, DigestAdvances
<1>8. QED BY <1>1, <1>2, <1>3, <1>4, <1>5, <1>6, <1>7

LEMMA AppendPair ==
  ASSUME NEW x, NEW y
  PROVE  Append(<<x>>, y) = <<x, y>>
<1>1. PICK s : s = <<x>> OBVIOUS
<1>2. s \in Seq({x, y}) /\ Len(s) = 1 /\ s[1] = x BY <1>1
<1>3. PICK r : r = Append(s, y) OBVIOUS
<1>4. r \in Seq({x, y}) /\ Len(r) = 2 /\ r[1] = x /\ r[2] = y
  <2>1. /\ r \in Seq({x, y}) /\ Len(r) = Len(s) + 1
        /\ \A i \in 1 .. Len(s) : r[i] = s[i]
        /\ r[Len(s) + 1] = y
    <3>1. x \in {x, y} /\ y \in {x, y} /\ s \in Seq({x, y}) BY <1>2
    <3>2. QED BY ONLY <1>3, <3>1, AppendProperties
  <2>2. 1 \in 1 .. Len(s) /\ Len(s) + 1 = 2 BY <1>2
  <2>3. QED BY <1>2, <2>1, <2>2
<1>5. PICK t : t = <<x, y>> OBVIOUS
<1>6. t \in Seq({x, y}) /\ Len(t) = 2 /\ t[1] = x /\ t[2] = y BY <1>5
<1>7. \A i \in 1 .. Len(r) : r[i] = t[i]
  <2>1. 1 .. Len(r) = {1, 2} BY <1>4
  <2>2. QED BY <2>1, <1>4, <1>6
<1>8. r = t BY <1>4, <1>6, <1>7, SeqEqual
<1>9. QED BY <1>1, <1>3, <1>5, <1>8

\* The copy is of what is cached: a recompute that has stored half of another
\* digest would have found the epoch moved.
LEMMA DigestCopies ==
  ASSUME ControlInv, DigestInv, NEW p \in Pullers, CopyDigest(p) \/ Recheck(p)
  PROVE  DigestInv'
<1>0. TopKept /\ overlapped' = overlapped BY TopStays DEF CopyDigest, Recheck, OnlyStack
<1>a. ASSUME NEW f, NEW g, Advances(p, f, g), ~overlapped PROVE DigestFrame(f)
  BY <1>a, InnermostAt DEF DigestInv, DigestOK, Advances
<1>1. CASE CopyDigest(p)
  <2>1. PICK f, g : /\ Advances(p, f, g) /\ f.mode = "digest" /\ f.node = Top /\ g.val = f.val
                    /\ \/ f.pc = "half1" /\ g.pc = "half2" /\ g.was = <<hash_digest_[1]>>
                       \/ f.pc = "half2" /\ g.pc = "again" /\ g.was = Append(f.was, hash_digest_[2])
    BY <1>1, CopyDigestDoes
  <2>2. ~TopBusy(g) /\ ~TopBusy(f) BY <2>1 DEF Advances, TopBusy, Busy
  <2>3. ASSUME ~overlapped, f.epoch = hash_epoch_[Top]
        PROVE  hash_valid_epoch_[Top] = hash_epoch_[Top]
               /\ hash_digest_[1] = hash_cached_[Top] /\ hash_digest_[2] = hash_cached_[Top]
    <3>1. DigestFrame(f) /\ DigestOK BY <1>a, <2>1, <2>3 DEF DigestInv
    <3>2. hash_valid_epoch_[Top] = hash_epoch_[Top] BY <2>1, <2>3, <3>1 DEF DigestFrame
    <3>3. ASSUME NEW q \in Pullers, NEW i \in DOMAIN stack[q], TopBusy(stack[q][i])
          PROVE  /\ stack[q][i].pc \in {"digest2", "cached"} => hash_digest_[1] = hash_cached_[Top]
                 /\ stack[q][i].pc = "cached" => hash_digest_[2] = hash_cached_[Top]
      <4>1. DigestFrame(stack[q][i]) /\ stack[q][i] \in Frames BY <3>1, FrameAt DEF DigestOK
      <4>2. stack[q][i].mode \in {"lazy", "audit"} BY <3>3, <4>1 DEF Frames, Modes, TopBusy, Busy
      <4>3. QED BY <3>2, <3>3, <4>1, <4>2 DEF DigestFrame
    <3>4. hash_digest_[1] = hash_cached_[Top] BY <3>1, <3>3 DEF DigestOK, TopAt
    <3>5. hash_digest_[2] = hash_cached_[Top] BY <3>1, <3>3 DEF DigestOK, TopAt
    <3>6. QED BY <3>2, <3>4, <3>5
  <2>4. ASSUME ~overlapped PROVE DigestFrame(g)
    <3>1. DigestFrame(f) /\ g.mode = "digest" /\ g.epoch = f.epoch BY <1>a, <2>1, <2>4 DEF Advances
    <3>2. \A x, y : Append(<<x>>, y) = <<x, y>> BY AppendPair
    <3>3. ASSUME g.epoch = hash_epoch_[Top]
          PROVE  /\ g.pc = "half2" => g.was = <<hash_cached_[Top]>>
                 /\ g.pc = "again" => g.was = <<hash_cached_[Top], hash_cached_[Top]>>
                 /\ hash_valid_epoch_[Top] = hash_epoch_[Top]
      <4>1. /\ hash_valid_epoch_[Top] = hash_epoch_[Top]
            /\ hash_digest_[1] = hash_cached_[Top] /\ hash_digest_[2] = hash_cached_[Top]
        BY <2>3, <2>4, <3>1, <3>3
      <4>2. f.pc = "half2" => f.was = <<hash_cached_[Top]>> BY <2>1, <3>1, <3>3 DEF DigestFrame
      <4>3. QED BY <2>1, <3>2, <4>1, <4>2
    <3>4. g.pc \in {"half2", "again"} BY <2>1
    <3>5. QED BY <2>2, <3>1, <3>3, <3>4 DEF DigestFrame
  <2>5. QED BY <1>0, <2>1, <2>2, <2>4, DigestAdvances
<1>2. CASE Recheck(p)
  <2>1. CASE \E f, g : /\ Advances(p, f, g) /\ f.mode = "digest" /\ f.pc \in {"again", "again2"}
                       /\ g.val = f.val /\ g.was = f.was
                       /\ \/ f.pc = "again" /\ g.pc = "again2" /\ f.epoch = hash_valid_epoch_[Top]
                          \/ g.pc = "epoch"
    <3>1. PICK f, g : /\ Advances(p, f, g) /\ f.mode = "digest" /\ f.pc \in {"again", "again2"}
                      /\ g.was = f.was /\ g.pc \in {"again2", "epoch"}
      BY <2>1
    <3>2. ~TopBusy(g) /\ ~TopBusy(f) BY <3>1 DEF Advances, TopBusy, Busy
    <3>3. ASSUME ~overlapped PROVE DigestFrame(g)
      BY <1>a, <3>1, <3>2, <3>3 DEF Advances, DigestFrame
    <3>4. QED BY <1>0, <3>1, <3>2, <3>3, DigestAdvances
  <2>2. CASE stack[p][1].pc = "again2" /\ Len(stack[p]) = 1 /\ Answers(p, stack[p][1].was)
    <3>1. stack[p] # << >> BY <1>2 DEF Recheck, At
    <3>2. QED BY <1>0, <2>2, <3>1, DigestAnswers DEF Answerable
  <2>3. QED BY <1>2, <2>1, <2>2, RecheckDoes
<1>3. QED BY <1>1, <1>2

LEMMA DigestStampDigest ==
  ASSUME ControlInv, DigestInv, NEW p \in Pullers, StampDigest(p)
  PROVE  DigestInv'
<1>0. /\ overlapped' = overlapped /\ hash_epoch_' = hash_epoch_
      /\ hash_valid_epoch_' = hash_valid_epoch_ /\ hash_cached_' = hash_cached_
  BY DEF StampDigest, Stamping
<1> SUFFICES ASSUME ~overlapped PROVE DigestOK' BY <1>0 DEF DigestInv
<1>1. DigestOK BY DEF DigestInv
<1>2. PICK f, g : /\ Advances(p, f, g) /\ f.mode # "digest" /\ f.node = Top
                  /\ g.val = f.val /\ g.was = f.was
                  /\ \/ /\ f.pc = "digest1" /\ g.pc = "digest2"
                        /\ hash_digest_' = [hash_digest_ EXCEPT ![1] = f.val]
                     \/ /\ f.pc = "digest2" /\ g.pc = "cached"
                        /\ hash_digest_' = [hash_digest_ EXCEPT ![2] = f.val]
  BY StampDigestDoes
<1>3. PICK r \in Seq(Frames) :
        /\ stack'[p] = r /\ \A q \in Pullers : q # p => stack'[q] = stack[q]
        /\ DOMAIN r = DOMAIN stack[p] /\ 1 \in DOMAIN r
        /\ r[1] = g /\ \A i \in DOMAIN r : i # 1 => r[i] = stack[p][i]
  BY <1>2, AdvancesStack
<1>4. f = stack[p][1] /\ stack[p] # << >> BY <1>2 DEF Advances
<1>5. TopBusy(f) /\ TopBusy(g) BY <1>2 DEF Advances, TopBusy, Busy, Local
<1>6. \A q \in Pullers : q # p => \A j \in DOMAIN stack[q] : ~TopBusy(stack[q][j])
  BY <1>1, <1>3, <1>4, <1>5, OnlyBusy
<1>7. DigestFrame(f) BY <1>1, <1>3, <1>4 DEF DigestOK
<1>8. /\ f.pc = "digest1" => hash_digest_'[1] = f.val /\ hash_digest_'[2] = hash_digest_[2]
      /\ f.pc = "digest2" => hash_digest_'[2] = f.val /\ hash_digest_'[1] = hash_digest_[1]
  BY <1>2 DEF ControlInv, HashTypeOK
<1>9. DigestFrame(g)'
  BY <1>0, <1>2, <1>5, <1>7, <1>8 DEF Advances, DigestFrame, TopBusy, Busy
<1>10. ASSUME NEW i \in DOMAIN r
       PROVE  /\ TopBusy(r[i]) => \E k \in DOMAIN stack[p] : TopBusy(stack[p][k])
              /\ DigestFrame(r[i])'
  <2>1. CASE i = 1 BY <1>3, <1>4, <1>5, <1>9, <2>1
  <2>2. CASE i # 1 BY <1>2, <1>3, <1>4, <2>2, OnlyInnermost
  <2>3. QED BY <2>1, <2>2
<1>11. ASSUME NEW q \in Pullers, q # p, NEW j \in DOMAIN stack[q], NEW x, x = stack[q][j]
       PROVE  DigestFrame(x)'
  <2>1. ~TopBusy(x) BY <1>6, <1>11
  <2>2. DigestFrame(x) BY <1>1, <1>11 DEF DigestOK
  <2>3. QED BY <1>0, <2>1, <2>2 DEF DigestFrame, TopBusy, Busy
<1>12. /\ hash_digest_'[1] # hash_cached_'[Top] => TopAt({"digest2", "cached"})'
       /\ hash_digest_'[2] # hash_cached_'[Top] => TopAt({"cached"})'
  <2>1. TopBusy(stack'[p][1]) /\ 1 \in DOMAIN stack'[p] /\ stack'[p][1] = g BY <1>3, <1>5
  <2>2. TopAt({"digest2", "cached"})' BY <1>2, <2>1 DEF TopAt, TopBusy, Busy
  <2>3. CASE f.pc = "digest1"
    <3>1. ~TopAt({"cached"})
      <4>1. SUFFICES ASSUME TopAt({"cached"}) PROVE FALSE OBVIOUS
      <4>2. PICK q \in Pullers : \E i \in DOMAIN stack[q] : TopBusy(stack[q][i]) /\ stack[q][i].pc = "cached"
        BY <4>1 DEF TopAt
      <4>3. PICK i \in DOMAIN stack[q] : TopBusy(stack[q][i]) /\ stack[q][i].pc = "cached" BY <4>2
      <4>4. q = p BY <1>6, <4>3
      <4>5. i # 1 BY <1>4, <2>3, <4>3, <4>4
      <4>6. QED BY <1>2, <1>4, <4>3, <4>4, <4>5, OnlyInnermost
    <3>2. hash_digest_'[2] = hash_cached_'[Top] BY <1>0, <1>1, <1>8, <2>3, <3>1 DEF DigestOK
    <3>3. QED BY <2>2, <3>2
  <2>4. CASE f.pc = "digest2"
    <3>1. TopAt({"cached"})' BY <1>2, <2>1, <2>4 DEF TopAt, TopBusy, Busy
    <3>2. QED BY <2>2, <3>1
  <2>5. QED BY <1>2, <2>3, <2>4
<1>13. QED BY <1>1, <1>3, <1>10, <1>11, <1>12, DigestStep

LEMMA DigestStampCached ==
  ASSUME ControlInv, DigestInv, NEW p \in Pullers, StampCached(p)
  PROVE  DigestInv'
<1>0. /\ overlapped' = overlapped /\ hash_epoch_' = hash_epoch_
      /\ hash_valid_epoch_' = hash_valid_epoch_ /\ hash_digest_' = hash_digest_
  BY DEF StampCached, Stamping
<1>2. PICK f, g : /\ Advances(p, f, g) /\ f.pc = "cached" /\ f.mode # "digest"
                  /\ g.pc = "stamp" /\ g.val = f.val /\ g.was = f.was
                  /\ hash_cached_' = [hash_cached_ EXCEPT ![f.node] = f.val]
  BY StampCachedDoes
<1>a. CASE f.node # Top
  <2>1. TopKept
    <3>1. Top \in Nodes BY Chain
    <3>2. hash_cached_ \in [Nodes -> Seq(Nat)] BY DEF ControlInv, HashTypeOK
    <3>3. f.node # Top /\ hash_cached_' = [hash_cached_ EXCEPT ![f.node] = f.val] BY <1>2, <1>a
    <3>4. hash_cached_'[Top] = hash_cached_[Top] BY ONLY <3>1, <3>2, <3>3
    <3>5. QED BY <1>0, <3>4 DEF TopKept
  <2>2. ~TopBusy(g) /\ DigestFrame(g) BY <1>2, <1>a DEF Advances, TopBusy, DigestFrame
  <2>3. QED BY <1>0, <1>2, <1>a, <2>1, <2>2, DigestAdvances
<1>b. CASE f.node = Top
  <2> SUFFICES ASSUME ~overlapped PROVE DigestOK' BY <1>0 DEF DigestInv
  <2>1. DigestOK BY DEF DigestInv
  <2>3. PICK r \in Seq(Frames) :
          /\ stack'[p] = r /\ \A q \in Pullers : q # p => stack'[q] = stack[q]
          /\ DOMAIN r = DOMAIN stack[p] /\ 1 \in DOMAIN r
          /\ r[1] = g /\ \A i \in DOMAIN r : i # 1 => r[i] = stack[p][i]
    BY <1>2, AdvancesStack
  <2>4. f = stack[p][1] /\ stack[p] # << >> BY <1>2 DEF Advances
  <2>5. TopBusy(f) /\ TopBusy(g) BY <1>2, <1>b DEF Advances, TopBusy, Busy, Local
  <2>6. \A q \in Pullers : q # p => \A j \in DOMAIN stack[q] : ~TopBusy(stack[q][j])
    BY <2>1, <2>3, <2>4, <2>5, OnlyBusy
  <2>7. DigestFrame(f) BY <2>1, <2>3, <2>4 DEF DigestOK
  <2>8. hash_cached_'[Top] = f.val BY <1>2, <1>b, Chain DEF ControlInv, HashTypeOK
  <2>9. DigestFrame(g)'
    BY <1>0, <1>2, <2>5, <2>7, <2>8 DEF Advances, DigestFrame, TopBusy, Busy
  <2>10. ASSUME NEW i \in DOMAIN r
         PROVE  /\ TopBusy(r[i]) => \E k \in DOMAIN stack[p] : TopBusy(stack[p][k])
                /\ DigestFrame(r[i])'
    <3>1. CASE i = 1 BY <2>3, <2>4, <2>5, <2>9, <3>1
    <3>2. CASE i # 1 BY <1>b, <2>3, <2>4, <3>2, OnlyInnermost
    <3>3. QED BY <3>1, <3>2
  <2>11. hash_valid_epoch_[Top] = hash_epoch_[Top] => hash_cached_[Top] = f.val
    <3>1. f.mode \in {"lazy", "audit"} BY <1>2 DEF Advances, Frames, Modes
    <3>2. QED BY <1>2, <2>5, <2>7, <3>1 DEF DigestFrame
  <2>12. ASSUME NEW q \in Pullers, q # p, NEW j \in DOMAIN stack[q], NEW x, x = stack[q][j]
         PROVE  DigestFrame(x)'
    <3>1. ~TopBusy(x) BY <2>6, <2>12
    <3>2. DigestFrame(x) BY <2>1, <2>12 DEF DigestOK
    <3>3. x.mode = "digest" /\ x.epoch = hash_epoch_[Top]
          /\ x.pc \in {"half1", "half2", "again", "again2"} => hash_cached_'[Top] = hash_cached_[Top]
      BY <2>8, <2>11, <3>2 DEF DigestFrame
    <3>4. QED BY <1>0, <3>1, <3>2, <3>3 DEF DigestFrame, TopBusy, Busy
  <2>13. hash_digest_'[1] = hash_cached_'[Top] /\ hash_digest_'[2] = hash_cached_'[Top]
    BY <1>0, <1>2, <2>5, <2>7, <2>8 DEF DigestFrame
  <2>14. QED BY <2>1, <2>3, <2>10, <2>12, <2>13, DigestStep
<1>3. QED BY <1>a, <1>b

LEMMA DigestAnswered ==
  ASSUME ControlInv, DigestInv, NEW p \in Pullers, LoadCached(p) \/ StampEpoch(p)
  PROVE  DigestInv'
<1>0. /\ overlapped' = overlapped /\ hash_epoch_' = hash_epoch_
      /\ hash_cached_' = hash_cached_ /\ hash_digest_' = hash_digest_
  BY DEF LoadCached, OnlyStack, cacheVars, StampEpoch, Stamping
<1>1. PICK f \in Frames, v \in Seq(Nat) :
        /\ stack[p] # << >> /\ f = stack[p][1] /\ Local(f) /\ f.mode # "digest"
        /\ Answers(p, v)
        /\ \/ /\ f.pc = "hit" /\ hash_valid_epoch_' = hash_valid_epoch_
           \/ /\ f.pc = "stamp"
              /\ hash_valid_epoch_' = [hash_valid_epoch_ EXCEPT ![f.node] = f.epoch]
  BY AnswerDoes
<1>a. CASE f.node # Top \/ f.pc = "hit"
  <2>0. hash_valid_epoch_'[Top] = hash_valid_epoch_[Top]
    <3>1. CASE f.pc = "hit" BY <1>1, <3>1
    <3>2. CASE f.node # Top
      <4>0. Top \in Nodes BY Chain
      <4>1. Top \in Nodes /\ hash_valid_epoch_ \in [Nodes -> Nat] BY <4>0 DEF ControlInv, HashTypeOK
      <4>2. PICK n, e : n = f.node /\ e = f.epoch /\ n # Top BY <3>2
      <4>3. hash_valid_epoch_' = hash_valid_epoch_ \/ hash_valid_epoch_' = [hash_valid_epoch_ EXCEPT ![n] = e]
        BY <1>1, <4>2
      <4>4. QED BY ONLY <4>1, <4>2, <4>3
    <3>3. QED BY <1>a, <3>1, <3>2
  <2>1. TopKept BY <1>0, <2>0 DEF TopKept
  <2>2. QED BY <1>0, <1>1, <2>1, DigestAnswers DEF Answerable
<1>b. CASE f.node = Top /\ f.pc # "hit"
  <2> SUFFICES ASSUME ~overlapped PROVE DigestOK' BY <1>0 DEF DigestInv
  <2>1. DigestOK BY DEF DigestInv
  <2>2. f.pc = "stamp" /\ hash_valid_epoch_'[Top] = f.epoch
    <3>1. Top \in Nodes BY Chain
    <3>2. hash_valid_epoch_ \in [Nodes -> Nat] BY DEF ControlInv, HashTypeOK
    <3>3. f.pc = "stamp" /\ f.node = Top /\ hash_valid_epoch_' = [hash_valid_epoch_ EXCEPT ![f.node] = f.epoch]
      BY <1>1, <1>b
    <3>4. QED BY ONLY <3>1, <3>2, <3>3
  <2>3. PICK r \in Seq(Frames) :
          /\ stack'[p] = r /\ \A q \in Pullers : q # p => stack'[q] = stack[q]
          /\ Len(stack[p]) \in Nat \ {0} /\ DOMAIN stack[p] = 1 .. Len(stack[p])
          /\ DOMAIN r = 1 .. Len(stack[p]) - 1
          /\ \A i \in DOMAIN r :
               /\ i + 1 \in DOMAIN stack[p]
               /\ r[i] = IF i = 1 THEN Resumed(stack[p][2], v) ELSE stack[p][i + 1]
    BY <1>1, AnswersStack DEF Answerable
  <2>4. 1 \in DOMAIN stack[p] BY <2>3
  <2>5. TopBusy(f) BY <1>1, <1>b, <2>2 DEF TopBusy, Busy, Local
  <2>6. \A q \in Pullers : q # p => \A j \in DOMAIN stack[q] : ~TopBusy(stack[q][j])
    BY <1>1, <2>1, <2>4, <2>5, OnlyBusy
  <2>7. DigestFrame(f) BY <1>1, <2>1, <2>4 DEF DigestOK
  <2>8. ASSUME NEW i \in DOMAIN r PROVE ~TopBusy(r[i]) /\ DigestFrame(r[i])'
    <3>1. i + 1 \in DOMAIN stack[p] /\ i + 1 # 1 BY <2>3
    <3>2. stack[p][i + 1].mode = "digest" /\ stack[p][i + 1].pc = "valid"
      BY <1>1, <1>b, <3>1, TopAlone
    <3>3. CASE i = 1
      <4>1. PICK c \in Frames : c = stack[p][2] /\ c.mode = "digest" BY <3>1, <3>2, <3>3, FrameAt
      <4>2. r[i] = Resumed(c, v) BY <2>3, <3>3, <4>1
      <4>3. r[i].mode = "digest" /\ r[i].pc = "epoch" BY <4>1, <4>2 DEF Resumed, Frames
      <4>4. QED BY <4>3 DEF TopBusy, Busy, DigestFrame
    <3>4. CASE i # 1
      <4>1. r[i].mode = "digest" /\ r[i].pc = "valid" BY <2>3, <3>2, <3>4
      <4>2. QED BY <4>1 DEF TopBusy, Busy, DigestFrame
    <3>5. QED BY <3>3, <3>4
  <2>9. ASSUME NEW q \in Pullers, q # p, NEW j \in DOMAIN stack[q], NEW x, x = stack[q][j]
        PROVE  DigestFrame(x)'
    <3>1. ~TopBusy(x) BY <2>6, <2>9
    <3>2. DigestFrame(x) BY <2>1, <2>9 DEF DigestOK
    <3>3. f.epoch \in Nat /\ hash_epoch_[Top] \in Nat \ {0} /\ hash_valid_epoch_[Top] \in Nat
          /\ f.epoch <= hash_epoch_[Top] /\ hash_valid_epoch_[Top] <= f.epoch
      <4>1. f.epoch <= hash_epoch_[Top] BY <1>1, <1>b, <2>4, FrameAt
      <4>2. hash_valid_epoch_[Top] <= f.epoch BY <2>5, <2>7 DEF DigestFrame
      <4>3. Top \in Nodes BY Chain
      <4>4. hash_epoch_[Top] \in Nat \ {0} /\ hash_valid_epoch_[Top] \in Nat
        BY <4>3 DEF ControlInv, HashTypeOK
      <4>5. QED BY <4>1, <4>2, <4>4 DEF Frames
    <3>4. hash_valid_epoch_[Top] = hash_epoch_[Top] => hash_valid_epoch_'[Top] = hash_epoch_[Top]
      BY <2>2, <3>3
    <3>5. QED BY <1>0, <3>1, <3>2, <3>4 DEF DigestFrame, TopBusy, Busy
  <2>10. ASSUME NEW pcs \in SUBSET {"digest2", "cached"} PROVE ~TopAt(pcs)
    <3>1. SUFFICES ASSUME TopAt(pcs) PROVE FALSE OBVIOUS
    <3>2. PICK q \in Pullers : \E i \in DOMAIN stack[q] : TopBusy(stack[q][i]) /\ stack[q][i].pc \in pcs
      BY <3>1 DEF TopAt
    <3>3. PICK i \in DOMAIN stack[q] : TopBusy(stack[q][i]) /\ stack[q][i].pc \in pcs BY <3>2
    <3>4. q = p BY <2>6, <3>3
    <3>5. i # 1 BY <1>1, <2>2, <3>3, <3>4
    <3>6. QED BY <1>1, <1>b, <3>3, <3>4, <3>5, OnlyInnermost
  <2>11. hash_digest_'[1] = hash_cached_'[Top] /\ hash_digest_'[2] = hash_cached_'[Top]
    <3>1. {"digest2", "cached"} \in SUBSET {"digest2", "cached"} /\ {"cached"} \in SUBSET {"digest2", "cached"}
      OBVIOUS
    <3>2. ~TopAt({"digest2", "cached"}) /\ ~TopAt({"cached"}) BY <2>10, <3>1
    <3>3. QED BY <1>0, <2>1, <3>2 DEF DigestOK
  <2>12. QED BY <2>1, <2>3, <2>8, <2>9, <2>11, DigestStep
<1>2. QED BY <1>a, <1>b

\* The epoch of the top counted up: nothing under way is current any more.
LEMMA FrameCountedUp ==
  ASSUME ControlInv, NEW p \in Pullers, NEW i \in DOMAIN stack[p], NEW f,
         f.node = stack[p][i].node, f.mode = stack[p][i].mode, f.epoch = stack[p][i].epoch,
         TopBusy(f) => TopBusy(stack[p][i]),
         DigestFrame(stack[p][i]),
         f.pc \in {"digest2", "cached"} /\ TopBusy(f) => f = stack[p][i],
         hash_epoch_'[Top] = hash_epoch_[Top] + 1, hash_valid_epoch_' = hash_valid_epoch_,
         hash_cached_' = hash_cached_, hash_digest_' = hash_digest_
  PROVE  DigestFrame(f)'
<1>1. PICK g \in Frames : g = stack[p][i] /\ Local(g) /\ g.epoch <= hash_epoch_[g.node] BY FrameAt
<1>2. Top \in Nodes BY Chain
<1>3. PICK e \in Nat \ {0}, d \in Nat : e = hash_epoch_[Top] /\ d = hash_valid_epoch_[Top] /\ d <= e
  <2>1. hash_epoch_[Top] \in Nat \ {0} /\ hash_valid_epoch_[Top] \in Nat
    BY <1>2 DEF ControlInv, HashTypeOK
  <2>2. hash_valid_epoch_[Top] <= hash_epoch_[Top] BY <1>2 DEF ControlInv
  <2>3. QED BY <2>1, <2>2
<1>4. hash_epoch_'[Top] = e + 1 /\ d # e + 1 BY <1>3
<1>5. CASE TopBusy(f)
  <2>1. DigestFrame(g) /\ TopBusy(g) BY <1>1, <1>5
  <2>2. hash_valid_epoch_'[Top] <= f.epoch /\ hash_valid_epoch_'[Top] # hash_epoch_'[Top]
    BY <1>1, <1>3, <1>4, <2>1 DEF DigestFrame
  <2>3. f.pc \in {"digest2", "cached"} => hash_digest_'[1] = f.val
    BY <1>1, <1>5, <2>1 DEF DigestFrame
  <2>4. f.pc = "cached" => hash_digest_'[2] = f.val BY <1>1, <1>5, <2>1 DEF DigestFrame
  <2>5. f.mode # "digest" BY <1>5 DEF TopBusy, Busy
  <2>6. QED BY <2>2, <2>3, <2>4, <2>5 DEF DigestFrame
<1>6. CASE ~TopBusy(f) /\ f.mode = "digest"
  <2>1. g.node = Top BY <1>1, <1>6 DEF Local
  <2>2. f.epoch <= e /\ f.epoch \in Nat BY <1>1, <1>3, <2>1 DEF Frames
  <2>3. f.epoch # hash_epoch_'[Top] BY <1>4, <2>2
  <2>4. QED BY <1>6, <2>3 DEF DigestFrame, TopBusy, Busy
<1>7. CASE ~TopBusy(f) /\ f.mode # "digest" BY <1>7 DEF DigestFrame, TopBusy, Busy
<1>8. QED BY <1>5, <1>6, <1>7

LEMMA DigestAuditMarks ==
  ASSUME ControlInv, DigestInv, NEW p \in Pullers, AuditMarks(p)
  PROVE  DigestInv'
<1>0. /\ overlapped' = overlapped /\ hash_valid_epoch_' = hash_valid_epoch_
      /\ hash_cached_' = hash_cached_ /\ hash_digest_' = hash_digest_
  BY DEF AuditMarks, cacheVars
<1>1. PICK f, g : /\ Advances(p, f, g) /\ f.pc = "mark" /\ f.mode = "audit" /\ f.up \in Top .. f.node
                  /\ hash_epoch_' = [hash_epoch_ EXCEPT ![f.up] = @ + 1]
                  /\ g.val = f.val /\ g.was = f.was
                  /\ \/ f.up # Top /\ g.pc = "mark"
                     \/ f.up = Top /\ g.pc = StampPC(f) /\ g.pc \in {"digest1", "cached"}
  BY AuditMarksDoes
<1>2. TopBusy(g) <=> TopBusy(f) BY <1>1 DEF Advances, TopBusy, Busy
<1>3. CASE f.up # Top
  <2>1. TopKept BY <1>0, <1>1, <1>3, Chain DEF TopKept, ControlInv, HashTypeOK
  <2>2. ASSUME ~overlapped PROVE DigestFrame(g)
    <3>1. DigestFrame(f) BY <1>1, <2>2, InnermostAt DEF DigestInv, DigestOK, Advances
    <3>2. QED BY <1>1, <1>2, <1>3, <3>1 DEF Advances, DigestFrame, TopBusy
  <2>3. QED BY <1>0, <1>1, <1>2, <2>1, <2>2, DigestAdvances
<1>4. CASE f.up = Top
  <2> SUFFICES ASSUME ~overlapped PROVE DigestOK' BY <1>0 DEF DigestInv
  <2>1. DigestOK BY DEF DigestInv
  <2>2. hash_epoch_'[Top] = hash_epoch_[Top] + 1 BY <1>1, <1>4, Chain DEF ControlInv, HashTypeOK
  <2>3. PICK r \in Seq(Frames) :
          /\ stack'[p] = r /\ \A q \in Pullers : q # p => stack'[q] = stack[q]
          /\ DOMAIN r = DOMAIN stack[p] /\ 1 \in DOMAIN r
          /\ r[1] = g /\ \A i \in DOMAIN r : i # 1 => r[i] = stack[p][i]
    BY <1>1, AdvancesStack
  <2>4. f = stack[p][1] /\ stack[p] # << >> BY <1>1 DEF Advances
  <2>5. ~(TopBusy(g) /\ g.pc \in {"digest2", "cached"})
    BY <1>1, <1>4 DEF StampPC, TopBusy, Advances
  <2>6. ASSUME NEW i \in DOMAIN r
        PROVE  /\ TopBusy(r[i]) => \E k \in DOMAIN stack[p] : TopBusy(stack[p][k])
               /\ DigestFrame(r[i])'
    <3>1. CASE i = 1
      <4>1. DigestFrame(f) BY <2>1, <2>3, <2>4 DEF DigestOK
      <4>2. g.node = f.node /\ g.mode = f.mode /\ g.epoch = f.epoch BY <1>1 DEF Advances
      <4>3. DigestFrame(g)' BY <1>0, <1>2, <2>2, <2>3, <2>4, <2>5, <4>1, <4>2, FrameCountedUp
      <4>4. QED BY <1>2, <2>3, <2>4, <3>1, <4>3
    <3>2. CASE i # 1
      <4>1. r[i] = stack[p][i] /\ i \in DOMAIN stack[p] BY <2>3, <3>2
      <4>2. DigestFrame(stack[p][i]) BY <2>1, <4>1 DEF DigestOK
      <4>3. DigestFrame(r[i])' BY <1>0, <2>2, <4>1, <4>2, FrameCountedUp
      <4>4. QED BY <4>1, <4>3
    <3>3. QED BY <3>1, <3>2
  <2>7. ASSUME NEW q \in Pullers, q # p, NEW j \in DOMAIN stack[q], NEW x, x = stack[q][j]
        PROVE  DigestFrame(x)'
    <3>1. DigestFrame(stack[q][j]) BY <2>1 DEF DigestOK
    <3>2. QED BY <1>0, <2>2, <2>7, <3>1, FrameCountedUp
  <2>8. ASSUME NEW pcs \in SUBSET {"digest2", "cached"}, TopAt(pcs) PROVE TopAt(pcs)'
    <3>1. ASSUME NEW i \in DOMAIN stack[p], TopBusy(stack[p][i]), stack[p][i].pc \in pcs
          PROVE  \E k \in DOMAIN stack'[p] : stack'[p][k] = stack[p][i]
      <4>1. i # 1 BY <1>1, <2>4, <2>8, <3>1
      <4>2. QED BY <2>3, <4>1
    <3>2. QED BY <2>3, <2>8, <3>1, TopAtKept
  <2>9. /\ hash_digest_'[1] # hash_cached_'[Top] => TopAt({"digest2", "cached"})'
        /\ hash_digest_'[2] # hash_cached_'[Top] => TopAt({"cached"})'
    <3>1. {"digest2", "cached"} \in SUBSET {"digest2", "cached"} /\ {"cached"} \in SUBSET {"digest2", "cached"}
      OBVIOUS
    <3>2. QED BY <1>0, <2>1, <2>8, <3>1 DEF DigestOK
  <2>10. QED BY <2>1, <2>3, <2>6, <2>7, <2>9, DigestStep
<1>5. QED BY <1>3, <1>4

LEMMA DigestMove ==
  ASSUME ControlInv, DigestInv, (\E m \in Movers : Move(m)) \/ BeginRetire
  PROVE  DigestInv'
<1>0. stack' = stack /\ overlapped' = overlapped /\ hash_valid_epoch_' = hash_valid_epoch_
      /\ hash_cached_' = hash_cached_ /\ hash_digest_' = hash_digest_
  BY DEF Move, ModifyTag, AddChild, DetachFromParent, MarkStateChange, BeginRetire, Transition,
         cacheVars, pullVars
<1>1. hash_epoch_'[Top] = hash_epoch_[Top] \/ hash_epoch_'[Top] = hash_epoch_[Top] + 1
  <2>1. CASE hash_epoch_' = hash_epoch_ BY <2>1
  <2>2. CASE \E m \in Movers : MarkStateChange(m)
    BY <2>2, Chain DEF MarkStateChange, ControlInv, HashTypeOK
  <2>3. QED BY <2>1, <2>2 DEF Move, ModifyTag, AddChild, DetachFromParent, BeginRetire, Transition
<1> SUFFICES ASSUME ~overlapped PROVE DigestOK' BY <1>0 DEF DigestInv
<1>2. DigestOK BY DEF DigestInv
<1>3. ASSUME NEW q \in Pullers, NEW i \in DOMAIN stack[q] PROVE \A x : x = stack[q][i] => DigestFrame(x)'
  <2>1. DigestFrame(stack[q][i]) BY <1>2 DEF DigestOK
  <2>2. CASE hash_epoch_'[Top] = hash_epoch_[Top] BY <1>0, <2>1, <2>2, FrameKept DEF TopKept
  <2>3. CASE hash_epoch_'[Top] = hash_epoch_[Top] + 1 BY <1>0, <2>1, <2>3, FrameCountedUp
  <2>4. QED BY <1>1, <2>2, <2>3
<1>4. ASSUME NEW q \in Pullers, NEW i \in DOMAIN stack'[q] PROVE DigestFrame(stack[q][i])'
  <2>1. PICK x : x = stack[q][i] OBVIOUS
  <2>2. DigestFrame(x)' BY <1>0, <1>3, <2>1
  <2>3. QED BY <1>0, <2>1, <2>2 DEF DigestFrame, TopBusy, Busy
<1>5. QED BY <1>0, <1>2, <1>4 DEF DigestOK, TopAt, TopBusy, Busy

LEMMA DigestNext ==
  ASSUME ControlInv, DigestInv, [Next]_vars
  PROVE  DigestInv'
<1>1. CASE (\E m \in Movers : Move(m)) \/ BeginRetire BY <1>1, DigestMove
<1>2. ASSUME NEW p \in Pullers, Pull(p) \/ Recomputation(p) PROVE DigestInv'
  BY <1>2, DigestPull, DigestLoadEpoch, DigestReads, DigestCopies, DigestStampDigest,
     DigestStampCached, DigestAnswered, DigestAuditMarks
  DEF Recomputation
<1>3. CASE UNCHANGED vars
  BY <1>3 DEF vars, stateVars, cacheVars, pullVars, DigestInv, DigestOK, DigestFrame, TopAt, TopBusy, Busy
<1>4. QED BY <1>1, <1>2, <1>3 DEF Next

LEMMA DigestInit == Init => DigestInv
<1>1. ASSUME Init PROVE DigestOK
  <2>1. \A p \in Pullers : DOMAIN stack[p] = {} BY <1>1 DEF Init
  <2>2. hash_digest_[1] = hash_cached_[Top] /\ hash_digest_[2] = hash_cached_[Top]
    BY <1>1, Chain DEF Init
  <2>3. QED BY <2>1, <2>2 DEF DigestOK
<1>2. QED BY <1>1 DEF DigestInv

\* The two halves getDigest answers with were stored by one stamp: as long as
\* no two recomputes of the top have been under way together, a call that has
\* found the epoch unmoved at the end has copied what the cache holds.
THEOREM DigestIsOneStamps == Spec => DigestNotTorn
<1>1. Init => ControlInv /\ DigestInv BY ControlInit, DigestInit
<1>2. ControlInv /\ DigestInv /\ [Next]_vars => (ControlInv /\ DigestInv)'
  BY ControlNext, DigestNext
<1>3. ASSUME ControlInv, DigestInv, [Next]_vars,
             ~overlapped, NEW p \in Pullers, At(p, {"again", "again2"}), stack'[p] = << >>
      PROVE  Head(stack[p]).was[1] = Head(stack[p]).was[2]
  <2>1. stack[p] # << >> BY <1>3 DEF At
  <2>2. PICK f \in Frames : f = stack[p][1] /\ Head(stack[p]) = f /\ Local(f) /\ 1 \in DOMAIN stack[p]
    BY <1>3, <2>1, InnermostAt
  <2>3. f.pc \in {"again", "again2"} BY <1>3, <2>2 DEF At
  <2>4. DigestFrame(f) BY <1>3, <2>2 DEF DigestInv, DigestOK
  <2>5. ~(stack' = stack) BY <1>3, <2>1
  <2>6. PICK q \in Pullers : Pull(q) \/ Recomputation(q)
    <3>1. ~((\E m \in Movers : Move(m)) \/ BeginRetire \/ UNCHANGED vars)
      BY <2>5 DEF Move, ModifyTag, AddChild, DetachFromParent, MarkStateChange, BeginRetire, Transition,
                  pullVars, vars
    <3>2. QED BY <1>3, <3>1 DEF Next
  <2>7. \E s : stack' = [stack EXCEPT ![q] = s]
    BY <2>6 DEF Pull, Recomputation, LoadEpoch, LoadValid, LoadCached, AuditCurrent, AuditCached,
       ReadSurface, ReadChild, Compare, AuditMarks, StampDigest, StampCached, StampEpoch, CopyDigest,
       Recheck, Calls, Becomes, Answers
  <2>8. q = p BY <1>3, <2>1, <2>7 DEF ControlInv, HashTypeOK
  <2>9. Recheck(p)
    BY <2>1, <2>2, <2>3, <2>6, <2>8
    DEF At, Pull, Recomputation, LoadEpoch, LoadValid, LoadCached, AuditCurrent, AuditCached,
        ReadSurface, ReadChild, Compare, AuditMarks, StampDigest, StampCached, StampEpoch, CopyDigest
  <2>10. f.pc = "again2" /\ f.mode = "digest" /\ f.epoch = hash_epoch_[Top]
    <3>1. CASE \E x, g : Advances(p, x, g)
      <4>1. PICK x, g : Advances(p, x, g) BY <3>1
      <4>2. PICK r \in Seq(Frames) : stack'[p] = r /\ 1 \in DOMAIN r BY <1>3, <4>1, AdvancesStack
      <4>3. DOMAIN r = {} BY <1>3, <4>2
      <4>4. QED BY <4>2, <4>3
    <3>2. CASE stack[p][1].pc = "again2" /\ stack[p][1].mode = "digest" /\ stack[p][1].epoch = hash_epoch_[Top]
      BY <2>2, <3>2
    <3>3. QED BY <1>3, <2>9, <3>1, <3>2, RecheckDoes
  <2>11. f.was = <<hash_cached_[Top], hash_cached_[Top]>> BY <2>4, <2>10 DEF DigestFrame
  <2>12. PICK c : c = hash_cached_[Top] OBVIOUS
  <2>13. f.was = <<c, c>> BY <2>11, <2>12
  <2>14. f.was[1] = c /\ f.was[2] = c BY <2>13
  <2>15. QED BY <2>2, <2>14
<1>4. ControlInv /\ DigestInv /\ [Next]_vars =>
        [~overlapped => \A p \in Pullers :
            At(p, {"again", "again2"}) /\ stack'[p] = << >>
                => Head(stack[p]).was[1] = Head(stack[p]).was[2]]_vars
  BY <1>3
<1>5. QED BY <1>1, <1>2, <1>4, PTL DEF Spec, DigestNotTorn

-----------------------------------------------------------------------------
(* The caches: what a step of a puller has to show *)

LEMMA UnmarkedBelow ==
  ASSUME ControlInv, NEW n \in Nodes, NEW k \in Nodes, n <= k, ~Unmarked(n)
  PROVE  ~Unmarked(k)
<1>1. \A m \in Movers : mark[m] \in 0 .. Depth BY DEF ControlInv, HashTypeOK
<1>2. \A m \in Movers : ~(mark[m] >= k) BY <1>1, Chain DEF Unmarked
<1>3. QED BY <1>2 DEF Unmarked

\* Who is vouched for reads at a node that no transition is about to reach.
LEMMA VouchedUnmarked ==
  ASSUME ControlInv, NEW p \in Pullers, NEW i \in DOMAIN stack[p], Vouched(stack[p], i)
  PROVE  stack[p][i].node \in Nodes /\ ~Unmarked(stack[p][i].node)
<1>1. PICK j \in DOMAIN stack[p] :
        (i < j \/ i = j) /\ stack[p][j].mode # "digest" /\ Clean(stack[p][j])
  BY DEF Vouched
<1>2. stack[p][j].node \in Nodes /\ stack[p][i].node \in Nodes BY FrameAt DEF Frames
<1>3. stack[p][j].node <= stack[p][i].node
  <2>1. CASE i = j BY <1>2, <2>1, Chain
  <2>2. CASE i < j BY <1>1, <1>2, <2>2, CallsApart, Chain
  <2>3. QED BY <1>1, <2>1, <2>2
<1>4. ~Unmarked(stack[p][j].node) BY <1>1 DEF Clean
<1>5. QED BY <1>2, <1>3, <1>4, UnmarkedBelow

\* The tree and its marks stay as they are.
TreeKept == UNCHANGED <<surface, leaf, hash_epoch_, mark>>

LEMMA TreeFacts ==
  ASSUME TreeKept
  PROVE  /\ Bottom' = Bottom
         /\ \A n : Hash(n)' = Hash(n) /\ (Unmarked(n)' <=> Unmarked(n))
         /\ \A f : Clean(f)' <=> Clean(f)
         /\ \A s, i : Vouched(s, i)' <=> Vouched(s, i)
BY DEF TreeKept, Bottom, Hash, Unmarked, Clean, Vouched

LEMMA PullStep ==
  ASSUME ControlInv, ControlInv', CacheOK, TreeKept,
         NEW p \in Pullers, NEW r, stack'[p] = r, \A q \in Pullers : q # p => stack'[q] = stack[q],
         \* who is busy was before, or begins from the present epoch,
         \A i \in DOMAIN r : Busy(r[i]) =>
            \/ \E k \in DOMAIN stack[p] :
                 Busy(stack[p][k]) /\ stack[p][k].node = r[i].node /\ stack[p][k].epoch = r[i].epoch
            \/ /\ r[i].epoch = hash_epoch_[r[i].node]
               /\ \A q \in Pullers : q # p => \A j \in DOMAIN stack[q] :
                    stack[q][j].node = r[i].node /\ Busy(stack[q][j]) => stack[q][j].epoch = r[i].epoch,
         \* a stamp is of the value that is cached,
         \A n \in Nodes : hash_valid_epoch_'[n] = hash_epoch_[n] =>
            \/ hash_valid_epoch_[n] = hash_epoch_[n]
            \/ AllCurrent(n) /\ (n <= Bottom /\ ~Unmarked(n) => hash_cached_'[n] = Hash(n)),
         \* a value is stored by a recompute, the hash if it is clean,
         \A n \in Nodes : \/ hash_cached_'[n] = hash_cached_[n]
                          \/ \E k \in DOMAIN stack[p] :
                               /\ stack[p][k].node = n /\ Busy(stack[p][k])
                               /\ Clean(stack[p][k]) => hash_cached_'[n] = Hash(n),
         \* and the calls of p are as they have to be
         \A i \in DOMAIN r : Recomputed(r[i])' /\ (Vouched(r, i) => Trusted(r[i])),
         r # << >> /\ r[Len(r)].mode = "audit" /\ ~moved'[p] =>
            ~Unmarked(Top) /\ (r[Len(r)].epoch # 0 => r[Len(r)].epoch = hash_epoch_[Top]),
         diverged'[p] => moved'[p],
         \A q \in Pullers : q # p => (moved'[q] <=> moved[q]) /\ (diverged'[q] <=> diverged[q])
  PROVE  CacheOK'
<1>1. /\ Bottom' = Bottom
      /\ \A n : Hash(n)' = Hash(n) /\ (Unmarked(n)' <=> Unmarked(n))
      /\ \A f : Clean(f)' <=> Clean(f)
      /\ \A s, i : Vouched(s, i)' <=> Vouched(s, i)
  BY TreeFacts
<1>2. hash_epoch_' = hash_epoch_ /\ surface' = surface BY DEF TreeKept
<1>3. OneEpoch'
  <2>1. ASSUME NEW q \in Pullers, q # p, NEW i \in DOMAIN r, NEW j \in DOMAIN stack[q],
               r[i].node = stack[q][j].node, Busy(r[i]), Busy(stack[q][j])
        PROVE  r[i].epoch = stack[q][j].epoch
    <3>1. CASE \E k \in DOMAIN stack[p] :
                 Busy(stack[p][k]) /\ stack[p][k].node = r[i].node /\ stack[p][k].epoch = r[i].epoch
      BY <2>1, <3>1 DEF CacheOK, OneEpoch
    <3>2. CASE \A x \in Pullers : x # p => \A y \in DOMAIN stack[x] :
                 stack[x][y].node = r[i].node /\ Busy(stack[x][y]) => stack[x][y].epoch = r[i].epoch
      BY <2>1, <3>2
    <3>3. QED BY <2>1, <3>1, <3>2
  <2>2. ASSUME NEW a \in Pullers, NEW b \in Pullers, a # b,
               NEW i \in DOMAIN stack'[a], NEW j \in DOMAIN stack'[b],
               stack'[a][i].node = stack'[b][j].node, Busy(stack'[a][i]), Busy(stack'[b][j])
        PROVE  stack'[a][i].epoch = stack'[b][j].epoch
    <3>1. CASE a = p BY <2>1, <2>2, <3>1
    <3>2. CASE b = p BY <2>1, <2>2, <3>2
    <3>3. CASE a # p /\ b # p BY <2>2, <3>3 DEF CacheOK, OneEpoch
    <3>4. QED BY <3>1, <3>2, <3>3
  <2>3. QED BY <2>2 DEF OneEpoch, Busy
<1>4. ASSUME NEW n, AllCurrent(n) PROVE AllCurrent(n)'
  <2>1. ASSUME NEW q \in Pullers, NEW i \in DOMAIN stack'[q], stack'[q][i].node = n, Busy(stack'[q][i])
        PROVE  stack'[q][i].epoch = hash_epoch_[n]
    <3>1. CASE q = p BY <1>4, <2>1, <3>1 DEF AllCurrent
    <3>2. CASE q # p BY <1>4, <2>1, <3>2 DEF AllCurrent
    <3>3. QED BY <3>1, <3>2
  <2>2. QED BY <1>2, <2>1 DEF AllCurrent, Busy
<1>5. CurrentInv' BY <1>2, <1>4 DEF CurrentInv, CacheOK
<1>6. ASSUME NEW n \in Nodes, AllCurrent(n), n <= Bottom, ~Unmarked(n), hash_cached_[n] = Hash(n)
      PROVE  hash_cached_'[n] = Hash(n)
  <2>1. CASE hash_cached_'[n] = hash_cached_[n] BY <1>6, <2>1
  <2>2. CASE \E k \in DOMAIN stack[p] :
               /\ stack[p][k].node = n /\ Busy(stack[p][k])
               /\ Clean(stack[p][k]) => hash_cached_'[n] = Hash(n)
    BY <1>6, <2>2 DEF AllCurrent, Clean, Busy
  <2>3. QED BY <2>1, <2>2
<1>7. BelievedInv'
  <2>1. ASSUME NEW n \in Top .. Bottom, hash_valid_epoch_'[n] = hash_epoch_[n], ~Unmarked(n)
        PROVE  hash_cached_'[n] = Hash(n)
    <3>1. n \in Nodes /\ n <= Bottom BY Chain
    <3>2. CASE hash_valid_epoch_[n] = hash_epoch_[n]
      BY <1>6, <2>1, <3>1, <3>2 DEF CacheOK, CurrentInv, BelievedInv
    <3>3. CASE hash_valid_epoch_[n] # hash_epoch_[n] BY <2>1, <3>1, <3>3
    <3>4. QED BY <3>2, <3>3
  <2>2. QED BY <1>1, <1>2, <2>1 DEF BelievedInv
<1>8. UnmovedInv'
  <2>1. ASSUME NEW q \in Pullers, Auditing(q)', ~moved'[q]
        PROVE  /\ ~Unmarked(Top)
               /\ stack'[q][Len(stack'[q])].epoch # 0 => stack'[q][Len(stack'[q])].epoch = hash_epoch_[Top]
    <3>1. CASE q = p BY <2>1, <3>1 DEF Auditing
    <3>2. CASE q # p BY <2>1, <3>2 DEF Auditing, CacheOK, UnmovedInv
    <3>3. QED BY <3>1, <3>2
  <2>2. QED BY <1>1, <1>2, <2>1 DEF UnmovedInv
<1>9. ASSUME NEW q \in Pullers, q # p, NEW i \in DOMAIN stack[q] PROVE Recomputed(stack[q][i])'
  <2>1. PICK f : f = stack[q][i] /\ stack'[q][i] = f BY <1>9
  <2>2. f \in Frames /\ Recomputed(f) BY <1>9, <2>1, FrameAt DEF CacheOK
  <2>3. ASSUME Busy(f), Clean(f), f.pc = "stamp" PROVE hash_cached_'[f.node] = Hash(f.node)
    <3>1. hash_cached_[f.node] = Hash(f.node) BY <2>2, <2>3 DEF Recomputed
    <3>2. CASE hash_cached_'[f.node] = hash_cached_[f.node] BY <3>1, <3>2
    <3>3. CASE hash_cached_'[f.node] # hash_cached_[f.node]
      <4>1. PICK k \in DOMAIN stack[p] :
              /\ stack[p][k].node = f.node /\ Busy(stack[p][k])
              /\ Clean(stack[p][k]) => hash_cached_'[f.node] = Hash(f.node)
        BY <2>2, <3>3 DEF Frames
      <4>2. stack[p][k].epoch = f.epoch BY <1>9, <2>1, <2>3, <4>1 DEF CacheOK, OneEpoch
      <4>3. Clean(stack[p][k]) BY <2>3, <4>1, <4>2 DEF Clean
      <4>4. QED BY <4>1, <4>3
    <3>4. QED BY <3>2, <3>3
  <2>4. Recomputed(f)' BY <1>1, <1>2, <2>2, <2>3 DEF Recomputed, Busy
  <2>5. QED BY <1>1, <2>1, <2>4 DEF Recomputed, Busy, Clean
<1>10. ASSUME NEW f \in Frames, Trusted(f), ~Unmarked(f.node) PROVE Trusted(f)'
  <2>1. f.node \in Nodes BY DEF Frames
  <2>2. f.pc \in {"hit", "was"} => hash_cached_'[f.node] = Hash(f.node) /\ AllCurrent(f.node)'
    BY <1>4, <1>6, <1>10, <2>1 DEF Trusted
  <2>3. QED BY <1>1, <1>2, <1>10, <2>2 DEF Trusted, AllCurrent
<1>11. ASSUME NEW q \in Pullers, NEW i \in DOMAIN stack'[q]
       PROVE  Recomputed(stack[q][i])' /\ (Vouched(stack[q], i)' => Trusted(stack[q][i])')
  <2>1. PICK f \in Frames : f = stack'[q][i]
    <3>1. stack'[q] \in Seq(Frames) BY DEF ControlInv, HashTypeOK
    <3>2. QED BY <3>1, ElementOfSeq, LenProperties
  <2>2. Recomputed(stack[q][i])'
    <3>1. CASE q # p BY <1>9, <1>11, <3>1
    <3>2. CASE q = p
      <4>1. Recomputed(f)' BY <1>11, <2>1, <3>2
      <4>2. QED BY <2>1, <4>1 DEF Recomputed, Busy, Clean
    <3>3. QED BY <3>1, <3>2
  <2>3. ASSUME Vouched(stack[q], i)' PROVE Trusted(stack[q][i])'
    <3>1. PICK t : t = stack'[q] OBVIOUS
    <3>2. Vouched(t, i)' BY <2>3, <3>1 DEF Vouched, Clean
    <3>3. Vouched(t, i) BY <1>1, <3>2
    <3>4. Trusted(f)
      <4>1. CASE q = p BY <1>11, <2>1, <3>1, <3>3, <4>1
      <4>2. CASE q # p BY <1>11, <2>1, <3>1, <3>3, <4>2 DEF CacheOK
      <4>3. QED BY <4>1, <4>2
    <3>5. ~Unmarked(f.node)
      <4>1. PICK j \in DOMAIN t : (i < j \/ i = j) /\ t[j].mode # "digest" /\ Clean(t[j])
        BY <3>3 DEF Vouched
      <4>2. t \in Seq(Frames) /\ WellFormed(t) BY <3>1 DEF ControlInv, HashTypeOK
      <4>3. t[j] \in Frames /\ t[i] = f BY <2>1, <3>1, <4>2, ElementOfSeq, LenProperties
      <4>4. PICK n \in Nodes, k \in Nodes : n = t[j].node /\ k = f.node BY <4>3 DEF Frames
      <4>5. n <= k
        <5>1. CASE i = j BY <4>3, <4>4, <5>1, Chain
        <5>2. CASE i < j
          <6>1. f.node = t[j].node + (j - i)
            BY <1>11, <3>1, <4>1, <4>2, <4>3, <5>2 DEF WellFormed, Shape
          <6>2. PICK a \in Int, b \in Int : a = i /\ b = j BY <1>11, <3>1, <4>2, LenProperties
          <6>3. QED BY <4>4, <5>2, <6>1, <6>2, Chain
        <5>3. QED BY <4>1, <5>1, <5>2
      <4>6. QED BY <4>1, <4>4, <4>5, UnmarkedBelow DEF Clean
    <3>6. Trusted(f)' BY <1>10, <3>4, <3>5
    <3>7. QED BY <2>1, <3>6 DEF Trusted, AllCurrent
  <2>4. QED BY <2>2, <2>3
<1>12. \A q \in Pullers : diverged'[q] => moved'[q] BY DEF CacheOK
<1>13. QED BY <1>3, <1>5, <1>7, <1>8, <1>11, <1>12 DEF CacheOK

LEMMA CacheAdvances ==
  ASSUME ControlInv, ControlInv', CacheInv, TreeKept, crossed' = crossed,
         hash_valid_epoch_' = hash_valid_epoch_, moved' = moved,
         NEW p \in Pullers, NEW f, NEW g, Advances(p, f, g), f.pc # "hit",
         ~crossed => Recomputed(g)' /\ (Vouched(stack[p], 1) => Trusted(g)),
         ~crossed => \A n \in Nodes :
            \/ hash_cached_'[n] = hash_cached_[n]
            \/ f.node = n /\ Busy(f) /\ (Clean(f) => hash_cached_'[n] = Hash(n)),
         ~crossed => (diverged'[p] => moved[p]),
         \A q \in Pullers : q # p => (diverged'[q] <=> diverged[q])
  PROVE  CacheInv'
<1> SUFFICES ASSUME ~crossed PROVE CacheOK' BY DEF CacheInv
<1>1. CacheOK BY DEF CacheInv
<1>2. PICK r \in Seq(Frames) :
        /\ stack'[p] = r /\ \A q \in Pullers : q # p => stack'[q] = stack[q]
        /\ Len(r) = Len(stack[p]) /\ DOMAIN r = DOMAIN stack[p] /\ 1 \in DOMAIN r
        /\ r[1] = g /\ \A i \in DOMAIN r : i # 1 => r[i] = stack[p][i]
  BY AdvancesStack
<1>3. PICK s \in Seq(Frames) : s = stack[p] /\ s # << >> /\ f = s[1] /\ Len(s) \in DOMAIN s
  <2>1. stack[p] \in Seq(Frames) /\ stack[p] # << >> /\ f = stack[p][1]
    BY InnermostAt DEF Advances
  <2>2. Len(stack[p]) \in DOMAIN stack[p] BY <2>1, LenProperties, EmptySeq
  <2>3. QED BY <2>1, <2>2
<1>4. \A i \in DOMAIN r : r[i].node = s[i].node /\ r[i].mode = s[i].mode /\ r[i].epoch = s[i].epoch
  BY <1>2, <1>3 DEF Advances
<1>5. ASSUME NEW i \in DOMAIN r, Busy(r[i])
      PROVE  Busy(s[i]) /\ s[i].node = r[i].node /\ s[i].epoch = r[i].epoch
  BY <1>2, <1>3, <1>4, <1>5 DEF Busy
<1>6. \A i \in DOMAIN r : Clean(r[i]) <=> Clean(s[i]) BY <1>4 DEF Clean
<1>7. \A i \in DOMAIN r : Vouched(r, i) => Vouched(s, i)
  BY <1>2, <1>3, <1>4, <1>6 DEF Vouched
<1>8. ASSUME NEW i \in DOMAIN r PROVE Recomputed(r[i])' /\ (Vouched(r, i) => Trusted(r[i]))
  <2>1. CASE i = 1 BY <1>2, <1>3, <1>7, <2>1
  <2>2. CASE i # 1
    <3>1. r[i] = s[i] /\ i \in DOMAIN s /\ Recomputed(s[i]) /\ (Vouched(s, i) => Trusted(s[i]))
      BY <1>1, <1>2, <1>3, <2>2 DEF CacheOK
    <3>2. s[i].mode = "digest" \/ s[i].pc = "child"
      <4>1. 1 \in DOMAIN s /\ 1 < i BY <1>2, <1>3, <2>2, LenProperties
      <4>2. QED BY <1>3, <3>1, <4>1, CallsApart
    <3>3. Recomputed(r[i])' BY <3>1, <3>2, TreeFacts DEF Recomputed, Busy, TreeKept
    <3>4. QED BY <1>7, <3>1, <3>3
  <2>3. QED BY <2>1, <2>2
<1>9. ASSUME r[Len(r)].mode = "audit", ~moved'[p]
      PROVE  ~Unmarked(Top) /\ (r[Len(r)].epoch # 0 => r[Len(r)].epoch = hash_epoch_[Top])
  <2>1. s[Len(s)].mode = "audit" /\ s[Len(s)].epoch = r[Len(r)].epoch
    BY <1>2, <1>3, <1>4, <1>9
  <2>2. Auditing(p) BY <1>3, <2>1 DEF Auditing
  <2>3. QED BY <1>1, <1>3, <1>9, <2>1, <2>2 DEF CacheOK, UnmovedInv
<1>10. \A n \in Nodes : \/ hash_cached_'[n] = hash_cached_[n]
                        \/ \E k \in DOMAIN stack[p] :
                             /\ stack[p][k].node = n /\ Busy(stack[p][k])
                             /\ Clean(stack[p][k]) => hash_cached_'[n] = Hash(n)
  BY <1>2, <1>3
<1>11. QED BY <1>1, <1>2, <1>3, <1>5, <1>8, <1>9, <1>10, PullStep

LEMMA CacheCalls ==
  ASSUME ControlInv, ControlInv', CacheInv, TreeKept, crossed' = crossed,
         hash_valid_epoch_' = hash_valid_epoch_, hash_cached_' = hash_cached_,
         moved' = moved, diverged' = diverged,
         NEW p \in Pullers, stack[p] # << >>, NEW g \in Frames, Calls(p, g),
         g.epoch = 0, g.was = << >>, g.pc \in {"epoch", "current"}, g.node <= Bottom
  PROVE  CacheInv'
<1> SUFFICES ASSUME ~crossed PROVE CacheOK' BY DEF CacheInv
<1>1. CacheOK BY DEF CacheInv
<1>2. PICK r \in Seq(Frames) :
        /\ stack'[p] = r /\ \A q \in Pullers : q # p => stack'[q] = stack[q]
        /\ Len(stack[p]) \in Nat \ {0} /\ DOMAIN stack[p] = 1 .. Len(stack[p])
        /\ Len(r) = Len(stack[p]) + 1 /\ DOMAIN r = 1 .. Len(stack[p]) + 1
        /\ r[1] = g /\ \A i \in DOMAIN r : i # 1 => i - 1 \in DOMAIN stack[p] /\ r[i] = stack[p][i - 1]
  BY CallsStack
<1>3. PICK s \in Seq(Frames) : s = stack[p] BY InnermostAt
<1>4. ~Busy(g) /\ ~Clean(g) /\ Trusted(g) BY DEF Busy, Clean, Trusted
<1>5. ASSUME NEW i \in DOMAIN r, Busy(r[i])
      PROVE  \E k \in DOMAIN s : Busy(s[k]) /\ s[k].node = r[i].node /\ s[k].epoch = r[i].epoch
  BY <1>2, <1>3, <1>4, <1>5
<1>6. ASSUME NEW i \in DOMAIN r, i # 1, Vouched(r, i) PROVE Vouched(s, i - 1)
  <2>1. PICK j \in DOMAIN r :
          (i < j \/ (i = j /\ r[i].node = Top)) /\ r[j].mode # "digest" /\ Clean(r[j])
    BY <1>6 DEF Vouched
  <2>2. j # 1 BY <1>2, <1>6, <2>1
  <2>3. PICK k \in DOMAIN s, l \in DOMAIN s : k = j - 1 /\ l = i - 1 /\ r[j] = s[k] /\ r[i] = s[l]
    BY <1>2, <1>3, <1>6, <2>2
  <2>4. l < k \/ (l = k /\ s[l].node = Top) BY <1>2, <2>1, <2>3
  <2>5. QED BY <2>1, <2>3, <2>4 DEF Vouched
<1>7. ASSUME NEW i \in DOMAIN r PROVE Recomputed(r[i])' /\ (Vouched(r, i) => Trusted(r[i]))
  <2>1. CASE i = 1 BY <1>2, <1>4, <2>1 DEF Recomputed, Busy
  <2>2. CASE i # 1
    <3>1. PICK l \in DOMAIN s : l = i - 1 /\ r[i] = s[l] BY <1>2, <1>3, <2>2
    <3>2. Recomputed(s[l]) /\ (Vouched(s, l) => Trusted(s[l])) BY <1>1, <1>3, <3>1 DEF CacheOK
    <3>3. Recomputed(r[i])' BY <3>1, <3>2, TreeFacts DEF Recomputed, Busy, TreeKept
    <3>4. QED BY <1>6, <2>2, <3>1, <3>2, <3>3
  <2>3. QED BY <2>1, <2>2
<1>8. ASSUME r[Len(r)].mode = "audit", ~moved'[p]
      PROVE  ~Unmarked(Top) /\ (r[Len(r)].epoch # 0 => r[Len(r)].epoch = hash_epoch_[Top])
  <2>1. r[Len(r)] = s[Len(s)] BY <1>2, <1>3
  <2>2. Auditing(p) BY <1>3, <1>8, <2>1 DEF Auditing
  <2>3. QED BY <1>1, <1>3, <1>8, <2>1, <2>2 DEF CacheOK, UnmovedInv
<1>9. diverged'[p] => moved'[p] BY <1>1 DEF CacheOK
<1>10. \A q \in Pullers : (moved'[q] <=> moved[q]) /\ (diverged'[q] <=> diverged[q]) OBVIOUS
<1>11. \A i \in DOMAIN r : Busy(r[i]) =>
         \E k \in DOMAIN stack[p] :
           Busy(stack[p][k]) /\ stack[p][k].node = r[i].node /\ stack[p][k].epoch = r[i].epoch
  BY <1>3, <1>5
<1>12. \A n \in Nodes : /\ hash_valid_epoch_'[n] = hash_epoch_[n] => hash_valid_epoch_[n] = hash_epoch_[n]
                        /\ hash_cached_'[n] = hash_cached_[n]
  OBVIOUS
<1>13. stack'[p] = r /\ \A q \in Pullers : q # p => stack'[q] = stack[q] BY <1>2
<1>14. QED BY <1>1, <1>7, <1>8, <1>9, <1>10, <1>11, <1>12, <1>13, PullStep

\* The caller of who is vouched for is vouched for, too.
LEMMA CacheAnswers ==
  ASSUME ControlInv, ControlInv', CacheInv, TreeKept, crossed' = crossed,
         hash_cached_' = hash_cached_, moved' = moved, diverged' = diverged,
         NEW p \in Pullers, stack[p] # << >>, NEW v, Answers(p, v),
         Answerable(p, v),
         ~crossed => \A n \in Nodes : hash_valid_epoch_'[n] = hash_epoch_[n] =>
            \/ hash_valid_epoch_[n] = hash_epoch_[n]
            \/ AllCurrent(n) /\ (n <= Bottom /\ ~Unmarked(n) => hash_cached_[n] = Hash(n)),
         ~crossed /\ Len(stack[p]) > 1 /\ Vouched(stack[p], 1) => v = Hash(stack[p][1].node)
  PROVE  CacheInv'
<1> SUFFICES ASSUME ~crossed PROVE CacheOK' BY DEF CacheInv
<1>1. CacheOK BY DEF CacheInv
<1>2. PICK r \in Seq(Frames) :
        /\ stack' = [stack EXCEPT ![p] = r] /\ stack'[p] = r
        /\ \A q \in Pullers : q # p => stack'[q] = stack[q]
        /\ Len(stack[p]) \in Nat \ {0} /\ DOMAIN stack[p] = 1 .. Len(stack[p])
        /\ Len(r) = Len(stack[p]) - 1 /\ DOMAIN r = 1 .. Len(stack[p]) - 1
        /\ \A i \in DOMAIN r :
             /\ i + 1 \in DOMAIN stack[p]
             /\ r[i] = IF i = 1 THEN Resumed(stack[p][2], v) ELSE stack[p][i + 1]
  BY AnswersStack
<1>3. PICK s \in Seq(Frames) : s = stack[p] /\ WellFormed(s) /\ 1 \in DOMAIN s BY InnermostAt
<1>4. ASSUME NEW i \in DOMAIN r
      PROVE  /\ i + 1 \in DOMAIN s
             /\ r[i].node = s[i + 1].node /\ r[i].mode = s[i + 1].mode /\ r[i].epoch = s[i + 1].epoch
             /\ r[i].was = s[i + 1].was
             /\ r[i] = s[i + 1] \/ (i = 1 /\ r[i] = Resumed(s[2], v))
  <2>0. i + 1 \in DOMAIN s BY <1>2, <1>3
  <2>1. CASE i = 1
    <3>1. PICK n \in Nat : n = Len(s) /\ DOMAIN s = 1 .. n BY <1>2, <1>3
    <3>2. n > 1 BY <2>0, <2>1, <3>1
    <3>3. v \in Seq(Nat)
      <4>1. n # 1 BY <3>2
      <4>2. QED BY <1>3, <3>1, <4>1, Zenon DEF Answerable
    <3>4. r[i] = Resumed(s[2], v) BY <1>2, <1>3, <2>1
    <3>5. i + 1 = 2 BY <2>1
    <3>6. Len(s) > 1 BY <3>1, <3>2
    <3>7. QED BY <1>3, <2>0, <2>1, <3>3, <3>4, <3>5, <3>6, ResumedOK
  <2>2. CASE i # 1 BY <1>2, <1>3, <2>0, <2>2
  <2>3. QED BY <2>1, <2>2
<1>5. ASSUME NEW i \in DOMAIN r, i = 1
      PROVE  \/ r[i].mode = "digest" /\ r[i].pc = "epoch"
             \/ /\ s[2].mode # "digest" /\ s[2].pc = "child"
                /\ r[i].mode # "digest" /\ r[i].pc = "compare" /\ r[i].val = s[2].val \o v
  <2>0. i + 1 = 2 BY <1>5
  <2>1. 2 \in DOMAIN s /\ r[i] = Resumed(s[2], v) BY <1>2, <1>3, <1>5, <2>0
  <2>2. PICK c \in Frames : c = s[2] BY <1>3, <2>1, FrameAt
  <2>3. CASE c.mode = "digest" BY <2>1, <2>2, <2>3 DEF Resumed, Frames
  <2>4. CASE c.mode # "digest"
    <3>1. c.pc = "child"
      <4>1. 1 \in DOMAIN s /\ 1 < 2 BY <1>3
      <4>2. QED BY <1>3, <2>1, <2>2, <2>4, <4>1, CallsApart
    <3>2. QED BY <2>1, <2>2, <2>4, <3>1 DEF Resumed, Frames
  <2>5. QED BY <2>3, <2>4
<1>6. ASSUME NEW i \in DOMAIN r, Busy(r[i])
      PROVE  \E k \in DOMAIN s : Busy(s[k]) /\ s[k].node = r[i].node /\ s[k].epoch = r[i].epoch
  <2>1. CASE i = 1
    <3>0. i + 1 = 2 BY <2>1
    <3>1. 2 \in DOMAIN s /\ r[i].node = s[2].node /\ r[i].epoch = s[2].epoch /\ r[i].mode = s[2].mode
      BY <1>4, <2>1, <3>0
    <3>2. Busy(s[2]) BY <1>5, <1>6, <2>1, <3>1 DEF Busy
    <3>3. QED BY <3>1, <3>2
  <2>2. CASE i # 1
    <3>1. i + 1 \in DOMAIN s /\ r[i] = s[i + 1] BY <1>4, <2>2
    <3>2. QED BY <1>6, <3>1
  <2>3. QED BY <2>1, <2>2
<1>7. \A i \in DOMAIN r : Clean(r[i]) <=> Clean(s[i + 1]) BY <1>4 DEF Clean
<1>8. ASSUME NEW i \in DOMAIN r, Vouched(r, i) PROVE Vouched(s, i + 1) /\ Vouched(s, 1)
  <2>1. PICK j \in DOMAIN r :
          (i < j \/ (i = j /\ r[i].node = Top)) /\ r[j].mode # "digest" /\ Clean(r[j])
    BY <1>8 DEF Vouched
  <2>2. PICK k \in DOMAIN s, l \in DOMAIN s : k = j + 1 /\ l = i + 1 BY <1>4
  <2>3. s[k].mode # "digest" /\ Clean(s[k]) /\ s[l].node = r[i].node BY <1>4, <1>7, <2>1, <2>2
  <2>4. (l < k \/ (l = k /\ s[l].node = Top)) /\ 1 < k BY <1>2, <2>1, <2>2, <2>3
  <2>5. QED BY <1>3, <2>2, <2>3, <2>4 DEF Vouched
<1>9. ASSUME NEW i \in DOMAIN r PROVE Recomputed(r[i])' /\ (Vouched(r, i) => Trusted(r[i]))
  <2>1. PICK l \in DOMAIN s : l = i + 1 BY <1>4
  <2>2. Recomputed(s[l]) /\ (Vouched(s, l) => Trusted(s[l])) BY <1>1, <1>3, <2>1 DEF CacheOK
  <2>3. CASE r[i] = s[l]
    <3>1. Recomputed(r[i])' BY <2>2, <2>3, TreeFacts DEF Recomputed, Busy, TreeKept
    <3>2. QED BY <1>8, <2>1, <2>2, <2>3, <3>1
  <2>4. CASE r[i] # s[l]
    <3>1. i = 1 /\ l = 2 BY <1>4, <2>1, <2>4
    <3>2. Vouched(r, i) => Trusted(r[i])
      <4>1. ASSUME Vouched(r, i) PROVE Trusted(r[i])
        <5>1. Trusted(s[l]) BY <1>8, <2>1, <2>2, <4>1
        <5>2. r[i].pc \in {"epoch", "compare"} BY <1>5, <3>1
        <5>3. QED BY <1>4, <2>1, <5>1, <5>2 DEF Trusted
      <4>2. QED BY <4>1
    <3>3. CASE r[i].mode = "digest" BY <3>2, <3>3 DEF Recomputed, Busy
    <3>4. CASE r[i].mode # "digest"
      <4>1. s[2].mode # "digest" /\ s[2].pc = "child" /\ r[i].pc = "compare" /\ r[i].val = s[2].val \o v
        BY <1>5, <3>1, <3>4
      <4>2. ASSUME Busy(r[i]), Clean(r[i]) PROVE r[i].val = Hash(r[i].node)
        <5>1. Clean(s[2]) /\ r[i].node = s[2].node /\ r[i].epoch = s[2].epoch
          BY <1>4, <1>7, <2>1, <3>1, <4>2
        <5>2. Busy(s[2]) BY <4>1, <4>2, <5>1 DEF Busy
        <5>3. s[2].val = <<surface[s[2].node]>> BY <2>1, <2>2, <3>1, <4>1, <5>1, <5>2 DEF Recomputed
        <5>4. 2 \in DOMAIN s /\ 1 < 2 BY <2>1, <3>1
        <5>5. Vouched(s, 1) BY <4>1, <5>1, <5>4 DEF Vouched
        <5>6. v = Hash(s[1].node) /\ Trusted(s[1]) BY <1>1, <1>2, <1>3, <2>1, <3>1, <5>5 DEF CacheOK
        <5>7. PICK n \in Nodes : n = s[2].node BY <1>3, <5>4, FrameAt DEF Frames
        <5>8. s[1].node = n + 1
          <6>1. s[1].node = s[2].node + (2 - 1) BY <1>3, <4>1, <5>4 DEF WellFormed, Shape
          <6>2. QED BY <5>7, <6>1
        <5>9. n < Bottom BY <5>6, <5>8, Chain DEF Trusted
        <5>10. Hash(n) = <<surface[n]>> \o Hash(n + 1) BY <5>9, HashOfChild DEF ControlInv
        <5>11. QED BY <4>1, <5>1, <5>3, <5>6, <5>7, <5>8, <5>10
      <4>3. Recomputed(r[i])' BY <4>1, <4>2, TreeFacts DEF Recomputed, Busy
      <4>4. QED BY <3>2, <4>3
    <3>5. QED BY <3>3, <3>4
  <2>5. QED BY <2>3, <2>4
<1>10. ASSUME r # << >>, r[Len(r)].mode = "audit", ~moved'[p]
       PROVE  ~Unmarked(Top) /\ (r[Len(r)].epoch # 0 => r[Len(r)].epoch = hash_epoch_[Top])
  <2>1. PICK n \in DOMAIN r : n = Len(r) BY <1>10, EmptySeq, LenProperties
  <2>2. n + 1 = Len(s) /\ n + 1 \in DOMAIN s BY <1>2, <1>3, <2>1
  <2>3. r[n].mode = s[Len(s)].mode /\ r[n].epoch = s[Len(s)].epoch BY <1>4, <2>1, <2>2
  <2>4. Auditing(p) BY <1>3, <1>10, <2>1, <2>3 DEF Auditing
  <2>5. QED BY <1>1, <1>3, <1>10, <2>1, <2>3, <2>4 DEF CacheOK, UnmovedInv
<1>11. diverged'[p] => moved'[p] BY <1>1 DEF CacheOK
<1>12. \A q \in Pullers : (moved'[q] <=> moved[q]) /\ (diverged'[q] <=> diverged[q]) OBVIOUS
<1>13. \A i \in DOMAIN r : Busy(r[i]) =>
         \E k \in DOMAIN stack[p] :
           Busy(stack[p][k]) /\ stack[p][k].node = r[i].node /\ stack[p][k].epoch = r[i].epoch
  BY <1>3, <1>6
<1>14. \A n \in Nodes : hash_cached_'[n] = hash_cached_[n] OBVIOUS
<1>15. \A n \in Nodes : hash_valid_epoch_'[n] = hash_epoch_[n] =>
         \/ hash_valid_epoch_[n] = hash_epoch_[n]
         \/ AllCurrent(n) /\ (n <= Bottom /\ ~Unmarked(n) => hash_cached_'[n] = Hash(n))
  BY <1>14
<1>16. stack'[p] = r /\ \A q \in Pullers : q # p => stack'[q] = stack[q] BY <1>2
<1>17. QED BY <1>1, <1>9, <1>10, <1>11, <1>12, <1>13, <1>14, <1>15, <1>16, PullStep

-----------------------------------------------------------------------------
(* The caches, step by step *)

LEMMA CachePull ==
  ASSUME ControlInv, ControlInv', CacheInv, NEW p \in Pullers, Pull(p)
  PROVE  CacheInv'
<1>0. TreeKept /\ crossed' = crossed
      /\ hash_valid_epoch_' = hash_valid_epoch_ /\ hash_cached_' = hash_cached_
  BY DEF Pull, TreeKept, stateVars, cacheVars
<1> SUFFICES ASSUME ~crossed PROVE CacheOK' BY <1>0 DEF CacheInv
<1>1. CacheOK BY DEF CacheInv
<1>2. PICK mode \in Asks[p], n \in Top .. Depth - 1 :
        /\ Calls(p, Frame(n, mode, "epoch"))
        /\ moved' = [moved EXCEPT ![p] = mode = "audit" /\ Unmarked(Top)]
  BY DEF Pull
<1>3. PICK g : g = Frame(n, mode, "epoch") OBVIOUS
<1>4. PICK r : r = <<g>> \o << >> OBVIOUS
<1>5. Len(r) = 1 /\ DOMAIN r = {1} /\ r[1] = g
  <2>1. g \in {g} /\ << >> \in Seq({g}) OBVIOUS
  <2>2. Len(r) = 1 /\ DOMAIN r = 1 .. 1 /\ r[1] = g BY <1>4, <2>1, CallsAt, EmptySeq
  <2>3. QED BY <2>2
<1>6. stack[p] = << >> BY DEF Pull
<1>7. stack'[p] = r /\ \A q \in Pullers : q # p => stack'[q] = stack[q]
  BY <1>2, <1>3, <1>4, <1>6 DEF Calls, ControlInv, HashTypeOK
<1>8. n <= Bottom BY Chain
<1>9. /\ ~Busy(g) /\ Recomputed(g)' /\ Trusted(g) /\ g.epoch = 0 /\ g.mode = mode
  BY <1>3, <1>8 DEF Frame, Busy, Recomputed, Trusted
<1>10. \A i \in DOMAIN r : ~Busy(r[i]) /\ Recomputed(r[i])' /\ Trusted(r[i]) BY <1>5, <1>9
<1>11. moved \in [Pullers -> BOOLEAN] /\ diverged \in [Pullers -> BOOLEAN] BY DEF ControlInv, HashTypeOK
<1>12. moved'[p] <=> mode = "audit" /\ Unmarked(Top)
  <2>1. PICK x : x = (mode = "audit" /\ Unmarked(Top)) OBVIOUS
  <2>2. moved' = [moved EXCEPT ![p] = x] BY <1>2, <2>1, Zenon
  <2>3. moved'[p] = x BY <1>11, <2>2
  <2>4. QED BY <2>1, <2>3, Zenon
<1>13. ~diverged'[p] BY <1>11, Zenon DEF Pull
<1>14. \A q \in Pullers : q # p => (moved'[q] <=> moved[q]) /\ (diverged'[q] <=> diverged[q])
  BY <1>2, <1>11, Zenon DEF Pull
<1>15. ASSUME r[Len(r)].mode = "audit", ~moved'[p]
       PROVE  ~Unmarked(Top) /\ (r[Len(r)].epoch # 0 => r[Len(r)].epoch = hash_epoch_[Top])
  BY <1>5, <1>9, <1>12, <1>15
<1>16. \A k \in Nodes : /\ hash_valid_epoch_'[k] = hash_epoch_[k] => hash_valid_epoch_[k] = hash_epoch_[k]
                        /\ hash_cached_'[k] = hash_cached_[k]
  BY <1>0
<1>17. QED BY <1>0, <1>1, <1>7, <1>10, <1>13, <1>14, <1>15, <1>16, PullStep

LEMMA CacheLoadEpoch ==
  ASSUME ControlInv, ControlInv', CacheInv, NEW p \in Pullers, LoadEpoch(p)
  PROVE  CacheInv'
<1> SUFFICES ASSUME ~crossed' PROVE CacheOK' BY DEF CacheInv
<1>1. stack[p] # << >> BY DEF LoadEpoch, At
<1>2. PICK f \in Frames : f = stack[p][1] /\ Head(stack[p]) = f /\ Local(f) BY <1>1, InnermostAt
<1>3. f.pc = "epoch" BY <1>2 DEF LoadEpoch, At
<1>4. PICK e \in Nat \ {0} : e = hash_epoch_[f.node] BY DEF Frames, ControlInv, HashTypeOK
<1>5. PICK next : next = IF f.mode # "audit" THEN "valid" ELSE IF f.node = Top THEN "current" ELSE "surface"
  OBVIOUS
<1>6. PICK g : g = [f EXCEPT !.epoch = e, !.pc = next] OBVIOUS
<1>7. /\ g \in Frames /\ g.node = f.node /\ g.mode = f.mode /\ g.epoch = e /\ g.pc = next
      /\ g.was = f.was
  BY <1>5, <1>6 DEF Frames, Points
<1>8. Becomes(p, g) BY <1>2, <1>4, <1>5, <1>6 DEF LoadEpoch
<1>9. PICK s \in Seq(Frames) : s = stack[p] /\ WellFormed(s) /\ s # << >> /\ 1 \in DOMAIN s
  BY <1>1, InnermostAt
<1>10. PICK r : r = <<g>> \o Tail(s) OBVIOUS
<1>11. /\ Len(r) = Len(s) /\ DOMAIN r = DOMAIN s /\ r[1] = g /\ \A i \in DOMAIN s : i # 1 => r[i] = s[i]
  <2>1. s # << >> /\ g \in Frames BY <1>7, <1>9
  <2>2. QED BY ONLY <1>10, <2>1, BecomesAt, s \in Seq(Frames)
<1>12. stack'[p] = r /\ \A q \in Pullers : q # p => stack'[q] = stack[q]
  BY <1>8, <1>9, <1>10 DEF Becomes, ControlInv, HashTypeOK
<1>13. ~crossed
       /\ (f.mode # "digest" => \A q \in Pullers : q # p => \A j \in DOMAIN stack[q] :
              stack[q][j].node = f.node /\ Busy(stack[q][j]) => stack[q][j].epoch = e)
  BY <1>2, <1>4 DEF LoadEpoch, UnderWay, Busy
<1>14. CacheOK BY <1>13 DEF CacheInv
<1>15. TreeKept /\ hash_valid_epoch_' = hash_valid_epoch_ /\ hash_cached_' = hash_cached_
       /\ moved' = moved /\ diverged' = diverged
  BY DEF LoadEpoch, TreeKept, stateVars, cacheVars
<1>16. ASSUME NEW i \in DOMAIN r, Busy(r[i])
       PROVE  \/ \E k \in DOMAIN stack[p] :
                   Busy(stack[p][k]) /\ stack[p][k].node = r[i].node /\ stack[p][k].epoch = r[i].epoch
              \/ /\ r[i].epoch = hash_epoch_[r[i].node]
                 /\ \A q \in Pullers : q # p => \A j \in DOMAIN stack[q] :
                      stack[q][j].node = r[i].node /\ Busy(stack[q][j]) => stack[q][j].epoch = r[i].epoch
  <2>1. CASE i = 1
    <3>1. Busy(g) /\ r[i] = g BY <1>11, <1>16, <2>1
    <3>2. f.mode # "digest" BY <1>7, <3>1 DEF Busy
    <3>3. QED BY <1>4, <1>7, <1>13, <3>1, <3>2
  <2>2. CASE i # 1 BY <1>9, <1>11, <1>16, <2>2
  <2>3. QED BY <2>1, <2>2
<1>17. \A i, j \in DOMAIN r : i < j => j # 1 BY <1>9, <1>11, LenProperties
<1>18. \A i \in DOMAIN r : i # 1 /\ Vouched(r, i) => Vouched(s, i)
  BY <1>11, <1>17 DEF Vouched
<1>19. ASSUME Vouched(r, 1) PROVE Trusted(g)
  <2>1. PICK j \in DOMAIN r :
          (1 < j \/ (1 = j /\ r[1].node = Top)) /\ r[j].mode # "digest" /\ Clean(r[j])
    BY <1>19 DEF Vouched
  <2>2. CASE j = 1
    <3>1. g.node = Top /\ Clean(g) BY <1>11, <2>1, <2>2
    <3>2. g.mode = "audit" => g.was = << >> BY <1>2, <1>3, <1>7, <3>1 DEF Local
    <3>3. QED BY <1>4, <1>5, <1>7, <3>1, <3>2 DEF Trusted, Clean
  <2>3. CASE j # 1
    <3>1. 1 < j /\ r[j] = s[j] /\ j \in DOMAIN s BY <1>11, <2>1, <2>3
    <3>2. Vouched(s, 1) BY <1>9, <2>1, <3>1 DEF Vouched
    <3>3. Trusted(f) BY <1>2, <1>9, <1>14, <3>2 DEF CacheOK
    <3>4. QED BY <1>4, <1>5, <1>7, <3>3 DEF Trusted
  <2>4. QED BY <2>2, <2>3
<1>20. ASSUME NEW i \in DOMAIN r PROVE Recomputed(r[i])' /\ (Vouched(r, i) => Trusted(r[i]))
  <2>1. CASE i = 1
    <3>1. Recomputed(g)' BY <1>5, <1>7 DEF Recomputed
    <3>2. r[i] = g BY <1>11, <2>1
    <3>3. Recomputed(r[i])' BY <3>1, <3>2 DEF Recomputed, Busy, Clean
    <3>4. QED BY <1>19, <2>1, <3>2, <3>3
  <2>2. CASE i # 1
    <3>1. r[i] = s[i] /\ i \in DOMAIN s /\ Recomputed(s[i]) /\ (Vouched(s, i) => Trusted(s[i]))
      BY <1>9, <1>11, <1>14, <2>2 DEF CacheOK
    <3>2. Recomputed(r[i])' BY <1>15, <3>1, TreeFacts DEF Recomputed, Busy, TreeKept
    <3>3. QED BY <1>18, <2>2, <3>1, <3>2
  <2>3. QED BY <2>1, <2>2
<1>21. ASSUME r[Len(r)].mode = "audit", ~moved'[p]
       PROVE  ~Unmarked(Top) /\ (r[Len(r)].epoch # 0 => r[Len(r)].epoch = hash_epoch_[Top])
  <2>1. PICK n \in DOMAIN s : n = Len(s) /\ n = Len(r) BY <1>9, <1>11, EmptySeq, LenProperties
  <2>2. s[n].mode = "audit"
    <3>1. CASE n = 1 BY <1>2, <1>7, <1>9, <1>11, <1>21, <2>1, <3>1
    <3>2. CASE n # 1 BY <1>11, <1>21, <2>1, <3>2
    <3>3. QED BY <3>1, <3>2
  <2>3. s[n].node = Top BY <1>9, <2>1, <2>2 DEF WellFormed, Shape
  <2>4. Auditing(p) BY <1>9, <2>1, <2>2 DEF Auditing
  <2>5. ~Unmarked(Top) /\ (s[n].epoch # 0 => s[n].epoch = hash_epoch_[Top])
    BY <1>9, <1>14, <1>15, <1>21, <2>1, <2>4 DEF CacheOK, UnmovedInv
  <2>6. CASE n = 1 BY <1>2, <1>4, <1>7, <1>9, <1>11, <2>1, <2>3, <2>5, <2>6
  <2>7. CASE n # 1 BY <1>11, <2>1, <2>5, <2>7
  <2>8. QED BY <2>6, <2>7
<1>22. diverged'[p] => moved'[p] BY <1>14, <1>15 DEF CacheOK
<1>23. \A q \in Pullers : (moved'[q] <=> moved[q]) /\ (diverged'[q] <=> diverged[q]) BY <1>15
<1>24. \A k \in Nodes : /\ hash_valid_epoch_'[k] = hash_epoch_[k] => hash_valid_epoch_[k] = hash_epoch_[k]
                        /\ hash_cached_'[k] = hash_cached_[k]
  BY <1>15
<1>25. QED BY <1>12, <1>14, <1>15, <1>16, <1>20, <1>21, <1>22, <1>23, <1>24, PullStep

\* What the innermost call may believe.
LEMMA Innermost ==
  ASSUME ControlInv, CacheOK, NEW p \in Pullers, NEW f, NEW g, Advances(p, f, g)
  PROVE  /\ f.node \in Nodes /\ Recomputed(f)
         /\ Vouched(stack[p], 1) => Trusted(f) /\ ~Unmarked(f.node) /\ f.node \in Top .. Bottom
         /\ Vouched(stack[p], 1) /\ Busy(f) => Clean(f)
<1>1. 1 \in DOMAIN stack[p] /\ f = stack[p][1] /\ f \in Frames BY InnermostAt DEF Advances
<1>2. f.node \in Nodes BY <1>1 DEF Frames
<1>3. Recomputed(f) BY <1>1 DEF CacheOK
<1>4. ASSUME Vouched(stack[p], 1) PROVE Trusted(f) /\ ~Unmarked(f.node) /\ f.node \in Top .. Bottom
  <2>1. Trusted(f) /\ ~Unmarked(f.node) BY <1>1, <1>4, VouchedUnmarked DEF CacheOK
  <2>2. f.node <= Bottom BY <2>1 DEF Trusted
  <2>3. QED BY <1>2, <2>1, <2>2, Chain
<1>5. ASSUME Vouched(stack[p], 1), Busy(f) PROVE Clean(f)
  BY <1>4, <1>5 DEF Trusted, Busy, Clean
<1>6. QED BY <1>2, <1>3, <1>4, <1>5

\* A call that goes on with what it has.
LEMMA SameTrust ==
  ASSUME NEW f, NEW g, Trusted(f), g.node = f.node, g.mode = f.mode, g.epoch = f.epoch,
         g.was = f.was, g.pc \notin {"hit", "was", "mark"}
  PROVE  Trusted(g)
BY DEF Trusted

LEMMA CacheLoadValid ==
  ASSUME ControlInv, ControlInv', CacheInv, NEW p \in Pullers, LoadValid(p)
  PROVE  CacheInv'
<1>0. /\ TreeKept /\ crossed' = crossed /\ moved' = moved /\ diverged' = diverged
      /\ hash_valid_epoch_' = hash_valid_epoch_ /\ hash_cached_' = hash_cached_
  BY DEF LoadValid, OnlyStack, TreeKept, stateVars, cacheVars
<1>1. CASE stack[p][1].mode = "digest" /\ hash_valid_epoch_[stack[p][1].node] # stack[p][1].epoch
  <2>1. PICK g \in Frames : /\ stack[p] # << >> /\ Calls(p, g) /\ g.epoch = 0 /\ g.was = << >>
                            /\ g.pc \in {"epoch", "current"} /\ g.node <= Bottom
    BY <1>1, CallDoes
  <2>2. QED BY <1>0, <2>1, CacheCalls
<1>2. CASE ~(stack[p][1].mode = "digest" /\ hash_valid_epoch_[stack[p][1].node] # stack[p][1].epoch)
  <2>1. PICK f, g : /\ Advances(p, f, g) /\ f.pc = "valid" /\ g.was = f.was
                    /\ \/ /\ hash_valid_epoch_[f.node] = f.epoch
                          /\ g.pc = IF f.mode = "digest" THEN "half1" ELSE "hit"
                       \/ f.mode = "lazy" /\ g.pc = "surface"
    BY <1>2, LoadValidDoes
  <2>2. Recomputed(g)' BY <2>1 DEF Recomputed, Busy
  <2>3. ASSUME ~crossed, Vouched(stack[p], 1) PROVE Trusted(g)
    <3>1. CacheOK BY <2>3 DEF CacheInv
    <3>2. Trusted(f) /\ ~Unmarked(f.node) /\ f.node \in Top .. Bottom /\ f.node \in Nodes
      BY <2>1, <2>3, <3>1, Innermost
    <3>3. CASE g.pc # "hit" BY <2>1, <3>2, <3>3, SameTrust DEF Advances
    <3>4. CASE g.pc = "hit"
      <4>1. f.mode # "digest" /\ hash_valid_epoch_[f.node] = f.epoch BY <2>1, <3>4
      <4>2. f.epoch = hash_epoch_[f.node] BY <2>1, <3>2, <4>1 DEF Trusted, Advances, Local
      <4>3. hash_cached_[f.node] = Hash(f.node) /\ AllCurrent(f.node)
        BY <3>1, <3>2, <4>1, <4>2 DEF CacheOK, BelievedInv, CurrentInv
      <4>4. QED BY <2>1, <3>2, <3>4, <4>3 DEF Trusted, Advances
    <3>5. QED BY <3>3, <3>4
  <2>4. f.pc # "hit" BY <2>1
  <2>5. ~crossed => (diverged'[p] => moved[p]) BY <1>0 DEF CacheInv, CacheOK
  <2>6. QED BY <1>0, <2>1, <2>2, <2>3, <2>4, <2>5, CacheAdvances
<1>3. QED BY <1>1, <1>2

LEMMA CacheAudits ==
  ASSUME ControlInv, ControlInv', CacheInv, NEW p \in Pullers, AuditCurrent(p) \/ AuditCached(p)
  PROVE  CacheInv'
<1>0. /\ TreeKept /\ crossed' = crossed /\ moved' = moved /\ diverged' = diverged
      /\ hash_valid_epoch_' = hash_valid_epoch_ /\ hash_cached_' = hash_cached_
  BY DEF AuditCurrent, AuditCached, OnlyStack, TreeKept, stateVars, cacheVars
<1>1. PICK f, g : /\ Advances(p, f, g) /\ f.mode = "audit" /\ f.pc \in {"current", "was"}
                  /\ g.pc \in {"was", "surface", "epoch"}
                  /\ \/ /\ f.pc = "current" /\ g.was = << >>
                        /\ g.pc = "was" => hash_valid_epoch_[f.node] = hash_epoch_[f.node]
                     \/ f.pc = "was" /\ g.was = <<hash_cached_[f.node]>> /\ g.pc # "was"
  <2>1. CASE AuditCurrent(p)
    <3>1. PICK f, g : /\ Advances(p, f, g) /\ f.pc = "current" /\ f.mode = "audit" /\ g.was = << >>
                      /\ \/ hash_valid_epoch_[f.node] = hash_epoch_[f.node] /\ g.pc = "was"
                         \/ g.pc \in {"surface", "epoch"}
      BY <2>1, AuditCurrentDoes
    <3>2. QED BY <3>1
  <2>2. CASE AuditCached(p)
    <3>1. PICK f, g : /\ Advances(p, f, g) /\ f.pc = "was" /\ f.mode = "audit"
                      /\ g.was = <<hash_cached_[f.node]>> /\ g.pc \in {"surface", "epoch"}
      BY <2>2, AuditCachedDoes
    <3>2. QED BY <3>1
  <2>3. QED BY <2>1, <2>2
<1>2. Recomputed(g)' BY <1>1 DEF Recomputed
<1>3. ASSUME ~crossed, Vouched(stack[p], 1) PROVE Trusted(g)
  <2>1. CacheOK BY <1>3 DEF CacheInv
  <2>2. Trusted(f) /\ ~Unmarked(f.node) /\ f.node \in Top .. Bottom /\ f.node \in Nodes
    BY <1>1, <1>3, <2>1, Innermost
  <2>3. g.pc = "was" => hash_cached_[f.node] = Hash(f.node) /\ AllCurrent(f.node)
    BY <1>1, <2>1, <2>2 DEF CacheOK, BelievedInv, CurrentInv
  <2>4. g.was # << >> => g.was = <<Hash(f.node)>> BY <1>1, <2>2 DEF Trusted
  <2>5. QED BY <1>1, <2>2, <2>3, <2>4 DEF Trusted, Advances
<1>4. f.pc # "hit" BY <1>1
<1>5. ~crossed => (diverged'[p] => moved[p]) BY <1>0 DEF CacheInv, CacheOK
<1>6. QED BY <1>0, <1>1, <1>2, <1>3, <1>4, <1>5, CacheAdvances

LEMMA CacheReads ==
  ASSUME ControlInv, ControlInv', CacheInv, NEW p \in Pullers, ReadSurface(p) \/ ReadChild(p)
  PROVE  CacheInv'
<1>0. /\ TreeKept /\ crossed' = crossed /\ moved' = moved /\ diverged' = diverged
      /\ hash_valid_epoch_' = hash_valid_epoch_ /\ hash_cached_' = hash_cached_
  BY DEF ReadSurface, ReadChild, OnlyStack, TreeKept, stateVars, cacheVars
<1>a. ~crossed => (diverged'[p] => moved[p]) BY <1>0 DEF CacheInv, CacheOK
<1>1. CASE ReadSurface(p)
  <2>1. PICK f, g : /\ Advances(p, f, g) /\ f.pc = "surface" /\ f.mode # "digest"
                    /\ g.pc = "child" /\ g.val = <<surface[f.node]>> /\ g.was = f.was
    BY <1>1, ReadSurfaceDoes
  <2>2. surface' = surface BY <1>0 DEF TreeKept
  <2>3. Recomputed(g)' BY <2>1, <2>2 DEF Recomputed, Advances
  <2>4. ~crossed /\ Vouched(stack[p], 1) => Trusted(g)
    BY <2>1, Innermost, SameTrust DEF CacheInv, Advances
  <2>5. f.pc # "hit" BY <2>1
  <2>6. QED BY <1>0, <1>a, <2>1, <2>3, <2>4, <2>5, CacheAdvances
<1>2. CASE ReadChild(p)
           /\ (stack[p][1].node + 1 < Depth \/ (stack[p][1].node + 1 = Depth /\ leaf = "attached"))
  <2>1. PICK g \in Frames : /\ stack[p] # << >> /\ Calls(p, g) /\ g.epoch = 0 /\ g.was = << >>
                            /\ g.pc \in {"epoch", "current"} /\ g.node <= Bottom
    BY <1>2, CallDoes
  <2>2. QED BY <1>0, <2>1, CacheCalls
<1>3. CASE ReadChild(p)
           /\ ~(stack[p][1].node + 1 < Depth \/ (stack[p][1].node + 1 = Depth /\ leaf = "attached"))
  <2>1. PICK f, g : /\ Advances(p, f, g) /\ f.pc = "child" /\ f.mode # "digest"
                    /\ g.pc = "compare" /\ g.val = f.val /\ g.was = f.was
    BY <1>3, ReadChildDoes
  <2>2. ASSUME ~crossed, Busy(f), Clean(f) PROVE f.val = Hash(f.node)
    <3>1. f.node \in Nodes /\ Recomputed(f) BY <2>1, <2>2, Innermost DEF CacheInv
    <3>2. f.val = <<surface[f.node]>> BY <2>1, <2>2, <3>1 DEF Recomputed
    <3>3. leaf # "retiring" /\ f.node <= Bottom BY <2>2 DEF Clean, Unmarked
    <3>4. ~(f.node + 1 < Depth \/ (f.node + 1 = Depth /\ leaf = "attached")) BY <1>3, <2>1 DEF Advances
    <3>5. PICK n \in 1 .. Depth : n = f.node BY <3>1, Chain
    <3>6. n = Bottom
      <4>1. CASE leaf = "attached" BY <3>3, <3>4, <3>5, <4>1, Chain DEF Bottom
      <4>2. CASE leaf # "attached" BY <3>3, <3>4, <3>5, <4>2, Chain DEF Bottom
      <4>3. QED BY <4>1, <4>2
    <3>7. QED BY <3>2, <3>5, <3>6, HashOfBottom DEF ControlInv
  <2>3. ASSUME ~crossed PROVE Recomputed(g)'
    <3>1. Busy(g) /\ Clean(g) => g.val = Hash(g.node)
      BY <2>1, <2>2, <2>3 DEF Advances, Busy, Clean
    <3>2. QED BY <1>0, <2>1, <3>1, TreeFacts DEF Recomputed, Busy
  <2>4. ~crossed /\ Vouched(stack[p], 1) => Trusted(g)
    BY <2>1, Innermost, SameTrust DEF CacheInv, Advances
  <2>5. f.pc # "hit" BY <2>1
  <2>6. QED BY <1>0, <1>a, <2>1, <2>3, <2>4, <2>5, CacheAdvances
<1>4. QED BY <1>1, <1>2, <1>3

\* An audit whose time nothing has moved in is clean at the top, so whoever is
\* in it is vouched for.
LEMMA UnmovedVouched ==
  ASSUME ControlInv, CacheOK, NEW p \in Pullers, NEW f, NEW g, Advances(p, f, g),
         f.mode = "audit", f.epoch # 0, ~moved[p]
  PROVE  Vouched(stack[p], 1)
<1>1. PICK s \in Seq(Frames) : s = stack[p] /\ WellFormed(s) /\ s # << >> /\ 1 \in DOMAIN s /\ f = s[1]
  BY InnermostAt DEF Advances
<1>2. PICK n \in Nat : n = Len(s) /\ n \in DOMAIN s /\ 1 <= n BY <1>1, EmptySeq, LenProperties
<1>3. s[n].mode = "audit" /\ s[n].epoch # 0
  <2>1. CASE n = 1 BY <1>1, <2>1
  <2>2. CASE n # 1
    <3>1. 1 < n BY <1>2, <2>2
    <3>2. s[n].mode # "digest" BY <1>1, <1>2, <3>1 DEF WellFormed, Shape
    <3>3. s[n].pc = "child" /\ s[1].mode = s[n].mode BY <1>1, <1>2, <3>1, <3>2, CallsApart
    <3>4. Local(s[n]) BY <1>1, <1>2 DEF WellFormed
    <3>5. QED BY <1>1, <3>2, <3>3, <3>4 DEF Local
  <2>3. QED BY <2>1, <2>2
<1>4. s[n].node = Top BY <1>1, <1>2, <1>3 DEF WellFormed, Shape
<1>5. Auditing(p) BY <1>1, <1>2, <1>3 DEF Auditing
<1>6. ~Unmarked(Top) /\ s[n].epoch = hash_epoch_[Top]
  BY <1>1, <1>2, <1>3, <1>5 DEF CacheOK, UnmovedInv
<1>7. Clean(s[n]) BY <1>3, <1>4, <1>6, Chain DEF Clean
<1>8. 1 < n \/ (1 = n /\ s[1].node = Top)
  <2>1. CASE n = 1 BY <1>4, <2>1
  <2>2. CASE n # 1 BY <1>2, <2>2
  <2>3. QED BY <2>1, <2>2
<1>9. QED BY <1>1, <1>2, <1>3, <1>7, <1>8 DEF Vouched

LEMMA CacheCompare ==
  ASSUME ControlInv, ControlInv', CacheInv, NEW p \in Pullers, Compare(p)
  PROVE  CacheInv'
<1>0. /\ TreeKept /\ crossed' = crossed /\ moved' = moved
      /\ hash_valid_epoch_' = hash_valid_epoch_ /\ hash_cached_' = hash_cached_
  BY DEF Compare, TreeKept, stateVars, cacheVars
<1>1. PICK f, g : /\ Advances(p, f, g) /\ f.pc = "compare" /\ f.mode # "digest"
                  /\ g.val = f.val /\ g.was = f.was
                  /\ \/ /\ f.was # << >> /\ f.was # <<f.val>> /\ f.mode = "audit" /\ g.pc = "mark"
                        /\ diverged' = [diverged EXCEPT ![p] = TRUE]
                     \/ g.pc \in {"digest1", "cached"} /\ diverged' = diverged
  BY CompareDoes
<1>2. Busy(f) /\ f.epoch # 0 BY <1>1 DEF Advances, Local, Busy
<1>3. ASSUME ~crossed PROVE Recomputed(g)'
  <2>1. Recomputed(f) BY <1>1, <1>3, Innermost DEF CacheInv
  <2>2. Clean(g) => g.val = Hash(g.node) BY <1>1, <1>2, <2>1 DEF Recomputed, Advances, Clean
  <2>3. QED BY <1>0, <1>1, <2>2, TreeFacts DEF Recomputed
<1>4. ASSUME ~crossed, Vouched(stack[p], 1) PROVE f.was # << >> => f.was = <<f.val>>
  <2>1. Recomputed(f) /\ Trusted(f) /\ Clean(f) BY <1>1, <1>2, <1>4, Innermost DEF CacheInv
  <2>2. f.val = Hash(f.node) BY <1>1, <1>2, <2>1 DEF Recomputed
  <2>3. f.mode = "lazy" => f.was = << >> BY <1>1 DEF Advances, Local
  <2>4. f.mode \in {"lazy", "audit"} BY <1>1 DEF Advances, Frames, Modes
  <2>5. QED BY <2>1, <2>2, <2>3, <2>4 DEF Trusted
<1>5. ASSUME ~crossed, Vouched(stack[p], 1) PROVE Trusted(g)
  <2>1. Trusted(f) BY <1>1, <1>5, Innermost DEF CacheInv
  <2>2. g.pc \in {"digest1", "cached"} BY <1>1, <1>4, <1>5
  <2>3. QED BY <1>1, <2>1, <2>2, SameTrust DEF Advances
<1>6. ASSUME ~crossed, diverged'[p] PROVE moved[p]
  <2>1. CASE diverged' = diverged BY <1>6, <2>1 DEF CacheInv, CacheOK
  <2>2. CASE diverged' # diverged
    <3>1. f.was # << >> /\ f.was # <<f.val>> /\ f.mode = "audit" BY <1>1, <2>2
    <3>2. ~Vouched(stack[p], 1) BY <1>4, <1>6, <3>1
    <3>3. QED BY <1>1, <1>2, <1>6, <3>1, <3>2, UnmovedVouched DEF CacheInv
  <2>3. QED BY <2>1, <2>2
<1>7. \A q \in Pullers : q # p => (diverged'[q] <=> diverged[q])
  <2>1. diverged \in [Pullers -> BOOLEAN] BY DEF ControlInv, HashTypeOK
  <2>2. CASE diverged' = diverged BY <2>2
  <2>3. CASE diverged' = [diverged EXCEPT ![p] = TRUE] BY <2>1, <2>3
  <2>4. QED BY <1>1, <2>2, <2>3
<1>8. f.pc # "hit" BY <1>1
<1>9. QED BY <1>0, <1>1, <1>3, <1>5, <1>6, <1>7, <1>8, CacheAdvances

LEMMA CacheStores ==
  ASSUME ControlInv, ControlInv', CacheInv, NEW p \in Pullers, StampDigest(p) \/ StampCached(p)
  PROVE  CacheInv'
<1>0. /\ TreeKept /\ crossed' = crossed /\ moved' = moved /\ diverged' = diverged
      /\ hash_valid_epoch_' = hash_valid_epoch_
  <2>1. mark' = mark /\ crossed' = crossed /\ moved' = moved /\ diverged' = diverged
        /\ surface' = surface /\ leaf' = leaf /\ hash_epoch_' = hash_epoch_
    BY DEF StampDigest, StampCached, Stamping, stateVars
  <2>2. hash_valid_epoch_' = hash_valid_epoch_ BY DEF StampDigest, StampCached
  <2>3. QED BY <2>1, <2>2 DEF TreeKept
<1>a. ~crossed => (diverged'[p] => moved[p]) BY <1>0 DEF CacheInv, CacheOK
<1>1. CASE StampDigest(p)
  <2>1. PICK f, g : /\ Advances(p, f, g) /\ f.mode # "digest" /\ g.val = f.val /\ g.was = f.was
                    /\ f.pc \in {"digest1", "digest2"} /\ g.pc \in {"digest2", "cached"}
    <3>1. PICK f, g : /\ Advances(p, f, g) /\ f.mode # "digest" /\ g.val = f.val /\ g.was = f.was
                      /\ \/ f.pc = "digest1" /\ g.pc = "digest2"
                         \/ f.pc = "digest2" /\ g.pc = "cached"
      BY <1>1, StampDigestDoes
    <3>2. QED BY <3>1
  <2>2. hash_cached_' = hash_cached_ BY <1>1 DEF StampDigest
  <2>3. ASSUME ~crossed PROVE Recomputed(g)'
    <3>1. Recomputed(f) BY <2>1, <2>3, Innermost DEF CacheInv
    <3>2. Busy(f) /\ Clean(g) => g.val = Hash(g.node) BY <2>1, <3>1 DEF Recomputed, Advances, Clean
    <3>3. Busy(g) => Busy(f) BY <2>1 DEF Advances, Busy
    <3>4. QED BY <1>0, <2>1, <3>2, <3>3, TreeFacts DEF Recomputed, Busy
  <2>4. ~crossed /\ Vouched(stack[p], 1) => Trusted(g)
    BY <2>1, Innermost, SameTrust DEF CacheInv, Advances
  <2>5. f.pc # "hit" BY <2>1
  <2>6. QED BY <1>0, <1>a, <2>1, <2>2, <2>3, <2>4, <2>5, CacheAdvances
<1>2. CASE StampCached(p)
  <2>1. PICK f, g : /\ Advances(p, f, g) /\ f.pc = "cached" /\ f.mode # "digest"
                    /\ g.pc = "stamp" /\ g.val = f.val /\ g.was = f.was
                    /\ hash_cached_' = [hash_cached_ EXCEPT ![f.node] = f.val]
    BY <1>2, StampCachedDoes
  <2>2. Busy(f) BY <2>1 DEF Advances, Local, Busy
  <2>3. f.node \in Nodes /\ hash_cached_ \in [Nodes -> Seq(Nat)]
    BY <2>1 DEF Advances, Frames, ControlInv, HashTypeOK
  <2>4. PICK n, v : n = f.node /\ v = f.val /\ n \in Nodes BY <2>3
  <2>5. hash_cached_'[n] = v /\ \A k \in Nodes : k # n => hash_cached_'[k] = hash_cached_[k]
    BY <2>1, <2>3, <2>4
  <2>6. ASSUME ~crossed, Clean(f) PROVE v = Hash(n)
    <3>1. Recomputed(f) BY <2>1, <2>6, Innermost DEF CacheInv
    <3>2. QED BY <2>1, <2>2, <2>4, <2>6, <3>1 DEF Recomputed
  <2>7. ASSUME ~crossed PROVE Recomputed(g)'
    <3>1. g.node = n /\ g.val = v /\ (Clean(g) => v = Hash(n))
      BY <2>1, <2>4, <2>6, <2>7 DEF Advances, Clean
    <3>2. QED BY <1>0, <2>1, <2>5, <3>1, TreeFacts DEF Recomputed
  <2>8. ASSUME ~crossed, NEW k \in Nodes
        PROVE  \/ hash_cached_'[k] = hash_cached_[k]
               \/ f.node = k /\ Busy(f) /\ (Clean(f) => hash_cached_'[k] = Hash(k))
    <3>1. CASE k = n BY <2>2, <2>4, <2>5, <2>6, <2>8, <3>1
    <3>2. CASE k # n BY <2>5, <3>2
    <3>3. QED BY <3>1, <3>2
  <2>9. ~crossed /\ Vouched(stack[p], 1) => Trusted(g)
    BY <2>1, Innermost, SameTrust DEF CacheInv, Advances
  <2>10. f.pc # "hit" BY <2>1
  <2>11. QED BY <1>0, <1>a, <2>1, <2>7, <2>8, <2>9, <2>10, CacheAdvances
<1>3. QED BY <1>1, <1>2

LEMMA CacheCopies ==
  ASSUME ControlInv, ControlInv', CacheInv, NEW p \in Pullers, CopyDigest(p) \/ Recheck(p)
  PROVE  CacheInv'
<1>0. /\ TreeKept /\ crossed' = crossed /\ moved' = moved /\ diverged' = diverged
      /\ hash_valid_epoch_' = hash_valid_epoch_ /\ hash_cached_' = hash_cached_
  BY DEF CopyDigest, Recheck, OnlyStack, TreeKept, stateVars, cacheVars
<1>a. ~crossed => (diverged'[p] => moved[p]) BY <1>0 DEF CacheInv, CacheOK
<1>1. CASE \E f, g : /\ Advances(p, f, g) /\ f.mode = "digest"
                     /\ f.pc \in {"half1", "half2", "again", "again2"}
                     /\ g.pc \in {"half2", "again", "again2", "epoch"}
  <2>1. PICK f, g : /\ Advances(p, f, g) /\ f.mode = "digest"
                    /\ f.pc \in {"half1", "half2", "again", "again2"}
                    /\ g.pc \in {"half2", "again", "again2", "epoch"}
    BY <1>1
  <2>2. g.mode = "digest" /\ g.node = f.node BY <2>1 DEF Advances
  <2>3. Recomputed(g)' BY <2>2 DEF Recomputed, Busy
  <2>4. ASSUME ~crossed, Vouched(stack[p], 1) PROVE Trusted(g)
    <3>1. Trusted(f) BY <2>1, <2>4, Innermost DEF CacheInv
    <3>2. QED BY <2>1, <2>2, <3>1 DEF Trusted
  <2>5. f.pc # "hit" BY <2>1
  <2>6. QED BY <1>0, <1>a, <2>1, <2>3, <2>4, <2>5, CacheAdvances
<1>2. CASE CopyDigest(p)
  <2>1. PICK f, g : /\ Advances(p, f, g) /\ f.mode = "digest"
                    /\ \/ f.pc = "half1" /\ g.pc = "half2"
                       \/ f.pc = "half2" /\ g.pc = "again"
    BY <1>2, CopyDigestDoes
  <2>2. QED BY <1>1, <2>1
<1>3. CASE Recheck(p)
  <2>1. CASE \E f, g : /\ Advances(p, f, g) /\ f.mode = "digest" /\ f.pc \in {"again", "again2"}
                       /\ \/ f.pc = "again" /\ g.pc = "again2"
                          \/ g.pc = "epoch"
    BY <1>1, <2>1
  <2>2. CASE Len(stack[p]) = 1 /\ Answers(p, stack[p][1].was)
    <3>1. stack[p] # << >> BY <1>3 DEF Recheck, At
    <3>2. PICK v : v = stack[p][1].was OBVIOUS
    <3>3. Answers(p, v) /\ Answerable(p, v) BY <2>2, <3>2 DEF Answerable
    <3>4. ~(Len(stack[p]) > 1) BY <2>2
    <3>5. QED BY <1>0, <3>1, <3>3, <3>4, CacheAnswers
  <2>3. QED BY <1>3, <2>1, <2>2, RecheckDoes
<1>4. QED BY <1>2, <1>3

LEMMA CacheAnswered ==
  ASSUME ControlInv, ControlInv', CacheInv, NEW p \in Pullers, LoadCached(p) \/ StampEpoch(p)
  PROVE  CacheInv'
<1>0. /\ TreeKept /\ crossed' = crossed /\ moved' = moved /\ diverged' = diverged
      /\ hash_cached_' = hash_cached_
  <2>1. mark' = mark /\ crossed' = crossed /\ moved' = moved /\ diverged' = diverged
        /\ surface' = surface /\ leaf' = leaf /\ hash_epoch_' = hash_epoch_
    BY DEF LoadCached, OnlyStack, StampEpoch, Stamping, stateVars
  <2>2. hash_cached_' = hash_cached_ BY DEF LoadCached, OnlyStack, StampEpoch, cacheVars
  <2>3. QED BY <2>1, <2>2 DEF TreeKept
<1>1. PICK f \in Frames, v \in Seq(Nat) :
        /\ stack[p] # << >> /\ f = stack[p][1] /\ Local(f) /\ f.mode # "digest"
        /\ Answers(p, v)
        /\ \/ /\ f.pc = "hit" /\ v = hash_cached_[f.node]
              /\ hash_valid_epoch_' = hash_valid_epoch_
           \/ /\ f.pc = "stamp" /\ v = f.val
              /\ hash_valid_epoch_' = [hash_valid_epoch_ EXCEPT ![f.node] = f.epoch]
  BY AnswerDoes
<1>2. 1 \in DOMAIN stack[p] BY <1>1, InnermostAt
<1>3. PICK k \in Nodes : k = f.node BY DEF Frames
<1>4. (Busy(f) /\ f.epoch # 0) \/ f.pc = "hit" BY <1>1 DEF Local, Busy
<1>5. ASSUME ~crossed, Vouched(stack[p], 1) PROVE v = Hash(k)
  <2>1. CacheOK BY <1>5 DEF CacheInv
  <2>2. Trusted(f) /\ Recomputed(f) BY <1>1, <1>2, <1>5, <2>1 DEF CacheOK
  <2>3. CASE f.pc = "hit" BY <1>1, <1>3, <2>2, <2>3 DEF Trusted
  <2>4. CASE f.pc # "hit"
    <3>1. f.pc = "stamp" /\ v = f.val /\ Busy(f) /\ f.epoch # 0 BY <1>1, <1>4, <2>4
    <3>2. ~Unmarked(f.node) BY <1>1, <1>2, <1>5, VouchedUnmarked
    <3>3. Clean(f) BY <1>1, <2>2, <3>1, <3>2 DEF Trusted, Clean
    <3>4. QED BY <1>3, <2>2, <3>1, <3>3 DEF Recomputed
  <2>5. QED BY <2>3, <2>4
<1>6. ASSUME ~crossed, NEW n \in Nodes, hash_valid_epoch_'[n] = hash_epoch_[n]
      PROVE  \/ hash_valid_epoch_[n] = hash_epoch_[n]
             \/ AllCurrent(n) /\ (n <= Bottom /\ ~Unmarked(n) => hash_cached_[n] = Hash(n))
  <2>1. SUFFICES ASSUME hash_valid_epoch_'[n] # hash_valid_epoch_[n]
                 PROVE  AllCurrent(n) /\ (n <= Bottom /\ ~Unmarked(n) => hash_cached_[n] = Hash(n))
    BY <1>6
  <2>2. CacheOK BY <1>6 DEF CacheInv
  <2>3. f.pc = "stamp" /\ hash_valid_epoch_' = [hash_valid_epoch_ EXCEPT ![f.node] = f.epoch]
    BY <1>1, <2>1
  <2>4. n = k /\ f.epoch = hash_epoch_[n]
    BY <1>3, <1>6, <2>1, <2>3 DEF ControlInv, HashTypeOK
  <2>5. Busy(f) /\ f.epoch # 0 BY <1>4, <2>3
  <2>6. ASSUME NEW q \in Pullers, NEW i \in DOMAIN stack[q], stack[q][i].node = n, Busy(stack[q][i])
        PROVE  stack[q][i].epoch = hash_epoch_[n]
    <3>1. CASE q # p
      <4>1. stack[p][1].node = stack[q][i].node /\ Busy(stack[p][1]) BY <1>1, <1>3, <2>4, <2>5, <2>6
      <4>2. QED BY <1>1, <1>2, <2>2, <2>4, <2>6, <3>1, <4>1 DEF CacheOK, OneEpoch
    <3>2. CASE q = p /\ i = 1 BY <1>1, <2>4, <3>2
    <3>3. CASE q = p /\ i # 1
      <4>1. PICK s \in Seq(Frames) : s = stack[p] BY <1>1, InnermostAt
      <4>2. 1 < i BY <1>2, <2>6, <3>3, <4>1, LenProperties
      <4>3. stack[p][i].mode # "digest" BY <2>6, <3>3 DEF Busy
      <4>4. stack[p][i].node < stack[p][1].node BY <1>2, <2>6, <3>3, <4>2, <4>3, CallsApart
      <4>5. QED BY <1>1, <1>3, <2>4, <2>6, <3>3, <4>4, Chain
    <3>4. QED BY <3>1, <3>2, <3>3
  <2>7. AllCurrent(n) BY <2>6 DEF AllCurrent
  <2>8. ASSUME n <= Bottom, ~Unmarked(n) PROVE hash_cached_[n] = Hash(n)
    <3>1. Clean(f) BY <1>3, <2>4, <2>5, <2>8 DEF Clean
    <3>2. Recomputed(f) BY <1>1, <1>2, <2>2 DEF CacheOK
    <3>3. QED BY <1>3, <2>3, <2>4, <2>5, <3>1, <3>2 DEF Recomputed
  <2>9. QED BY <2>7, <2>8
<1>7. Answerable(p, v) BY DEF Answerable
<1>8. ~crossed /\ Len(stack[p]) > 1 /\ Vouched(stack[p], 1) => v = Hash(stack[p][1].node)
  BY <1>1, <1>3, <1>5
<1>9. QED BY <1>0, <1>1, <1>6, <1>7, <1>8, CacheAnswers

-----------------------------------------------------------------------------
(* An audit counts epochs up *)

\* An audit is a chain of calls, one for each node from where it is to the top.
LEMMA AuditChain ==
  ASSUME ControlInv, NEW p \in Pullers, NEW f, NEW g, Advances(p, f, g), f.mode = "audit",
         NEW v \in Top .. f.node
  PROVE  \E k \in DOMAIN stack[p] :
            /\ stack[p][k].node = v /\ stack[p][k].mode = "audit"
            /\ k = 1 \/ (1 < k /\ stack[p][k].pc = "child")
<1>1. PICK s \in Seq(Frames) : s = stack[p] /\ WellFormed(s) /\ s # << >> /\ 1 \in DOMAIN s /\ f = s[1]
  BY InnermostAt DEF Advances
<1>2. PICK n \in Nat \ {0} : n = Len(s) /\ DOMAIN s = 1 .. n BY <1>1, EmptySeq, LenProperties
<1>3. n \in DOMAIN s BY <1>2
<1>4. ASSUME NEW k \in DOMAIN s, 1 < k PROVE s[k].mode = "audit" /\ s[k].pc = "child"
  <2>1. s[k].mode # "digest" BY <1>1, <1>4 DEF WellFormed, Shape
  <2>2. QED BY <1>1, <1>4, <2>1, CallsApart
<1>5. s[n].mode = "audit"
  <2>1. CASE n = 1 BY <1>1, <2>1
  <2>2. CASE 1 < n BY <1>3, <1>4, <2>2
  <2>3. QED BY <2>1, <2>2
<1>6. s[n].node = 1 BY <1>1, <1>2, <1>5, Chain DEF WellFormed, Shape
<1>7. ASSUME NEW k \in DOMAIN s PROVE s[k].node = 1 + (n - k)
  <2>1. CASE k = n BY <1>2, <1>6, <2>1
  <2>2. CASE k # n
    <3>1. k < n BY <1>2, <2>2
    <3>2. s[k].node = s[n].node + (n - k) BY <1>1, <1>3, <1>5, <3>1 DEF WellFormed, Shape
    <3>3. QED BY <1>6, <3>2
  <2>3. QED BY <2>1, <2>2
<1>8. f.node = n BY <1>1, <1>2, <1>7
<1>9. PICK k \in DOMAIN s : k = n + 1 - v
  <2>1. v \in 1 .. n BY <1>8, Chain
  <2>2. n + 1 - v \in 1 .. n BY <2>1
  <2>3. QED BY <1>2, <2>2
<1>10. s[k].node = v
  <2>1. v \in 1 .. n BY <1>8, Chain
  <2>2. 1 + (n - k) = v BY <1>9, <2>1
  <2>3. QED BY <1>7, <2>2
<1>11. CASE k = 1 BY <1>1, <1>10, <1>11
<1>12. CASE 1 < k BY <1>1, <1>4, <1>10, <1>12
<1>13. QED BY <1>2, <1>11, <1>12

\* An audit that marks is not vouched for, and then no recompute above it is
\* clean, of whoever it is.
LEMMA MarksNotClean ==
  ASSUME ControlInv, CacheOK, NEW p \in Pullers, NEW f, NEW g, Advances(p, f, g),
         f.mode = "audit", f.pc = "mark",
         NEW q \in Pullers, NEW j \in DOMAIN stack[q], Busy(stack[q][j]), Clean(stack[q][j])
  PROVE  ~(stack[q][j].node < f.node) /\ stack[q][j].node # Top
<1>1. ~Vouched(stack[p], 1) BY Innermost DEF Trusted
<1> SUFFICES ASSUME stack[q][j].node < f.node \/ stack[q][j].node = Top PROVE FALSE OBVIOUS
<1>2. 1 \in DOMAIN stack[p] /\ f = stack[p][1] /\ f \in Frames BY InnermostAt DEF Advances
<1>3. PICK v \in 1 .. Depth : v = stack[q][j].node BY FrameAt, Chain DEF Frames
<1>4. PICK n \in 1 .. Depth : n = f.node BY <1>2, Chain DEF Frames
<1>5. v < n \/ v = 1 BY <1>3, <1>4, Chain
<1>6. Busy(f) BY DEF Busy, Advances, Local
<1>7. CASE q = p
  <2>1. PICK s \in Seq(Frames) : s = stack[p] BY InnermostAt DEF Advances
  <2>2. CASE j = 1 BY <1>1, <1>2, <1>3, <1>4, <1>5, <1>7, <2>2, Chain DEF Vouched, Busy
  <2>3. CASE j # 1
    <3>1. 1 < j BY <1>7, <2>1, <2>3, LenProperties
    <3>2. QED BY <1>1, <1>7, <3>1 DEF Vouched, Busy
  <2>4. QED BY <2>2, <2>3
<1>8. CASE q # p
  <2>1. v \in Top .. f.node BY <1>4, <1>5, Chain
  <2>2. PICK k \in DOMAIN stack[p] :
          /\ stack[p][k].node = v /\ stack[p][k].mode = "audit"
          /\ k = 1 \/ (1 < k /\ stack[p][k].pc = "child")
    BY <2>1, AuditChain
  <2>3. Busy(stack[p][k])
    <3>1. CASE k = 1 BY <1>2, <1>6, <3>1
    <3>2. CASE 1 < k /\ stack[p][k].pc = "child"
      <4>1. Local(stack[p][k]) BY FrameAt
      <4>2. QED BY <2>2, <3>2, <4>1 DEF Local, Busy
    <3>3. QED BY <2>2, <3>1, <3>2
  <2>4. stack[p][k].epoch = stack[q][j].epoch BY <1>3, <1>8, <2>2, <2>3 DEF CacheOK, OneEpoch
  <2>5. Clean(stack[p][k]) BY <1>3, <2>2, <2>4 DEF Clean
  <2>6. CASE k = 1
    <3>1. v = Top BY <1>2, <1>4, <1>5, <2>2, <2>6, Chain
    <3>2. QED BY <1>1, <1>2, <2>2, <2>5, <2>6, <3>1 DEF Vouched
  <2>7. CASE 1 < k BY <1>1, <2>2, <2>5, <2>7 DEF Vouched
  <2>8. QED BY <2>2, <2>6, <2>7
<1>9. QED BY <1>7, <1>8

LEMMA CacheAuditMarks ==
  ASSUME ControlInv, ControlInv', CacheInv, NEW p \in Pullers, AuditMarks(p)
  PROVE  CacheInv'
<1>0. /\ surface' = surface /\ leaf' = leaf /\ mark' = mark
      /\ crossed' = crossed /\ moved' = moved /\ diverged' = diverged
      /\ hash_valid_epoch_' = hash_valid_epoch_ /\ hash_cached_' = hash_cached_
  BY DEF AuditMarks, stateVars, cacheVars
<1> SUFFICES ASSUME ~crossed PROVE CacheOK' BY <1>0 DEF CacheInv
<1>1. CacheOK BY DEF CacheInv
<1>2. PICK f, g : /\ Advances(p, f, g) /\ f.pc = "mark" /\ f.mode = "audit" /\ f.up \in Top .. f.node
                  /\ hash_epoch_' = [hash_epoch_ EXCEPT ![f.up] = @ + 1]
                  /\ g.val = f.val /\ g.was = f.was /\ g.pc \in {"mark", "digest1", "cached"}
  <2>1. PICK f, g : /\ Advances(p, f, g) /\ f.pc = "mark" /\ f.mode = "audit" /\ f.up \in Top .. f.node
                    /\ hash_epoch_' = [hash_epoch_ EXCEPT ![f.up] = @ + 1]
                    /\ g.val = f.val /\ g.was = f.was
                    /\ \/ f.up # Top /\ g.pc = "mark"
                       \/ f.up = Top /\ g.pc = StampPC(f) /\ g.pc \in {"digest1", "cached"}
    BY AuditMarksDoes
  <2>2. g.pc \in {"mark", "digest1", "cached"} BY <2>1
  <2>3. QED BY <2>1, <2>2
<1>3. PICK r \in Seq(Frames) :
        /\ stack'[p] = r /\ \A q \in Pullers : q # p => stack'[q] = stack[q]
        /\ Len(r) = Len(stack[p]) /\ DOMAIN r = DOMAIN stack[p] /\ 1 \in DOMAIN r
        /\ r[1] = g /\ \A i \in DOMAIN r : i # 1 => r[i] = stack[p][i]
  BY <1>2, AdvancesStack
<1>4. f = stack[p][1] /\ f \in Frames /\ Busy(f) /\ f.epoch # 0
      /\ g.node = f.node /\ g.mode = f.mode /\ g.epoch = f.epoch /\ g \in Frames
  BY <1>2 DEF Advances, Local, Busy
<1>5. PICK u \in Nodes : u = f.up /\ ~(f.node < u)
  <2>1. f.node \in 1 .. Depth BY <1>4, Chain DEF Frames
  <2>2. f.up \in Nodes /\ ~(f.node < f.up) BY <1>2, <2>1, Chain
  <2>3. QED BY <2>2
<1>6. \A n \in Nodes : n # u => hash_epoch_'[n] = hash_epoch_[n]
  BY <1>2, <1>5 DEF ControlInv, HashTypeOK
<1>7. hash_epoch_[u] < hash_epoch_'[u]
  <2>1. PICK e \in Nat : e = hash_epoch_[u] BY DEF ControlInv, HashTypeOK
  <2>2. hash_epoch_'[u] = hash_epoch_[u] + 1 BY <1>2, <1>5 DEF ControlInv, HashTypeOK
  <2>3. QED BY <2>1, <2>2
<1>8. /\ Bottom' = Bottom
      /\ \A n : Hash(n)' = Hash(n) /\ (Unmarked(n)' <=> Unmarked(n))
  BY <1>0 DEF Bottom, Hash, Unmarked
\* The calls are as they were, but for where p's innermost one is.
<1>9. ASSUME NEW q \in Pullers, NEW i \in DOMAIN stack'[q]
      PROVE  /\ i \in DOMAIN stack[q] /\ stack'[q][i] \in Frames
             /\ stack'[q][i].node = stack[q][i].node /\ stack'[q][i].mode = stack[q][i].mode
             /\ stack'[q][i].epoch = stack[q][i].epoch /\ stack'[q][i].was = stack[q][i].was
             /\ Busy(stack'[q][i]) <=> Busy(stack[q][i])
             /\ stack'[q][i] = stack[q][i] \/ (q = p /\ i = 1 /\ stack'[q][i] = g)
  <2>1. CASE q = p /\ i = 1
    <3>1. stack'[q][i] = g /\ stack[q][i] = f /\ i \in DOMAIN stack[q] BY <1>3, <1>4, <1>9, <2>1
    <3>2. Busy(g) <=> Busy(f) BY <1>2, <1>4 DEF Busy
    <3>3. QED BY <1>2, <1>4, <2>1, <3>1, <3>2
  <2>2. CASE ~(q = p /\ i = 1)
    <3>1. i \in DOMAIN stack[q] /\ stack'[q][i] = stack[q][i] BY <1>3, <1>9, <2>2
    <3>2. QED BY <3>1, FrameAt
  <2>3. QED BY <2>1, <2>2
\* Who is clean still, was clean, and is not where the epoch has moved.
<1>10. ASSUME NEW q \in Pullers, NEW i \in DOMAIN stack'[q], NEW x, x = stack'[q][i], Clean(x)'
       PROVE  Clean(x) /\ Clean(stack[q][i]) /\ x.node # u /\ x.epoch # 0
  <2>1. PICK n \in Nodes, e \in Nat : n = x.node /\ e = x.epoch BY <1>9, <1>10 DEF Frames
  <2>2. e <= hash_epoch_[n]
    <3>1. i \in DOMAIN stack[q] /\ stack[q][i].node = n /\ stack[q][i].epoch = e BY <1>9, <1>10, <2>1
    <3>2. QED BY <3>1 DEF ControlInv
  <2>3. hash_epoch_[n] \in Nat /\ hash_epoch_'[n] \in Nat BY DEF ControlInv, HashTypeOK
  <2>4. e = hash_epoch_'[n] /\ n <= Bottom /\ e # 0 /\ ~Unmarked(n) BY <1>8, <1>10, <2>1 DEF Clean
  <2>5. n # u BY <1>7, <2>2, <2>3, <2>4
  <2>6. Clean(x) BY <1>6, <2>1, <2>4, <2>5 DEF Clean
  <2>7. Clean(stack[q][i]) BY <1>9, <1>10, <2>6 DEF Clean
  <2>8. QED BY <2>1, <2>4, <2>5, <2>6, <2>7
<1>11. OneEpoch' BY <1>1, <1>9 DEF CacheOK, OneEpoch, Busy
<1>12. ASSUME NEW n \in Nodes, n # u, AllCurrent(n) PROVE AllCurrent(n)'
  <2>1. ASSUME NEW q \in Pullers, NEW i \in DOMAIN stack'[q], stack'[q][i].node = n, Busy(stack'[q][i])
        PROVE  stack'[q][i].epoch = hash_epoch_'[n]
    BY <1>6, <1>9, <1>12, <2>1 DEF AllCurrent
  <2>2. QED BY <2>1 DEF AllCurrent, Busy
<1>13. ASSUME NEW n \in Nodes, hash_valid_epoch_'[n] = hash_epoch_'[n]
       PROVE  n # u /\ hash_valid_epoch_[n] = hash_epoch_[n]
  <2>1. hash_valid_epoch_[n] <= hash_epoch_[n] /\ hash_valid_epoch_[n] \in Nat
        /\ hash_epoch_[n] \in Nat /\ hash_epoch_'[n] \in Nat
    BY DEF ControlInv, HashTypeOK
  <2>2. n # u BY <1>0, <1>7, <1>13, <2>1
  <2>3. QED BY <1>0, <1>6, <1>13, <2>2
<1>14. CurrentInv' BY <1>1, <1>12, <1>13 DEF CurrentInv, CacheOK
<1>15. BelievedInv'
  <2>1. ASSUME NEW n \in Top .. Bottom, hash_valid_epoch_'[n] = hash_epoch_'[n], ~Unmarked(n)
        PROVE  hash_cached_'[n] = Hash(n)
    <3>1. n \in Nodes BY Chain
    <3>2. QED BY <1>0, <1>1, <1>13, <2>1, <3>1 DEF CacheOK, BelievedInv
  <2>2. QED BY <1>8, <2>1 DEF BelievedInv
<1>16. UnmovedInv'
  <2>1. ASSUME NEW q \in Pullers, Auditing(q)', ~moved'[q]
        PROVE  /\ ~Unmarked(Top)
               /\ stack'[q][Len(stack'[q])].epoch # 0 => stack'[q][Len(stack'[q])].epoch = hash_epoch_'[Top]
    <3>1. q # p
      <4>1. moved[p] BY <1>1, <1>2, <1>4, UnmovedVouched, Innermost DEF Trusted
      <4>2. QED BY <1>0, <2>1, <4>1
    <3>2. PICK s \in Seq(Frames) : s = stack[q] /\ stack'[q] = s /\ s # << >> /\ WellFormed(s)
      <4>1. stack'[q] = stack[q] BY <1>3, <3>1
      <4>2. stack[q] # << >> BY <2>1, <4>1 DEF Auditing
      <4>3. QED BY <4>1, <4>2, InnermostAt
    <3>3. PICK n \in DOMAIN s : n = Len(s) BY <3>2, EmptySeq, LenProperties
    <3>4. s[n].mode = "audit" BY <2>1, <3>2, <3>3 DEF Auditing
    <3>5. Auditing(q) BY <3>2, <3>3, <3>4 DEF Auditing
    <3>6. ~Unmarked(Top) /\ (s[n].epoch # 0 => s[n].epoch = hash_epoch_[Top])
      BY <1>0, <1>1, <2>1, <3>2, <3>3, <3>5 DEF CacheOK, UnmovedInv
    <3>7. s[n].epoch = 0
      <4>1. SUFFICES ASSUME s[n].epoch # 0 PROVE FALSE OBVIOUS
      <4>2. s[n].node = Top /\ Local(s[n]) BY <3>2, <3>3, <3>4 DEF WellFormed, Shape
      <4>3. Busy(s[n]) BY <3>4, <4>1, <4>2 DEF Local, Busy
      <4>4. Clean(s[n]) BY <3>6, <4>1, <4>2, Chain DEF Clean
      <4>5. QED BY <1>1, <1>2, <3>2, <4>2, <4>3, <4>4, MarksNotClean
    <3>8. QED BY <3>2, <3>3, <3>6, <3>7
  <2>2. QED BY <1>8, <2>1 DEF UnmovedInv
<1>17. ASSUME NEW q \in Pullers, NEW i \in DOMAIN stack'[q] PROVE Recomputed(stack[q][i])'
  <2>1. PICK x \in Frames : x = stack'[q][i] BY <1>9
  <2>2. ASSUME Busy(x), Clean(x)' PROVE Busy(stack[q][i]) /\ Clean(stack[q][i]) BY <1>9, <1>10, <2>1, <2>2
  <2>3. i \in DOMAIN stack[q] /\ Recomputed(stack[q][i]) BY <1>1, <1>9 DEF CacheOK
  <2>4. Recomputed(x)'
    <3>1. CASE x = stack[q][i] BY <1>0, <1>8, <2>2, <2>3, <3>1 DEF Recomputed, Busy
    <3>2. CASE x # stack[q][i]
      <4>1. x = g /\ stack[q][i] = f BY <1>4, <1>9, <2>1, <3>2
      <4>2. Busy(x) /\ Clean(x)' => x.val = Hash(x.node) BY <1>2, <1>4, <2>2, <2>3, <4>1 DEF Recomputed
      <4>3. QED BY <1>2, <1>8, <4>1, <4>2 DEF Recomputed, Busy
    <3>3. QED BY <3>1, <3>2
  <2>5. QED BY <2>1, <2>4 DEF Recomputed, Busy, Clean
<1>18. ASSUME NEW q \in Pullers, NEW i \in DOMAIN stack'[q], Vouched(stack[q], i)'
       PROVE  Trusted(stack[q][i])'
  <2>1. PICK j \in DOMAIN stack'[q] :
          /\ i < j \/ (i = j /\ stack'[q][i].node = Top)
          /\ stack'[q][j].mode # "digest" /\ Clean(stack[q][j])'
    BY <1>18 DEF Vouched
  <2>2. PICK x \in Frames, y \in Frames : x = stack'[q][j] /\ y = stack'[q][i] BY <1>9
  <2>3. Clean(x)' BY <2>1, <2>2 DEF Clean
  <2>4. Clean(stack[q][j]) /\ x.node # u /\ x.epoch # 0 BY <1>10, <2>2, <2>3
  <2>5. i \in DOMAIN stack[q] /\ j \in DOMAIN stack[q] BY <1>9
  <2>6. Vouched(stack[q], i) BY <1>9, <2>1, <2>4, <2>5 DEF Vouched
  <2>7. Trusted(stack[q][i]) BY <1>1, <2>5, <2>6 DEF CacheOK
  <2>8. y.node # u
    <3>1. CASE i = j BY <2>2, <2>4, <3>1
    <3>2. CASE i < j
      <4>1. SUFFICES ASSUME y.node = u PROVE FALSE OBVIOUS
      <4>2. stack[q][j].mode # "digest" /\ stack[q][j].epoch # 0 BY <1>9, <2>1, <2>2, <2>4
      <4>3. stack[q][j].pc = "child" /\ stack[q][j].node < stack[q][i].node
        BY <2>5, <3>2, <4>2, CallsApart
      <4>4. Busy(stack[q][j]) BY <4>2, <4>3 DEF Busy
      <4>5. ~(stack[q][j].node < f.node) BY <1>1, <1>2, <2>4, <2>5, <4>4, MarksNotClean
      <4>6. stack[q][i].node = u BY <1>9, <2>2, <4>1
      <4>7. PICK a \in 1 .. Depth, b \in 1 .. Depth : a = stack[q][j].node /\ b = f.node
        BY <1>4, <2>5, FrameAt, Chain DEF Frames
      <4>8. a < u /\ ~(a < b) /\ ~(b < u) BY <1>5, <4>3, <4>5, <4>6, <4>7
      <4>9. QED BY <4>8, Chain
    <3>3. QED BY <2>1, <3>1, <3>2
  <2>9. y = stack[q][i]
    <3>1. SUFFICES ASSUME y # stack[q][i] PROVE FALSE OBVIOUS
    <3>2. stack[q][i] = f BY <1>4, <1>9, <2>2, <3>1
    <3>3. QED BY <1>2, <2>7, <3>2 DEF Trusted
  <2>10. y.node \in Nodes BY DEF Frames
  <2>11. Trusted(y)' BY <1>0, <1>6, <1>8, <1>12, <2>7, <2>8, <2>9, <2>10 DEF Trusted
  <2>12. QED BY <2>2, <2>11 DEF Trusted, AllCurrent
<1>19. QED BY <1>0, <1>1, <1>11, <1>14, <1>15, <1>16, <1>17, <1>18 DEF CacheOK

-----------------------------------------------------------------------------
(* Transitions *)

LEMMA HashKept ==
  ASSUME HashTypeOK, HashTypeOK', NEW n \in Nodes, n <= Bottom, Bottom' = Bottom,
         \A k \in Nodes : n <= k => surface'[k] = surface[k]
  PROVE  Hash(n)' = Hash(n)
<1>1. PICK b \in 1 .. Depth : b = Bottom /\ n <= b BY Chain
<1>2. PICK a \in Int : a = n BY Chain
<1>3. ASSUME NEW i \in a .. b PROVE i \in Nodes /\ n <= i BY <1>1, <1>2, Chain
<1>4. \A i \in a .. b : surface[i] \in Nat /\ surface'[i] \in Nat BY <1>3 DEF HashTypeOK
<1>5. b \in Int /\ a <= b BY <1>1, <1>2
<1>6. PICK x, y : x = SubSeq(surface, a, b) /\ y = SubSeq(surface', a, b) OBVIOUS
<1>7. x \in Seq(Nat) /\ Len(x) = b - a + 1 /\ \A i \in 1 .. b - a + 1 : x[i] = surface[a + i - 1]
  BY <1>4, <1>5, <1>6, SubSeqProperties
<1>8. y \in Seq(Nat) /\ Len(y) = b - a + 1 /\ \A i \in 1 .. b - a + 1 : y[i] = surface'[a + i - 1]
  BY <1>4, <1>5, <1>6, SubSeqProperties
<1>9. ASSUME NEW i \in 1 .. b - a + 1 PROVE x[i] = y[i]
  <2>1. PICK k \in a .. b : k = a + i - 1 BY <1>5
  <2>2. surface'[k] = surface[k] BY <1>3
  <2>3. QED BY <1>7, <1>8, <2>1, <2>2
<1>10. x = y BY <1>7, <1>8, <1>9, SeqEqual
<1>11. QED BY <1>1, <1>2, <1>6, <1>10 DEF Hash

\* After a transition the epoch of node n has moved, or the transition is none
\* of n's, nor of what is under n; or n is new.
Settled(n) ==
    \/ hash_epoch_[n] < hash_epoch_'[n]
    \/ /\ ~Unmarked(n) /\ Bottom' = Bottom /\ Hash(n)' = Hash(n) /\ surface'[n] = surface[n]
       /\ \A k \in Nodes : n <= k => hash_epoch_'[k] = hash_epoch_[k]
    \/ /\ hash_valid_epoch_[n] # hash_epoch_'[n]
       /\ \A q \in Pullers : \A i \in DOMAIN stack[q] : stack[q][i].node # n

LEMMA MoveStep ==
  ASSUME ControlInv, ControlInv', CacheInv, UNCHANGED <<cacheVars, pullVars>>,
         \A n \in Nodes : hash_epoch_[n] <= hash_epoch_'[n],
         \A q \in Pullers : moved[q] => moved'[q],
         ~crossed => \A q \in Pullers : Auditing(q) => moved'[q],
         \A n \in Nodes : n <= Bottom' /\ ~Unmarked(n)' => Settled(n)
  PROVE  CacheInv'
<1>0. /\ stack' = stack /\ diverged' = diverged /\ crossed' = crossed
      /\ hash_valid_epoch_' = hash_valid_epoch_ /\ hash_cached_' = hash_cached_
  BY DEF cacheVars, pullVars
<1> SUFFICES ASSUME ~crossed PROVE CacheOK' BY <1>0 DEF CacheInv
<1>1. CacheOK BY DEF CacheInv
<1>2. \A n \in Nodes : /\ hash_epoch_[n] \in Nat /\ hash_epoch_'[n] \in Nat
                       /\ hash_valid_epoch_[n] \in Nat /\ hash_valid_epoch_[n] <= hash_epoch_[n]
  BY DEF ControlInv, HashTypeOK
<1>3. OneEpoch' BY <1>0, <1>1 DEF CacheOK, OneEpoch, Busy
<1>4. ASSUME NEW n \in Nodes, hash_epoch_'[n] = hash_epoch_[n], AllCurrent(n) PROVE AllCurrent(n)'
  BY <1>0, <1>4 DEF AllCurrent, Busy
<1>5. ASSUME NEW n \in Nodes, hash_valid_epoch_[n] = hash_epoch_'[n]
      PROVE  hash_epoch_'[n] = hash_epoch_[n]
  <2>1. hash_epoch_[n] <= hash_epoch_'[n] OBVIOUS
  <2>2. QED BY <1>2, <1>5, <2>1
<1>6. CurrentInv' BY <1>0, <1>1, <1>4, <1>5 DEF CurrentInv, CacheOK
<1>7. UnmovedInv' BY <1>0 DEF UnmovedInv, Auditing
<1>8. BelievedInv'
  <2>1. ASSUME NEW n \in Top .. Bottom', hash_valid_epoch_[n] = hash_epoch_'[n], ~Unmarked(n)'
        PROVE  hash_cached_[n] = Hash(n)'
    <3>1. Bottom' \in Nodes BY Chain DEF Bottom
    <3>2. n \in Nodes /\ n <= Bottom' BY <3>1, Chain
    <3>3. hash_epoch_'[n] = hash_epoch_[n] BY <1>5, <2>1, <3>2
    <3>4. ~(hash_epoch_[n] < hash_epoch_'[n]) BY <1>2, <3>2, <3>3
    <3>5. ~Unmarked(n) /\ Bottom' = Bottom /\ Hash(n)' = Hash(n) BY <2>1, <3>2, <3>4 DEF Settled
    <3>6. QED BY <1>1, <2>1, <3>3, <3>5 DEF CacheOK, BelievedInv
  <2>2. QED BY <1>0, <2>1 DEF BelievedInv
<1>9. ASSUME NEW q \in Pullers, NEW i \in DOMAIN stack[q], Clean(stack[q][i])'
      PROVE  \E n \in Nodes :
                /\ n = stack[q][i].node /\ Clean(stack[q][i]) /\ Bottom' = Bottom /\ ~Unmarked(n)'
                /\ Hash(n)' = Hash(n) /\ surface'[n] = surface[n]
                /\ \A k \in Nodes : n <= k => hash_epoch_'[k] = hash_epoch_[k]
  <2>1. PICK n \in Nodes, e \in Nat : n = stack[q][i].node /\ e = stack[q][i].epoch BY FrameAt DEF Frames
  <2>2. n <= Bottom' /\ e # 0 /\ e = hash_epoch_'[n] /\ ~Unmarked(n)' BY <1>0, <1>9, <2>1 DEF Clean
  <2>3. e <= hash_epoch_[n] BY <2>1, FrameAt
  <2>4. ~(hash_epoch_[n] < hash_epoch_'[n]) BY <1>2, <2>2, <2>3
  <2>5. /\ ~Unmarked(n) /\ Bottom' = Bottom /\ Hash(n)' = Hash(n) /\ surface'[n] = surface[n]
        /\ \A k \in Nodes : n <= k => hash_epoch_'[k] = hash_epoch_[k]
    BY <2>1, <2>2, <2>4 DEF Settled
  <2>6. hash_epoch_'[n] = hash_epoch_[n] BY <2>5, Chain
  <2>7. Clean(stack[q][i]) BY <2>1, <2>2, <2>5, <2>6 DEF Clean
  <2>8. QED BY <2>1, <2>2, <2>5, <2>7
<1>10. ASSUME NEW q \in Pullers, NEW i \in DOMAIN stack[q] PROVE Recomputed(stack[q][i])'
  <2>1. SUFFICES ASSUME Busy(stack[q][i]), Clean(stack[q][i])' PROVE Recomputed(stack[q][i])'
    BY <1>0 DEF Recomputed, Busy
  <2>2. PICK n \in Nodes :
          /\ n = stack[q][i].node /\ Clean(stack[q][i])
          /\ Hash(n)' = Hash(n) /\ surface'[n] = surface[n]
    BY <1>9, <2>1
  <2>3. Recomputed(stack[q][i]) BY <1>1 DEF CacheOK
  <2>4. QED BY <1>0, <2>1, <2>2, <2>3 DEF Recomputed
<1>11. ASSUME NEW q \in Pullers, NEW i \in DOMAIN stack[q], Vouched(stack[q], i)'
       PROVE  Trusted(stack[q][i])'
  <2>1. PICK j \in DOMAIN stack[q] :
          /\ i < j \/ (i = j /\ stack[q][i].node = Top)
          /\ stack[q][j].mode # "digest" /\ Clean(stack[q][j])'
    BY <1>0, <1>11 DEF Vouched
  <2>2. PICK n \in Nodes :
          /\ n = stack[q][j].node /\ Clean(stack[q][j]) /\ Bottom' = Bottom /\ ~Unmarked(n)'
          /\ \A k \in Nodes : n <= k => hash_epoch_'[k] = hash_epoch_[k]
    BY <1>9, <2>1
  <2>3. Trusted(stack[q][i]) BY <1>1, <2>1, <2>2 DEF CacheOK, Vouched
  <2>4. PICK k \in Nodes : k = stack[q][i].node BY FrameAt DEF Frames
  <2>5. n <= k
    <3>1. CASE i = j BY <2>2, <2>4, <3>1, Chain
    <3>2. CASE i < j BY <2>1, <2>2, <2>4, <3>2, CallsApart, Chain
    <3>3. QED BY <2>1, <3>1, <3>2
  <2>6. ~Unmarked(k)'
    <3>1. \A m \in Movers : mark'[m] \in 0 .. Depth BY DEF ControlInv, HashTypeOK
    <3>2. \A m \in Movers : ~(mark'[m] >= n) BY <2>2 DEF Unmarked
    <3>3. \A m \in Movers : ~(mark'[m] >= k) BY <2>5, <3>1, <3>2, Chain
    <3>4. QED BY <2>2, <3>3 DEF Unmarked
  <2>7. hash_epoch_'[k] = hash_epoch_[k] BY <2>2, <2>5
  <2>8. k <= Bottom' BY <2>2, <2>3, <2>4 DEF Trusted
  <2>9. ~(hash_epoch_[k] < hash_epoch_'[k]) BY <1>2, <2>7
  <2>10. Hash(k)' = Hash(k) BY <2>4, <2>6, <2>8, <2>9 DEF Settled
  <2>11. QED BY <1>0, <1>4, <2>3, <2>4, <2>7, <2>8, <2>10 DEF Trusted
<1>12. \A q \in Pullers : diverged'[q] => moved'[q] BY <1>0, <1>1 DEF CacheOK
<1>13. QED BY <1>0, <1>3, <1>6, <1>7, <1>8, <1>10, <1>11, <1>12 DEF CacheOK

LEMMA CacheTransition ==
  ASSUME ControlInv, ControlInv', CacheInv, NEW m \in Movers, NEW k \in Nodes, Transition(m, k),
         \/ leaf' = leaf /\ \A l \in Nodes : l # k => surface'[l] = surface[l]
         \/ k = Depth - 1 /\ (leaf = "absent" \/ leaf' = "left")
  PROVE  CacheInv'
<1>1. UNCHANGED <<cacheVars, pullVars>> /\ hash_epoch_' = hash_epoch_
      /\ mark[m] = 0 /\ mark' = [mark EXCEPT ![m] = k]
      /\ moved' = [q \in Pullers |-> moved[q] \/ Auditing(q)]
  BY DEF Transition
<1>2. \A q \in Pullers : (moved[q] => moved'[q]) /\ (Auditing(q) => moved'[q]) BY <1>1, Zenon
<1>3. \A n \in Nodes : hash_epoch_[n] \in Nat /\ hash_epoch_[n] <= hash_epoch_'[n]
  BY <1>1 DEF ControlInv, HashTypeOK
<1>4. ASSUME NEW n \in Nodes, n <= Bottom', ~Unmarked(n)' PROVE Settled(n)
  <2>1. \A l \in Movers : mark[l] \in 0 .. Depth /\ ~(mark'[l] >= n) BY <1>4 DEF ControlInv, HashTypeOK, Unmarked
  <2>2. mark'[m] = k /\ \A l \in Movers : l # m => mark'[l] = mark[l] BY <1>1 DEF ControlInv, HashTypeOK
  <2>3. k < n /\ leaf' # "retiring" BY <1>4, <2>1, <2>2, Chain DEF Unmarked
  <2>4. CASE leaf' = leaf /\ \A l \in Nodes : l # k => surface'[l] = surface[l]
    <3>1. Bottom' = Bottom BY <2>4 DEF Bottom
    <3>2. ~Unmarked(n)
      <4>1. \A l \in Movers : ~(mark[l] >= n) BY <1>1, <2>1, <2>2, Chain
      <4>2. QED BY <2>3, <2>4, <4>1 DEF Unmarked
    <3>3. \A l \in Nodes : n <= l => surface'[l] = surface[l] BY <2>3, <2>4, Chain
    <3>4. Hash(n)' = Hash(n) BY <1>4, <3>1, <3>3, HashKept DEF ControlInv
    <3>5. surface'[n] = surface[n] BY <3>3, Chain
    <3>6. QED BY <1>1, <3>1, <3>2, <3>4, <3>5 DEF Settled
  <2>5. CASE k = Depth - 1 /\ (leaf = "absent" \/ leaf' = "left")
    <3>1. n = Depth BY <2>3, <2>5, Chain
    <3>2. leaf = "absent" BY <1>4, <2>5, <3>1, Chain DEF Bottom
    <3>3. hash_valid_epoch_[n] = 0 /\ \A q \in Pullers : \A i \in DOMAIN stack[q] : stack[q][i].node # n
      BY <3>1, <3>2 DEF ControlInv
    <3>4. hash_epoch_'[n] # 0 BY DEF ControlInv, HashTypeOK
    <3>5. QED BY <3>3, <3>4 DEF Settled
  <2>6. QED BY <2>4, <2>5
<1>5. QED BY <1>1, <1>2, <1>3, <1>4, MoveStep

LEMMA CacheMove ==
  ASSUME ControlInv, ControlInv', CacheInv, (\E m \in Movers : Move(m)) \/ BeginRetire
  PROVE  CacheInv'
<1>1. CASE BeginRetire
  <2>1. UNCHANGED <<cacheVars, pullVars>> /\ hash_epoch_' = hash_epoch_ /\ leaf' = "retiring"
    BY <1>1 DEF BeginRetire
  <2>2. \A q \in Pullers : (moved[q] => moved'[q]) /\ (Auditing(q) => moved'[q])
    BY <1>1, Zenon DEF BeginRetire
  <2>3. \A n \in Nodes : hash_epoch_[n] \in Nat /\ hash_epoch_[n] <= hash_epoch_'[n]
    BY <2>1 DEF ControlInv, HashTypeOK
  <2>4. \A n \in Nodes : Unmarked(n)' BY <2>1 DEF Unmarked
  <2>5. QED BY <2>1, <2>2, <2>3, <2>4, MoveStep
<1>2. ASSUME NEW m \in Movers, Move(m) PROVE CacheInv'
  <2>1. CASE \E n \in Nodes : ModifyTag(m, n)
    <3>1. PICK k \in Nodes : ModifyTag(m, k) BY <2>1
    <3>2. leaf' = leaf /\ \A l \in Nodes : l # k => surface'[l] = surface[l]
      BY <3>1 DEF ModifyTag, ControlInv, HashTypeOK
    <3>3. QED BY <3>1, <3>2, CacheTransition DEF ModifyTag
  <2>2. CASE AddChild(m) \/ DetachFromParent(m)
    <3>1. PICK k \in Nodes : k = Depth - 1 BY Chain
    <3>2. Transition(m, k) /\ (leaf = "absent" \/ leaf' = "left")
      BY <2>2, <3>1 DEF AddChild, DetachFromParent
    <3>3. QED BY <3>1, <3>2, CacheTransition
  <2>3. CASE MarkStateChange(m)
    <3>1. PICK k \in 1 .. Depth : k = mark[m]
      <4>1. mark[m] \in 0 .. Depth /\ mark[m] # 0 BY <2>3 DEF MarkStateChange, ControlInv, HashTypeOK
      <4>2. QED BY <4>1, Chain
    <3>2. PICK j \in 0 .. Depth : j = k - 1 BY Chain
    <3>3. PICK e \in Nat : e = hash_epoch_[k] + 1 /\ hash_epoch_[k] < e
      <4>1. PICK d \in Nat : d = hash_epoch_[k] BY Chain DEF ControlInv, HashTypeOK
      <4>2. d + 1 \in Nat /\ d < d + 1 OBVIOUS
      <4>3. QED BY <4>1, <4>2
    <3>4. mark' = [mark EXCEPT ![m] = j] /\ hash_epoch_' = [hash_epoch_ EXCEPT ![k] = e]
      BY <2>3, <3>1, <3>2, <3>3 DEF MarkStateChange
    <3>5. UNCHANGED <<cacheVars, pullVars>> /\ moved' = moved /\ surface' = surface /\ leaf' = leaf
      BY <2>3 DEF MarkStateChange, stateVars
    <3>6. \A n \in Nodes : hash_epoch_'[n] = IF n = k THEN e ELSE hash_epoch_[n]
      BY <3>4 DEF ControlInv, HashTypeOK
    <3>7. \A n \in Nodes : hash_epoch_[n] <= hash_epoch_'[n]
      <4>1. \A n \in Nodes : hash_epoch_[n] \in Nat BY DEF ControlInv, HashTypeOK
      <4>2. QED BY <3>3, <3>6, <4>1
    <3>8. ASSUME ~crossed, NEW q \in Pullers, Auditing(q) PROVE moved'[q]
      <4>1. Unmarked(Top) BY <3>1, Chain DEF Unmarked
      <4>2. QED BY <3>5, <3>8, <4>1 DEF CacheInv, CacheOK, UnmovedInv
    <3>9. ASSUME NEW n \in Nodes, n <= Bottom', ~Unmarked(n)' PROVE Settled(n)
      <4>1. \A l \in Movers : mark[l] \in 0 .. Depth /\ ~(mark'[l] >= n)
        BY <3>9 DEF ControlInv, HashTypeOK, Unmarked
      <4>2. mark'[m] = j /\ \A l \in Movers : l # m => mark'[l] = mark[l]
        BY <3>4 DEF ControlInv, HashTypeOK
      <4>3. n >= k BY <3>2, <4>1, <4>2, Chain
      <4>4. CASE n = k BY <3>3, <3>6, <4>4 DEF Settled
      <4>5. CASE n # k
        <5>1. n > k BY <4>3, <4>5, Chain
        <5>2. \A l \in Movers : ~(mark[l] >= n) BY <3>1, <4>1, <4>2, <5>1, Chain
        <5>3. ~Unmarked(n) BY <3>5, <3>9, <5>2 DEF Unmarked
        <5>4. Bottom' = Bottom /\ Hash(n)' = Hash(n) BY <3>5 DEF Bottom, Hash
        <5>5. \A l \in Nodes : n <= l => hash_epoch_'[l] = hash_epoch_[l] BY <3>6, <5>1, Chain
        <5>6. QED BY <3>5, <5>3, <5>4, <5>5 DEF Settled
      <4>6. QED BY <4>4, <4>5
    <3>10. QED BY <3>5, <3>7, <3>8, <3>9, MoveStep
  <2>4. QED BY <1>2, <2>1, <2>2, <2>3 DEF Move
<1>3. QED BY <1>1, <1>2

-----------------------------------------------------------------------------
(* What is believed is true *)

LEMMA CacheInit == Init => CacheInv
<1>1. ASSUME Init PROVE CacheOK
  <2>1. \A p \in Pullers : stack[p] = << >> /\ DOMAIN stack[p] = {} BY <1>1 DEF Init
  <2>2. \A n \in Nodes : hash_valid_epoch_[n] # hash_epoch_[n] BY <1>1 DEF Init
  <2>3. \A n \in Top .. Bottom : n \in Nodes BY Chain
  <2>4. \A p \in Pullers : ~diverged[p] BY <1>1 DEF Init
  <2>5. OneEpoch /\ CurrentInv BY <2>1, <2>2 DEF OneEpoch, CurrentInv
  <2>6. UnmovedInv BY <2>1 DEF UnmovedInv, Auditing
  <2>7. BelievedInv BY <2>2, <2>3 DEF BelievedInv
  <2>8. QED BY <2>1, <2>4, <2>5, <2>6, <2>7 DEF CacheOK
<1>2. QED BY <1>1 DEF CacheInv

LEMMA CacheNext ==
  ASSUME ControlInv, CacheInv, [Next]_vars
  PROVE  CacheInv'
<1>0. ControlInv' BY ControlNext
<1>1. CASE (\E m \in Movers : Move(m)) \/ BeginRetire BY <1>0, <1>1, CacheMove
<1>2. ASSUME NEW p \in Pullers, Pull(p) \/ Recomputation(p) PROVE CacheInv'
  BY <1>0, <1>2, CachePull, CacheLoadEpoch, CacheLoadValid, CacheAudits, CacheReads, CacheCompare,
     CacheAuditMarks, CacheStores, CacheCopies, CacheAnswered
  DEF Recomputation
<1>3. CASE UNCHANGED vars
  <2>1. UNCHANGED <<surface, leaf, hash_epoch_, hash_valid_epoch_, hash_cached_, mark, stack, moved, diverged, crossed>>
    BY <1>3 DEF vars, stateVars, cacheVars, pullVars
  <2>2. CacheInv' <=> CacheInv
    BY <2>1 DEF CacheInv, CacheOK, OneEpoch, CurrentInv, AllCurrent, UnmovedInv, Auditing, BelievedInv,
       Recomputed, Vouched, Trusted, Clean, Busy, Hash, Bottom, Unmarked
  <2>3. QED BY <2>2
<1>4. QED BY <1>1, <1>2, <1>3 DEF Next

LEMMA CacheCorrect == Spec => [](ControlInv /\ CacheInv)
<1>1. Init => ControlInv /\ CacheInv BY ControlInit, CacheInit
<1>2. ControlInv /\ CacheInv /\ [Next]_vars => (ControlInv /\ CacheInv)'
  BY ControlNext, CacheNext
<1>3. QED BY <1>1, <1>2, PTL DEF Spec

\* A hash that is current is the hash of the state: the stamp's epoch was read
\* before the state, so a transition that the recompute may have missed has
\* moved the epoch past it. As long as recomputes of one node do not cross.
THEOREM CurrentIsTrue == Spec => []BelievedIsTrue
<1>1. ControlInv /\ CacheInv => BelievedIsTrue
  BY DEF CacheInv, CacheOK, BelievedInv, BelievedIsTrue
<1>2. QED BY <1>1, CacheCorrect, PTL

\* An audit that compares caches it has found current with what it recomputes
\* reports no divergence, unless a transition went on in its time.
THEOREM AuditsAgree == Spec => []AuditFindsNothing
<1>1. ControlInv /\ CacheInv => AuditFindsNothing
  BY DEF CacheInv, CacheOK, AuditFindsNothing
<1>2. QED BY <1>1, CacheCorrect, PTL
=============================================================================
