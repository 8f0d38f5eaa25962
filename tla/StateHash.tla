------------------------------ MODULE StateHash ------------------------------
(***************************************************************************)
(* The node hash of src/core/Entity.h: a value per node over its state and  *)
(* everything under it, kept in three words that no lock covers. A state    *)
(* transition only counts up the epoch of every node from where it happened *)
(* to the top (markStateChange); whoever wants the hash recomputes what is  *)
(* not current and stamps it with the epoch it had read before (getHash,    *)
(* getDigest, and the audit of etcs_root_hash, which believes no cache).    *)
(*                                                                          *)
(* The tree is a chain, 1 at the top; its last node may enter and leave.    *)
(* XXH3 and SHA-256 are injective on what is hashed: the hash of a node is  *)
(* the sequence of the surfaces it stands for.                              *)
(***************************************************************************)
EXTENDS Integers, Sequences

CONSTANTS
    Depth,      \* nodes of the chain
    Movers,     \* the threads that make state transitions
    Pullers,    \* the threads that ask for hashes
    MaxChanges, \* bound: how many transitions there are
    MaxEpoch,   \* bound: audits count epochs up, too
    Asks        \* Asks[p]: what p asks for, of "lazy", "digest" and "audit"

ASSUME HashAssumption ==
    /\ Depth \in Nat \ {0, 1} /\ MaxChanges \in Nat /\ MaxEpoch \in Nat
    /\ Asks \in [Pullers -> SUBSET {"lazy", "digest", "audit"}]

Top == 1
Nodes == Top .. Depth

VARIABLES
    surface,            \* of each node: a number for its tags and flags
    leaf,               \* the last node: "absent", "attached", "retiring", "left"
    hash_epoch_, hash_valid_epoch_, hash_cached_,
    hash_digest_,       \* the two halves of the top's digest
    mark,               \* of each mover: the node whose epoch is next, 0 for none
    changes,            \* transitions so far
    stack,              \* of each puller: its calls, the innermost first
    moved,              \* the state has moved since this puller began its audit
    diverged,           \* this puller's audit has reported a divergence
    overlapped,         \* two recomputes of one node have been under way at once,
    crossed             \*   from different epochs (a getHash that is answered from
                        \*   the cache counts until it has found that out)

stateVars == <<surface, leaf, changes>>
cacheVars == <<hash_valid_epoch_, hash_cached_, hash_digest_>>
pullVars == <<stack, diverged, overlapped, crossed>>
vars == <<stateVars, hash_epoch_, cacheVars, mark, moved, pullVars>>

\* What a node's hash stands for now.
Bottom == IF leaf \in {"attached", "retiring"} THEN Depth ELSE Depth - 1
Hash(n) == SubSeq(surface, n, Bottom)

\* A transition whose marks are not all made yet. A child that retires counts
\* from the moment it refuses holds.
Unmarked(n) ==
    leaf = "retiring" \/ \E m \in Movers : mark[m] >= n

Init ==
    /\ surface = [n \in Nodes |-> 0]
    /\ leaf \in {"absent", "attached"}
    /\ hash_epoch_ = [n \in Nodes |-> 1]
    /\ hash_valid_epoch_ = [n \in Nodes |-> 0]
    /\ hash_cached_ = [n \in Nodes |-> << >>]
    /\ hash_digest_ = << << >>, << >> >>
    /\ mark = [m \in Movers |-> 0] /\ changes = 0
    /\ stack = [p \in Pullers |-> << >>]
    /\ moved = [p \in Pullers |-> FALSE]
    /\ diverged = [p \in Pullers |-> FALSE]
    /\ overlapped = FALSE /\ crossed = FALSE

Auditing(p) == stack[p] # << >> /\ stack[p][Len(stack[p])].mode = "audit"

-----------------------------------------------------------------------------
(* Transitions: the state first, then the epochs from there to the top *)

\* m makes a transition, which node n and all above it have to hear of.
Transition(m, n) ==
    /\ changes < MaxChanges
    /\ mark[m] = 0
    /\ changes' = changes + 1
    /\ mark' = [mark EXCEPT ![m] = n]
    /\ moved' = [p \in Pullers |-> moved[p] \/ Auditing(p)]
    /\ UNCHANGED <<hash_epoch_, cacheVars, pullVars>>

\* tagModifyImpl: the tag or flag under the mutex, and then the marks.
ModifyTag(m, n) ==
    /\ n < Depth \/ leaf = "attached"
    /\ surface' = [surface EXCEPT ![n] = @ + 1]
    /\ Transition(m, n)
    /\ UNCHANGED leaf

\* addTagImpl: the trampoline attaches the child, and then the marks.
AddChild(m) ==
    /\ leaf = "absent"
    /\ leaf' = "attached"
    /\ Transition(m, Depth - 1)
    /\ UNCHANGED surface

\* Mutation: the parent is not told.
DetachUnmarked(m) ==
    /\ leaf = "retiring"
    /\ leaf' = "left"
    /\ moved' = [p \in Pullers |-> moved[p] \/ Auditing(p)]
    /\ UNCHANGED <<surface, changes, mark, hash_epoch_, cacheVars, pullVars>>

\* etcs_retire_entity: the gate, later the parent's child list and the marks.
BeginRetire ==
    /\ leaf = "attached"
    /\ leaf' = "retiring"
    /\ moved' = [p \in Pullers |-> moved[p] \/ Auditing(p)]
    /\ UNCHANGED <<surface, changes, mark, hash_epoch_, cacheVars, pullVars>>

DetachFromParent(m) ==
    /\ leaf = "retiring"
    /\ leaf' = "left"
    /\ Transition(m, Depth - 1)
    /\ UNCHANGED surface

MarkStateChange(m) ==
    /\ mark[m] # 0
    /\ hash_epoch_' = [hash_epoch_ EXCEPT ![mark[m]] = @ + 1]
    /\ mark' = [mark EXCEPT ![m] = @ - 1]
    /\ UNCHANGED <<stateVars, cacheVars, moved, pullVars>>

-----------------------------------------------------------------------------
(* Pulls: one load or store of a shared word a step *)

Frame(n, mode, pc) ==
    [node |-> n, mode |-> mode, pc |-> pc, epoch |-> 0, val |-> << >>, was |-> << >>, up |-> 0]

Calls(p, f) == stack' = [stack EXCEPT ![p] = <<f>> \o @]
Becomes(p, f) == stack' = [stack EXCEPT ![p] = <<f>> \o Tail(@)]

\* The innermost call of p is at one of these points.
At(p, pcs) == stack[p] # << >> /\ Head(stack[p]).pc \in pcs

\* It answers v: to its caller, who appends it to what is hashed. getDigest
\* calls getHash for its effect only and starts again.
Answers(p, v) ==
    stack' = [stack EXCEPT ![p] =
        IF Len(@) = 1 THEN << >>
        ELSE LET caller == @[2]
             IN <<IF caller.mode = "digest"
                  THEN [caller EXCEPT !.pc = "epoch"]
                  ELSE [caller EXCEPT !.pc = "compare", !.val = @ \o v]>>
                \o SubSeq(@, 3, Len(@))]

OnlyStack == UNCHANGED <<stateVars, hash_epoch_, cacheVars, mark, moved, diverged, overlapped, crossed>>

\* getHash of any node that stays, getDigest and etcs_root_hash of the top.
\* Bounds: nobody asks any more at an epoch past MaxEpoch, or once recomputes
\* have crossed, after which no property promises anything.
Pull(p) ==
    /\ stack[p] = << >> /\ ~crossed /\ hash_epoch_[Top] <= MaxEpoch
    /\ \E mode \in Asks[p] : \E n \in Top .. Depth - 1 :
        /\ mode # "lazy" => n = Top
        /\ Calls(p, Frame(n, mode, "epoch"))
        /\ moved' = [moved EXCEPT ![p] = mode = "audit" /\ Unmarked(Top)]
    /\ diverged' = [diverged EXCEPT ![p] = FALSE]
    /\ UNCHANGED <<stateVars, hash_epoch_, cacheVars, mark, overlapped, crossed>>

\* Another puller has read the epoch of node n, for which Test holds, and has
\* not stamped it yet. One that will find the cache current is not known to, and
\* counts from its load of the epoch to its hit: a little more than recomputes.
UnderWay(n, p, Test(_)) ==
    \E q \in Pullers \ {p} : \E i \in DOMAIN stack[q] :
        LET f == stack[q][i]
        IN f.node = n /\ f.mode # "digest" /\ f.epoch # 0 /\ f.pc # "hit" /\ Test(f.epoch)

\* The epoch first. An audit of the top reads it before it looks at the
\* cache, an audit of a child after.
LoadEpoch(p) ==
    /\ At(p, {"epoch"})
    /\ LET f == Head(stack[p])
           e == hash_epoch_[f.node]
           next == IF f.mode # "audit" THEN "valid" ELSE IF f.node = Top THEN "current" ELSE "surface"
       IN /\ Becomes(p, [f EXCEPT !.epoch = e, !.pc = next])
          /\ IF f.mode = "digest" THEN UNCHANGED <<overlapped, crossed>>
             ELSE /\ overlapped' = (overlapped \/ UnderWay(f.node, p, LAMBDA x : TRUE))
                  /\ crossed' = (crossed \/ UnderWay(f.node, p, LAMBDA x : x # e))
    /\ UNCHANGED <<stateVars, hash_epoch_, cacheVars, mark, moved, diverged>>

LoadValid(p) ==
    /\ At(p, {"valid"})
    /\ LET f == Head(stack[p])
           current == hash_valid_epoch_[f.node] = f.epoch
           hit  == IF f.mode = "digest" THEN "half1" ELSE "hit"
       IN IF f.mode = "digest" /\ ~current
          THEN Calls(p, Frame(Top, "lazy", "epoch"))
          ELSE Becomes(p, [f EXCEPT !.pc = IF current THEN hit ELSE "surface"])
    /\ OnlyStack

LoadCached(p) ==
    /\ At(p, {"hit"})
    /\ Answers(p, hash_cached_[Head(stack[p]).node])
    /\ OnlyStack

AuditGoesOn(f) == IF f.node = Top THEN "surface" ELSE "epoch"

\* The audit's hashCurrent() and hashCached().
AuditCurrent(p) ==
    /\ At(p, {"current"})
    /\ LET f == Head(stack[p])
           current == hash_valid_epoch_[f.node] = hash_epoch_[f.node]
       IN Becomes(p, [f EXCEPT !.pc = IF current THEN "was" ELSE AuditGoesOn(f)])
    /\ OnlyStack

AuditCached(p) ==
    /\ At(p, {"was"})
    /\ LET f == Head(stack[p])
       IN Becomes(p, [f EXCEPT !.pc = AuditGoesOn(f), !.was = <<hash_cached_[f.node]>>])
    /\ OnlyStack

ReadSurface(p) ==
    /\ At(p, {"surface"})
    /\ LET f == Head(stack[p])
       IN Becomes(p, [f EXCEPT !.pc = "child", !.val = <<surface[f.node]>>])
    /\ OnlyStack

\* getTypedChild and the LifetimeHold: a child that retires is skipped.
ReadChild(p) ==
    /\ At(p, {"child"})
    /\ LET f == Head(stack[p])
           n == f.node + 1
       IN IF n < Depth \/ (n = Depth /\ leaf = "attached")
          THEN Calls(p, Frame(n, f.mode, IF f.mode = "audit" THEN "current" ELSE "epoch"))
          ELSE Becomes(p, [f EXCEPT !.pc = "compare"])
    /\ OnlyStack

StampPC(f) == IF f.node = Top THEN "digest1" ELSE "cached"

\* An audit that finds a current cache wrong says so and marks from there up.
Compare(p) ==
    /\ At(p, {"compare"})
    /\ LET f == Head(stack[p])
           wrong == f.was # << >> /\ f.was # <<f.val>>
       IN /\ Becomes(p, IF wrong THEN [f EXCEPT !.pc = "mark", !.up = f.node]
                        ELSE [f EXCEPT !.pc = StampPC(f)])
          /\ diverged' = [diverged EXCEPT ![p] = @ \/ wrong]
    /\ UNCHANGED <<stateVars, hash_epoch_, cacheVars, mark, moved, overlapped, crossed>>

AuditMarks(p) ==
    /\ At(p, {"mark"})
    /\ LET f == Head(stack[p])
       IN /\ hash_epoch_' = [hash_epoch_ EXCEPT ![f.up] = @ + 1]
          /\ Becomes(p, [f EXCEPT !.up = @ - 1, !.pc = IF f.up = Top THEN StampPC(f) ELSE "mark"])
    /\ UNCHANGED <<stateVars, cacheVars, mark, moved, diverged, overlapped, crossed>>

Stamping == UNCHANGED <<stateVars, hash_epoch_, mark, moved, diverged, overlapped, crossed>>

\* stampHash: the digest, the value, the epoch.
StampDigest(p) ==
    /\ At(p, {"digest1", "digest2"})
    /\ LET f == Head(stack[p])
           first == f.pc = "digest1"
       IN /\ hash_digest_' = [hash_digest_ EXCEPT ![IF first THEN 1 ELSE 2] = f.val]
          /\ Becomes(p, [f EXCEPT !.pc = IF first THEN "digest2" ELSE "cached"])
    /\ Stamping /\ UNCHANGED <<hash_cached_, hash_valid_epoch_>>

StampCached(p) ==
    /\ At(p, {"cached"})
    /\ LET f == Head(stack[p])
       IN /\ hash_cached_' = [hash_cached_ EXCEPT ![f.node] = f.val]
          /\ Becomes(p, [f EXCEPT !.pc = "stamp"])
    /\ Stamping /\ UNCHANGED <<hash_digest_, hash_valid_epoch_>>

\* Mutation: the stamp is the epoch at the end of the recompute.
StampLateEpoch(p) ==
    /\ At(p, {"stamp"})
    /\ LET f == Head(stack[p])
       IN /\ hash_valid_epoch_' = [hash_valid_epoch_ EXCEPT ![f.node] = hash_epoch_[f.node]]
          /\ Answers(p, f.val)
    /\ Stamping /\ UNCHANGED <<hash_cached_, hash_digest_>>

StampEpoch(p) ==
    /\ At(p, {"stamp"})
    /\ LET f == Head(stack[p])
       IN /\ hash_valid_epoch_' = [hash_valid_epoch_ EXCEPT ![f.node] = f.epoch]
          /\ Answers(p, f.val)
    /\ Stamping /\ UNCHANGED <<hash_cached_, hash_digest_>>

\* getDigest's copy, in two halves,
CopyDigest(p) ==
    /\ At(p, {"half1", "half2"})
    /\ LET f == Head(stack[p])
       IN Becomes(p, IF f.pc = "half1"
                     THEN [f EXCEPT !.pc = "half2", !.was = <<hash_digest_[1]>>]
                     ELSE [f EXCEPT !.pc = "again", !.was = Append(@, hash_digest_[2])])
    /\ OnlyStack

\* Mutation: the epoch is not looked at again.
RecheckValidOnly(p) ==
    /\ At(p, {"again"})
    /\ LET f == Head(stack[p])
       IN IF f.epoch = hash_valid_epoch_[Top] THEN Answers(p, f.was)
          ELSE Becomes(p, [f EXCEPT !.pc = "epoch"])
    /\ OnlyStack

\* and the second look at the valid epoch and then at the epoch.
Recheck(p) ==
    /\ At(p, {"again", "again2"})
    /\ LET f == Head(stack[p])
           same == f.epoch = IF f.pc = "again" THEN hash_valid_epoch_[Top] ELSE hash_epoch_[Top]
       IN IF same /\ f.pc = "again2"
          THEN Answers(p, f.was)
          ELSE Becomes(p, [f EXCEPT !.pc = IF same THEN "again2" ELSE "epoch"])
    /\ OnlyStack

-----------------------------------------------------------------------------
Move(m) ==
    \/ \E n \in Nodes : ModifyTag(m, n)
    \/ AddChild(m) \/ DetachFromParent(m) \/ MarkStateChange(m)

Recomputation(p) ==
    \/ LoadEpoch(p) \/ LoadValid(p) \/ LoadCached(p)
    \/ AuditCurrent(p) \/ AuditCached(p)
    \/ ReadSurface(p) \/ ReadChild(p) \/ Compare(p) \/ AuditMarks(p)
    \/ StampDigest(p) \/ StampCached(p) \/ StampEpoch(p)
    \/ CopyDigest(p) \/ Recheck(p)

Next ==
    \/ \E m \in Movers : Move(m)
    \/ BeginRetire
    \/ \E p \in Pullers : Pull(p) \/ Recomputation(p)

Spec == Init /\ [][Next]_vars

-----------------------------------------------------------------------------
\* "the value is stored but never believed" (Entity.h:347): a cache that is
\* current holds the hash of the state, except while a transition has not
\* reached the node yet. It takes one writer of a node's words at a time: two
\* recomputes that began on either side of a transition can interleave their
\* stores and leave the older value under the newer epoch.
BelievedIsTrue ==
    ~crossed => \A n \in Top .. Bottom :
        hash_valid_epoch_[n] = hash_epoch_[n] /\ ~Unmarked(n) => hash_cached_[n] = Hash(n)

\* The copy getDigest answers is one stamp's, not two ("sees the epoch move
\* and reads again rather than taking a torn copy", Entity.h:356), as long as
\* no two recomputes of the top have been under way together.
DigestNotTorn ==
    [][~overlapped => \A p \in Pullers :
        At(p, {"again", "again2"}) /\ stack'[p] = << >>
            => Head(stack[p]).was[1] = Head(stack[p]).was[2]]_vars

\* An audit reports "a change that never went through a funnel", and in this
\* model every change goes through one: it reports nothing unless the tree
\* moved while it looked.
AuditFindsNothing ==
    ~crossed => \A p \in Pullers : diverged[p] => moved[p]
=============================================================================
