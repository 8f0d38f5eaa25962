------------------------------ MODULE DeleteGate ------------------------------
(***************************************************************************)
(* The delete gate of src/core/Entity.h and the reclaim that goes through   *)
(* it (DynamicLoader.h, MemoryArena.h): how an entity's memory is kept from *)
(* under the threads that walk it.                                          *)
(*                                                                          *)
(* One block of arena memory is modelled with the entities that live in it  *)
(* one after the other: a reclaimed block is zeroed and handed to the next  *)
(* allocation of its size. A walker is a thread in resolve_held(): it gets  *)
(* a pointer from a list, raises the count the pointer leads to, and lets   *)
(* go when its walk is over. The loader's ordering thread destroys: by an   *)
(* explicit Destroy event, or on the way down from a parent or an arena.    *)
(***************************************************************************)
EXTENDS Integers, FiniteSets

CONSTANTS
    Walkers,   \* the threads that may hold the entity
    Lives      \* bound: how many entities the block houses

ASSUME GateAssumption == Lives \in Nat \ {0} /\ IsFiniteSet(Walkers)

VARIABLES
    life,       \* the entities that have lived and died in the block
    alive,      \* an entity is in the block
    listed,     \* its RID is in the lists resolutions read
    retiring_, lifetime_holds_,   \* the gate: the entity's own words of the block
    wpc,        \* where each walker is in resolve_held,
    wlife,      \*   and which life its pointer was given in
    dpc,        \* where the ordering thread is in the destruction,
    rounds,     \*   and how many retire rounds are before it
    quiesced,   \* one of this life's waits has ended with nobody inside
    strayed     \* some walker has written the count of an entity that is gone

lifeVars == <<life, alive, listed>>
countVars == <<retiring_, lifetime_holds_>>
walkVars == <<wpc, wlife, strayed>>
destroyVars == <<dpc, rounds, quiesced>>
gateVars == <<lifeVars, countVars, walkVars, destroyVars>>

\* An entity that has been made and published.
GateInit ==
    /\ life = 0 /\ alive = TRUE /\ listed = TRUE
    /\ retiring_ = FALSE /\ lifetime_holds_ = 0
    /\ wpc = [w \in Walkers |-> "idle"] /\ wlife = [w \in Walkers |-> 0]
    /\ dpc = "idle" /\ rounds = 0
    /\ quiesced = FALSE /\ strayed = FALSE

-----------------------------------------------------------------------------
(* A walker: resolve_held, tryHold, the walk, releaseHold *)

WalkerAt(w, from, to) == wpc[w] = from /\ wpc' = [wpc EXCEPT ![w] = to]

\* What a walker adds to the count it adds to the count of whoever lives in
\* the block now.
Writes(w, n) ==
    /\ lifetime_holds_' = lifetime_holds_ + n
    /\ strayed' = (strayed \/ wlife[w] # life)
    /\ UNCHANGED <<lifeVars, retiring_, wlife, destroyVars>>

\* resolve_in_family answers from a list: the pointer holds nothing yet.
Resolve(w) ==
    /\ listed
    /\ WalkerAt(w, "idle", "found")
    /\ wlife' = [wlife EXCEPT ![w] = life]
    /\ UNCHANGED <<lifeVars, countVars, strayed, destroyVars>>

TestGate(w) ==
    /\ WalkerAt(w, "found", IF retiring_ THEN "idle" ELSE "open")
    /\ UNCHANGED <<lifeVars, countVars, wlife, strayed, destroyVars>>

Raise(w) == WalkerAt(w, "open", "raised") /\ Writes(w, 1)

\* Mutation: the gate is not read again after the raise.
RereadSkipped(w) ==
    /\ WalkerAt(w, "raised", "holding")
    /\ UNCHANGED <<lifeVars, countVars, wlife, strayed, destroyVars>>

Reread(w) ==
    /\ WalkerAt(w, "raised", IF retiring_ THEN "refused" ELSE "holding")
    /\ UNCHANGED <<lifeVars, countVars, wlife, strayed, destroyVars>>

\* Mutation: a refused walker leaves its raise in the count.
TakeBackForgotten(w) ==
    /\ WalkerAt(w, "refused", "idle")
    /\ UNCHANGED <<lifeVars, countVars, wlife, strayed, destroyVars>>

\* The gate had closed: the raise is taken back.
TakeBack(w) == WalkerAt(w, "refused", "idle") /\ Writes(w, -1)

ReleaseHold(w) == WalkerAt(w, "holding", "idle") /\ Writes(w, -1)

Walk(w) ==
    \/ Resolve(w) \/ TestGate(w) \/ Raise(w) \/ Reread(w)
    \/ TakeBack(w) \/ ReleaseHold(w)

-----------------------------------------------------------------------------
(* The ordering thread: destroyImpl, etcs_retire_entity, reclaimEntity *)

DestroyerAt(from, to) == dpc = from /\ dpc' = to

\* destroyImpl closes the gate, takes the RID off the lists and waits; then
\* reclaimEntity retires the entity and runRecordDtor retires it again.
DestroyImpl ==
    /\ listed
    /\ DestroyerAt("idle", "close")
    /\ rounds' = 2
    /\ UNCHANGED <<lifeVars, countVars, walkVars, quiesced>>

\* The ways down that no event asks for: an arena's walk over its records
\* retires each entity once, destroyChildEntitiesFirst three times.
Reclaim ==
    /\ alive
    /\ DestroyerAt("idle", "gate")
    /\ rounds' \in {1, 3}
    /\ UNCHANGED <<lifeVars, countVars, walkVars, quiesced>>

BeginRetire ==
    /\ \/ DestroyerAt("close", "delist")
       \/ DestroyerAt("gate", "await")
    /\ retiring_' = TRUE
    /\ UNCHANGED <<lifeVars, lifetime_holds_, walkVars, rounds, quiesced>>

\* etcs_supertype_fanin; at the end of a round the next one begins, or ~T().
FanIn ==
    /\ listed' = FALSE
    /\ \/ DestroyerAt("delist", "drain") /\ UNCHANGED rounds
       \/ /\ DestroyerAt("fanin", IF rounds > 1 THEN "gate" ELSE "free")
          /\ rounds' = rounds - 1
    /\ UNCHANGED <<life, alive, countVars, walkVars, quiesced>>

\* awaitQuiesced(2000): nobody inside, or two seconds are over and the
\* destruction goes on regardless.
AwaitQuiesced ==
    /\ \/ DestroyerAt("drain", "gate")
       \/ DestroyerAt("await", "fanin")
    /\ quiesced' = (quiesced \/ lifetime_holds_ = 0)
    /\ UNCHANGED <<lifeVars, countVars, walkVars, rounds>>

\* ~T(), and releaseToFreeList, which writes zeros over the block.
Free ==
    /\ DestroyerAt("free", "idle")
    /\ life' = life + 1
    /\ alive' = FALSE
    /\ retiring_' = FALSE /\ lifetime_holds_' = 0
    /\ quiesced' = FALSE
    /\ UNCHANGED <<listed, walkVars, rounds>>

Destroy == BeginRetire \/ FanIn \/ AwaitQuiesced \/ Free

\* The next allocation of the same size is constructed in the block.
Reuse ==
    /\ ~alive /\ life < Lives
    /\ alive' = TRUE /\ listed' = TRUE
    /\ retiring_' = FALSE /\ lifetime_holds_' = 0
    /\ UNCHANGED <<life, walkVars, destroyVars>>

GateNext ==
    \/ \E w \in Walkers : Walk(w)
    \/ DestroyImpl \/ Reclaim \/ Destroy \/ Reuse

GateSpec == GateInit /\ [][GateNext]_gateVars

-----------------------------------------------------------------------------
GateTypeOK ==
    /\ life \in Nat /\ alive \in BOOLEAN /\ listed \in BOOLEAN
    /\ retiring_ \in BOOLEAN /\ lifetime_holds_ \in Int
    /\ wpc \in [Walkers -> {"idle", "found", "open", "raised", "refused", "holding"}]
    /\ wlife \in [Walkers -> Nat]
    /\ dpc \in {"idle", "close", "delist", "drain", "gate", "await", "fanin", "free"}
    /\ rounds \in 0..3
    /\ quiesced \in BOOLEAN /\ strayed \in BOOLEAN

\* The walkers whose raise is in the count of the entity they raised.
Inside == {w \in Walkers : wpc[w] \in {"raised", "refused", "holding"} /\ wlife[w] = life}

\* As long as no walker has written to an entity that is gone, the count is
\* the number of walkers inside (tryHold and releaseHold of LifetimeHold).
CountIsInside == ~strayed => lifetime_holds_ = Cardinality(Inside)

\* What the gate is for: once a wait has found nobody inside, the memory is
\* reclaimed with no walk in it, whatever the walkers did in between. What is
\* left out is what the code cannot exclude: that all the waits ran out, and
\* that some walker was already astray.
FreedUnderNobody ==
    dpc = "free" /\ quiesced /\ ~strayed =>
        \A w \in Walkers : ~(wpc[w] = "holding" /\ wlife[w] = life)

\* Nobody has a pointer to an entity that does not live yet, and nobody
\* resolves one that is gone.
PointersAreOld ==
    /\ \A w \in Walkers : wlife[w] <= life
    /\ ~alive => ~listed /\ \A w \in Walkers : wlife[w] < life

\* How far the destruction is: something is there to destroy, it is off the
\* lists and its gate is closed before it goes.
DestructionInOrder ==
    /\ dpc # "idle" => alive
    /\ dpc = "idle" => ~quiesced
    /\ dpc = "free" => ~listed
    /\ dpc \in {"delist", "drain", "await", "fanin", "free"} => retiring_
    /\ dpc \in {"close", "delist", "drain", "gate", "await", "fanin"} => rounds >= 1

\* Why FreedUnderNobody holds: from the first wait that found nobody the gate
\* is closed, so a walker that raises after it takes its raise back.
NobodyAfterQuiesced ==
    /\ quiesced => retiring_
    /\ quiesced /\ ~strayed =>
        \A w \in Walkers : ~(wpc[w] = "holding" /\ wlife[w] = life)

GateInv ==
    GateTypeOK /\ CountIsInside /\ PointersAreOld /\ DestructionInOrder /\ NobodyAfterQuiesced
=============================================================================
