---------------------------- MODULE ModuleLifetime ----------------------------
(***************************************************************************)
(* When a module's library is mapped and when it goes: the lifetime owner   *)
(* of a module, its hand-off, and the delayed unload (attachModule,         *)
(* promoteOrVacate, changeModuleImpl, requestUnloadImpl of                  *)
(* src/core/DynamicLoader.h, the sibling searches of MemoryArena.h and      *)
(* EventNode.h, and PendingUnloadRegistry).                                 *)
(*                                                                          *)
(* One module name is modelled. Its library is mapped by an instance of     *)
(* Module that the loader allocates; when that has been unloaded, the next  *)
(* attach allocates another. Entities of the module and Roots attach to an  *)
(* instance, and one of them is its lifetime owner. Typed children whose    *)
(* type is the module's are attached too, when addTag<T> is served; they    *)
(* hang under entities of other modules, which are not modelled. Every      *)
(* handler runs on the loader's one ordering thread and is one step here.   *)
(***************************************************************************)
EXTENDS Integers, FiniteSetsExt

CONSTANTS
    Entities,      \* top-level entities of the module
    Roots,         \* Roots, which live on somebody's stack
    Children,      \* typed children of the module's types, under entities of others
    MaxInstances,  \* bound: how often the module is bootstrapped
    MaxPending     \* bound: how many unload requests are on their way

ASSUME ModuleAssumption ==
    /\ MaxInstances \in Nat \ {0} /\ MaxPending \in Nat \ {0}
    /\ Entities \cap Roots = {} /\ Children \cap (Entities \cup Roots) = {}
    /\ "vacant" \notin Entities \cup Roots \cup Children

Instances == 1 .. MaxInstances
TopLevel == Entities \cup Roots
Tokens == TopLevel \cup Children
Vacant == "vacant"

VARIABLES
    loader,    \* the loader's books: registry, the instance that is registered
               \*   (0: none); made, instances so far; loaded, those with a
               \*   mapped library; owner, of each its lifetime_owner; parent,
               \*   the instance each token is attached to (0: none); holds,
               \*   the tokens with is_lifetime_owner; roots, root_registry
    arena,     \* the entities in the module's arena
    fired,     \* of each instance: unload requests on the loader's stream,
    waiting,   \*   and those a thread of the registry holds back for 100 ms
    barrier,   \* PendingUnloadRegistry: "open", "joining", "closed"
    blocked,   \* the ordering thread waits in spawn() for the registry's mutex
    late       \* ghost: a recheck was served for an instance already unloaded

unloadVars == <<fired, waiting>>
joinVars == <<barrier, blocked>>
vars == <<loader, arena, unloadVars, joinVars, late>>

Init ==
    /\ loader = [registry |-> 0, made |-> 0, loaded |-> {},
                 owner |-> [i \in Instances |-> Vacant],
                 parent |-> [t \in Tokens |-> 0], holds |-> {}, roots |-> {}]
    /\ arena = {}
    /\ fired = [i \in Instances |-> 0] /\ waiting = [i \in Instances |-> 0]
    /\ barrier = "open" /\ blocked = FALSE /\ late = FALSE

Attached(t) == loader.parent[t] # 0
Pending == FoldSet(LAMBDA i, n : n + fired[i] + waiting[i], 0, Instances)

-----------------------------------------------------------------------------
(* attachModule *)

\* The registered instance; a new one, with its library, when there is none.
Bootstrap(l) ==
    IF l.registry # 0 THEN l
    ELSE [l EXCEPT !.made = @ + 1, !.registry = l.made + 1, !.loaded = @ \cup {l.made + 1}]

Claim(l, i, t) ==
    [l EXCEPT !.owner[i] = t, !.parent[t] = i, !.holds = @ \cup {t}]

\* Mutation: the Root that hands over goes on believing it is the owner.
AttachModuleBothOwn(l, t) ==
    IF l.parent[t] # 0 THEN l
    ELSE LET b == Bootstrap(l)
             i == b.registry
             a == [b EXCEPT !.parent[t] = i, !.roots = @ \cup ({t} \cap Roots)]
         IN IF a.owner[i] = Vacant \/ (a.owner[i] \in Roots /\ t \notin Roots) THEN Claim(a, i, t) ELSE a

\* One module per token: an attached one stays where it is. A vacant
\* instance is claimed; a Root hands its claim to the first entity.
AttachModule(l, t) ==
    IF l.parent[t] # 0 THEN l
    ELSE LET b == Bootstrap(l)
             i == b.registry
             a == [b EXCEPT !.parent[t] = i, !.roots = @ \cup ({t} \cap Roots)]
         IN IF a.owner[i] = Vacant THEN Claim(a, i, t)
            ELSE IF a.owner[i] \in Roots /\ t \notin Roots
                 THEN Claim([a EXCEPT !.holds = @ \ {a.owner[i]}], i, t)
            ELSE a

Room == loader.registry # 0 \/ loader.made < MaxInstances

\* The ordering thread is free to serve a request.
Serves == ~blocked

\* resolveImpl, and changeModuleImpl to this module.
Resolve(r) ==
    /\ Serves /\ Room /\ ~Attached(r)
    /\ loader' = AttachModule(loader, r)
    /\ UNCHANGED <<arena, unloadVars, joinVars, late>>

\* loadImpl: when the module is vacant a Root that has no module bootstraps it.
Load(e, r) ==
    /\ Serves /\ Room /\ e \notin arena
    /\ loader.registry = 0 => ~Attached(r)
    /\ loader' = AttachModule(IF loader.registry = 0 THEN AttachModule(loader, r) ELSE loader, e)
    /\ arena' = arena \cup {e}
    /\ UNCHANGED <<unloadVars, joinVars, late>>

\* spawn<T>: code of the module constructs the entity in the arena on its own
\* thread; it runs for some entity of the module or some child of its types,
Build(e) ==
    /\ e \notin arena
    /\ \E d \in arena \cup Children : loader.parent[d] \in loader.loaded
    /\ arena' = arena \cup {e}
    /\ UNCHANGED <<loader, unloadVars, joinVars, late>>

\* and its Load event attaches it later. An entity that has been promoted in
\* between is attached already: attachModule returns before it wires anything.
LoadPrebuilt(e) ==
    /\ Serves /\ Room
    /\ e \in arena /\ ~Attached(e)
    /\ loader' = AttachModule(loader, e)
    /\ UNCHANGED <<arena, unloadVars, joinVars, late>>

-----------------------------------------------------------------------------
(* Typed children *)

\* addTagImpl, for a type whose module has been loaded before (type_owner_index
\* keeps it). A module that is mapped is assigned to the child, and nothing
\* else happens. One that is not is attached to the parent's root ancestor
\* first, which is bound to its own module already, so that the request is
\* dropped; then to the child, which bootstraps the module and claims it.
AddTag(c) ==
    /\ Serves /\ Room
    /\ ~Attached(c) /\ loader.made > 0
    /\ loader' = IF loader.registry # 0 THEN [loader EXCEPT !.parent[c] = loader.registry]
                 ELSE AttachModule(loader, c)
    /\ UNCHANGED <<arena, unloadVars, joinVars, late>>

\* deleteEntity of a typed child, or of somebody above it: its module_ goes with
\* it, and promoteOrVacate is not called.
DeleteChild(c) ==
    /\ Serves /\ Attached(c)
    /\ loader' = [loader EXCEPT !.parent[c] = 0, !.holds = @ \ {c}]
    /\ UNCHANGED <<arena, unloadVars, joinVars, late>>

-----------------------------------------------------------------------------
(* promoteOrVacate, and those who call it *)

\* Who takes over from t: another candidate, whichever the search meets first,
\* if it is not attached elsewhere; nobody, if there is none.
Heirs(l, t, candidates) ==
    IF candidates \ {t} = {} THEN {Vacant}
    ELSE {IF l.parent[c] \in {0, l.parent[t]} THEN c ELSE Vacant : c \in candidates \ {t}}

\* The heir is promoted, or the instance is vacant.
PromoteOrVacate(l, t, heir) ==
    IF t \notin l.holds THEN l
    ELSE IF heir = Vacant THEN [l EXCEPT !.owner[l.parent[t]] = Vacant]
    ELSE Claim(l, l.parent[t], heir)

\* t is no longer attached anywhere.
Detached(l, t) == [l EXCEPT !.parent[t] = 0, !.holds = @ \ {t}]

\* Mutation: only a Root asks.
RequestsUnloadForRoots(t, heir) ==
    /\ Pending < MaxPending
    /\ fired' = IF t \in loader.holds \cap Roots /\ heir = Vacant
                THEN [fired EXCEPT ![loader.parent[t]] = @ + 1] ELSE fired
    /\ UNCHANGED waiting

\* RequestUnloadEvent: heap-allocated, and nobody waits for it.
RequestsUnload(t, heir) ==
    /\ Pending < MaxPending
    /\ fired' = IF t \in loader.holds /\ heir = Vacant
                THEN [fired EXCEPT ![loader.parent[t]] = @ + 1] ELSE fired
    /\ UNCHANGED waiting

\* deleteEntity of a top-level entity: findNextCandidateScope searches the
\* arena for another.
Destroy(e) ==
    /\ Serves /\ e \in arena /\ Attached(e)
    /\ \E heir \in Heirs(loader, e, arena) :
          /\ RequestsUnload(e, heir)
          /\ loader' = Detached(PromoteOrVacate(loader, e, heir), e)
    /\ arena' = arena \ {e}
    /\ UNCHANGED <<joinVars, late>>

\* Mutation: the Root goes without giving the module up.
RelinquishUnpromoted(r) ==
    /\ Serves /\ Attached(r)
    /\ RequestsUnload(r, Vacant)
    /\ loader' = [Detached(loader, r) EXCEPT !.roots = @ \ {r}]
    /\ UNCHANGED <<arena, joinVars, late>>

\* changeModuleImpl: a Root goes to another module, or out of scope.
Relinquish(r) ==
    /\ Serves /\ Attached(r)
    /\ \E heir \in Heirs(loader, r, loader.roots) :
          /\ RequestsUnload(r, heir)
          /\ loader' = [Detached(PromoteOrVacate(loader, r, heir), r)
                        EXCEPT !.roots = @ \ {r}]
    /\ UNCHANGED <<arena, joinVars, late>>

-----------------------------------------------------------------------------
(* The delayed unload *)

\* The first fire spawns the thread that waits; past the join barrier it does
\* not. While join_all() holds the mutex spawn() blocks the ordering thread.
FirstFire(i) ==
    /\ Serves /\ fired[i] > 0 /\ barrier # "joining"
    /\ fired' = [fired EXCEPT ![i] = @ - 1]
    /\ waiting' = IF barrier = "open" THEN [waiting EXCEPT ![i] = @ + 1] ELSE waiting
    /\ UNCHANGED <<loader, arena, joinVars, late>>

SpawnBlocks(i) ==
    /\ Serves /\ fired[i] > 0 /\ barrier = "joining"
    /\ blocked' = TRUE
    /\ UNCHANGED <<loader, arena, unloadVars, barrier, late>>

\* Mutation: the owner is not looked at again after the 100 ms.
UnloadUnchecked(l, i, heir) ==
    [l EXCEPT !.registry = 0, !.loaded = @ \ {i}]

\* requestUnloadImpl for instance i: a Root that is still registered takes
\* over, or the library goes.
Unload(l, i, heir) ==
    IF l.owner[i] # Vacant THEN l
    ELSE IF l.roots # {} THEN Claim(l, i, heir)
    ELSE [l EXCEPT !.registry = 0, !.loaded = @ \ {i}]

\* findRootCandidate.
RootCandidates == IF loader.roots = {} THEN {Vacant} ELSE loader.roots

\* Mutation: an event that finds the module reclaimed does not wake its thread.
RecheckUnanswered(i) ==
    /\ Serves /\ waiting[i] > 0
    /\ waiting' = IF loader.owner[i] # Vacant THEN waiting ELSE [waiting EXCEPT ![i] = @ - 1]
    /\ \E heir \in RootCandidates : loader' = Unload(loader, i, heir)
    /\ late' = (late \/ i \notin loader.loaded)
    /\ UNCHANGED <<arena, fired, joinVars>>

\* The 100 ms are over and the second event has been served; it names the
\* instance, which another recheck may have unloaded since.
Recheck(i) ==
    /\ Serves /\ waiting[i] > 0
    /\ waiting' = [waiting EXCEPT ![i] = @ - 1]
    /\ \E heir \in RootCandidates : loader' = Unload(loader, i, heir)
    /\ late' = (late \/ i \notin loader.loaded)
    /\ UNCHANGED <<arena, fired, joinVars>>

JoinAll ==
    /\ barrier = "open"
    /\ barrier' = "joining"
    /\ UNCHANGED <<loader, arena, unloadVars, blocked, late>>

JoinReturns ==
    /\ barrier = "joining"
    /\ \A i \in Instances : waiting[i] = 0
    /\ barrier' = "closed" /\ blocked' = FALSE
    /\ UNCHANGED <<loader, arena, unloadVars, late>>

-----------------------------------------------------------------------------
Next ==
    \/ \E r \in Roots : Resolve(r) \/ Relinquish(r)
    \/ \E e \in Entities : Build(e) \/ LoadPrebuilt(e) \/ Destroy(e) \/ \E r \in Roots : Load(e, r)
    \/ \E c \in Children : AddTag(c) \/ DeleteChild(c)
    \/ \E i \in Instances : FirstFire(i) \/ SpawnBlocks(i) \/ Recheck(i)
    \/ JoinAll \/ JoinReturns

Spec == Init /\ [][Next]_vars

\* The loader's ordering thread serves its stream, the threads of the registry
\* wake up, and an entity that has been constructed has its event sent.
FairSpec ==
    /\ Spec
    /\ \A i \in Instances : WF_vars(FirstFire(i)) /\ WF_vars(SpawnBlocks(i)) /\ WF_vars(Recheck(i))
    /\ WF_vars(JoinReturns)

-----------------------------------------------------------------------------
TypeOK ==
    /\ loader \in [registry : 0 .. MaxInstances, made : 0 .. MaxInstances,
                   loaded : SUBSET Instances,
                   owner : [Instances -> Tokens \cup {Vacant}],
                   parent : [Tokens -> 0 .. MaxInstances],
                   holds : SUBSET Tokens, roots : SUBSET Roots]
    /\ arena \subseteq Entities
    /\ fired \in [Instances -> Nat] /\ waiting \in [Instances -> Nat]
    /\ barrier \in {"open", "joining", "closed"}
    /\ blocked \in BOOLEAN /\ late \in BOOLEAN

InMemory(t) ==
    \/ t \in loader.roots
    \/ t \in arena
    \/ t \in Children /\ Attached(t)

\* A Root or a top-level entity that owns an instance exists and is attached to
\* it: attachModule, promoteOrVacate and the recheck never leave the module in
\* the hands of one that is gone. Until a recheck comes late.
OwnerIsAlive ==
    late \/ \A i \in Instances : loader.owner[i] \in TopLevel =>
        loader.parent[loader.owner[i]] = i /\ InMemory(loader.owner[i])

\* Whoever owns an instance exists, a typed child included: what addTagImpl's
\* comment is there to ensure. Its own vacant branch does not, and
\* TLC refutes it.
EveryOwnerExists ==
    late \/ \A i \in Instances : loader.owner[i] # Vacant => InMemory(loader.owner[i])

\* The two sides of ownership agree: a Root or a top-level entity believes it is
\* the owner exactly when its instance says so. The loser of a hand-off does not
\* vacate the module when it goes. Until a recheck comes late.
OneOwner ==
    late \/ \A t \in TopLevel : t \in loader.holds <=> Attached(t) /\ loader.owner[loader.parent[t]] = t

\* No library goes while a Root or a top-level entity is attached to it. (A
\* typed child that is attached does not keep it.) Until a recheck comes late.
NeverUnmappedUnder ==
    late \/ \A t \in TopLevel : Attached(t) => loader.parent[t] \in loader.loaded

\* Why these hold: one instance at most is mapped, and the Roots and top-level
\* entities are attached to it; the Roots that are attached are the registered
\* ones; and while an entity is attached, the owner is an entity, whose siblings
\* the arena shows, or a typed child, which does not give the module up.
Books(l, a) ==
    /\ l.registry <= l.made
    /\ l.loaded = {l.registry} \ {0}
    /\ \A t \in TopLevel : l.parent[t] \in {0, l.registry}
    /\ \A i \in Instances : l.owner[i] # Vacant =>
          i = l.registry /\ (l.owner[i] \in TopLevel => l.parent[l.owner[i]] = i)
    /\ \A t \in TopLevel : t \in l.holds <=> l.parent[t] # 0 /\ l.owner[l.parent[t]] = t
    /\ \A r \in Roots : l.parent[r] # 0 <=> r \in l.roots
    /\ \A e \in Entities : l.parent[e] # 0 => e \in a /\ l.owner[l.parent[e]] \notin Roots \cup {Vacant}

LifetimeInv == TypeOK /\ (late \/ Books(loader, arena))

\* A module that has no owner is claimed again or unloaded, unless the process
\* has come to its join barrier.
VacantEnds ==
    \A i \in Instances :
        (i \in loader.loaded /\ loader.owner[i] = Vacant)
            ~> (i \notin loader.loaded \/ loader.owner[i] # Vacant \/ barrier # "open")

\* join_all() returns, unless a first fire is served while it waits: the
\* ordering thread then blocks on the mutex join_all() holds, and the threads
\* it joins wait for the ordering thread.
JoinEnds == (barrier = "joining") ~> (barrier = "closed" \/ blocked)
=============================================================================
