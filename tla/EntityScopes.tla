----------------------------- MODULE EntityScopes -----------------------------
(***************************************************************************)
(* An entity's stream calls and its end: Scope and ScopeTag of              *)
(* src/core/Bundles.h with their bodies in Entity.h, tagModifyBody, the     *)
(* drain and the destroy request of DynamicLoader.h, and the delete gate.   *)
(*                                                                          *)
(* A call registers in the entity's Scope and has the shared flag           *)
(* "active_scope_<label>" put up by an event on its module's ordering       *)
(* stream; on its way out it unregisters and has the flag taken down. The   *)
(* shell interrupts calls, and takes flags down itself. Somebody deletes    *)
(* the entity: the request interrupts every call, waits until none is       *)
(* registered, and then has the loader's ordering thread destroy it.        *)
(*                                                                          *)
(* A call is made once. Where a thread follows a pointer into an entity     *)
(* that is gone it is "wild", and what it does there is not modelled.       *)
(***************************************************************************)
EXTENDS DeleteGate, SequencesExt

CONSTANTS
    Calls,      \* the stream calls that are made on the entity
    Labels,     \* the actions they call
    Label       \* Label[c] is the action c calls

Shell == "shell"
Nobody == "nobody"

ASSUME ScopesAssumption == Label \in [Calls -> Labels] /\ Shell \notin Calls

VARIABLES
    entries,    \* scope_: the registered calls, in the order they registered
    signalled,  \*   and those among all calls whose own flag has been raised
    flags_,     \* the labels whose shared flag is up
    cpc,        \* where each call is,
    clife,      \*   and which life the pointer it follows was given in
    stream,     \* the module's ordering stream: the tag events on it
    deleter,    \* who deletes the entity,
    delpc,      \*   and how far the request has come
    drained     \* the calls that were registered when the request came

callVars == <<cpc, clife>>
scopeVars == <<entries, signalled, flags_>>
deleteVars == <<deleter, delpc, drained>>
vars == <<gateVars, callVars, scopeVars, stream, deleteVars>>

Init ==
    /\ GateInit
    /\ entries = << >> /\ signalled = {} /\ flags_ = {}
    /\ cpc = [c \in Calls |-> "idle"] /\ clife = [c \in Calls |-> 0]
    /\ stream = << >>
    /\ deleter = Nobody /\ delpc = "none" /\ drained = {}

Registered == Range(entries)
Carrying(l) == {c \in Registered : Label[c] = l}
InTheEntity(c) == alive /\ clife[c] = life

\* A step of call c in the entity it was made on; it is wild if that is gone.
CallStep(c, from, to) ==
    /\ cpc[c] = from
    /\ cpc' = [cpc EXCEPT ![c] = IF InTheEntity(c) THEN to ELSE "wild"]

-----------------------------------------------------------------------------
(* The constructor of ScopeTag *)

\* WorkBundle::operator(): the RID is looked up, and the pointer passed on.
Dispatch(c) ==
    /\ listed
    /\ cpc[c] = "idle"
    /\ cpc' = [cpc EXCEPT ![c] = "dispatched"]
    /\ clife' = [clife EXCEPT ![c] = life]
    /\ UNCHANGED <<gateVars, scopeVars, stream, deleteVars>>

\* registerContext: only the first call of a label has a flag to put up.
Register(c) ==
    /\ CallStep(c, "dispatched", IF Carrying(Label[c]) = {} THEN "registered" ELSE "running")
    /\ entries' = IF InTheEntity(c) THEN Append(entries, c) ELSE entries
    /\ UNCHANGED <<gateVars, signalled, flags_, clife, stream, deleteVars>>

TagEvent(c, remove) == [by |-> c, label |-> Label[c], life |-> clife[c], remove |-> remove]

\* addTag emits a TagModifyEvent and waits for it.
AddTag(c) ==
    /\ CallStep(c, "registered", "adding")
    /\ stream' = IF InTheEntity(c) THEN Append(stream, TagEvent(c, FALSE)) ELSE stream
    /\ UNCHANGED <<gateVars, scopeVars, clife, deleteVars>>

\* The body returns, interrupted or not.
BodyEnds(c) ==
    /\ cpc[c] = "running"
    /\ cpc' = [cpc EXCEPT ![c] = "ending"]
    /\ UNCHANGED <<gateVars, scopeVars, clife, stream, deleteVars>>

-----------------------------------------------------------------------------
(* The destructor of ScopeTag *)

\* etcs_resolve_by_key: the RID again, and nothing to do when it is gone.
ResolveAgain(c) ==
    /\ cpc[c] = "ending"
    /\ cpc' = [cpc EXCEPT ![c] = IF listed /\ clife[c] = life THEN "found" ELSE "done"]
    /\ UNCHANGED <<gateVars, scopeVars, clife, stream, deleteVars>>

\* unregisterContext, by id: the last call of its label takes the flag down.
Unregister(c) ==
    /\ CallStep(c, "found", IF Carrying(Label[c]) = {c} THEN "unregistered" ELSE "done")
    /\ entries' = IF InTheEntity(c) THEN RemoveFirst(entries, c) ELSE entries
    /\ UNCHANGED <<gateVars, signalled, flags_, clife, stream, deleteVars>>

RemoveTag(c) ==
    /\ CallStep(c, "unregistered", "removing")
    /\ stream' = IF InTheEntity(c) THEN Append(stream, TagEvent(c, TRUE)) ELSE stream
    /\ UNCHANGED <<gateVars, scopeVars, clife, deleteVars>>

-----------------------------------------------------------------------------
(* The module's ordering thread: tagModifyBody, and the release of the      *)
(* event's caller                                                           *)

\* Mutation: the flag comes down whether or not calls carry the label.
ModifyErases(e) ==
    /\ IF e.remove
       THEN /\ signalled' = signalled \cup Carrying(e.label)
            /\ flags_' = flags_ \ {e.label}
       ELSE flags_' = flags_ \cup {e.label} /\ UNCHANGED signalled

\* A removal that finds live calls of the label interrupts them all and
\* leaves the flag up.
Modify(e) ==
    IF e.remove
    THEN /\ signalled' = signalled \cup Carrying(e.label)
         /\ flags_' = IF Carrying(e.label) = {} THEN flags_ \ {e.label} ELSE flags_
    ELSE flags_' = flags_ \cup {e.label} /\ UNCHANGED signalled

\* Mutation: a removal that finds live calls does not release who asked.
ServeTagEventUnanswered ==
    /\ stream # << >>
    /\ LET e == Head(stream)
           live == alive /\ e.life = life
           kept == e.remove /\ Carrying(e.label) # {}
       IN /\ IF live THEN Modify(e) ELSE UNCHANGED <<signalled, flags_>>
          /\ IF e.by \in Calls /\ ~kept
             THEN cpc' = [cpc EXCEPT ![e.by] = IF ~live THEN "wild"
                                               ELSE IF e.remove THEN "done" ELSE "running"]
             ELSE UNCHANGED cpc
    /\ stream' = Tail(stream)
    /\ UNCHANGED <<gateVars, entries, clife, deleteVars>>

\* The event at the head of the stream; a thread of the entity's module that
\* emitted it spins until it is served.
ServeTagEvent ==
    /\ stream # << >>
    /\ LET e == Head(stream)
           live == alive /\ e.life = life
       IN /\ IF live THEN Modify(e) ELSE UNCHANGED <<signalled, flags_>>
          /\ IF e.by \in Calls
             THEN cpc' = [cpc EXCEPT ![e.by] = IF ~live THEN "wild"
                                               ELSE IF e.remove THEN "done" ELSE "running"]
             ELSE UNCHANGED cpc
    /\ stream' = Tail(stream)
    /\ UNCHANGED <<gateVars, entries, clife, deleteVars>>

-----------------------------------------------------------------------------
(* The shell *)

\* interruptAt(label, index): whoever is at that position now.
InterruptAt(c) ==
    /\ alive /\ c \in Registered
    /\ signalled' = signalled \cup {c}
    /\ UNCHANGED <<gateVars, callVars, entries, flags_, stream, deleteVars>>

\* Somebody has "active_scope_<l>" removed as if it were any tag.
RemoveFlag(l) ==
    /\ alive /\ l \in flags_
    /\ \A i \in DOMAIN stream : stream[i].by # Shell    \* the shell waits for it
    /\ stream' = Append(stream, [by |-> Shell, label |-> l, life |-> life, remove |-> TRUE])
    /\ UNCHANGED <<gateVars, callVars, scopeVars, deleteVars>>

-----------------------------------------------------------------------------
(* The request to delete: DeletableBase::Delete, DestroyEvent, the drain *)

\* The latch closes for good, and the drain begins by interrupting every call.
Delete(by) ==
    /\ delpc = "none"
    /\ \/ by = Shell /\ listed /\ UNCHANGED cpc
       \/ /\ by \in Calls /\ cpc[by] = "running" /\ InTheEntity(by)
          /\ cpc' = [cpc EXCEPT ![by] = "deleting"]
    /\ deleter' = by /\ delpc' = "draining"
    /\ drained' = Registered
    /\ signalled' = signalled \cup Registered
    /\ UNCHANGED <<gateVars, clife, entries, flags_, stream>>

DeleterAt(from, to) == delpc = from /\ delpc' = to /\ UNCHANGED <<deleter, drained>>

\* A call that deletes has its answer and goes on with its body.
DeleterGoesOn ==
    cpc' = [c \in Calls |-> IF c = deleter /\ cpc[c] = "deleting" THEN "running" ELSE cpc[c]]

\* Mutation: the drain looks at the flags instead of the registry.
DrainEndsByFlags ==
    /\ flags_ = {}
    /\ DeleterAt("draining", "requested")
    /\ UNCHANGED <<gateVars, callVars, scopeVars, stream>>

DrainEnds ==
    /\ entries = << >>
    /\ DeleterAt("draining", "requested")
    /\ UNCHANGED <<gateVars, callVars, scopeVars, stream>>

\* Five seconds are over with a call still registered: the entity stays.
DrainRefuses ==
    /\ entries # << >>
    /\ DeleterAt("draining", "refused")
    /\ DeleterGoesOn
    /\ UNCHANGED <<gateVars, clife, scopeVars, stream>>

\* The destroy event at the loader: destroyImpl, or no such RID.
ServeDestroy ==
    /\ dpc = "idle"
    /\ \/ /\ DestroyImpl
          /\ DeleterAt("requested", "serving")
          /\ UNCHANGED <<callVars, scopeVars, stream>>
       \/ /\ ~listed
          /\ DeleterAt("requested", "answered")
          /\ DeleterGoesOn
          /\ UNCHANGED <<gateVars, clife, scopeVars, stream>>

\* The memory goes, and with it the registry and the flags; the event's
\* caller is released.
FreeEntity ==
    /\ Free
    /\ entries' = << >> /\ flags_' = {}
    /\ IF delpc = "serving"
       THEN DeleterAt("serving", "answered") /\ DeleterGoesOn
       ELSE UNCHANGED <<deleteVars, cpc>>
    /\ UNCHANGED <<signalled, clife, stream>>

-----------------------------------------------------------------------------
OtherGateStep ==
    /\ (\E w \in Walkers : Walk(w)) \/ Reclaim \/ BeginRetire \/ FanIn \/ AwaitQuiesced
    /\ UNCHANGED <<callVars, scopeVars, stream, deleteVars>>

Call(c) ==
    \/ Dispatch(c) \/ Register(c) \/ AddTag(c) \/ BodyEnds(c)
    \/ ResolveAgain(c) \/ Unregister(c) \/ RemoveTag(c)

Next ==
    \/ \E c \in Calls : Call(c) \/ InterruptAt(c)
    \/ \E l \in Labels : RemoveFlag(l)
    \/ ServeTagEvent
    \/ \E by \in Calls \cup {Shell} : Delete(by)
    \/ DrainEnds \/ DrainRefuses \/ ServeDestroy
    \/ OtherGateStep \/ FreeEntity

Spec == Init /\ [][Next]_vars

\* The threads inside the runtime go on; a body honours its context once it
\* is interrupted; the drain has a deadline.
FairSpec ==
    /\ Spec
    /\ \A c \in Calls :
        /\ WF_vars(Register(c) \/ AddTag(c) \/ ResolveAgain(c) \/ Unregister(c) \/ RemoveTag(c))
        /\ WF_vars(c \in signalled /\ BodyEnds(c))
    /\ WF_vars(ServeTagEvent)
    /\ WF_vars(DrainEnds \/ DrainRefuses)
    /\ WF_vars(ServeDestroy)
    /\ WF_vars(OtherGateStep /\ (BeginRetire \/ FanIn \/ AwaitQuiesced))
    /\ WF_vars(FreeEntity)

-----------------------------------------------------------------------------
\* A call of label l is in one of these stages of the entity's present life.
Stage(l, stages) == \E c \in Calls : Label[c] = l /\ clife[c] = life /\ cpc[c] \in stages

\* What the shell lists is what runs: where a call is registered, its label's
\* shared flag is up or a call is about to put it up, and a flag that is up
\* over no call is about to be taken down (ScopeTag's constructor and
\* destructor, and tagModifyBody's refusal to erase the flag of a live scope).
FlagMirrorsScopes ==
    alive => \A l \in Labels :
        /\ Carrying(l) # {} => l \in flags_ \/ Stage(l, {"registered", "adding"})
        /\ l \in flags_ => Carrying(l) # {} \/ Stage(l, {"unregistered", "removing"})

\* What the drain is for: memory that goes by request goes when every call
\* that was registered at the request has left, or is past its last look at
\* the registry.
DrainSeesCallsOff ==
    dpc = "free" /\ delpc = "serving" =>
        \A c \in drained : cpc[c] \in {"unregistered", "removing", "done"}

\* An interrupted call leaves: the way out goes through the ordering thread,
\* and neither the drain nor the destruction keeps it there. A call that deletes
\* the entity it runs on waits for itself until the drain's time is over.
InterruptedLeaves ==
    \A c \in Calls : c \in signalled ~> cpc[c] \in {"done", "wild"}
=============================================================================
