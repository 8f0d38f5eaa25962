----------------------------- MODULE EventStream -----------------------------
(***************************************************************************)
(* src/core/EventStream.h: the stream every structural event of a module    *)
(* or of the loader passes through, and its reorder buffer.                 *)
(*                                                                          *)
(* Emitters put an event in the input ring and spin until it is released.   *)
(* One ordering thread reads the ring, records in a slot what the event has *)
(* to wait for, runs its handler when nothing blocks it, and commits the    *)
(* slot, which releases the emitter. A handler may finish at once (Inline), *)
(* hand its work to a thread that posts a completion later (Async), or have *)
(* nothing to order (Drop). stop() may come at any moment.                  *)
(*                                                                          *)
(* The rings are the queues LMAXRing implements. The ordering thread's own  *)
(* state is private to it, so its steps are one ring access, one admission, *)
(* or one slot of service()'s sweep.                                        *)
(***************************************************************************)
EXTENDS Integers, Sequences, FiniteSets

CONSTANTS
    Emitters,   \* threads that emit events and wait for them
    Masks,      \* the tag closure masks mask_for() answers with
    Depth,      \* GAP_DEPTH
    RingSize,   \* slot count of the input and of the completion ring
    Stops,      \* TRUE: stop() is called at some moment
    MaxEvents   \* bound of the model: how many events are ever emitted

ASSUME StreamAssumption ==
    /\ Depth \in Nat \ {0}
    /\ RingSize \in Nat \ {0}
    /\ Stops \in BOOLEAN
    /\ MaxEvents \in Nat

Kinds == {"Inline", "Async", "Drop"}
Events == [emitter : Emitters, mask : Masks, kind : Kinds]

VARIABLES
    input,            \* input_ring_: the events not read yet
    completions,      \* completion_ring_: the sequences whose work is done
    working,          \* the sequences handed off and not posted yet
    status,           \* of each slot of the reorder buffer: its status,
    sequence,         \*   the number of its event,
    mask,             \*   that event's tag_closure_mask,
    blocked_by_,      \*   the slots it has to wait for,
    parked_,          \*   and the event itself
    in_seq_,          \* the number of the next event to read
    tail_seq_,        \* no event below it is live
    lpc,              \* where the ordering thread is
    at,               \* service()'s index in its sweep,
    progress,         \*   and whether this sweep has done anything
    after,            \* where the ordering thread goes after service()
    emitter,          \* what each emitter is doing
    is_cleaning_up_,
    stop_

ringVars == <<input, completions, working>>
slotVars == <<status, sequence, mask, blocked_by_, parked_>>
windowVars == <<in_seq_, tail_seq_>>
loopVars == <<lpc, at, progress, after>>
flagVars == <<is_cleaning_up_, stop_>>
vars == <<ringVars, slotVars, windowVars, loopVars, emitter, flagVars>>

Slots == 0 .. Depth - 1
IndexOf(s) == s % Depth

Intersects(m, n) == m \cap n # {}

\* Neither Empty nor Committed.
Live(i) == status[i] \in {"Pending", "Running", "Complete"}

Blocked(i) == blocked_by_[i] # {}

\* How many events have been read: the one being admitted counts from acquire()
\* on, before in_seq_ moves past it.
Admitting == lpc = "admitted" \/ (lpc = "service" /\ after = "top")

NextSeq == IF Admitting THEN in_seq_ + 1 ELSE in_seq_

Init ==
    /\ input = << >> /\ completions = << >> /\ working = {}
    /\ status = [i \in Slots |-> "Empty"]
    /\ sequence = [i \in Slots |-> 0]
    /\ mask = [i \in Slots |-> {}]
    /\ blocked_by_ = [i \in Slots |-> {}]
    /\ parked_ = [i \in Slots |-> << >>]
    /\ in_seq_ = 0 /\ tail_seq_ = 0
    /\ lpc = "top" /\ at = 0 /\ progress = FALSE /\ after = "window"
    /\ emitter = [e \in Emitters |-> "idle"]
    /\ is_cleaning_up_ = FALSE /\ stop_ = FALSE

-----------------------------------------------------------------------------
(* The emitters: enqueue(), then a spin until on_emit stores the answer *)

\* The model's bound.
WithinBound ==
    NextSeq + Len(input) + Cardinality({e \in Emitters : emitter[e] = "writing"}) < MaxEvents

\* "if (is_cleaning_up_) return false"
Enqueue(e) ==
    /\ emitter[e] = "idle"
    /\ WithinBound
    /\ emitter' = [emitter EXCEPT ![e] = IF is_cleaning_up_ THEN "refused" ELSE "writing"]
    /\ UNCHANGED <<ringVars, slotVars, windowVars, loopVars, flagVars>>

\* input_ring_->write, retried while the ring is full.
WriteEvent(e) ==
    /\ emitter[e] = "writing"
    /\ Len(input) < RingSize
    /\ \E ev \in Events :
        /\ ev.emitter = e
        /\ input' = Append(input, ev)
    /\ emitter' = [emitter EXCEPT ![e] = "waiting"]
    /\ UNCHANGED <<completions, working, slotVars, windowVars, loopVars, flagVars>>

\* A worker calls post_completion, retried while the ring is full.
PostCompletion(s) ==
    /\ s \in working
    /\ Len(completions) < RingSize
    /\ working' = working \ {s}
    /\ completions' = Append(completions, s)
    /\ UNCHANGED <<input, slotVars, windowVars, loopVars, emitter, flagVars>>

-----------------------------------------------------------------------------
(* The reorder buffer *)

\* Mutation of acquire(): an event that is itself still parked blocks nobody.
AcquireIgnoresParked(i, s, ev) ==
    /\ status' = [status EXCEPT ![i] = "Pending"]
    /\ sequence' = [sequence EXCEPT ![i] = s]
    /\ mask' = [mask EXCEPT ![i] = ev.mask]
    /\ parked_' = [parked_ EXCEPT ![i] = ev]
    /\ blocked_by_' = [blocked_by_ EXCEPT ![i] =
            {j \in Slots \ {i} : status[j] \in {"Running", "Complete"}
                                  /\ Intersects(mask[j], ev.mask)}]

\* acquire(): reserve slot i for event ev, number s, and record its blockers.
Acquire(i, s, ev) ==
    /\ status' = [status EXCEPT ![i] = "Pending"]
    /\ sequence' = [sequence EXCEPT ![i] = s]
    /\ mask' = [mask EXCEPT ![i] = ev.mask]
    /\ parked_' = [parked_ EXCEPT ![i] = ev]
    /\ blocked_by_' = [blocked_by_ EXCEPT ![i] =
                        {j \in Slots \ {i} : Live(j) /\ Intersects(mask[j], ev.mask)}]

\* Slot i blocks nobody any more.
Unblocking(i) == [j \in Slots |-> blocked_by_[j] \ {i}]

Release(e) == emitter' = [emitter EXCEPT ![e] = "idle"]

\* launch_slot(): the handler of slot i, by the kind of its answer. A Drop
\* hands the slot back (abandon), its handler having released its own emitter.
Launch(i) ==
    /\ UNCHANGED <<sequence, mask, parked_>>
    /\ \/ /\ parked_[i].kind = "Inline"
          /\ status' = [status EXCEPT ![i] = "Complete"]
          /\ UNCHANGED <<blocked_by_, working, emitter>>
       \/ /\ parked_[i].kind = "Async"
          /\ status' = [status EXCEPT ![i] = "Running"]
          /\ working' = working \cup {sequence[i]}
          /\ UNCHANGED <<blocked_by_, emitter>>
       \/ /\ parked_[i].kind = "Drop"
          /\ status' = [status EXCEPT ![i] = "Empty"]
          /\ blocked_by_' = Unblocking(i)
          /\ Release(parked_[i].emitter)
          /\ UNCHANGED working

\* The slots service() acts on, and the next of them in its sweep.
Serviceable == {i \in Slots : ~Blocked(i) /\ status[i] \in {"Pending", "Complete"}}

Visits(i) ==
    /\ lpc = "service"
    /\ i \in Serviceable /\ i >= at
    /\ \A j \in Serviceable : j >= at => j >= i
    /\ at' = i + 1
    /\ progress' = TRUE
    /\ UNCHANGED <<lpc, after>>

ServiceLaunch(i) ==
    /\ Visits(i)
    /\ status[i] = "Pending"
    /\ Launch(i)
    /\ UNCHANGED <<input, completions, windowVars, flagVars>>

\* Mutation: the commit does not unblock the dependents.
ServiceCommitKeepsBits(i) ==
    /\ Visits(i)
    /\ status[i] = "Complete"
    /\ status' = [status EXCEPT ![i] = "Empty"]
    /\ Release(parked_[i].emitter)
    /\ UNCHANGED <<ringVars, sequence, mask, blocked_by_, parked_, windowVars, flagVars>>

\* THE commit: unblock the dependents, emit, empty the slot.
ServiceCommit(i) ==
    /\ Visits(i)
    /\ status[i] = "Complete"
    /\ status' = [status EXCEPT ![i] = "Empty"]
    /\ blocked_by_' = Unblocking(i)
    /\ Release(parked_[i].emitter)
    /\ UNCHANGED <<ringVars, sequence, mask, parked_, windowVars, flagVars>>

SweepDone == lpc = "service" /\ \A i \in Serviceable : i < at

\* "while (progress)"
SweepAgain ==
    /\ SweepDone
    /\ progress
    /\ at' = 0 /\ progress' = FALSE
    /\ UNCHANGED <<ringVars, slotVars, windowVars, lpc, after, emitter, flagVars>>

\* Mutation: service() is a single pass.
ServiceReturnsEarly ==
    /\ SweepDone
    /\ lpc' = after
    /\ in_seq_' = IF after = "top" THEN in_seq_ + 1 ELSE in_seq_
    /\ UNCHANGED <<ringVars, slotVars, tail_seq_, at, progress, after, emitter, flagVars>>

\* service() returns; after an admission the loop counts the event.
ServiceReturns ==
    /\ SweepDone
    /\ ~progress
    /\ lpc' = after
    /\ in_seq_' = IF after = "top" THEN in_seq_ + 1 ELSE in_seq_
    /\ UNCHANGED <<ringVars, slotVars, tail_seq_, at, progress, after, emitter, flagVars>>

CallService(from) ==
    /\ lpc = from
    /\ lpc' = "service" /\ at' = 0 /\ progress' = FALSE

-----------------------------------------------------------------------------
(* ordering_loop() *)

\* "while (!stop_)"
LoopTop ==
    /\ lpc = "top"
    /\ lpc' = IF stop_ THEN "exited" ELSE "drain"
    /\ UNCHANGED <<ringVars, slotVars, windowVars, at, progress, after, emitter, flagVars>>

\* drain_completions(): complete() every slot whose work is posted ...
DrainCompletion ==
    /\ lpc = "drain"
    /\ completions # << >>
    /\ completions' = Tail(completions)
    /\ status' = [status EXCEPT ![IndexOf(Head(completions))] = "Complete"]
    /\ UNCHANGED <<input, working, sequence, mask, blocked_by_, parked_, windowVars,
                   loopVars, emitter, flagVars>>

\* ... then service().
DrainDone ==
    /\ completions = << >>
    /\ CallService("drain")
    /\ after' = "window"
    /\ UNCHANGED <<ringVars, slotVars, windowVars, emitter, flagVars>>

\* Mutations: the window is one too wide; a full window is waited out on the spot.
AdvanceTailTooWide ==
    /\ lpc = "window"
    /\ \E tail \in tail_seq_ .. in_seq_ :
        /\ \A s \in tail_seq_ .. tail - 1 : status[IndexOf(s)] = "Empty"
        /\ tail = in_seq_ \/ status[IndexOf(tail)] # "Empty"
        /\ tail_seq_' = tail
        /\ lpc' = IF in_seq_ > tail + Depth THEN "top" ELSE "read"
    /\ UNCHANGED <<ringVars, slotVars, in_seq_, at, progress, after, emitter, flagVars>>

AdvanceTailInPlace ==
    /\ lpc = "window"
    /\ \E tail \in tail_seq_ .. in_seq_ :
        /\ \A s \in tail_seq_ .. tail - 1 : status[IndexOf(s)] = "Empty"
        /\ tail = in_seq_ \/ status[IndexOf(tail)] # "Empty"
        /\ tail_seq_' = tail
        /\ lpc' = IF in_seq_ >= tail + Depth THEN "window" ELSE "read"
    /\ UNCHANGED <<ringVars, slotVars, in_seq_, at, progress, after, emitter, flagVars>>

\* tail_seq_ moves past the slots that are empty; a full window is waited out.
AdvanceTail ==
    /\ lpc = "window"
    /\ \E tail \in tail_seq_ .. in_seq_ :
        /\ \A s \in tail_seq_ .. tail - 1 : status[IndexOf(s)] = "Empty"
        /\ tail = in_seq_ \/ status[IndexOf(tail)] # "Empty"
        /\ tail_seq_' = tail
        /\ lpc' = IF in_seq_ >= tail + Depth THEN "top" ELSE "read"
    /\ UNCHANGED <<ringVars, slotVars, in_seq_, at, progress, after, emitter, flagVars>>

NothingToRead ==
    /\ lpc = "read"
    /\ input = << >>
    /\ lpc' = "top"
    /\ UNCHANGED <<ringVars, slotVars, windowVars, at, progress, after, emitter, flagVars>>

Admit ==
    /\ lpc = "read"
    /\ input # << >>
    /\ Acquire(IndexOf(in_seq_), in_seq_, Head(input))
    /\ input' = Tail(input)
    /\ lpc' = "admitted"
    /\ UNCHANGED <<completions, working, windowVars, at, progress, after, emitter, flagVars>>

\* Mutation: the admitted event is started whatever blocks it.
LaunchAdmittedAlways ==
    /\ CallService("admitted")
    /\ after' = "top"
    /\ Launch(IndexOf(in_seq_))
    /\ UNCHANGED <<input, completions, windowVars, flagVars>>

\* Not blocked: start it now.
LaunchAdmitted ==
    /\ ~Blocked(IndexOf(in_seq_))
    /\ CallService("admitted")
    /\ after' = "top"
    /\ Launch(IndexOf(in_seq_))
    /\ UNCHANGED <<input, completions, windowVars, flagVars>>

\* Blocked: leave it parked for service() to start.
ParkAdmitted ==
    /\ Blocked(IndexOf(in_seq_))
    /\ CallService("admitted")
    /\ after' = "top"
    /\ UNCHANGED <<ringVars, slotVars, windowVars, emitter, flagVars>>

-----------------------------------------------------------------------------
(* stop(): two stores, then the join, which changes nothing here *)

BeginCleanup ==
    /\ Stops /\ ~is_cleaning_up_
    /\ is_cleaning_up_' = TRUE
    /\ UNCHANGED <<ringVars, slotVars, windowVars, loopVars, emitter, stop_>>

SetStop ==
    /\ is_cleaning_up_ /\ ~stop_
    /\ stop_' = TRUE
    /\ UNCHANGED <<ringVars, slotVars, windowVars, loopVars, emitter, is_cleaning_up_>>

Stop == BeginCleanup \/ SetStop

-----------------------------------------------------------------------------
Service ==
    \/ \E i \in Slots : ServiceLaunch(i) \/ ServiceCommit(i)
    \/ SweepAgain \/ ServiceReturns

OrderingLoop ==
    \/ LoopTop \/ DrainCompletion \/ DrainDone \/ Service
    \/ AdvanceTail \/ NothingToRead \/ Admit \/ LaunchAdmitted \/ ParkAdmitted

Emit(e) == Enqueue(e) \/ WriteEvent(e)

Next ==
    \/ \E e \in Emitters : Emit(e)
    \/ \E s \in working : PostCompletion(s)
    \/ OrderingLoop
    \/ Stop

\* The ordering thread runs, an emitter that has begun to write keeps trying
\* while the ring has room, and handed-off work is eventually posted. Nobody has
\* to emit, and nobody has to call stop().
Fairness ==
    /\ WF_vars(OrderingLoop)
    /\ \A e \in Emitters : WF_vars(WriteEvent(e))
    /\ \A s \in 0 .. MaxEvents - 1 : WF_vars(PostCompletion(s))

Spec == Init /\ [][Next]_vars
FairSpec == Spec /\ Fairness

-----------------------------------------------------------------------------
(* Properties *)

TypeOK ==
    /\ input \in Seq(Events)
    /\ completions \in Seq(Nat)
    /\ working \in SUBSET Nat
    /\ status \in [Slots -> {"Empty", "Pending", "Running", "Complete"}]
    /\ sequence \in [Slots -> Nat]
    /\ mask \in [Slots -> Masks \cup {{}}]
    /\ blocked_by_ \in [Slots -> SUBSET Slots]
    /\ parked_ \in [Slots -> Events \cup {<< >>}]
    /\ in_seq_ \in Nat
    /\ tail_seq_ \in Nat
    /\ lpc \in {"top", "drain", "window", "read", "admitted", "service", "exited"}
    /\ at \in Nat
    /\ progress \in BOOLEAN
    /\ after \in {"window", "top"}
    /\ emitter \in [Emitters -> {"idle", "writing", "waiting", "refused"}]
    /\ is_cleaning_up_ \in BOOLEAN
    /\ stop_ \in BOOLEAN

Started(i) == status[i] \in {"Running", "Complete"}

\* Two events whose masks meet are never both past their admission: the second
\* one's handler has not begun while the first is not committed, whichever
\* order handlers, workers and completions finish in.
NeverConcurrent ==
    \A i, j \in Slots :
        i # j /\ Started(i) /\ Started(j) => ~Intersects(mask[i], mask[j])

\* An emitter that waits is waited on exactly once: its event is in the input
\* ring or in one live slot. So no release is lost when a slot is reused,
\* dropped or committed, and no emitter is released twice.
WaitersAccounted ==
    \A e \in Emitters :
        LET inRing == {k \in 1 .. Len(input) : input[k].emitter = e}
            inSlot == {i \in Slots : Live(i) /\ parked_[i].emitter = e}
        IN  Cardinality(inRing) + Cardinality(inSlot) =
                IF emitter[e] = "waiting" THEN 1 ELSE 0

\* When the loop goes round, service() has left nothing undone: every slot that
\* could start has been started and every complete slot is committed ("a missed
\* pass ... for a LAUNCH it is work idling with nothing scheduled to notice",
\* EventStream.h:100).
NothingLeftIdle == lpc = "top" => Serviceable = {}

\* While the stream is not stopped, every emitter whose event was accepted is
\* eventually released, although the window may be full of slots behind one slow
\* event and both rings may be full (ordering_loop, service, drain_completions).
ReleasedUnlessStopped ==
    \A e \in Emitters : emitter[e] = "waiting" ~> emitter[e] # "waiting" \/ stop_

\* The same whether or not stop() comes, as the comment on enqueue's answer has
\* it (EventStream.h:663-667): an accepted event will be serviced. TLC refutes
\* it: stop() leaves events behind in input_ring_ and in the window.
EveryEmitterReleased ==
    \A e \in Emitters : emitter[e] = "waiting" ~> emitter[e] # "waiting"

\* stop() returns: the ordering thread it joins always comes back to look at
\* stop_, even from a full window or from a sweep.
StopJoins == stop_ ~> lpc = "exited"

\* The stream implements ordered dispatch.
Phase(i) ==
    CASE status[i] = "Pending"  -> "waiting"
      [] status[i] = "Running"  -> "started"
      [] status[i] = "Complete" -> "finished"

Dispatch == INSTANCE OrderedDispatch WITH
    admitted <- NextSeq,
    live     <- {[seq |-> sequence[i], mask |-> mask[i], phase |-> Phase(i)] :
                    i \in {j \in Slots : Live(j)}}

ImplementsDispatch == Dispatch!Spec

-----------------------------------------------------------------------------
(* The inductive invariant the proofs of EventStreamProofs rest on *)

\* The numbers of live slots lie in the window, a window is at most Depth wide,
\* and a slot only ever holds the numbers that map to it.
WindowInv ==
    /\ tail_seq_ <= in_seq_
    /\ in_seq_ <= tail_seq_ + Depth
    /\ lpc = "read" \/ Admitting => in_seq_ < tail_seq_ + Depth
    /\ lpc = "admitted" => status[IndexOf(in_seq_)] = "Pending"
                            /\ sequence[IndexOf(in_seq_)] = in_seq_
    /\ \A i \in Slots : Live(i) =>
        /\ sequence[i] \in tail_seq_ .. NextSeq - 1
        /\ IndexOf(sequence[i]) = i
        /\ parked_[i] \in Events /\ parked_[i].mask = mask[i]

\* A slot waits for exactly the live slots that came before it and whose masks
\* meet its own, and one that has started waits for none.
BlockersInv ==
    \A i \in Slots :
        /\ Live(i) => blocked_by_[i] =
                {j \in Slots : Live(j) /\ sequence[j] < sequence[i]
                                /\ Intersects(mask[j], mask[i])}
        /\ Started(i) => blocked_by_[i] = {}

\* Every sequence handed off, posted or not, is a running slot's, once.
HandedOff == working \cup {completions[k] : k \in 1 .. Len(completions)}

CompletionsInv ==
    /\ \A s \in HandedOff : status[IndexOf(s)] = "Running" /\ sequence[IndexOf(s)] = s
    /\ \A k \in 1 .. Len(completions) : completions[k] \notin working
    /\ \A k, l \in 1 .. Len(completions) : completions[k] = completions[l] => k = l

StreamInv == TypeOK /\ WindowInv /\ BlockersInv /\ CompletionsInv
=============================================================================
