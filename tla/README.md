# ETCS in TLA+

Specifications of the concurrent core of ETCS (Entity-Tag Command System): the
lock-free ring, the event stream with its reorder buffer, the stream pairs
through which two entities exchange data, and the life of an entity and of the
module it comes from: its calls, its hash, its end and the unload of the
library. The modules are translated from `src/core`; TLC checks them on small
instances and TLAPS proves the central invariants for every value of the
constants.

To run: `tlasany M.tla` parses, `tlc -config X.cfg M` checks (the pairs are in
the table of section 4), `tlapm MProofs.tla` checks proofs.

## 1. The system

ETCS is a C++ runtime of *entities* that carry *tags* and of *modules* (shared
objects) that a loader attaches, changes and detaches. Every structural change
goes through an event stream; entities of two modules exchange data through
typed stream pairs; the command language drives both.

| component | state it keeps | operations | interacts with |
|---|---|---|---|
| LMAX ring (`LMAXSequentialSharedPage.h`) | three cursors, per slot a sequence number, a ready flag, a payload; a tombstone | `write`, `tryAdvancePublisher`, `acquireRead`, `markConsumed`, `reset` | input and completion ring of the event stream, medium of an in-process stream pair |
| Event stream (`EventStream.h`) | reorder buffer of 64 slots (`GAP_DEPTH`) (status, mask, blockers, parked event), window, two rings, two stop flags | `enqueue`, `post_completion`, `ordering_loop`, `service`, `stop`, `emscripten_poll` | emitters spin on their event; handlers run on the ordering thread or hand work to pools |
| Stream pair (`MirrorBuffer.h`) | strategy (ring, pipe, socket), staging page, `in_` buffer, wrap chain and scratch pool, descriptors | `writeRaw`, `readRaw`, `closeWrite`, `closeRead`, `teardownPair` | built by `Entity::call`, driven by the bodies of the modules, interrupted by the signal context |
| Shared page (`SharedPage.h`) | a page of frames, `producers_live`, a tombstone | `acquireWrite`, `commit`, `reset`, `tombstone` | staging page of a pipe call |
| Entity (`Entity.h`) | tags, parents, contexts; the delete gate (`retiring_`, `lifetime_holds_`); the hash and its epochs | `call`, `addTag`, `removeTag`, `copy`, `resolve_held`, `etcs_retire_entity`, `getHash`, `getDigest` | raises events, builds stream pairs, waits for producers; walked by any thread that has resolved its RID |
| Event nodes (`EventNode.h`) | pending flag per event | `on_emit`, the emitters of structural events | event stream |
| Tags and scopes (`Bundles.h`) | tag masks; per entity the registered calls, and a shared flag per action | `intersects`, `ScopeTag`, `PairScope`, `CausalScope`, `interruptAt` | event stream masks, entities, the shell |
| Module loader (`DynamicLoader.h`, `DeletableBase`) | registry of modules, each with a lifetime owner; registered Roots; pending unloads | attach, promote, vacate, unload, change, destroy, drain | every module's event stream, the arenas, the delete gate |
| Memory arena (`MemoryArena.h`) | pages, free lists, records of what lives in them | allocate, reclaim, adopt, the sibling search | the delete gate, promotion of a module's owner |
| Thread pool (`ThreadPool.h`) | priority queue under a mutex, workers on a condition variable, io completion thread, stop flags | `enqueue`, worker loop, `io_completion_loop`, `trigger_shutdown_drain` | dispatches and stream bodies |
| Signal context (`SignalContext.h`) | interrupt and terminate flags of a chain of authorities, an eventfd | raise, test, poll | blocked readers and writers |
| Runtime ids, API macros, executor, buffers, sandbox, ontology, loaders, scripts | see `PROJECT.json` | | |

Where the hard behaviour is:

- **Ordering of memory accesses.** Producers of the ring race on a sequence
  number and on a publisher cursor, help each other publish, and reuse slots.
- **Window and blockers.** The event stream starts an event as soon as nothing
  before it conflicts with it. Slots, numbers and blocker bits have to agree
  over reuse, hand-off, abandonment and out-of-order completion.
- **End of stream.** A stream may end by the writer's close, by the reader's
  return, by a kill of either side, by a failed dispatch, or by a timeout, and
  each side finds out by polling one thing at a time.
- **Stop.** `stop()` and tear-down race with what has already been accepted.
- **Pointers that outlive what they point at.** Any thread may resolve an RID and
  follow the pointer while the loader's thread destroys the entity; memory is
  zeroed and reused; a call's way out looks its entity up again.
- **Decided here, done there.** A call decides under a lock that it is the first
  or the last of its label and has the flag changed by an event that is served
  later; an unload is requested, held back for 100 ms, and served when ownership
  may have changed twice.
- **Caches without a lock.** A node's hash is three words that any puller reads
  and any recompute writes; an epoch says which of them belong together.

What makes each component correct:

- *ring*: cursors never overtake one another, nothing incomplete is published,
  nothing is lost, a write is refused only when the ring is full;
- *event stream*: conflicting events run in admission order and never together,
  every accepted event is released, stopping terminates;
- *stream pair*: a reader gets the frames that were written, whole and in order,
  and end of stream only after the last; nobody stays blocked once the other
  side has gone; nothing is torn down under a running body;
- *thread pool*: what it accepted is run, drain or no drain; what it was about
  to be given by its own io thread is not turned away; the drain returns, and
  when it has nothing runs any more;
- *entity*: memory is not reclaimed under a walk; a hash that counts as current
  is the state's; a digest is one stamp's;
- *scopes*: what is flagged as running runs, and the other way round; an
  interrupted call gets out; a delete waits for the calls it interrupted;
- *loader*: exactly one token owns a mapped module, it is alive, and nothing
  attached loses its library; a module nobody owns is claimed again or unloaded.

`PROJECT.json` lists every component with its status and every hazard with its
source line and the properties that watch it.

## 2. Modules

| module | what it is | code |
|---|---|---|
| `SequencedQueue` | abstract: a bounded FIFO of numbered messages, published contiguously, handed over once | what the users of the ring rely on |
| `LMAXRing` | the ring, one action per atomic operation | `LMAXSequentialSharedPage.h`, consumer as in `LMAXStream.h` |
| `LMAXRingTSO` | the same, with the ready store delayed in a store buffer | the same, on x86 |
| `MCLMAXRing`, `MCLMAXRingTSO` | symmetry for the runs | |
| `MCLMAXRingOpen` | `LMAXRing` with a history: who has written, and whether the ring has been full of published frames | |
| `LMAXRingProofs` | theorems on `LMAXRing` | |
| `OrderedDispatch` | abstract: admission order, an event starts when no earlier conflicting one is left | what emitters rely on |
| `EventStream` | the ordering thread, emitters, workers, `stop()` | `EventStream.h` |
| `MCEventStream` | tag masks and symmetry for the runs | |
| `EventStreamProofs` | theorems on `EventStream` | |
| `RingStream` | an in-process stream call, over `Ring == INSTANCE SequencedQueue` | `MirrorBuffer.h` (ring strategy), the typed `Entity::call` |
| `RingStreamProofs` | theorems on `RingStream` | |
| `PipeStream` | a stream call over a pipe and a staging page | `MirrorBuffer.h` (pipe strategy), `SharedPage.h`, the untyped `Entity::call`, the produce trampoline |
| `PipeStreamProofs` | theorems on `PipeStream` | |
| `ThreadPool` | the workers, their queue, the io thread and the drain | `ThreadPool.h`, with the tasks `Entity::call` and the trampolines queue |
| `ThreadPoolProofs` | theorems on `ThreadPool` | |
| `DeleteGate` | a block of memory, the entities that live in it in turn, those who walk them, and the destruction | the gate in `Entity.h`, `destroyImpl` and the cascade in `DynamicLoader.h`, the reclaim in `MemoryArena.h` |
| `EntityScopes` | an entity's calls, their flags and the request to delete it; EXTENDS `DeleteGate` | `Scope` and `ScopeTag` in `Bundles.h`, `tagModifyBody`, the drain, `DestroyEvent`, `DeletableBase::Delete` |
| `EntityProofs` | theorems on `DeleteGate` and `EntityScopes` | |
| `StateHash` | epochs, caches and recomputes of a chain of nodes | `markStateChange`, `getHash`, `getDigest`, `stampHash` in `Entity.h`, the audit of the root hash |
| `StateHashProofs` | theorems on `StateHash` | |
| `ModuleLifetime` | one module name: its instances, owner, siblings, Roots and delayed unload | `attachModule`, `addTagImpl`, `promoteOrVacate`, `changeModuleImpl`, `requestUnloadImpl`, `PendingUnloadRegistry` |
| `ModuleLifetimeProofs` | theorems on `ModuleLifetime` | |
| `MCEntityScopes`, `MCStateHash` | labels of calls, and what each puller asks for | |

Layering: `LMAXRing` is checked to implement `SequencedQueue`; `EventStream`
uses two such queues (as sequences bounded by `RingSize`: what is observable of
a `SequencedQueue` once claim, completion and publication of one message are
taken together, the ring's callers waiting for the answer) and is checked to
implement `OrderedDispatch`; `RingStream` runs directly over `SequencedQueue`'s
actions, so that claim, completion and publication stay separate steps.
`EntityScopes` is composed with `DeleteGate`: its request to delete starts the
gate's destruction, and what its calls find depends on whether the entity is
still there.

### LMAXRing

State: `sequence_`, `publisher_cursor_`, `consumer_cursor_` and the frames'
`sequence`, `ready` and payload are the code's; `pc`, `seq` and `cur` are the
program counter and locals of each producer; `cpc`, `expected_seq_` and `got`
are the consumer's. Every shared load, store or compare-exchange of `write()`
and `tryAdvancePublisher()` is one action (`LoadSequence`, `LoadConsumer`,
`Claim`, `ClearReady`, ... `LapGuard`, `Publish`), so all interleavings of these
operations are explored, under sequential consistency. Abstractions: a
payload is the number of the message copied in (a memcpy is one step); numbers
do not wrap at 2^64; `UINT64_MAX`, the "none yet" of the publisher cursor, is
-1, and the subtraction that would wrap (`seq - consumer` with a stale `seq`) is
spelled out in `HasRoom`. `Await` distinguishes the two kinds of client:
blocking emitters of events wait for their frame to be consumed before they
write again; `LMAXStream::write`, unload requests and events allocated on the
heap (`EventNode.h:173`, `DynamicLoader.h:3317`) do not wait.

### LMAXRingTSO

The one x86 reordering that matters is added: the release store of `ready` is a
plain store that may be in the store buffer while the loads that follow it in
`tryAdvancePublisher()` are satisfied. A locked compare-exchange drains it, and
the buffer drains by itself sooner or later. The other stores of `write()` come
before it and leave the buffer in order, so delaying them adds nothing that the
consumer can see.

### EventStream

The ordering thread owns the reorder buffer; only the two rings, `stop_` and
`is_cleaning_up_` are shared, so one action is a ring access, an admission
(`acquire` writes only private state), or one slot of `service()`'s sweep.
`blocked_by_` is the bit mask as a set of slots. Handlers belong to modules;
what the stream sees of them is the answer: `Inline` (done on return),
`Async` (a worker posts the completion later) and `Drop` (nothing to order, the
slot is abandoned). Masks are sets of tags, and the fail-shut `all()` is the set of
all tags. An emitter spins until `on_emit` releases it. The sweep
skips slots it does nothing to: `Visits` is the next slot it acts on.

### RingStream

From the moment `Entity::call` has built the pair to the end of the call: the
producer's body on a pool worker (`writeRaw`, `closeWrite` by the write guard),
the consumer's body on the calling thread (`readRaw`, then `teardownPair`).
Every test of a flag is a step: the tombstone in `writeRaw`, the ring's assert
on the same tombstone, the room check, the signal test; the reader's
acquire, tombstone test and signal test. `wrapped` adds a wrap chain: frames
point at entries of the scratch pool, and `closeWrite` may send a terminator.
`flagged` says whether the context has an interrupt flag of its own that
`teardownPair` raises. `Kill` interrupts one side's scope.

### PipeStream

A frame is two units (length, payload) so that reads and writes of any size can
split it. Threads: the dispatch (raise of `producers_live`, `EnqueueBody`, or a
dispatch that fails in either of two places), the producer's body (`writeRaw`
= stage, flush in pieces, reset of the page; `closeWrite`), and the calling
thread (`readRaw` = extract or fill, `closeRead`, wait, `teardownPair`).
`TimeOut` is the two-second limit of the wait. A kill reaches `flushStaged` only
on a full pipe, as in the code; the blocking `::read` tests no signal.

Bodies are in the modules, not in `src/`: in both models they make any number of
calls, stop at a call that answers false, and may return at any time.

### ThreadPool

`enqueue` is two steps, as in the code: the section under `queue_mutex_`
(`Enqueue`) and `notify_one` after it (`NotifyOne`); a thread in between does
nothing else. A worker takes the lock, tests the predicate and, if it is false,
sleeps: the test (`TestFalse`) and the sleep (`Sleep`), which is one step for
threads that take the lock, are two for `trigger_shutdown_drain`, whose store of
`stop_` would fall between them if it were not under the lock. Tasks are those
the runtime queues: a call that runs on a worker and waits there for its
producer, its dispatch, its produce body, and the callback of a completed
submission; `High` keeps the two classes of priority the queue sees. A refused
dispatch throws out of `call()`, which ends there. A refused body is only logged:
nobody closes the write end, and the call stays in its read. `BodyExits` is `exit()` in a work function,
which runs the drain on that worker (`drainer`). The drain's steps are those of
the code, in its order: `StopIo`, `JoinIo`, `SetStop`, `NotifyAll`,
`JoinWorkers`, which skips the worker it runs on.

### DeleteGate

One block of arena memory houses one entity after another: `life` counts those
that have died in it, and `retiring_` and `lifetime_holds_` are the gate's words
in the block, zeroed with it. A walker resolves the RID (`Resolve`), tests the
gate, raises the count, reads the gate again, and holds or takes back; each is a
step, and between any two of them the block may die and be reused, `wlife` being
the life its pointer was given in. The destruction is the ordering thread's:
`DestroyImpl` is the path of an explicit event (gate, lists, wait, then two more
retire rounds), `Reclaim` the paths that retire one or three times on the way
down from an arena or a parent. `AwaitQuiesced` ends when nobody is inside or
when its two seconds are over, whichever the run chooses. `strayed` is a ghost: a
walker has written to the count of an entity that is not its own.

### EntityScopes

`Scope` is the sequence `entries`; `signalled` the calls whose own flag is
raised; `flags_` the shared flags `active_scope_<label>`; `stream` the tag events
on the ordering stream of the entity's module, one of the emitters of which is a
call that spins until it is served. A call is made once; a step of it that
follows a pointer into an entity that is gone makes it `wild`, and nothing is
said of what it does then. `Modify` is `tagModifyBody`, with its refusal to take
down the flag of a live scope. `Delete` closes the latch and interrupts every
registered call, `DrainEnds` and `DrainRefuses` are the two ways out of the
drain, `ServeDestroy` is the loader's answer. The shell interrupts by position
(`InterruptAt`) and removes flags as if they were tags (`RemoveFlag`).

### StateHash

The tree is a chain of `Depth` nodes whose last may be attached and leave. A
transition changes `surface` (tags and flags, as a number) or the chain, and then
counts up `hash_epoch_` of its node and of those above it, one node a step. A
puller has a stack of calls (`getHash` recurs into children), and each load or
store of a shared word is a step: epoch, valid epoch, cached value, surface,
child, the two halves of the digest, value, stamp. The hashes are injective on
what they hash, so a hash is the sequence of surfaces it stands for. Ghosts:
`overlapped` (two recomputes of one node were under way at once), `crossed` (and
from different epochs), `moved` (the state moved during this audit).

### ModuleLifetime

Everything but `spawn<T>` and the registry's threads runs on the loader's one
ordering thread, so a handler is one step on `loader`, the record of its books.
`Bootstrap`, `AttachModule`, `PromoteOrVacate` and `Unload` are functions from
books to books, as the handlers compose them. Which sibling a search meets first
is left open (`Heirs`); a candidate attached elsewhere ends the search without an
heir, as in the code. An unload request is `fired` (on the stream), then `waiting` (its thread
sleeps 100 ms), then served again by `Recheck`, which names the instance it was
made for. `Build` is a module's own thread constructing an entity whose Load
event comes later. `Children` are typed children of the module's types, under
entities of other modules: `AddTag` is `addTagImpl`, which attaches the child to
the instance that is registered or, when there is none, calls `attachModule` for
the root ancestor and then for the child; `DeleteChild` is the end of such a
child, which hands nothing over. The root ancestor is taken to be bound to its own
module, so that `attachModule` drops it (`DynamicLoader.h:1622`); an ancestor that
is not bound yet, because its constructor adds the tag before its Load event, is
not modelled. `barrier` is `join_all()`; `blocked` the ordering thread in
`spawn()` while `join_all()` holds the mutex. `late` is a ghost: a recheck was
served for an instance already unloaded.

## 3. Bounds

Every bound is a CONSTANT: `MaxSeq`, `MaxEvents` and `MaxFrames` stop clients
from beginning more work and restrict nothing else; the proofs hold for all
values of them. What the runs use, and what makes it enough:

| run | instance | distinct states | the interesting cases it contains |
|---|---|---|---|
| `LMAXRing_closed` | 3 producers, 4 slots, numbers below 7, waiting | 2,168,308 | three of the four slots reused after a wrap; three producers in the claim, in the sweep, and helping each other; a producer that sleeps anywhere |
| `LMAXRing_open` | 2 producers, 2 slots, numbers below 5, no waiting | 144,076 | two and a half laps of the ring; one producer alone, on a full and an empty ring; two that meet each other's gap; the room check with a stale consumer cursor |
| `EventStream_order` | 3 emitters, 4 events, window of 3, rings of 2 | 3,080,000 | an event blocked by two others, and by one that is itself blocked; the window saturated and each of its slots reused; both rings full; `Inline`, `Async` and `Drop` in every place |
| `EventStream_live` | 2 emitters, 3 events, window of 2, rings of 1 | 139,567 | a full completion ring and a full window at once; `stop()` at every point |
| `RingStream_ends` | 2 slots, 4 frames, with and without a wrap chain | 19,064 | a writer blocked on a full ring; two laps of the scratch pool; a kill of either side at every point; a terminator after the last frame |
| `PipeStream_call` | pipe and `in_` of 3 units, 3 frames of 2 | 12,676 | a frame split across the pipe and across reads; a full pipe with half a frame in it; a kill in the middle of a frame; both failing dispatches |
| `ThreadPool_drain` | 2 workers, 1 call, 1 submission | 12,473 | a worker that waits for work queued behind it; a drain at every point of the three levels; the drain's own worker being waited for |
| `DeleteGate_walk` | 3 walkers, 2 lives of the block | 182,334 | one walker inside while another is refused; a pointer of the first life used in the second; waits that run out in each of the rounds |
| `EntityScopes_calls` | 2 calls of one label, 1 life, no walkers | 123,306 | one call unregisters while the other registers; a delete from outside and from each body; removal by the shell between the two events of a call |
| `StateHash_pulls` | 2 nodes, 1 transition at a time and in all, 1 auditor, 1 puller of digests, epochs up to 2 asked at | 3,034,916 | a child that retires under a recompute; an audit, a digest and a transition interleaved at every word; a divergence that an audit caused itself |
| `ModuleLifetime_owner` | 3 entities, 2 Roots, 1 typed child, 2 instances, 3 pending unloads | 266,398 | hand-off Root to entity and entity to entity; two unload requests of one instance; an instance that outlives the recheck of the last; a typed child that brings the module back |

Two slots are the smallest ring with more than one slot (`Slots` is a power of
two in the code), and numbers up to three laps let every slot be reused while a
producer still holds a number of the previous lap; a later lap begins with the
same differences between the cursors, on which alone the code's tests depend.
A window of three slots (the code has 64) is the smallest with a chain or a
diamond of blockers. In a pipe a frame of two units and a capacity of three make
every split occur at every offset; page and `in_` are never larger than one
frame and a half, so a longer stream repeats these states. For the
pool, one call occupies one worker while the other has to run its dispatch and
its body; a larger instance (3 workers, 2 calls, 1 submission, 2,050,000 states)
was checked for the safety properties too. The run's one call on two
workers leaves a worker for the dispatch and the body, unless that worker drains.
With as many calls as workers (2 workers, 2 calls, 58,555 states, checked apart)
every worker may wait for ever: `AcceptedTasksRun` leaves out these runs only
(`AllHeld`) and holds, and `QueuedTasksRun`, which leaves out none, is refuted
(section 6). The code's floor of four workers ("4 IS A FLOOR", `ETCS_API.h`) moves
the number of calls it takes, no more.

Three walkers are the smallest number with one inside, one refused and one
astray at once. `EntityScopes_calls` leaves walkers to `DeleteGate_walk`: a walker
shares nothing with a call but the wait it prolongs, and that wait is bounded.
A label matters only to the calls that carry it, so one label with two calls is
the smallest instance of first and last. A chain of two nodes has a node with a
child and one without; a longer one adds only more of the former. The bound
`MaxEpoch` keeps audits from counting up the epochs for ever.

Symmetry is used over producers and emitters, only in runs without liveness
properties. `CHECK_DEADLOCK FALSE` stands in every run whose system may stop:
clients may cease, a stream ends, a pool is drained. `EventStream_order`, where
it never stops, checks deadlock.

## 4. Runs

| run | module, configuration | what it shows |
|---|---|---|
| `LMAXRing_closed` | `MCLMAXRing`, `LMAXRing_closed.cfg` | several producers that wait for their frame, as blocking emitters do: claims are distinct, published frames intact, and the ring implements the queue |
| `LMAXRing_open` | `MCLMAXRingOpen`, `LMAXRing_open.cfg` | producers that do not wait: the cursors never overtake one another; one alone has a bounded FIFO, however full, and two have one until they fill it (`QueueUntilOverrun`); frames stay intact as long as the consumer is not a whole ring behind; every frame that was claimed is consumed, whoever meets whose gap |
| `LMAXRingTSO_lost` | `MCLMAXRingTSO`, `LMAXRingTSO_lost.cfg` | violation: a complete frame stays unpublished for ever (section 6) |
| `EventStream_order` | `MCEventStream`, `EventStream_order.cfg` | conflicting events never run together and start in admission order (`ImplementsDispatch`), no waiting emitter is lost, the loop never goes round with something serviceable left |
| `EventStream_live` | `MCEventStream`, `EventStream_live.cfg` | every accepted event is released unless the stream is stopped, and `stop()` returns |
| `RingStream_ends` | `RingStream`, `RingStream_ends.cfg` | readers and writers blocked on the ring come back after a close and after a kill; staging damages at most one frame |
| `PipeStream_call` | `PipeStream`, `PipeStream_call.cfg` | framing, delivery before end of stream, tear-down after the body; the reader comes back once the producer's body closes the stream, the call once the body is over; a dispatch that fails closes nothing, and nothing is said of its reader |
| `ThreadPool_drain` | `ThreadPool`, `ThreadPool_drain.cfg` | accepted tasks run, completions are kept, the drain leaves nothing running; it returns unless it joins a worker that waits for the drain's own body or for a body the pool has refused |
| `DeleteGate_walk` | `DeleteGate`, `DeleteGate_walk.cfg` | the count is the number of walkers inside, and after a wait that found nobody no walk is under way when the memory goes |
| `EntityScopes_calls` | `MCEntityScopes`, `EntityScopes_calls.cfg` | a label's flag is up exactly when a call carries it; a delete by request finds the calls it interrupted past their last look at the registry; interrupted calls leave, one that deletes its own entity included |
| `StateHash_pulls` | `MCStateHash`, `StateHash_pulls.cfg` | a current cache is the state's hash, a digest is one stamp's, an audit reports nothing that is not there: each up to overlapping recomputes |
| `ModuleLifetime_owner` | `ModuleLifetime`, `ModuleLifetime_owner.cfg` | a top-level entity or Root that owns a mapped module is alive, and it alone believes to own it; no such token loses its library while attached; a vacant module is claimed or unloaded; the join barrier lets go |

Every property of a passing run has a mutant: a variant of one mapped
definition, written next to it and marked "Mutation", under which TLC finds the
property violated.

## 5. Fairness

Safety runs use `Spec`, without fairness. For liveness:

- Threads keep running: the ordering thread, a producer inside `write()`, the
  consumer of a ring, a stream body inside `writeRaw` or `readRaw`, the calling
  thread, the pool's threads have weak fairness on their own next step. The
  code's loops spin or poll; no priorities are involved.
- A weak compare-exchange may fail spuriously or lose a race; that it does not
  fail for ever while it could succeed is strong fairness of `Claim` and
  `Publish` (the same loop retries it).
- A mutex locks no thread out for ever: strong fairness of the pool's sections
  under `queue_mutex_` (`Acquire`, `Spawn`, `Post`, `SetStop`).
- Work handed off by a handler posts its completion; a produce
  body that has returned is followed by its guards; a pool task that has nothing to wait for
  ends.
- An entity's call goes on by itself between body and registry, and a body
  returns once its context is interrupted (the contract `ScopeTag` states for
  bodies). The ordering thread serves tag events, the destroy request and the
  steps of a destruction, whose waits are bounded. The drain ends or refuses:
  its five seconds are a deadline the code has, so `InterruptedLeaves` may use it.
- The loader's ordering thread serves unload requests, the registry's threads
  wake up after their 100 ms, and `join_all()` returns when they have all ended.
- Nobody is obliged to emit, write, read, make a call, kill, stop or drain; no
  body has to return; no submission has to complete; `TimeOut`, `CallGivesUp`
  (the two seconds of `call()`) and spurious wake-ups have no fairness. So no
  liveness property but `InterruptedLeaves`, for a call that deletes its own entity,
  holds because a timeout came to help.
- No weak fairness is assumed of transitions, pulls or walkers: `StateHash` and
  `DeleteGate` are checked for safety only.

## 6. Findings and observations

One disagreement between the code and what it says has a run of its own:
*Lost publication* (`LMAXRingTSO_lost`). `tryAdvancePublisher` stores its
own `ready` with release order and then reads the cursor and its neighbour's
`ready`; on x86 the store may still be in the store buffer. The producer of the
second of two adjacent frames sees a gap where the first is not visible yet and
returns; the producer of the first publishes its own frame, sees a gap where the
second is not visible yet, and returns as well. The second frame is complete and
stays unpublished; with producers that wait, nobody comes by to publish it. Under
sequential consistency this does not happen (`EveryFrameConsumed`, `LMAXRing_open`).

The rest were met while modelling. Where a module states the property that
fails, TLC shows the behaviour when its name is added to the configuration of
the module's run; the properties of the runs are what does hold.

Ring:

- *A frame published half written* (`LMAXRing`, `FramesIntact`, with two producers,
  two slots, `Await = FALSE`, `MaxSeq = 3`). The lap guard's two loads can straddle
  the reuse of a slot: the ready flag is that of the old lap and the number that of
  the new, although "ready==true implies every field below is visible"
  (`LMAXSequentialSharedPage.h:225`). On the event stream's rings unload requests and
  heap-allocated events do not wait. It takes a consumer that is a whole ring behind
  (`IntactUnlessFull`, section 7).

Thread pool:

- *A starved pool* (`ThreadPool`, `QueuedTasksRun`, with two calls). Calls that run on
  the pool's workers wait for dispatches and bodies in the queue of the same pool. As
  many of them as workers leave nobody to run these: the two seconds of `call()` begin
  only when the consumer's body has returned, and it is in `::read`. A pool with fewer
  threads "still runs every queued task, with less overlap" (`ThreadPool.h:451`).
- *A refused body* (`ThreadPool`, `RefusedCallEnds`). When the pool stops between a
  call's dispatch and its body, the trampoline drops the raise and throws, the
  dispatch logs it (`Entity.h:1904`), and nobody closes the write end: the consumer
  stays in `::read`, and the drain cannot join its worker (`ThreadPool.h:821`). The
  comment says the pair's frame does not wait on "a producer that does not exist"
  (`ETCS_API.h:913`). `DrainReturns` leaves these runs out by name (`ReaderStranded`),
  and also those in which a call waits for the body that is draining
  (`ExitAwaited`), where the drain hangs as well.

Streams:

- *Stop abandons accepted events* (`EventStream`, `EveryEmitterReleased`).
  `enqueue` may have accepted an event that the loop, seeing `stop_`, never
  drains (`EventStream.h:287`): its emitter spins for ever.
- *A scratch entry is overwritten* (`RingStream`, `FramesKeepTheirMessage`).
  `emitWrapped` stages into the scratch entry before the ring has refused the
  write, although "a slot is only reused once the ring itself has wrapped past
  it" (`MirrorBuffer.h:1112`). `OnlyOldestDamaged` is what holds.
- *End of stream with a frame unread* (`RingStream`, `EofAfterLastFrame`). The
  blocking read tests the ring, then the tombstone, and does not look at the ring
  again: a frame published, and the stream closed, between the two tests is
  dropped, although "the drain has to win the race against the tombstone"
  (`MirrorBuffer.h:365`).
- *Abort under a writer* (`RingStream`, `NeverAborts`). `writeRaw` tests the
  tombstone, and the ring's `write` asserts on it later
  (`LMAXSequentialSharedPage.h:191`).

Entities:

- *A walker that is late* (`DeleteGate`, the ghost `strayed`). A walker that
  resolved the RID before it was delisted, but tests the gate after the free,
  reads zeroed memory: the gate is open, the hold succeeds on an entity that is
  dead or on the next one, and its release may leave a count of -1. The gate
  protects from the raise on, not from the resolution on.
- *A call's way out* (`EntityScopes`). `~ScopeTag` unregisters and then uses the
  same pointer to remove the flag (`Entity.h:3009`); the drain sees the registry
  empty in between and the entity may be gone: the state `wild`. The same holds
  for a call that was dispatched before the drain and registers after it.
- *A late removal interrupts a later call* (`Bundles.h:381`). First and last are
  decided under the lock and the flag's event is issued after it; a removal that
  arrives when the next call of the label has registered is taken for an
  interrupt request, which the comment at `Entity.h:3002` says the order of the
  two rules out. `FlagMirrorsScopes` shows that the flag itself stays right.
- *A refused delete is final.* The latch of `DeletableBase` is not reopened when
  the drain's five seconds are over; and a body that deletes its own entity
  always waits for itself and is refused. `InterruptedLeaves` shows that such a
  body comes back. A destruction on the way down from a parent or an arena does not
  drain scopes at all.

Hashes (`StateHash`):

- Two recomputes of a node that began on either side of a transition can
  interleave their stores and leave the older value under the newer epoch (the
  ghost `crossed`), which "the value is stored but never believed"
  (`Entity.h:347`) does not expect.
- Two recomputes of one node at once can tear the digest under an unchanged
  epoch (the ghost `overlapped`), against `Entity.h:356`.
- An audit reports a divergence when a transition happens while it looks.

Modules (`ModuleLifetime`):

- *A typed child owns a module* (`EveryOwnerExists`). When the module of its type
  has been unloaded, `addTagImpl` calls `attachModule` for the root ancestor, which
  is dropped because it is bound to another module, and then for the child, which
  claims the vacant `lifetime_owner` (`DynamicLoader.h:1823`). The child's end does
  not call `promoteOrVacate`: the owner is gone, and the module is never vacated.
  "A typed/addTag<T> child must never become lifetime_owner"
  (`DynamicLoader.h:2461`). `OwnerIsAlive` therefore speaks of owners that are
  top-level entities or Roots.
- An entity built by `spawn<T>` that is promoted before its Load event is
  "already attached" then, and `attachModule` returns before it wires anything:
  an entity without a dispatch table, which the comment at
  `DynamicLoader.h:1919` says is never handed back.
- Two unload requests of one instance: the first recheck unloads, the module is
  attached again, and the second recheck still names the old instance (the
  ghost `late`, `DynamicLoader.h:2047`).
- `join_all()` joins while it holds `mutex_`. A first fire served meanwhile blocks
  the ordering thread in `spawn()`, and the threads being joined wait for that
  ordering thread (`DynamicLoader.h:254`). `JoinEnds` states that this is the only way
  in which it does not return.
- Typed children of an entity are no candidates and do not keep the module's
  library mapped (but they may own it, as above); and when the spawn tag is missing from the catalog,
  `attachModule` answers false after ownership has been claimed.

## 7. Proofs

All theorems are proved for every value of the constants that satisfies the
named assumptions: `RingAssumption` (at least one slot), `StreamAssumption`
(a window and rings of positive size), `RingStreamAssumption` (at least one slot,
a bounded number of frames), `PipeStreamAssumption` (`in_` holds a frame,
a pipe something), `PoolAssumption` (two workers, distinct names),
`GateAssumption` (finitely many walkers), `ModuleAssumption` (entities, Roots
and typed children are different, and none is "vacant"), `ScopesAssumption` (each call has a label, the shell
is no call), `HashAssumption` (two nodes or more). The rings and windows are proved
for any size, by two lemmas about `s % n` (`SlotInRange` and `SlotDistinct`: two
numbers less than `n` apart have different slots), although the code's masks need powers of two.

- **Ring** (`LMAXRingProofs`). `TypeCorrect`, `CursorsStayOrdered`,
  `ClaimsStayDistinct` and `CursorsGrow` rest on `CursorInv`: a stale `seq` is
  never ahead of `sequence_`, so a claim that succeeds certifies the room check
  although the consumer cursor was loaded earlier; and the number the lap guard
  reads was written by a producer that had claimed it. They hold for every kind of
  client. `PublishedFramesIntact` is `IntactUnlessFull`:
  in every behaviour in which a slot is left at all times (`SlotLeft`: fewer frames
  published and not consumed than slots), published frames are intact, for any number of
  producers and whoever waits. It rests on `WindowInv`: while a slot is left, the ready
  flags in the ring are those of its present lap. The premise is one on the behaviour and
  not on the clients, because the code has clients of both kinds, and it is needed
  (section 6). Under the same premise
  `RingImplementsQueue` proves the refinement: a claim, the store of ready, the
  publisher's compare-exchange, the callback and the release of the slot are the
  five actions of `SequencedQueue`, every other step is a stutter
  (`SameComplete`), and what the callback is given is the next message, whole
  (`HandedInv`). `WaitingClientsRing` draws both without the premise for clients that
  wait and are fewer than the slots (`ClosedLoop`): each frame not yet consumed is then
  some waiting producer's (`FramesOwned`), so a slot is left. This is the case of
  blocking emitters when nobody else writes to their stream.
  `SoloFramesIntact` and `SoloRingImplementsQueue` prove the same of one
  producer that need not wait (`OneProducer`): the ring may be full then, and a slot
  is written again as soon as its frame is consumed, so frames belong to nobody and
  `WindowInv` is of no use. `SoloInv` follows the cursor instead: nobody else moves
  it, `write()` returns with everything published, and at most the frame being written
  is not; where a full ring shows the sweep the ready flag of the lap before, the
  number in that frame stops it. A stream pair's ring has one producer: this is the
  queue `RingStream` is built on.
- **Event stream** (`EventStreamProofs`). `StreamTypeCorrect` and
  `ConflictsNeverConcurrent` rest on `StreamInv`, four parts: `TypeOK`;
  `WindowInv` (live numbers lie in the window and in their own slots);
  `BlockersInv` (a slot waits for exactly the live, earlier, conflicting ones, and
  a started one for none); `CompletionsInv` (each sequence handed off is that of
  one running slot). `NeverConcurrent` follows because of two live conflicting
  slots the later one has the earlier among its blockers.
  `StreamImplementsDispatch` maps each step to an action of `OrderedDispatch` or to
  a stutter: live slots hold distinct numbers, so a slot that moves or empties is
  one event that moves or leaves (`SlotMoves`, `SlotEmpties`), and a slot without
  blockers is an event that may start (`LaunchStarts`). `NoPassIsMissed` rests on
  `SweepInv`: a sweep that has done nothing has not skipped a slot it could serve.
  `NoReleaseIsLost` rests on `WaitersInv`: the events in the ring and in live slots
  belong to different emitters, exactly those that wait; the equation of
  `WaitersAccounted` is its count.
- **Ring call** (`RingStreamProofs`). `RingStreamTypeCorrect` and
  `StagingDamagesOne` rest on `StreamInv`: the frames in the ring fit in it
  (`RoomInv`), a frame that is being written is in its scratch entry already
  (`StagedInv`), and what `OnlyOldestDamaged` says of published frames holds of
  all claimed ones (`ScratchInv`), without which a publication would break it.
- **Pipe call** (`PipeStreamProofs`). `PipeTypeCorrect`, whose account of
  `producers_live` is the point, and `NoTeardownUnderBody` rest on `StreamInv`:
  the count is the sum of the two raises, the body's is made before the
  dispatch's is dropped, and only a zero lets the wait end. `AcceptedIsDelivered`
  adds `CountInv`, which follows lengths only: what was returned, what lies in
  `in_` and in the pipe and what is still to be flushed add up to what was staged,
  until the framing is lost. `FramesAreInSync` adds `FramingInv`, which follows
  contents: `in_` and the pipe hold the units of the stream from the next frame on,
  and a page that can still be flushed goes on where the pipe ends, until a flush
  is cut (`UnitsConcat`, `UnitsSub`: concatenations and parts of such sequences).
- **Thread pool** (`ThreadPoolProofs`). `PoolTypeCorrect`, `CompletionsAreKept`
  and `NothingLeftBehind` rest on `PoolInv`: a task is queued iff it is in the queue
  and runs on exactly one worker; the io thread is gone before `stop_`; a worker
  that has left saw `stop_` and an empty queue, which nothing can fill again.

- **Delete gate** (`EntityProofs`). `GateCorrect` proves `GateInv`, of which
  `CountStaysTrue` and `NobodyIsFreedUnder` are consequences. `FreedUnderNobody`
  is not inductive: it needs that the count is the number of walkers inside
  (`CountIsInside`), that a walker's pointer is never newer than the entity and
  older than it once it is gone (`PointersAreOld`), how far the destruction has
  come (`DestructionInOrder`), and that from the first wait that found nobody the
  gate stays closed, so that whoever raises afterwards takes the raise back
  (`NobodyAfterQuiesced`).
- **Entity scopes** (`EntityProofs`). `ScopesKeepGate` shows that an entity with its
  calls takes only steps of the gate, or none of it, so `GateInv` holds here as well.
  `ScopesCorrect` proves `ScopesInv` on top of it, from which `FlagsMirrorScopes` and
  `CallsAreSeenOff` follow. Neither is inductive. A flag stays right because of
  `RegistryInv` (the registry holds each call of this life between registering and
  leaving, once, so that the call that finds itself the last of its label is) and
  `EventsInv` (a tag event that is not the shell's is of the one call that waits
  for it, so that an event taken from the stream is the one that was to come). The
  drain works because of `DrainInv`: a call that was registered at the request
  is either still registered or past its last look, and once the registry has been
  found empty only the latter is left. A registry is a sequence from which a call
  is removed wherever it stands; `RemoveFirstRange` says what that leaves.
- **Node hash** (`StateHashProofs`). Everything rests on `ControlInv`, which says what
  a puller's stack of calls looks like: one node further up with each call, all but
  the innermost waiting for the next, and for each point of the code what has been
  read by then (`BecomesWellFormed`, `CallsWellFormed`, `AnswersWellFormed`: the three
  ways in which a stack changes keep that). `DigestIsOneStamps` adds `DigestInv`: while
  there is one recompute of the top at a time, a half of the digest differs from
  the cached value only between the stores of that recompute, and the copy of a
  call whose epoch is still the present one was taken while the stamp stood.
  `CurrentIsTrue` and `AuditsAgree` add `CacheInv`. A recompute is `Clean` while no
  transition has reached its node since it read the epoch and none is about to; a call
  is `Vouched` when one it answers to, directly or not, is clean. Then what a
  clean recompute has put together is the hash of the state as it is, and what a
  vouched call reads is right, be it cached or recomputed (`Trusted`); since recomputes
  of one node that are under way together are so from one epoch (`OneEpoch`, until
  `crossed`), the last to stamp it stamps the same. A transition makes every call on
  its way up unclean before it can count up the first epoch (`Settled`); an audit,
  which counts epochs up itself, does so only for a divergence, which a vouched one
  does not find.
- **Module lifetime** (`ModuleLifetimeProofs`). `LifetimeCorrect` proves
  `LifetimeInv`, from which `OwnersAreAlive`, `OwnershipAgreed` and
  `LibraryStaysMapped` follow. Its part `Books` is the loader's bookkeeping: one
  instance at most is mapped, every entity and Root that is attached is attached
  to it, the attached Roots are the registered ones, and while an entity is attached
  the owner is an entity or a typed child. The last makes a promotion find the
  heirs it must: a Root hands over to an entity at once, and an entity's siblings are
  in the arena. `Books` holds until a recheck is late. `OwnersAreAlive` speaks of owners
  that are entities or Roots; that a typed child may own a module and be gone is
  told in section 6.

Every safety property of a passing run is stated by one of these theorems, the two
refinements among them. Only model-checked: all liveness, and `LMAXRingTSO`.
Liveness under fairness is out of the reach of the proof system. What is proved of
`StateHash` and `EntityScopes` takes hashes, stacks and registries as sequences;
no theorem needs induction over them, because a hash is a part of the sequence of
surfaces (`HashOfChild`, `HashOfBottom`), and what a stack is like at one place is
stated for all places at once.

## 8. Not modelled, and the plan

Not modelled, because there is nothing for these tools in it: argument packing
and wire format, command parsing, logging, sandboxing, vendored hashes, scripts,
the web build's single-threaded driver of the event stream, and interfaces whose
providers are not in the repository.

Not modelled yet, in this order:

1. *Forwarding streams*: two instances of `EventStream` that emit into each other
   (`DynamicLoader.h`, handlers that forward an event to the authority), where each
   ordering thread may spin on the other's full ring. Property: every forwarded
   event is released, or the cycle shown.
2. *Signals*: the chain of authorities and `RaiseInterrupt` on the caller's own
   context (`MirrorBuffer.h:1616`); descriptors closed by the producer's copy and
   by `teardownPair` (`MirrorBuffer.h:1642`); the byte by which `in_` is shorter
   than a wrapped frame may be (`MirrorBuffer.h:1269`).
3. *Dispatches that fail*: in a typed call over a ring, a producer whose dispatch
   throws closes no stream either, and the consumer polls the ring on
   (`Entity.h:2081`); `RingStream` begins when both bodies have been dispatched. On a
   pool this is the refused body of section 6, and in `PipeStream` the dispatches that fail
   are actions, of whose readers nothing is promised.
4. *Thread pool, the rest*: `submit` after the drain (`ThreadPool.h:613`), and the
   watchdog's deferred cancellation (`ThreadPool.h:184`).
5. *Memory arena, the rest*: pages and quotas; adoption between arenas. A
   reparented grandchild stays in its dead parent's arena; `DeleteGate` follows
   one block and does not see it.
6. *Module lifetime, the rest*: wiring of catalogs on attach, and the fall back
   when it fails (`DynamicLoader.h:2134`); generations of a reloaded library.
7. *Proofs*: what the modules of items 1 to 6 add. For several producers that do not
   wait, `IntactUnlessFull` is proved; what remains true of their frames once the
   consumer is a whole ring behind has no theorem. `EveryFrameConsumed` is checked
   only, being a liveness property.
