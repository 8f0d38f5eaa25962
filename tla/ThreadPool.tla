------------------------------ MODULE ThreadPool ------------------------------
(***************************************************************************)
(* src/core/ThreadPool.h: the workers a module's queued work runs on, their *)
(* queue and condition variable, the io completion thread, and the drain    *)
(* that ends the pool.                                                      *)
(*                                                                          *)
(* The work is what the runtime itself queues. A call is an Entity::call    *)
(* that runs on a worker: it queues a dispatch and waits for its producer;  *)
(* the dispatch queues the producer's body and returns; the body runs. A    *)
(* callback is queued by the io thread when a submission completes. The     *)
(* drain is asked for by the thread that unloads the module, or runs on a   *)
(* worker whose task has called exit().                                     *)
(*                                                                          *)
(* One pool stands for the producer's and the consumer's, which may be the  *)
(* same. Not here: the watchdog, submit(), a dispatch that finds no bundle  *)
(* (PipeStream has it), and exit() while somebody else drains the pool (the *)
(* second drain returns at once, and the process with it).                  *)
(***************************************************************************)
CONSTANTS
    Workers,      \* the threads start_workers created
    Calls,        \* the calls that are made on the pool
    Submissions   \* the io submissions that are in flight at the start


Tasks == ({"call", "dispatch", "body"} \X Calls) \cup ({"callback"} \X Submissions)

\* etcs_web_call_async queues a call at High, as call() does its dispatch; the
\* produce trampoline queues the body at Medium, and the submissions (their
\* priority is the submitter's) do not outrank calls.
High(t) == t[1] \in {"call", "dispatch"}

NoTask == << >>
Main == "main"      \* the thread that unloads the module
Io == "io"          \* io_thread_
Free == "free"

\* More than one worker was created; and names are names.
ASSUME PoolAssumption ==
    /\ \E v, w \in Workers : v # w
    /\ Workers \cap (Calls \cup {Main, Io, Free}) = {}

VARIABLES
    task_queue_,    \* the tasks accepted and not popped
    stop_, io_stop_,
    queue_mutex_,   \* the worker that holds it, or Free
    wpc,            \* where each worker is,
    task,           \*   and the task it runs
    status,         \* what has become of each task
    notifying,      \* threads between the unlock and the notify_one of enqueue
    iopc,           \* where the io thread is,
    reaped,         \*   and the submission whose completion it holds
    drainer, dpc    \* who drains the pool, and how far it is

queueVars == <<task_queue_, status, notifying>>
workerVars == <<queue_mutex_, wpc, task>>
ioVars == <<iopc, reaped>>
drainVars == <<stop_, io_stop_, drainer, dpc>>
vars == <<queueVars, workerVars, ioVars, drainVars>>

Init ==
    /\ task_queue_ = {}
    /\ stop_ = FALSE /\ io_stop_ = FALSE
    /\ queue_mutex_ = Free
    /\ wpc = [w \in Workers |-> "lock"]
    /\ task = [w \in Workers |-> NoTask]
    /\ status = [t \in Tasks |-> "none"]
    /\ notifying = {}
    /\ iopc = "turn" /\ reaped = NoTask
    /\ drainer = Free /\ dpc = "none"

-----------------------------------------------------------------------------
(* enqueue(): a section under the lock, then notify_one *)

\* "throw runtime_error("ThreadPool stopped")" once stop_ is set.
Enqueue(thread, t) ==
    /\ queue_mutex_ = Free
    /\ status[t] = "none"
    /\ IF stop_ THEN /\ status' = [status EXCEPT ![t] = "refused"]
                     /\ UNCHANGED <<task_queue_, notifying>>
                ELSE /\ status' = [status EXCEPT ![t] = "queued"]
                     /\ task_queue_' = task_queue_ \cup {t}
                     /\ notifying' = notifying \cup {thread}

\* Mutation: the notification is forgotten.
NotifyNobody(thread) ==
    /\ thread \in notifying
    /\ notifying' = notifying \ {thread}
    /\ UNCHANGED <<task_queue_, status, workerVars, ioVars, drainVars>>

NotifyOne(thread) ==
    /\ thread \in notifying
    /\ notifying' = notifying \ {thread}
    /\ \/ \E w \in Workers :
            /\ wpc[w] = "waiting"
            /\ wpc' = [wpc EXCEPT ![w] = "lock"]
       \/ /\ \A w \in Workers : wpc[w] # "waiting"
          /\ UNCHANGED wpc
    /\ UNCHANGED <<task_queue_, status, queue_mutex_, task, ioVars, drainVars>>

\* Somebody outside the pool queues a call; its name for that is the call's.
QueueCall(c) ==
    /\ Enqueue(c, <<"call", c>>)
    /\ UNCHANGED <<workerVars, ioVars, drainVars>>

-----------------------------------------------------------------------------
(* The workers *)

Goes(w, from, to) == w \notin notifying /\ wpc[w] = from /\ wpc' = [wpc EXCEPT ![w] = to]

Acquire(w) ==
    /\ queue_mutex_ = Free
    /\ Goes(w, "lock", "test")
    /\ queue_mutex_' = w
    /\ UNCHANGED <<queueVars, task, ioVars, drainVars>>

\* The predicate is false: condition_.wait gives the lock up and sleeps, in
\* one step for any thread that takes the lock.
TestFalse(w) ==
    /\ ~stop_ /\ task_queue_ = {}
    /\ Goes(w, "test", "sleep")
    /\ UNCHANGED <<queueVars, queue_mutex_, task, ioVars, drainVars>>

Sleep(w) ==
    /\ Goes(w, "sleep", "waiting")
    /\ queue_mutex_' = Free
    /\ UNCHANGED <<queueVars, task, ioVars, drainVars>>

WakeSpuriously(w) ==
    /\ Goes(w, "waiting", "lock")
    /\ UNCHANGED <<queueVars, queue_mutex_, task, ioVars, drainVars>>

\* The top of the priority queue; among equals the order is not specified.
Pop(w) ==
    /\ Goes(w, "test", "run")
    /\ \E t \in task_queue_ :
        /\ High(t) \/ \A u \in task_queue_ : ~High(u)
        /\ task' = [task EXCEPT ![w] = t]
        /\ status' = [status EXCEPT ![t] = "running"]
        /\ task_queue_' = task_queue_ \ {t}
    /\ queue_mutex_' = Free
    /\ UNCHANGED <<notifying, ioVars, drainVars>>

\* Mutation: a worker leaves as soon as the pool is stopped.
LeaveAtStop(w) ==
    /\ stop_
    /\ Goes(w, "test", "gone")
    /\ queue_mutex_' = Free
    /\ UNCHANGED <<queueVars, task, ioVars, drainVars>>

\* "if (stop_ && task_queue_.empty()) return"
Leave(w) ==
    /\ stop_ /\ task_queue_ = {}
    /\ Goes(w, "test", "gone")
    /\ queue_mutex_' = Free
    /\ UNCHANGED <<queueVars, task, ioVars, drainVars>>

-----------------------------------------------------------------------------
(* The tasks *)

Running(w, kind, c) == w \notin notifying /\ wpc[w] = "run" /\ task[w] = <<kind, c>>

Ends(w) ==
    /\ wpc' = [wpc EXCEPT ![w] = "lock"]
    /\ task' = [task EXCEPT ![w] = NoTask]
    /\ status' = [status EXCEPT ![task[w]] = "done"]
    /\ UNCHANGED <<task_queue_, notifying, queue_mutex_, ioVars, drainVars>>

\* A call queues its dispatch, a dispatch its body.
Spawn(w, c) ==
    /\ \/ Running(w, "call", c) /\ Enqueue(w, <<"dispatch", c>>)
       \/ Running(w, "dispatch", c) /\ Enqueue(w, <<"body", c>>)
    /\ UNCHANGED <<workerVars, ioVars, drainVars>>

\* The producer's raises are dropped and its close has let the consumer go; or the
\* dispatch was refused, and call() has thrown before its consumer began. A body
\* that is refused closes nothing: the trampoline throws, call() logs it, and the
\* consumer stays in ::read.
CallReturns(w, c) ==
    /\ Running(w, "call", c)
    /\ \/ status[<<"dispatch", c>>] = "refused"
       \/ status[<<"dispatch", c>>] = "done" /\ status[<<"body", c>>] = "done"
    /\ Ends(w)

\* The consumer's body may end before its producer's, which is then waited for
\* two seconds; a consumer that reads on does not get here.
CallGivesUp(w, c) ==
    /\ Running(w, "call", c)
    /\ status[<<"dispatch", c>>] # "none"
    /\ Ends(w)

DispatchReturns(w, c) ==
    /\ Running(w, "dispatch", c)
    /\ status[<<"body", c>>] # "none"
    /\ Ends(w)

BodyEnds(w, c) == Running(w, "body", c) /\ Ends(w)

CallbackEnds(w, s) == Running(w, "callback", s) /\ Ends(w)

\* exit() in a work function: the static destructors run on this worker.
BodyExits(w, c) ==
    /\ Running(w, "body", c)
    /\ drainer = Free
    /\ wpc' = [wpc EXCEPT ![w] = "exit"]
    /\ drainer' = w /\ dpc' = "begun"
    /\ UNCHANGED <<queueVars, queue_mutex_, task, ioVars, stop_, io_stop_>>

-----------------------------------------------------------------------------
(* io_completion_loop() *)

\* "while (!io_stop_)"
IoTurn ==
    /\ iopc = "turn" /\ Io \notin notifying
    /\ iopc' = IF io_stop_ THEN "gone" ELSE "wait"
    /\ UNCHANGED <<queueVars, workerVars, reaped, drainVars>>

\* The wait for a completion has a timeout.
IoTimeout ==
    /\ iopc = "wait"
    /\ iopc' = "turn"
    /\ UNCHANGED <<queueVars, workerVars, reaped, drainVars>>

Reap(s) ==
    /\ iopc = "wait"
    /\ status[<<"callback", s>>] = "none"
    /\ iopc' = "post" /\ reaped' = <<"callback", s>>
    /\ UNCHANGED <<queueVars, workerVars, drainVars>>

Post ==
    /\ iopc = "post"
    /\ Enqueue(Io, reaped)
    /\ iopc' = "turn" /\ reaped' = NoTask
    /\ UNCHANGED <<workerVars, drainVars>>

-----------------------------------------------------------------------------
(* trigger_shutdown_drain() *)

Step(from, to) == dpc = from /\ dpc' = to /\ UNCHANGED drainer

\* Only the first caller drains.
BeginDrain ==
    /\ drainer = Free
    /\ drainer' = Main /\ dpc' = "begun"
    /\ UNCHANGED <<queueVars, workerVars, ioVars, stop_, io_stop_>>

StopIo ==
    /\ Step("begun", "io")
    /\ io_stop_' = TRUE
    /\ UNCHANGED <<queueVars, workerVars, ioVars, stop_>>

\* Mutation: the io thread is not waited for.
IoNotJoined ==
    /\ Step("io", "stop")
    /\ UNCHANGED <<queueVars, workerVars, ioVars, stop_, io_stop_>>

JoinIo ==
    /\ iopc = "gone"
    /\ Step("io", "stop")
    /\ UNCHANGED <<queueVars, workerVars, ioVars, stop_, io_stop_>>

\* Mutation: stop_ is set without the lock.
SetStopUnlocked ==
    /\ Step("stop", "notify")
    /\ stop_' = TRUE
    /\ UNCHANGED <<queueVars, workerVars, ioVars, io_stop_>>

SetStop ==
    /\ queue_mutex_ = Free
    /\ Step("stop", "notify")
    /\ stop_' = TRUE
    /\ UNCHANGED <<queueVars, workerVars, ioVars, io_stop_>>

NotifyAll ==
    /\ Step("notify", "join")
    /\ wpc' = [w \in Workers |-> IF wpc[w] = "waiting" THEN "lock" ELSE wpc[w]]
    /\ UNCHANGED <<queueVars, queue_mutex_, task, ioVars, stop_, io_stop_>>

\* "NEVER JOIN THE THREAD WE ARE RUNNING ON"
JoinWorkers ==
    /\ \A w \in Workers \ {drainer} : wpc[w] = "gone"
    /\ Step("join", "returned")
    /\ UNCHANGED <<queueVars, workerVars, ioVars, stop_, io_stop_>>

-----------------------------------------------------------------------------
Wait(w) == Acquire(w) \/ TestFalse(w) \/ Sleep(w) \/ Pop(w) \/ Leave(w)

Return(w) ==
    \/ \E c \in Calls : CallReturns(w, c) \/ DispatchReturns(w, c) \/ BodyEnds(w, c)
    \/ \E s \in Submissions : CallbackEnds(w, s)

Work(w) == Return(w) \/ \E c \in Calls : Spawn(w, c)

IoLoop == IoTurn \/ IoTimeout \/ Post

Drain == StopIo \/ JoinIo \/ SetStop \/ NotifyAll \/ JoinWorkers

Next ==
    \/ \E w \in Workers :
        \/ Wait(w) \/ WakeSpuriously(w) \/ Work(w)
        \/ \E c \in Calls : CallGivesUp(w, c) \/ BodyExits(w, c)
    \/ \E c \in Calls : QueueCall(c)
    \/ \E thread \in Workers \cup Calls \cup {Io} : NotifyOne(thread)
    \/ \E s \in Submissions : Reap(s)
    \/ IoLoop
    \/ BeginDrain \/ Drain

\* Threads run, bodies and callbacks end, and the mutex locks no thread out for
\* ever. Nobody has to make a call or to drain the pool, no submission has to
\* complete, no call has to give up, and no thread has to wake spuriously.
Fairness ==
    /\ \A w \in Workers :
        /\ WF_vars(Wait(w) \/ Return(w))
        /\ SF_vars(Acquire(w))
        /\ SF_vars(\E c \in Calls : Spawn(w, c))
    /\ \A thread \in Workers \cup Calls \cup {Io} : WF_vars(NotifyOne(thread))
    /\ WF_vars(IoLoop) /\ SF_vars(Post)
    /\ WF_vars(Drain) /\ SF_vars(SetStop)

Spec == Init /\ [][Next]_vars
FairSpec == Spec /\ Fairness

-----------------------------------------------------------------------------
(* Properties *)

\* Types, and the account of the tasks: what is queued is in the queue, what
\* runs runs on one worker, and only the holder of the mutex is at its test.
TypeOK ==
    /\ stop_ \in BOOLEAN /\ io_stop_ \in BOOLEAN
    /\ queue_mutex_ \in Workers \cup {Free}
    /\ wpc \in [Workers -> {"lock", "test", "sleep", "waiting", "run", "exit", "gone"}]
    /\ task \in [Workers -> Tasks \cup {NoTask}]
    /\ status \in [Tasks -> {"none", "queued", "running", "done", "refused"}]
    /\ notifying \subseteq Workers \cup Calls \cup {Io}
    /\ iopc \in {"turn", "wait", "post", "gone"}
    /\ reaped \in Tasks \cup {NoTask}
    /\ drainer \in Workers \cup {Main, Free}
    /\ dpc \in {"none", "begun", "io", "stop", "notify", "join", "returned"}
    /\ task_queue_ = {t \in Tasks : status[t] = "queued"}
    /\ \A w \in Workers :
        /\ wpc[w] \in {"run", "exit"} => task[w] \in Tasks /\ status[task[w]] = "running"
        /\ wpc[w] \notin {"run", "exit"} => task[w] = NoTask
        /\ wpc[w] \in {"test", "sleep"} <=> queue_mutex_ = w
    /\ \A v, w \in Workers : task[v] = task[w] => v = w \/ task[v] = NoTask
    /\ \A t \in Tasks : status[t] = "running" => \E w \in Workers : task[w] = t

\* When the drain has returned, every task the pool accepted has ended, but for
\* the one the drain itself was called from: the memory the tasks use may be
\* torn down (trigger_shutdown_drain, "Name##_Cleanup", ETCS_API.h:1269).
DrainedMeansDone ==
    dpc = "returned" =>
        \A t \in Tasks : status[t] \in {"queued", "running"} =>
            drainer \in Workers /\ task[drainer] = t

\* A completion the io thread has reaped is never turned away by the pool it is
\* queued on: the drain stops that thread first.
CompletionsKept == \A s \in Submissions : status[<<"callback", s>>] # "refused"

\* No worker is free: each is in a call, which waits, or drains the pool.
AllHeld ==
    \A w \in Workers : wpc[w] = "exit" \/ \E c \in Calls : task[w] = <<"call", c>>

\* A task enqueue accepted is run, before a drain and during one, by whomever it is
\* drained: no wake-up is lost, and what is queued starves only if from some
\* moment on no worker is free.
AcceptedTasksRun ==
    []<>~AllHeld => \A t \in Tasks : status[t] = "queued" ~> status[t] # "queued"

\* A call on a worker waits for a body whose worker is draining the pool, and
\* so waits for the call.
ExitAwaited ==
    drainer \in Workers /\ \E c \in Calls :
        task[drainer] = <<"body", c>> /\ status[<<"call", c>>] = "running"

\* A call on a worker reads from a body that was refused.
ReaderStranded ==
    \E c \in Calls : status[<<"call", c>>] = "running" /\ status[<<"body", c>>] = "refused"

\* The drain returns, from outside the pool or on one of its workers, unless it
\* joins for ever a worker that will not be back: one whose call waits for the
\* drain's own body, one whose call reads from a body the stopped pool has refused,
\* or one of workers that all wait.
DrainReturns ==
    []<>~(AllHeld \/ ExitAwaited \/ ReaderStranded) => (dpc # "none" ~> dpc = "returned")

\* What a comment of start_workers says of a pool that got fewer threads than it
\* asked for: it "still runs every queued task, with less overlap"
\* (ThreadPool.h:451). As many calls as workers leave nobody for the dispatches
\* they wait for, and TLC refutes it with two calls on two workers.
QueuedTasksRun ==
    \A t \in Tasks : status[t] = "queued" ~> status[t] # "queued" \/ dpc # "none"

\* What the produce trampoline says of a body the pool refuses: the raise is
\* released "rather than leaving the pair's frame waiting out its timeout on a
\* producer that does not exist" (ETCS_API.h:913). The frame does not get as far
\* as that wait, and TLC refutes that it ends.
RefusedCallEnds ==
    \A c \in Calls : status[<<"body", c>>] = "refused" ~> status[<<"call", c>>] = "done"

-----------------------------------------------------------------------------
(* The inductive invariant the proofs of ThreadPoolProofs rest on *)

\* A worker leaves an empty queue behind, which the stop keeps empty; the io
\* thread is gone before the stop; the drain's own worker never returns.
DrainInv ==
    /\ \A w \in Workers : wpc[w] = "gone" => stop_ /\ task_queue_ = {}
    /\ stop_ <=> dpc \in {"notify", "join", "returned"}
    /\ io_stop_ \/ dpc \in {"none", "begun"}
    /\ dpc \notin {"none", "begun", "io"} => iopc = "gone"
    /\ dpc = "none" <=> drainer = Free
    /\ \A w \in Workers : wpc[w] = "exit" <=> drainer = w
    /\ dpc = "returned" => \A w \in Workers \ {drainer} : wpc[w] = "gone"
    /\ iopc = "post" => reaped \in {"callback"} \X Submissions

PoolInv == TypeOK /\ DrainInv /\ CompletionsKept
=============================================================================
