--------------------------- MODULE ThreadPoolProofs ---------------------------
(***************************************************************************)
(* Theorems about ThreadPool, for any workers, calls and submissions: what  *)
(* holds of the pool at every moment, and once its drain has returned.      *)
(***************************************************************************)
EXTENDS ThreadPool, TLAPS

\* A task is not the empty one, and its kind tells it from others.
LEMMA TaskNames ==
  /\ NoTask \notin Tasks
  /\ \A c \in Calls : /\ <<"call", c>> \in Tasks
                      /\ <<"dispatch", c>> \in Tasks
                      /\ <<"body", c>> \in Tasks
  /\ \A s \in Submissions : <<"callback", s>> \in Tasks
  BY DEF Tasks, NoTask

\* The section of enqueue() that holds the lock.
LEMMA EnqueueKeeps ==
  ASSUME PoolInv, NEW thread \in Workers \cup Calls \cup {Io}, NEW t \in Tasks,
         Enqueue(thread, t),
         UNCHANGED <<workerVars, stop_, io_stop_, drainer, dpc>>,
         iopc' \in {"turn", "wait", "post", "gone"}, reaped' \in Tasks \cup {NoTask}
  PROVE  TypeOK'
<1>1. status' \in [Tasks -> {"none", "queued", "running", "done", "refused"}]
  BY DEF PoolInv, TypeOK, Enqueue
<1>2. notifying' \subseteq Workers \cup Calls \cup {Io}
  BY DEF PoolInv, TypeOK, Enqueue
<1>3. task_queue_' = {u \in Tasks : status'[u] = "queued"}
  BY DEF PoolInv, TypeOK, Enqueue
<1>4. \A u \in Tasks : status'[u] = "running" <=> status[u] = "running"
  BY DEF PoolInv, TypeOK, Enqueue
<1>5. QED BY <1>1, <1>2, <1>3, <1>4 DEF PoolInv, TypeOK, workerVars

\* What a worker does to its own place and to its own task.
LEMMA WorkerStep ==
  ASSUME PoolInv, NEW w \in Workers,
         Wait(w) \/ WakeSpuriously(w)
           \/ Return(w) \/ \E c \in Calls : CallGivesUp(w, c) \/ BodyExits(w, c)
  PROVE  PoolInv'
<1> USE TaskNames DEF PoolInv, DrainInv, CompletionsKept, TypeOK, Goes, queueVars, workerVars,
        ioVars, drainVars
<1>1. CASE Acquire(w)
  BY <1>1, PoolAssumption DEF Acquire
<1>2. CASE TestFalse(w)
  BY <1>2 DEF TestFalse
<1>3. CASE Sleep(w)
  BY <1>3, PoolAssumption DEF Sleep
<1>4. CASE Pop(w)
  <2> PICK t \in task_queue_ : /\ task' = [task EXCEPT ![w] = t]
                               /\ status' = [status EXCEPT ![t] = "running"]
                               /\ task_queue_' = task_queue_ \ {t}
    BY <1>4 DEF Pop
  <2>1. t \in Tasks /\ status[t] = "queued"
    OBVIOUS
  <2>2. \A v \in Workers : task[v] # t
    BY <2>1
  <2>3. TypeOK'
    BY <1>4, <2>1, <2>2, PoolAssumption DEF Pop
  <2>4. QED BY <1>4, <2>1, <2>3 DEF Pop
<1>5. CASE Leave(w)
  BY <1>5, PoolAssumption DEF Leave
<1>6. CASE WakeSpuriously(w)
  BY <1>6 DEF WakeSpuriously
<1>7. CASE Ends(w) /\ wpc[w] = "run"
  <2>1. task[w] \in Tasks /\ status[task[w]] = "running"
    BY <1>7
  <2>2. TypeOK'
    BY <1>7, <2>1 DEF Ends
  <2>3. QED BY <1>7, <2>1, <2>2 DEF Ends
<1>8. CASE \E c \in Calls : BodyExits(w, c)
  BY <1>8, PoolAssumption DEF BodyExits, Running
<1>9. QED
  BY <1>1, <1>2, <1>3, <1>4, <1>5, <1>6, <1>7, <1>8
     DEF Wait, Return, CallReturns, CallGivesUp, DispatchReturns, BodyEnds, CallbackEnds, Running

\* Everything that enqueues.
LEMMA EnqueueStep ==
  ASSUME PoolInv,
         \/ \E w \in Workers, c \in Calls : Spawn(w, c)
         \/ \E c \in Calls : QueueCall(c)
         \/ Post
  PROVE  PoolInv'
<1> USE TaskNames
<1>1. CASE \E w \in Workers, c \in Calls : Spawn(w, c)
  <2> PICK w \in Workers, c \in Calls : Spawn(w, c) BY <1>1
  <2> PICK t \in Tasks : Enqueue(w, t) /\ t[1] # "callback"
    BY DEF Spawn
  <2>1. TypeOK'
    BY EnqueueKeeps DEF Spawn, PoolInv, TypeOK, workerVars, ioVars, drainVars
  <2>2. QED
    BY <2>1 DEF Spawn, Enqueue, PoolInv, TypeOK, DrainInv, CompletionsKept, workerVars, ioVars,
                drainVars
<1>2. CASE \E c \in Calls : QueueCall(c)
  <2> PICK c \in Calls : QueueCall(c) BY <1>2
  <2> DEFINE t == <<"call", c>>
  <2>1. TypeOK'
    BY EnqueueKeeps DEF QueueCall, PoolInv, TypeOK, workerVars, ioVars, drainVars
  <2>2. QED
    BY <2>1 DEF QueueCall, Enqueue, PoolInv, TypeOK, DrainInv, CompletionsKept, workerVars,
                ioVars, drainVars
<1>3. CASE Post
  <2>1. ~stop_ /\ reaped \in Tasks /\ reaped \in {"callback"} \X Submissions
    BY <1>3 DEF Post, PoolInv, DrainInv, Tasks
  <2>2. TypeOK'
    BY <1>3, <2>1, EnqueueKeeps DEF Post, workerVars, drainVars
  <2>3. QED
    BY <1>3, <2>1, <2>2 DEF Post, Enqueue, PoolInv, TypeOK, DrainInv, CompletionsKept,
                            workerVars, drainVars
<1>4. QED BY <1>1, <1>2, <1>3

\* The notifications, the io thread and the drain.
LEMMA OtherStep ==
  ASSUME PoolInv,
         \/ \E thread \in Workers \cup Calls \cup {Io} : NotifyOne(thread)
         \/ \E s \in Submissions : Reap(s)
         \/ IoTurn \/ IoTimeout \/ BeginDrain \/ Drain
  PROVE  PoolInv'
<1> USE TaskNames DEF PoolInv, DrainInv, CompletionsKept, TypeOK, queueVars, workerVars, ioVars,
        drainVars
<1>1. CASE \E thread \in Workers \cup Calls \cup {Io} : NotifyOne(thread)
  BY <1>1 DEF NotifyOne
<1>2. CASE \E s \in Submissions : Reap(s)
  BY <1>2 DEF Reap
<1>3. CASE IoTurn
  BY <1>3 DEF IoTurn
<1>4. CASE IoTimeout
  BY <1>4 DEF IoTimeout
<1>5. CASE BeginDrain
  BY <1>5, PoolAssumption DEF BeginDrain, Main, Free
<1>6. CASE StopIo
  BY <1>6 DEF StopIo, Step
<1>7. CASE JoinIo
  BY <1>7 DEF JoinIo, Step
<1>8. CASE SetStop
  BY <1>8 DEF SetStop, Step
<1>9. CASE NotifyAll
  BY <1>9 DEF NotifyAll, Step
<1>10. CASE JoinWorkers
  BY <1>10 DEF JoinWorkers, Step
<1>11. QED
  BY <1>1, <1>2, <1>3, <1>4, <1>5, <1>6, <1>7, <1>8, <1>9, <1>10 DEF Drain

LEMMA PoolInvariant == Spec => []PoolInv
<1>1. Init => PoolInv
  BY TaskNames, PoolAssumption
     DEF Init, PoolInv, TypeOK, DrainInv, CompletionsKept, Free, Main
<1>2. PoolInv /\ [Next]_vars => PoolInv'
  <2> SUFFICES ASSUME PoolInv, [Next]_vars PROVE PoolInv'
    OBVIOUS
  <2>1. CASE UNCHANGED vars
    BY <2>1 DEF vars, queueVars, workerVars, ioVars, drainVars, PoolInv, TypeOK, DrainInv,
                CompletionsKept
  <2>2. CASE Next
    BY <2>2, WorkerStep, EnqueueStep, OtherStep DEF Next, Work, IoLoop
  <2>3. QED BY <2>1, <2>2
<1>3. QED BY <1>1, <1>2, PTL DEF Spec

\* The types, and the account of the tasks between the queue and the workers.
THEOREM PoolTypeCorrect == Spec => []TypeOK
<1>1. PoolInv => TypeOK BY DEF PoolInv
<1>2. QED BY <1>1, PoolInvariant, PTL

\* The io thread never meets a stopped pool.
THEOREM CompletionsAreKept == Spec => []CompletionsKept
<1>1. PoolInv => CompletionsKept BY DEF PoolInv
<1>2. QED BY <1>1, PoolInvariant, PTL

\* Once the drain has returned nothing is queued, and nothing runs but the task
\* that called it: some worker other than the drain's own has left, and left an
\* empty queue.
THEOREM NothingLeftBehind == Spec => []DrainedMeansDone
<1>1. PoolInv => DrainedMeansDone
  <2> SUFFICES ASSUME PoolInv, dpc = "returned", NEW t \in Tasks,
                      status[t] \in {"queued", "running"}
               PROVE  drainer \in Workers /\ task[drainer] = t
    BY DEF DrainedMeansDone
  <2>1. PICK w \in Workers \ {drainer} : TRUE
    BY PoolAssumption
  <2>2. task_queue_ = {}
    BY <2>1 DEF PoolInv, DrainInv
  <2>3. status[t] = "running"
    BY <2>2 DEF PoolInv, TypeOK
  <2>4. PICK v \in Workers : task[v] = t
    BY <2>3 DEF PoolInv, TypeOK
  <2>5. wpc[v] # "gone"
    BY <2>4, TaskNames DEF PoolInv, TypeOK
  <2>6. QED BY <2>4, <2>5 DEF PoolInv, DrainInv
<1>2. QED BY <1>1, PoolInvariant, PTL
=============================================================================
