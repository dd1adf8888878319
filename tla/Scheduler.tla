----------------------------- MODULE Scheduler ------------------------------
(***************************************************************************)
(* The worker pool of src/src/runtime/scheduler.cpp: a bounded set of      *)
(* FIFO bands guarded by one mutex, workers that sleep on a condition      *)
(* variable, and a shutdown that drains and joins.  One action is one      *)
(* critical section of mu_, or the body of a task run outside it.          *)
(***************************************************************************)
EXTENDS Integers, Sequences, FiniteSets

CONSTANTS Tasks,           \* the submit() calls that will be made
          NoTask,          \* the empty Task a worker's local starts with
          Workers,         \* the threads created by the constructor
          Callers,         \* the threads that call shutdown()
          MaxQueued,       \* the constructor's max_queued argument
          kPriorityBands,  \* the number of bands
          Priority         \* Priority[t] is static_cast<int>(task.priority)

ASSUME SchedulerConstants ==
  /\ NoTask \notin Tasks
  /\ IsFiniteSet(Tasks)
  /\ IsFiniteSet(Workers) /\ Workers # {}
  /\ MaxQueued \in Nat
  /\ kPriorityBands \in Nat \ {0}
  /\ Priority \in [Tasks -> Int]

VARIABLES queues,         \* queues_[b], the tasks of band b, oldest first
          queue_depth,    \* queue_depth_
          max_band,       \* max_band_, no band above it holds a task
          shutting_down,  \* shutting_down_
          wpc,            \* where each worker is in worker_loop
          holds,          \* the local variable t of each worker
          caller,         \* where each caller is in shutdown()
          task,           \* what has become of each task
          order           \* history: the queued tasks, in the order of arrival

vars == <<queues, queue_depth, max_band, shutting_down, wpc, holds, caller,
          task, order>>

Bands == 0 .. kPriorityBands - 1

\* The constructor replaces a zero bound by one.
max_queued == IF MaxQueued = 0 THEN 1 ELSE MaxQueued

\* submit() clamps the priority to a band.
Band(t) ==
  IF Priority[t] < 0 THEN 0
  ELSE IF Priority[t] >= kPriorityBands THEN kPriorityBands - 1
  ELSE Priority[t]

Init ==
  /\ queues = [b \in Bands |-> <<>>]
  /\ queue_depth = 0
  /\ max_band = -1
  /\ shutting_down = FALSE
  /\ wpc = [w \in Workers |-> "ready"]
  /\ holds = [w \in Workers |-> NoTask]
  /\ caller = [c \in Callers |-> "idle"]
  /\ task = [t \in Tasks |-> "new"]
  /\ order = <<>>

\* Mutant of NotifyAll: the notification is forgotten.
NotifyNobody == UNCHANGED wpc

\* cv_.notify_all(): every sleeping worker goes back to test its predicate.
NotifyAll ==
  wpc' = [w \in Workers |-> IF wpc[w] = "waiting" THEN "ready" ELSE wpc[w]]

\* Mutants of RaiseBand: max_band_ is not raised; it follows every task.
KeepBand(b) == max_band

FollowBand(b) == b

RaiseBand(b) == IF b > max_band THEN b ELSE max_band

SubmitRefused(t) ==
  /\ task[t] = "new"
  /\ shutting_down \/ queue_depth >= max_queued
  /\ task' = [task EXCEPT ![t] = "refused"]
  /\ UNCHANGED <<queues, queue_depth, max_band, shutting_down, wpc, holds,
                 caller, order>>

SubmitAccepted(t) ==
  /\ task[t] = "new"
  /\ ~shutting_down
  /\ queue_depth < max_queued
  /\ queues' = [queues EXCEPT ![Band(t)] = Append(@, t)]
  /\ queue_depth' = queue_depth + 1
  /\ max_band' = RaiseBand(Band(t))
  /\ task' = [task EXCEPT ![t] = "queued"]
  /\ order' = Append(order, t)
  /\ NotifyAll
  /\ UNCHANGED <<shutting_down, holds, caller>>

\* Mutant of Sleep: the wait predicate looks at the depth only.
SleepWhenEmpty(w) ==
  /\ wpc[w] = "ready"
  /\ queue_depth = 0
  /\ wpc' = [wpc EXCEPT ![w] = "waiting"]
  /\ UNCHANGED <<queues, queue_depth, max_band, shutting_down, holds, caller,
                 task, order>>

\* The wait predicate is false: the worker blocks and gives up the mutex.
Sleep(w) ==
  /\ wpc[w] = "ready"
  /\ ~shutting_down
  /\ queue_depth = 0
  /\ wpc' = [wpc EXCEPT ![w] = "waiting"]
  /\ UNCHANGED <<queues, queue_depth, max_band, shutting_down, holds, caller,
                 task, order>>

\* A condition variable may wake a waiter without a notification.
SpuriousWakeup(w) ==
  /\ wpc[w] = "waiting"
  /\ wpc' = [wpc EXCEPT ![w] = "ready"]
  /\ UNCHANGED <<queues, queue_depth, max_band, shutting_down, holds, caller,
                 task, order>>

\* Mutant of IsTop: the scan does not start at the highest band.
IsNonEmpty(b) == b \in Bands /\ queues[b] # <<>>

\* pop() stops at the first non-empty band from max_band_ downwards.
IsTop(b) ==
  /\ b \in Bands
  /\ b <= max_band
  /\ queues[b] # <<>>
  /\ \A c \in Bands : b < c /\ c <= max_band => queues[c] = <<>>

\* s without its entry t.
Without(s, t) ==
  LET i == CHOOSE i \in DOMAIN s : s[i] = t
  IN SubSeq(s, 1, i - 1) \o SubSeq(s, i + 1, Len(s))

\* The worker finds work: pop() moves the oldest task of the top band to t.
\* Were every band empty, pop() would fail and the worker would loop.
Take(w) ==
  /\ wpc[w] = "ready"
  /\ queue_depth > 0
  /\ IF \E b \in Bands : IsTop(b)
     THEN \E b \in Bands :
            /\ IsTop(b)
            /\ holds' = [holds EXCEPT ![w] = Head(queues[b])]
            /\ task' = [task EXCEPT ![Head(queues[b])] = "running"]
            /\ queues' = [queues EXCEPT ![b] = Tail(@)]
            /\ queue_depth' = queue_depth - 1
            /\ max_band' = IF Tail(queues[b]) = <<>> THEN b - 1 ELSE b
            /\ wpc' = [wpc EXCEPT ![w] = "running"]
            /\ order' = Without(order, Head(queues[b]))
     ELSE /\ max_band' = -1
          /\ UNCHANGED <<queues, queue_depth, wpc, holds, task, order>>
  /\ UNCHANGED <<shutting_down, caller>>

\* t.body() returns and the loop starts again with a fresh local.
Finish(w) ==
  /\ wpc[w] = "running"
  /\ wpc' = [wpc EXCEPT ![w] = "ready"]
  /\ holds' = [holds EXCEPT ![w] = NoTask]
  /\ task' = [task EXCEPT ![holds[w]] = "done"]
  /\ UNCHANGED <<queues, queue_depth, max_band, shutting_down, caller, order>>

\* Mutant of Exit: a worker leaves as soon as a shutdown has started.
ExitAtOnce(w) ==
  /\ wpc[w] = "ready"
  /\ shutting_down
  /\ wpc' = [wpc EXCEPT ![w] = "exited"]
  /\ UNCHANGED <<queues, queue_depth, max_band, shutting_down, holds, caller,
                 task, order>>

\* The loop ends when a shutdown has started and nothing is queued.
Exit(w) ==
  /\ wpc[w] = "ready"
  /\ shutting_down
  /\ queue_depth = 0
  /\ wpc' = [wpc EXCEPT ![w] = "exited"]
  /\ UNCHANGED <<queues, queue_depth, max_band, shutting_down, holds, caller,
                 task, order>>

\* The critical section of shutdown(): only the caller that sets the flag
\* goes on to join the workers, every other one returns at once.
BeginShutdown(c) ==
  /\ caller[c] = "idle"
  /\ shutting_down' = TRUE
  /\ caller' = [caller EXCEPT ![c] = IF shutting_down THEN "returned" ELSE "joining"]
  /\ NotifyAll
  /\ UNCHANGED <<queues, queue_depth, max_band, holds, task, order>>

\* The join loop ends when every worker has left worker_loop.
Joined(c) ==
  /\ caller[c] = "joining"
  /\ \A w \in Workers : wpc[w] = "exited"
  /\ caller' = [caller EXCEPT ![c] = "joined"]
  /\ UNCHANGED <<queues, queue_depth, max_band, shutting_down, wpc, holds,
                 task, order>>

WorkerStep(w) == Sleep(w) \/ Take(w) \/ Finish(w) \/ Exit(w)

\* All tasks are submitted, all workers are gone and all callers are back.
Stopped ==
  /\ \A t \in Tasks : task[t] \in {"refused", "done"}
  /\ \A w \in Workers : wpc[w] = "exited"
  /\ \A c \in Callers : caller[c] \in {"returned", "joined"}
  /\ UNCHANGED vars

Next ==
  \/ \E t \in Tasks : SubmitAccepted(t) \/ SubmitRefused(t)
  \/ \E w \in Workers : WorkerStep(w) \/ SpuriousWakeup(w)
  \/ \E c \in Callers : BeginShutdown(c) \/ Joined(c)
  \/ Stopped

\* A runnable thread is eventually scheduled and gets the mutex, and a task
\* body returns; nobody is obliged to submit or to shut down.
Fairness ==
  /\ \A w \in Workers : WF_vars(WorkerStep(w))
  /\ \A c \in Callers : WF_vars(Joined(c))

Spec == Init /\ [][Next]_vars /\ Fairness
-----------------------------------------------------------------------------
\* The queues, the threads and the callers of submit() and shutdown().
TypeOK ==
  /\ queues \in [Bands -> Seq(Tasks)]
  /\ queue_depth \in Nat
  /\ max_band \in Bands \cup {-1}
  /\ shutting_down \in BOOLEAN
  /\ wpc \in [Workers -> {"ready", "waiting", "running", "exited"}]
  /\ holds \in [Workers -> Tasks \cup {NoTask}]
  /\ caller \in [Callers -> {"idle", "joining", "joined", "returned"}]
  /\ task \in [Tasks -> {"new", "refused", "queued", "running", "done"}]
  /\ order \in Seq(Tasks)

Queued == {t \in Tasks : task[t] = "queued"}
Running == {t \in Tasks : task[t] = "running"}
Done == {t \in Tasks : task[t] = "done"}

\* queue_depth_ is "the authoritative work count" the workers sleep on: it is
\* the number of queued tasks, never above the bound, and max_band_ never
\* hides a task from pop(), so a positive depth means that pop() succeeds.
DepthIsWork ==
  /\ queue_depth = Cardinality(Queued)
  /\ queue_depth <= max_queued
  /\ \A t \in Queued : \E i \in DOMAIN queues[Band(t)] : queues[Band(t)][i] = t
  /\ \A b \in Bands : queues[b] # <<>> => b <= max_band

\* A task starts only when no task of a higher band is waiting, however
\* max_band_ was lowered by earlier pops and raised by later submissions.
StrictPriority ==
  [][\A t \in Tasks : task[t] = "queued" /\ task'[t] = "running" =>
       \A u \in Queued : Band(u) <= Band(t)]_vars

\* When the joining shutdown() returns nothing is queued or running, so the
\* runtime may free what task bodies use.
JoinedMeansDrained ==
  (\E c \in Callers : caller[c] = "joined") =>
     /\ \A t \in Tasks : task[t] \in {"new", "refused", "done"}
     /\ \A w \in Workers : wpc[w] = "exited"

\* A task that submit() accepted is eventually run to its end, also when a
\* shutdown starts meanwhile and however late the workers were woken.
AcceptedTasksRun ==
  \A t \in Tasks : task[t] = "queued" ~> task[t] = "done"

\* Once a shutdown has started every worker leaves worker_loop and the
\* joining caller returns: no worker stays asleep on the condition variable.
ShutdownTerminates ==
  shutting_down ~> /\ \A w \in Workers : wpc[w] = "exited"
                   /\ \A c \in Callers : caller[c] # "joining"

\* The bands, the workers and the condition variable implement the abstract
\* executor: bounded, strict priority, FIFO within a band, exactly once.
Executor == INSTANCE PriorityExecutor WITH
  Capacity <- max_queued,
  Slots    <- Cardinality(Workers),
  BandOf   <- [t \in Tasks |-> Band(t)],
  pending  <- order,
  running  <- Running,
  finished <- Done,
  closed   <- shutting_down,
  drained  <- (\E c \in Callers : caller[c] = "joined")

ImplementsExecutor == Executor!Spec
=============================================================================
