------------------------------ MODULE Runtime -------------------------------
(***************************************************************************)
(* The life of transfers in src/src/runtime/runtime.cpp and executor.cpp:  *)
(* submit() in a client thread, run_driver() on a worker of the scheduler, *)
(* cancel() and shutdown() in other threads, over the two staging pools,   *)
(* the telemetry and the scheduler.  The scheduler is the abstract         *)
(* executor that module Scheduler is shown to implement.                   *)
(*                                                                         *)
(* One thread at a time works on a transfer: the one in submit() until the *)
(* scheduler accepts the task, then a worker.  pc[t] is where it is.       *)
(***************************************************************************)
EXTENDS Integers, Sequences, FiniteSets, StagingBuffers, Lifecycle

CONSTANTS Transfers,     \* the submit() calls, each with an id of its own
          Deps,          \* Deps[t], opts.dependencies
          Chunks,        \* Chunks[t], chunk_plan.chunk_count()
          ChunkSize,     \* ChunkSize[t], chunk_plan.chunk_size()
          Staged,        \* Staged[t], the pool of each intermediate node
          Verified,      \* Verified[t], the verification mode is not none
          Priority,      \* Priority[t], the band of opts.priority
          Depth,         \* cfg.pipeline_depth
          Capacity,      \* the capacity of each pool
          MaxQueued,     \* cfg.max_queued_transfers
          WorkerThreads  \* cfg.worker_threads

PoolKind == {"host", "pinned"}

ASSUME RuntimeConstants ==
  /\ Deps \in [Transfers -> Seq(Transfers)]
  /\ Chunks \in [Transfers -> Nat]
  /\ ChunkSize \in [Transfers -> Sizes]
  /\ Staged \in [Transfers -> Seq(PoolKind)]
  /\ Depth \in Nat \ {0}
  /\ Capacity \in [PoolKind -> 0 .. ByteWrap - 1]
  /\ MaxQueued \in Nat \ {0}
  /\ WorkerThreads \in Nat \ {0}

VARIABLES pc,        \* where the thread working on each transfer is
          rec,       \* the TransferRecord of each transfer
          canceller, \* where the cancel() call for each transfer is
          tele,      \* the lifecycle counters and gauges of Telemetry
          pools,     \* host_pool and pinned_pool
          shutdown,  \* shutdown_
          spc,       \* where the thread in Runtime::shutdown() is
          pending, running, finished, closed, drained  \* the scheduler

Executor == INSTANCE PriorityExecutor WITH
  Tasks <- Transfers, Capacity <- MaxQueued, Slots <- WorkerThreads,
  BandOf <- Priority

executor == <<pending, running, finished, closed, drained>>

vars == <<pc, rec, canceller, tele, pools, shutdown, spc, executor>>

Init ==
  /\ pc = [t \in Transfers |-> "idle"]
  /\ rec = [t \in Transfers |->
       [state |-> "none", cancel |-> FALSE, started |-> FALSE, staging |-> <<>>,
        chunks_done |-> 0, deps_seen |-> 0, result |-> "ok"]]
  /\ canceller = [t \in Transfers |-> "idle"]
  /\ tele = [created |-> 0, active |-> 0, queue_depth |-> 0,
             completed |-> 0, failed |-> 0, cancelled |-> 0]
  /\ pools = [k \in PoolKind |-> EmptyPool]
  /\ shutdown = FALSE
  /\ spc = "idle"
  /\ Executor!Init

Goto(t, l) == pc' = [pc EXCEPT ![t] = l]

\* set_state(): a change the table does not allow is ignored.
set_state(r, s) == IF allowed(r.state, s) THEN [r EXCEPT !.state = s] ELSE r

\* set_terminal(): does not consult the table, keeps a terminal state.
set_terminal(r, s) == IF is_terminal(r.state) THEN r ELSE [r EXCEPT !.state = s]
-----------------------------------------------------------------------------
(* submit(), in a client thread.                                           *)

\* The request is not accepted: the runtime is shutting down, a handle or a
\* range is invalid, no route exists or the chunk plan cannot be built.
Reject(t) ==
  /\ pc[t] = "idle"
  /\ Goto(t, "rejected")
  /\ UNCHANGED <<rec, canceller, tele, pools, shutdown, spc, executor>>

\* shutdown_ is read once, here; the record enters the registry.
Admit(t) ==
  /\ pc[t] = "idle"
  /\ ~shutdown
  /\ rec' = [rec EXCEPT ![t].state = "created"]
  /\ Goto(t, "admitted")
  /\ UNCHANGED <<canceller, tele, pools, shutdown, spc, executor>>

Plan(t) ==
  /\ pc[t] = "admitted"
  /\ tele' = [tele EXCEPT !.created = @ + 1]
  /\ rec' = [rec EXCEPT ![t] = set_state(@, "planned")]
  /\ Goto(t, "deps")
  /\ UNCHANGED <<canceller, pools, shutdown, spc, executor>>

\* The dependency the loop has come to.
NextDep(t) == Deps[t][rec[t].deps_seen + 1]

DepsLeft(t) == rec[t].deps_seen < Len(Deps[t])

\* The id is not in the registry: submit() returns an error and leaves the
\* record as it is.
DependencyUnknown(t) ==
  /\ pc[t] = "deps"
  /\ DepsLeft(t)
  /\ rec[NextDep(t)].state = "none"
  /\ Goto(t, "abandoned")
  /\ UNCHANGED <<rec, canceller, tele, pools, shutdown, spc, executor>>

\* Mutant of DependencyCompleted: any end of the dependency will do.
DependencyEnded(t) ==
  /\ pc[t] = "deps"
  /\ DepsLeft(t)
  /\ is_terminal(rec[NextDep(t)].state)
  /\ rec' = [rec EXCEPT ![t].deps_seen = @ + 1]
  /\ UNCHANGED <<pc, canceller, tele, pools, shutdown, spc, executor>>

\* The wait on the dependency's condition variable ends when it is terminal.
DependencyCompleted(t) ==
  /\ pc[t] = "deps"
  /\ DepsLeft(t)
  /\ rec[NextDep(t)].state = "completed"
  /\ rec' = [rec EXCEPT ![t].deps_seen = @ + 1]
  /\ UNCHANGED <<pc, canceller, tele, pools, shutdown, spc, executor>>

\* Mutant of DependencyFailed: the wait goes on when the dependency has been
\* cancelled.
DependencyCancelledIgnored(t) ==
  /\ pc[t] = "deps"
  /\ DepsLeft(t)
  /\ rec[NextDep(t)].state \in {"cancelled", "failed"}
  /\ \/ rec[NextDep(t)].state = "cancelled" /\ UNCHANGED <<rec, pc>>
     \/ /\ rec[NextDep(t)].state = "failed"
        /\ rec' = [rec EXCEPT ![t] = set_terminal(@, "failed")]
        /\ Goto(t, "done")
  /\ UNCHANGED <<canceller, tele, pools, shutdown, spc, executor>>

\* set_terminal() alone: neither finalize() nor the telemetry is involved.
DependencyFailed(t) ==
  /\ pc[t] = "deps"
  /\ DepsLeft(t)
  /\ is_terminal(rec[NextDep(t)].state)
  /\ rec[NextDep(t)].state # "completed"
  /\ rec' = [rec EXCEPT ![t] = set_terminal(@, "failed")]
  /\ Goto(t, "done")
  /\ UNCHANGED <<canceller, tele, pools, shutdown, spc, executor>>

DependenciesMet(t) ==
  /\ pc[t] = "deps"
  /\ ~DepsLeft(t)
  /\ Goto(t, "reserve")
  /\ UNCHANGED <<rec, canceller, tele, pools, shutdown, spc, executor>>
-----------------------------------------------------------------------------
(* reserve_staging(): Depth buffers for each intermediate node, one        *)
(* critical section of the node's pool each.                               *)

Reserved(t) == Len(rec[t].staging) = Depth * Len(Staged[t])

PoolOfNext(t) == Staged[t][(Len(rec[t].staging) \div Depth) + 1]

ReserveBuffer(t) ==
  /\ pc[t] = "reserve"
  /\ ~Reserved(t)
  /\ LET k == PoolOfNext(t)
         n == ChunkSize[t]
         Grant(p, b) ==
           /\ pools' = [pools EXCEPT ![k] = p]
           /\ rec' = [rec EXCEPT ![t].staging = Append(@, [pool |-> k, buf |-> b])]
     IN \/ \E b \in Reusable(pools[k], n) : Grant(Reuse(pools[k], b), b)
        \/ /\ HasRoom(pools[k], Capacity[k], n)
           /\ \E b \in Fresh(pools[k], n) : Grant(AddFresh(pools[k], b), b)
  /\ UNCHANGED <<pc, canceller, tele, shutdown, spc, executor>>

\* Mutant of ReleaseAll: the loop starts at the second buffer.
ReleaseFromSecond(bufs) == ReleaseAt(pools, bufs, 2 .. Len(bufs))

\* Every buffer of a list goes back to its pool.
ReleaseAll(bufs) == ReleaseAt(pools, bufs, 1 .. Len(bufs))

\* The bound is reached, or the allocator fails: what was reserved so far is
\* released and forgotten, and the transfer is finalized.
ReserveFails(t) ==
  /\ pc[t] = "reserve"
  /\ ~Reserved(t)
  /\ Reusable(pools[PoolOfNext(t)], ChunkSize[t]) = {}
  /\ pools' = ReleaseAll(rec[t].staging)
  /\ rec' = [rec EXCEPT ![t].staging = <<>>, ![t].result = "resource_exhausted"]
  /\ Goto(t, "finalize")
  /\ UNCHANGED <<canceller, tele, shutdown, spc, executor>>

ReserveDone(t) ==
  /\ pc[t] = "reserve"
  /\ Reserved(t)
  /\ rec' = [rec EXCEPT ![t] = set_state(@, "reserved")]
  /\ Goto(t, "queue")
  /\ UNCHANGED <<canceller, tele, pools, shutdown, spc, executor>>

\* Mutant of AnnounceQueued: the gauge is not raised.
AnnounceUncounted(t) ==
  /\ pc[t] = "queue"
  /\ rec' = [rec EXCEPT ![t] = set_state(@, "queued")]
  /\ Goto(t, "submit")
  /\ UNCHANGED <<canceller, tele, pools, shutdown, spc, executor>>

\* queue_transfer() counts the transfer as queued before it is.
AnnounceQueued(t) ==
  /\ pc[t] = "queue"
  /\ rec' = [rec EXCEPT ![t] = set_state(@, "queued")]
  /\ tele' = [tele EXCEPT !.queue_depth = @ + 1]
  /\ Goto(t, "submit")
  /\ UNCHANGED <<canceller, pools, shutdown, spc, executor>>

Enqueue(t) ==
  /\ pc[t] = "submit"
  /\ Executor!Accept(t)
  /\ Goto(t, "in_queue")
  /\ UNCHANGED <<rec, canceller, tele, pools, shutdown, spc>>

\* Mutant of EnqueueRefused: the gauge is not lowered again.
EnqueueRefusedCounted(t) ==
  /\ pc[t] = "submit"
  /\ closed \/ Len(pending) >= MaxQueued
  /\ rec' = [rec EXCEPT ![t].result = "resource_exhausted"]
  /\ Goto(t, "finalize")
  /\ UNCHANGED <<canceller, tele, pools, shutdown, spc, executor>>

\* The scheduler is full or shutting down.
EnqueueRefused(t) ==
  /\ pc[t] = "submit"
  /\ closed \/ Len(pending) >= MaxQueued
  /\ tele' = [tele EXCEPT !.queue_depth = @ - 1]
  /\ rec' = [rec EXCEPT ![t].result = "resource_exhausted"]
  /\ Goto(t, "finalize")
  /\ UNCHANGED <<canceller, pools, shutdown, spc, executor>>
-----------------------------------------------------------------------------
(* run_driver() and run_transfer(), on a worker of the scheduler.          *)

\* A worker takes the task and the driver marks the transfer active.
Start(i) ==
  /\ Executor!Start(i)
  /\ LET t == pending[i]
     IN /\ rec' = [rec EXCEPT ![t] = [set_state(@, "active") EXCEPT !.started = TRUE]]
        /\ Goto(t, "copy")
  /\ tele' = [tele EXCEPT !.active = @ + 1, !.queue_depth = @ - 1]
  /\ UNCHANGED <<canceller, pools, shutdown, spc>>

\* Nothing to move: run_transfer() returns success at once, before the rings
\* are built.
RunEmpty(t) ==
  /\ pc[t] = "copy"
  /\ Chunks[t] = 0
  /\ Goto(t, "finalize")
  /\ UNCHANGED <<rec, canceller, tele, pools, shutdown, spc, executor>>

\* One turn of the chunk loop: the cancellation flag, then every leg.
CopyChunk(t) ==
  /\ pc[t] = "copy"
  /\ rec[t].chunks_done < Chunks[t]
  /\ ~rec[t].cancel
  /\ rec' = [rec EXCEPT ![t].chunks_done = @ + 1]
  /\ UNCHANGED <<pc, canceller, tele, pools, shutdown, spc, executor>>

StopCopy(t, r) ==
  /\ pc[t] = "copy"
  /\ rec[t].chunks_done < Chunks[t]
  /\ rec' = [rec EXCEPT ![t].result = r]
  /\ Goto(t, "release")
  /\ UNCHANGED <<canceller, tele, pools, shutdown, spc, executor>>

\* Mutant of CancelSeen: the turn is skipped and the loop does not end.
CancelSkipsTurn(t) == pc[t] = "copy" /\ rec[t].cancel /\ UNCHANGED vars

\* The flag is seen at the head of a turn.
CancelSeen(t) == rec[t].cancel /\ StopCopy(t, "cancellation")

\* A leg of the chunk fails.
LegFails(t) == ~rec[t].cancel /\ StopCopy(t, "backend_failure")

\* Mutant of EndCopy: the last chunk is left out.
EndCopyEarly(t) ==
  /\ pc[t] = "copy"
  /\ Chunks[t] > 0
  /\ rec[t].chunks_done = Chunks[t] - 1
  /\ Goto(t, "release")
  /\ UNCHANGED <<rec, canceller, tele, pools, shutdown, spc, executor>>

\* Every chunk has passed through its legs, and asynchronous copies, if any,
\* have ended well.
EndCopy(t) ==
  /\ pc[t] = "copy"
  /\ Chunks[t] > 0
  /\ rec[t].chunks_done = Chunks[t]
  /\ Goto(t, "release")
  /\ UNCHANGED <<rec, canceller, tele, pools, shutdown, spc, executor>>

\* An asynchronous copy turns out to have failed when its stream is waited
\* for; only a route with an intermediate node copies asynchronously.
SyncFails(t) ==
  /\ pc[t] = "copy"
  /\ Chunks[t] > 0
  /\ rec[t].chunks_done = Chunks[t]
  /\ Staged[t] # <<>>
  /\ rec' = [rec EXCEPT ![t].result = "backend_failure"]
  /\ Goto(t, "release")
  /\ UNCHANGED <<canceller, tele, pools, shutdown, spc, executor>>

\* The executor releases its copies of the staging buffers; the record goes
\* on naming them.
ReleaseRings(t) ==
  /\ pc[t] = "release"
  /\ pools' = ReleaseAll(rec[t].staging)
  /\ Goto(t, IF rec[t].result = "ok" THEN "verify" ELSE "finalize")
  /\ UNCHANGED <<rec, canceller, tele, shutdown, spc, executor>>

\* Mutant of BeginVerify: without a verification mode the state is skipped.
BeginVerifyIfAsked(t) ==
  /\ pc[t] = "verify"
  /\ rec' = [rec EXCEPT ![t].state = IF Verified[t] THEN "verifying" ELSE @]
  /\ Goto(t, "hash")
  /\ UNCHANGED <<canceller, tele, pools, shutdown, spc, executor>>

\* The state is assigned without consulting the table.
BeginVerify(t) ==
  /\ pc[t] = "verify"
  /\ rec' = [rec EXCEPT ![t].state = "verifying"]
  /\ Goto(t, "hash")
  /\ UNCHANGED <<canceller, tele, pools, shutdown, spc, executor>>

\* The two digests agree, differ, or one cannot be computed; with mode none
\* nothing is compared.
EndVerify(t) ==
  /\ pc[t] = "hash"
  /\ \E r \in IF Verified[t] THEN {"ok", "integrity_failure", "backend_failure"}
              ELSE {"ok"} :
       rec' = [rec EXCEPT ![t].result = r]
  /\ Goto(t, "finalize")
  /\ UNCHANGED <<canceller, tele, pools, shutdown, spc, executor>>
-----------------------------------------------------------------------------
(* finalize(), on the worker, or in submit() when queueing failed.         *)

Terminal(result) ==
  CASE result = "ok" -> "completed"
    [] result = "cancellation" -> "cancelled"
    [] OTHER -> "failed"

\* The state becomes terminal and everybody waiting for it is woken.
SetTerminal(t) ==
  /\ pc[t] = "finalize"
  /\ rec' = [rec EXCEPT ![t] = set_terminal(@, Terminal(rec[t].result))]
  /\ Goto(t, "account")
  /\ UNCHANGED <<canceller, tele, pools, shutdown, spc, executor>>

\* The active gauge, if the driver ran, and one of the outcome counters.
Account(t) ==
  /\ pc[t] = "account"
  /\ LET outcome == Terminal(rec[t].result)
     IN tele' = [tele EXCEPT !.active = IF rec[t].started THEN @ - 1 ELSE @,
                             !.completed = IF outcome = "completed" THEN @ + 1 ELSE @,
                             !.cancelled = IF outcome = "cancelled" THEN @ + 1 ELSE @,
                             !.failed = IF outcome = "failed" THEN @ + 1 ELSE @]
  /\ rec' = [rec EXCEPT ![t].started = FALSE]
  /\ Goto(t, "unstage")
  /\ UNCHANGED <<canceller, pools, shutdown, spc, executor>>

\* release_staging() releases what the record names.  resolve_dependents()
\* finds nothing: no code adds to dep_waiters.
ReleaseStaging(t) ==
  /\ pc[t] = "unstage"
  /\ pools' = ReleaseAll(rec[t].staging)
  /\ rec' = [rec EXCEPT ![t].staging = <<>>]
  /\ Goto(t, "done")
  /\ UNCHANGED <<canceller, tele, shutdown, spc, executor>>

\* The task body returns to the worker.
Retire(t) ==
  /\ pc[t] = "done"
  /\ Executor!Finish(t)
  /\ UNCHANGED <<pc, rec, canceller, tele, pools, shutdown, spc>>
-----------------------------------------------------------------------------
(* cancel(): the state is tested under the lock, the flag set after it.    *)

CancelTest(t) ==
  /\ canceller[t] = "idle"
  /\ rec[t].state # "none"
  /\ canceller' = [canceller EXCEPT ![t] =
                     IF is_terminal(rec[t].state) THEN "refused" ELSE "tested"]
  /\ UNCHANGED <<pc, rec, tele, pools, shutdown, spc, executor>>

CancelSet(t) ==
  /\ canceller[t] = "tested"
  /\ canceller' = [canceller EXCEPT ![t] = "accepted"]
  /\ rec' = [rec EXCEPT ![t].cancel = TRUE]
  /\ UNCHANGED <<pc, tele, pools, shutdown, spc, executor>>
-----------------------------------------------------------------------------
(* shutdown(): the flag, the scheduler, then the pools.                    *)

\* Mutant of BeginShutdown: the first caller is taken for a later one.
BeginShutdownReturns ==
  /\ spc = "idle"
  /\ shutdown' = TRUE
  /\ UNCHANGED <<pc, rec, canceller, tele, pools, spc, executor>>

BeginShutdown ==
  /\ spc = "idle"
  /\ shutdown' = TRUE
  /\ spc' = "stop_scheduler"
  /\ UNCHANGED <<pc, rec, canceller, tele, pools, executor>>

StopScheduler ==
  /\ spc = "stop_scheduler"
  /\ Executor!Close
  /\ spc' = "join"
  /\ UNCHANGED <<pc, rec, canceller, tele, pools, shutdown>>

SchedulerStopped ==
  /\ spc = "join"
  /\ Executor!CloseReturns
  /\ spc' = "drain_host"
  /\ UNCHANGED <<pc, rec, canceller, tele, pools, shutdown>>

DrainPool(k, at, next) ==
  /\ spc = at
  /\ pools' = [pools EXCEPT ![k] = Drain(@)]
  /\ spc' = next
  /\ UNCHANGED <<pc, rec, canceller, tele, shutdown, executor>>

ShutdownStep ==
  \/ StopScheduler
  \/ SchedulerStopped
  \/ DrainPool("host", "drain_host", "drain_pinned")
  \/ DrainPool("pinned", "drain_pinned", "down")
-----------------------------------------------------------------------------
SubmitStep(t) ==
  \/ Plan(t)
  \/ DependencyUnknown(t) \/ DependencyCompleted(t) \/ DependencyFailed(t)
  \/ DependenciesMet(t)
  \/ ReserveBuffer(t) \/ ReserveFails(t) \/ ReserveDone(t)
  \/ AnnounceQueued(t) \/ Enqueue(t) \/ EnqueueRefused(t)

DriverStep(t) ==
  \/ RunEmpty(t) \/ CopyChunk(t) \/ CancelSeen(t) \/ LegFails(t)
  \/ EndCopy(t) \/ SyncFails(t)
  \/ ReleaseRings(t) \/ BeginVerify(t) \/ EndVerify(t)

FinalizeStep(t) == SetTerminal(t) \/ Account(t) \/ ReleaseStaging(t) \/ Retire(t)

\* The runtime is shut down and no submit() call is under way.
AllDown ==
  /\ spc = "down"
  /\ \A t \in Transfers : pc[t] \in {"rejected", "abandoned", "done"}
  /\ UNCHANGED vars

Next ==
  \/ \E t \in Transfers :
       \/ Reject(t) \/ Admit(t)
       \/ SubmitStep(t) \/ DriverStep(t) \/ FinalizeStep(t)
       \/ CancelTest(t) \/ CancelSet(t)
  \/ \E i \in DOMAIN pending : Start(i)
  \/ BeginShutdown
  \/ ShutdownStep
  \/ AllDown

\* Every thread that can take a step takes one; the workers keep taking
\* tasks, as the fairness of the abstract executor says.  Nobody has to
\* submit, to cancel or to shut down.
Fairness ==
  /\ \A t \in Transfers :
       /\ WF_vars(SubmitStep(t) \/ DriverStep(t) \/ FinalizeStep(t))
       /\ WF_vars(CancelSet(t))
  /\ WF_vars(\E i \in DOMAIN pending : Start(i))
  /\ WF_vars(ShutdownStep)

Spec == Init /\ [][Next]_vars /\ Fairness
-----------------------------------------------------------------------------
Label == {"idle", "rejected", "admitted", "deps", "abandoned", "reserve",
          "queue", "submit", "in_queue", "copy", "release", "verify", "hash",
          "finalize", "account", "unstage", "done"}

Result == {"ok", "resource_exhausted", "cancellation", "backend_failure",
           "integrity_failure"}

Record == [state : TransferState \cup {"none"}, cancel : BOOLEAN,
           started : BOOLEAN, staging : Seq([pool : PoolKind, buf : Buffer]),
           chunks_done : Nat, deps_seen : Nat, result : Result]

\* The places of the threads, the transfer records, the counters and the pools.
TypeOK ==
  /\ pc \in [Transfers -> Label]
  /\ rec \in [Transfers -> Record]
  /\ canceller \in [Transfers -> {"idle", "tested", "accepted", "refused"}]
  /\ tele \in [{"created", "active", "queue_depth", "completed", "failed",
                "cancelled"} -> Nat]
  /\ pools \in [PoolKind -> Pool]
  /\ shutdown \in BOOLEAN
  /\ spc \in {"idle", "stop_scheduler", "join", "drain_host", "drain_pinned", "down"}

\* status.hpp: transitions are strictly enforced, and any transition not in
\* the table is rejected.  set_state() asks the table, set_terminal() and the
\* executor do not; no state change of any thread leaves the table, for
\* transfers that have at least one chunk.
LegalLifecycle ==
  [][\A t \in Transfers : rec'[t].state # rec[t].state =>
       \/ rec[t].state = "none" /\ rec'[t].state = "created"
       \/ allowed(rec[t].state, rec'[t].state)]_vars

\* A transfer reserves staging, runs and completes only after everything it
\* depends on has completed.
DependenciesFirst ==
  \A t \in Transfers :
    (\/ rec[t].staging # <<>>
     \/ rec[t].state \in {"reserved", "queued", "active", "verifying", "completed"}) =>
      \A i \in DOMAIN Deps[t] : rec[Deps[t][i]].state = "completed"

\* FAILURE_SEMANTICS.md: a transfer that completes is never reported as
\* cancelled and vice versa, and no success is false: completed means that
\* every chunk was moved, cancelled that a cancel() was accepted and some
\* chunk was not, whenever the flag was set.
OutcomeHonest ==
  \A t \in Transfers :
    /\ rec[t].state = "completed" => rec[t].chunks_done = Chunks[t]
    /\ rec[t].state = "cancelled" =>
         canceller[t] = "accepted" /\ rec[t].chunks_done < Chunks[t]

InState(S) == Cardinality({t \in Transfers : rec[t].state \in S})

Settled == \A t \in Transfers : pc[t] \in {"idle", "rejected", "abandoned", "done"}

\* When nothing is in progress both gauges are back at zero and the outcome
\* counters are the outcomes, whatever mixture of refusals, failures and
\* cancellations led there; a transfer failed by its dependency is not
\* counted, submit() does not finalize it.
CountersClose ==
  Settled =>
    /\ tele.active = 0
    /\ tele.queue_depth = 0
    /\ tele.created = InState(TransferState)
    /\ tele.completed = InState({"completed"})
    /\ tele.cancelled = InState({"cancelled"})
    /\ tele.failed = Cardinality({t \in Transfers :
                                    rec[t].state = "failed" /\ ~DepsLeft(t)})

Listed(k, a) == \E b \in Buffer : b.data = a /\ pools[k].free[b] > 0

Named(k, a) ==
  \E t \in Transfers : \E i \in DOMAIN rec[t].staging :
    rec[t].staging[i].pool = k /\ rec[t].staging[i].buf.data = a

\* README.md: a transfer ends "without leaking a queue slot or a staging
\* allocation".  Memory that a pool has live can be reached from its free list
\* or from a transfer under way, also after a reservation that failed half
\* way, a refused task or a cancellation.
StagingReachable ==
  \A k \in PoolKind, a \in Addresses :
    pools[k].heap[a] # 0 => Listed(k, a) \/ Named(k, a)

LiveBytes(k) == BytesAt(pools[k].heap, Addresses)

\* The capacity and a chunk more is still a byte_count, so that the sum tested
\* against the capacity does not wrap.
CountersFit ==
  \A k \in PoolKind, t \in Transfers : Capacity[k] + ChunkSize[t] < ByteWrap

\* DESIGN.md: staging pools are bounded.  Until shutdown drains the pools,
\* allocated_bytes_ is what the allocator has live and is within the capacity.
BoundedStaging ==
  spc \notin {"drain_pinned", "down"} =>
    \A k \in PoolKind :
      LiveBytes(k) = pools[k].allocated /\ LiveBytes(k) <= Capacity[k]

\* A transfer the scheduler has accepted reaches a terminal state, also when
\* shutdown() or cancel() comes in between.
QueuedTransfersEnd ==
  \A t \in Transfers : pc[t] = "in_queue" ~> is_terminal(rec[t].state)

\* submit() returns: the wait for the dependencies ends when none of them
\* depends on the transfer and each one in the registry was queued.
SubmitReturns ==
  \A t \in Transfers :
    rec[t].state = "created" ~> pc[t] \in {"abandoned", "in_queue", "done"}

\* shutdown() returns with the pools drained, whatever is queued or running.
ShutdownReturns == shutdown ~> spc = "down"
=============================================================================
