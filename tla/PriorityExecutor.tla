-------------------------- MODULE PriorityExecutor --------------------------
(***************************************************************************)
(* What the scheduler promises, without bands, condition variables or      *)
(* threads: a bounded list of pending tasks in arrival order, from which   *)
(* the earliest task of the highest band is started next while a slot is   *)
(* free, each accepted task runs once, and closing drains.                 *)
(***************************************************************************)
EXTENDS Naturals, Sequences, FiniteSets

CONSTANTS Tasks,     \* everything that may be submitted
          Capacity,  \* how many accepted tasks may be pending
          Slots,     \* how many tasks may run at a time
          BandOf     \* the band of each task, a higher one goes first

VARIABLES pending,   \* accepted tasks not yet started, in arrival order
          running,   \* tasks whose body is executing
          finished,  \* tasks whose body has returned
          closed,    \* no task is accepted any more
          drained    \* the call that closed the executor has returned

vars == <<pending, running, finished, closed, drained>>

Init ==
  /\ pending = <<>>
  /\ running = {}
  /\ finished = {}
  /\ closed = FALSE
  /\ drained = FALSE

Pending == {pending[i] : i \in DOMAIN pending}

Accept(t) ==
  /\ ~closed
  /\ Len(pending) < Capacity
  /\ t \notin Pending \cup running \cup finished
  /\ pending' = Append(pending, t)
  /\ UNCHANGED <<running, finished, closed, drained>>

\* i is the position of the earliest pending task of the highest band.
Foremost(i) ==
  \A j \in DOMAIN pending :
     \/ BandOf[pending[j]] < BandOf[pending[i]]
     \/ BandOf[pending[j]] = BandOf[pending[i]] /\ i <= j

Start(i) ==
  /\ i \in DOMAIN pending
  /\ Foremost(i)
  /\ Cardinality(running) < Slots
  /\ running' = running \cup {pending[i]}
  /\ pending' = SubSeq(pending, 1, i - 1) \o SubSeq(pending, i + 1, Len(pending))
  /\ UNCHANGED <<finished, closed, drained>>

Finish(t) ==
  /\ t \in running
  /\ running' = running \ {t}
  /\ finished' = finished \cup {t}
  /\ UNCHANGED <<pending, closed, drained>>

Close ==
  /\ ~closed
  /\ closed' = TRUE
  /\ UNCHANGED <<pending, running, finished, drained>>

CloseReturns ==
  /\ closed
  /\ pending = <<>>
  /\ running = {}
  /\ drained' = TRUE
  /\ UNCHANGED <<pending, running, finished, closed>>

Next ==
  \/ \E t \in Tasks : Accept(t)
  \/ \E i \in DOMAIN pending : Start(i)
  \/ \E t \in running : Finish(t)
  \/ Close
  \/ CloseReturns

Spec ==
  /\ Init
  /\ [][Next]_vars
  /\ WF_vars(\E i \in DOMAIN pending : Start(i))
  /\ WF_vars(\E t \in running : Finish(t))
  /\ WF_vars(~drained /\ CloseReturns)
=============================================================================
