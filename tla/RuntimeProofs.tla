--------------------------- MODULE RuntimeProofs ----------------------------
(***************************************************************************)
(* Proofs about module Runtime for any number of transfers, dependencies,  *)
(* chunks, workers and places in the queue, and pools of any size.         *)
(***************************************************************************)
EXTENDS Runtime, StagingBuffersProofs

\* In submit() before the dependencies have completed; from the reservation to
\* the end of finalize(); with a terminal state.
Early == {"idle", "rejected", "admitted", "deps", "abandoned"}
Later == {"reserve", "queue", "submit", "in_queue", "copy", "release", "verify",
          "hash", "finalize", "account", "unstage"}
Over  == {"account", "unstage", "done"}

Fields == {"state", "cancel", "started", "staging", "chunks_done", "deps_seen", "result"}

\* The record is in the state that belongs to the place of the thread.
StateFits(t) ==
  /\ pc[t] \in {"idle", "rejected"} => rec[t].state = "none"
  /\ pc[t] = "admitted" => rec[t].state = "created"
  /\ pc[t] \in {"deps", "abandoned", "reserve"} => rec[t].state = "planned"
  /\ pc[t] = "queue" => rec[t].state = "reserved"
  /\ pc[t] \in {"submit", "in_queue"} => rec[t].state = "queued"
  /\ pc[t] \in {"copy", "release", "verify"} => rec[t].state = "active"
  /\ pc[t] = "hash" => rec[t].state = "verifying"
  /\ pc[t] = "finalize" =>
       /\ rec[t].state \in {"planned", "queued", "active", "verifying"}
       /\ rec[t].result = "ok" => rec[t].state = "verifying" \/ Chunks[t] = 0
  /\ pc[t] \in Over => rec[t].state \in {"completed", "cancelled", "failed"}

\* The result so far, and the outcome, say what was moved.
ResultFits(t) ==
  /\ rec[t].chunks_done \in Nat
  /\ pc[t] \notin {"release", "finalize"} \cup Over => rec[t].result = "ok"
  /\ pc[t] \in Early \cup {"reserve", "queue", "submit", "in_queue"} => rec[t].chunks_done = 0
  /\ pc[t] = "copy" => rec[t].chunks_done <= Chunks[t]
  /\ pc[t] \in {"release", "verify", "hash", "finalize"} =>
       /\ rec[t].result = "ok" => rec[t].chunks_done = Chunks[t]
       /\ rec[t].result = "cancellation" => rec[t].cancel /\ rec[t].chunks_done < Chunks[t]
  /\ rec[t].state = "completed" => rec[t].chunks_done = Chunks[t]
  /\ rec[t].state = "cancelled" => rec[t].cancel /\ rec[t].chunks_done < Chunks[t]
  /\ rec[t].cancel => canceller[t] = "accepted"

\* Nothing is reserved before all dependencies have been seen.
DepsFit(t) ==
  /\ rec[t].deps_seen \in 0 .. Len(Deps[t])
  /\ pc[t] \in Early \cup {"done"} => rec[t].staging = <<>>
  /\ pc[t] \in Later \/ (pc[t] = "done" /\ rec[t].state # "failed") =>
       rec[t].deps_seen = Len(Deps[t])

Entry == [pool : PoolKind, buf : Buffer]

\* The fields have their types; the record names the buffers reserved so far;
\* only a transfer whose driver ran is counted as active, until finalize().
RecordFits(t) ==
  /\ rec[t].cancel \in BOOLEAN /\ rec[t].started \in BOOLEAN
  /\ rec[t].result \in Result
  /\ rec[t].staging \in Seq(Entry)
  /\ pc[t] = "reserve" => Len(rec[t].staging) <= Depth * Len(Staged[t])
  /\ rec[t].started => pc[t] \in {"copy", "release", "verify", "hash", "finalize", "account"}
  /\ pc[t] = "account" => rec[t].state = Terminal(rec[t].result)

Local(t) == StateFits(t) /\ ResultFits(t) /\ DepsFit(t) /\ RecordFits(t)

\* The dependencies that have been seen have completed.
DepsDone ==
  \A t \in Transfers : \A i \in 1 .. rec[t].deps_seen : rec[Deps[t][i]].state = "completed"

\* The scheduler has each queued transfer once.
Queue ==
  /\ pending \in Seq(Transfers)
  /\ \A i \in DOMAIN pending : pc[pending[i]] = "in_queue"
  /\ \A i, j \in DOMAIN pending : pending[i] = pending[j] => i = j

Shape ==
  /\ pc \in [Transfers -> Label]
  /\ DOMAIN rec = Transfers /\ rec = [t \in Transfers |-> rec[t]]
  /\ \A t \in Transfers : DOMAIN rec[t] = Fields /\ rec[t] = [f \in Fields |-> rec[t][f]]
  /\ DOMAIN canceller = Transfers

\* What the lifecycle counters count: transfers whose driver has marked them
\* active, that are announced as queued, that submit() has planned, and that
\* finalize() has accounted for with an outcome.
IsActive(t) == rec[t].started
IsQueued(t) == pc[t] \in {"submit", "in_queue"}
IsCreated(t) == pc[t] \notin {"idle", "rejected", "admitted"}
HasEnded(t, outcome) ==
  pc[t] \in {"unstage", "done"} /\ ~DepsLeft(t) /\ rec[t].state = outcome

CountIs(n, S) == IsFiniteSet(S) /\ Cardinality(S) = n

TeleFields == {"created", "active", "queue_depth", "completed", "failed", "cancelled"}

Counts ==
  /\ tele = [f \in TeleFields |-> tele[f]]
  /\ CountIs(tele.active, {t \in Transfers : IsActive(t)})
  /\ CountIs(tele.queue_depth, {t \in Transfers : IsQueued(t)})
  /\ CountIs(tele.created, {t \in Transfers : IsCreated(t)})
  /\ CountIs(tele.completed, {t \in Transfers : HasEnded(t, "completed")})
  /\ CountIs(tele.cancelled, {t \in Transfers : HasEnded(t, "cancelled")})
  /\ CountIs(tele.failed, {t \in Transfers : HasEnded(t, "failed")})

PoolsFit == pools \in [PoolKind -> Pool] /\ StagingReachable

\* The inductive invariant.
IInv ==
  /\ Shape /\ Queue /\ DepsDone /\ Counts /\ PoolsFit
  /\ \A t \in Transfers : Local(t)

\* A step changes the state of a transfer along the table.
Lawful ==
  \A t \in Transfers : Chunks[t] > 0 /\ rec'[t].state # rec[t].state =>
    \/ rec[t].state = "none" /\ rec'[t].state = "created"
    \/ allowed(rec[t].state, rec'[t].state)
-----------------------------------------------------------------------------
(* What a step of one thread leaves alone.                                 *)

\* A step of the thread that works on t, or of cancel() for t.
Others(t) ==
  /\ pc' \in [Transfers -> Label]
  /\ DOMAIN rec' = Transfers /\ rec' = [s \in Transfers |-> rec'[s]]
  /\ DOMAIN rec'[t] = Fields /\ rec'[t] = [f \in Fields |-> rec'[t][f]]
  /\ DOMAIN canceller' = Transfers
  /\ \A s \in Transfers \ {t} :
       pc'[s] = pc[s] /\ rec'[s] = rec[s] /\ canceller'[s] = canceller[s]

\* Field f of the record of t becomes v.
Sets(t, f, v) ==
  /\ rec'[t].state = IF f = "state" THEN v ELSE rec[t].state
  /\ rec'[t].cancel = IF f = "cancel" THEN v ELSE rec[t].cancel
  /\ rec'[t].started = IF f = "started" THEN v ELSE rec[t].started
  /\ rec'[t].staging = IF f = "staging" THEN v ELSE rec[t].staging
  /\ rec'[t].chunks_done = IF f = "chunks_done" THEN v ELSE rec[t].chunks_done
  /\ rec'[t].deps_seen = IF f = "deps_seen" THEN v ELSE rec[t].deps_seen
  /\ rec'[t].result = IF f = "result" THEN v ELSE rec[t].result

\* What one thread may do to the state of its transfer and its dependencies.
Steady(t) ==
  /\ rec[t].state = "completed" => rec'[t].state = "completed"
  /\ \A i \in 1 .. rec'[t].deps_seen :
       i \in 1 .. rec[t].deps_seen \/ rec[Deps[t][i]].state = "completed"
  /\ Chunks[t] > 0 /\ rec'[t].state # rec[t].state =>
       \/ rec[t].state = "none" /\ rec'[t].state = "created"
       \/ allowed(rec[t].state, rec'[t].state)

\* The thread of t goes to p and its record becomes r.
LEMMA Replaced ==
  ASSUME IInv, NEW t \in Transfers, NEW p \in Label,
         NEW r, DOMAIN r = Fields, r = [f \in Fields |-> r[f]],
         pc' = [pc EXCEPT ![t] = p], rec' = [rec EXCEPT ![t] = r], canceller' = canceller
  PROVE  Others(t) /\ pc'[t] = p /\ rec'[t] = r /\ canceller'[t] = canceller[t]
<1>1. /\ pc \in [Transfers -> Label] /\ DOMAIN rec = Transfers
      /\ DOMAIN canceller = Transfers
  BY Zenon DEF IInv, Shape
<1>2. pc' \in [Transfers -> Label] /\ pc'[t] = p
      /\ \A s \in Transfers \ {t} : pc'[s] = pc[s]
  BY <1>1, Zenon
<1>3. DOMAIN rec' = Transfers /\ rec'[t] = r
      /\ \A s \in Transfers \ {t} : rec'[s] = rec[s]
  BY <1>1, Zenon
<1>4. rec' = [s \in Transfers |-> rec'[s]]
  BY <1>1, Zenon
<1>. QED
  BY <1>1, <1>2, <1>3, <1>4, Zenon DEF Others

\* The thread of t goes to p and sets one field: the frame of most actions.
LEMMA Moved ==
  ASSUME IInv, NEW t \in Transfers, NEW p \in Label, NEW f \in Fields, NEW v,
         pc' = [pc EXCEPT ![t] = p],
         rec' = [rec EXCEPT ![t] = [rec[t] EXCEPT ![f] = v]],
         canceller' = canceller
  PROVE  Others(t) /\ pc'[t] = p /\ Sets(t, f, v) /\ canceller'[t] = canceller[t]
<1>. DEFINE r == [rec[t] EXCEPT ![f] = v]
<1>1. DOMAIN r = Fields /\ \A g \in Fields : r[g] = IF f = g THEN v ELSE rec[t][g]
  BY Zenon DEF IInv, Shape
<1>a. r = [g \in Fields |-> r[g]]
  BY Zenon DEF IInv, Shape
<1>. HIDE DEF r
<1>2. rec' = [rec EXCEPT ![t] = r]
  BY Zenon DEF r
<1>3. Others(t) /\ pc'[t] = p /\ rec'[t] = r /\ canceller'[t] = canceller[t]
  BY <1>1, <1>a, <1>2, Replaced, Zenon
<1>4. Sets(t, f, v)
  BY <1>1, <1>3, Zenon DEF Sets, Fields
<1>. QED
  BY <1>3, <1>4, Zenon

\* The thread of t goes to p and leaves the record alone.
LEMMA Went ==
  ASSUME IInv, NEW t \in Transfers, NEW p \in Label,
         pc' = [pc EXCEPT ![t] = p], rec' = rec, canceller' = canceller
  PROVE  Others(t) /\ pc'[t] = p /\ Steady(t)
<1>1. /\ pc \in [Transfers -> Label]
      /\ DOMAIN rec = Transfers /\ rec = [s \in Transfers |-> rec[s]]
      /\ DOMAIN rec[t] = Fields /\ rec[t] = [f \in Fields |-> rec[t][f]]
      /\ DOMAIN canceller = Transfers
  BY Zenon DEF IInv, Shape
<1>2. pc' \in [Transfers -> Label] /\ pc'[t] = p
      /\ \A s \in Transfers \ {t} : pc'[s] = pc[s]
  BY <1>1, Zenon
<1>. QED
  BY <1>1, <1>2, Zenon DEF Others, Steady

\* A counter that follows a transfer into a set or out of it.
Shift(n, before, after) ==
  IF before <=> after THEN n ELSE IF after THEN n + 1 ELSE n - 1

\* A step for t moves the counters as it moves t.
Tallies(t) ==
  /\ tele' = [f \in TeleFields |-> tele'[f]]
  /\ tele'.active = Shift(tele.active, IsActive(t), IsActive(t)')
  /\ tele'.queue_depth = Shift(tele.queue_depth, IsQueued(t), IsQueued(t)')
  /\ tele'.created = Shift(tele.created, IsCreated(t), IsCreated(t)')
  /\ \A o \in {"completed", "cancelled", "failed"} :
       tele'[o] = Shift(tele[o], HasEnded(t, o), HasEnded(t, o)')

\* Adding or removing one member of a finite set moves its size by one.
LEMMA CountShift ==
  ASSUME NEW n, NEW S, CountIs(n, S), NEW R, NEW t, R \ {t} = S \ {t}
  PROVE  CountIs(Shift(n, t \in S, t \in R), R)
<1>1. IsFiniteSet(S) /\ Cardinality(S) = n /\ n \in Nat
  BY FS_CardinalityType DEF CountIs
<1>2. CASE t \in S <=> t \in R
  <2>1. R = S
    BY <1>2
  <2>. QED
    BY <1>2, <2>1, Zenon DEF Shift
<1>3. CASE t \notin S /\ t \in R
  <2>1. R = S \cup {t}
    BY <1>3
  <2>2. IsFiniteSet(R) /\ Cardinality(R) = n + 1
    BY <1>1, <1>3, <2>1, FS_AddElement
  <2>. QED
    BY <1>3, <2>2, Zenon DEF Shift, CountIs
<1>4. CASE t \in S /\ t \notin R
  <2>1. R = S \ {t}
    BY <1>4
  <2>2. IsFiniteSet(R) /\ Cardinality(R) = n - 1
    BY <1>1, <1>4, <2>1, FS_RemoveElement
  <2>. QED
    BY <1>4, <2>2, Zenon DEF Shift, CountIs
<1>. QED
  BY <1>2, <1>3, <1>4, Zenon

\* A step that moves the counters as it moves t keeps them exact.
LEMMA CountsMove ==
  ASSUME IInv, NEW t \in Transfers, Others(t), Tallies(t)
  PROVE  Counts'
<1>. DEFINE Active == {s \in Transfers : IsActive(s)}
            Queued == {s \in Transfers : IsQueued(s)}
            Created == {s \in Transfers : IsCreated(s)}
            Ended(o) == {s \in Transfers : HasEnded(s, o)}
<1>1. Counts
  BY Zenon DEF IInv
<1>2. \A s \in Transfers \ {t} : pc'[s] = pc[s] /\ rec'[s] = rec[s]
  BY Zenon DEF Others
<1>3. CountIs(tele'.active, Active')
  <2>1. Active' \ {t} = Active \ {t} /\ (t \in Active <=> IsActive(t)) /\ (t \in Active' <=> IsActive(t)')
    BY <1>2 DEF IsActive
  <2>2. CountIs(Shift(tele.active, t \in Active, t \in Active'), Active')
    BY <1>1, <2>1, CountShift, Zenon DEF Counts
  <2>. QED
    BY <2>1, <2>2, Zenon DEF Tallies, Shift
<1>4. CountIs(tele'.queue_depth, Queued')
  <2>1. Queued' \ {t} = Queued \ {t} /\ (t \in Queued <=> IsQueued(t)) /\ (t \in Queued' <=> IsQueued(t)')
    BY <1>2 DEF IsQueued
  <2>2. CountIs(Shift(tele.queue_depth, t \in Queued, t \in Queued'), Queued')
    BY <1>1, <2>1, CountShift, Zenon DEF Counts
  <2>. QED
    BY <2>1, <2>2, Zenon DEF Tallies, Shift
<1>5. CountIs(tele'.created, Created')
  <2>1. Created' \ {t} = Created \ {t} /\ (t \in Created <=> IsCreated(t)) /\ (t \in Created' <=> IsCreated(t)')
    BY <1>2 DEF IsCreated
  <2>2. CountIs(Shift(tele.created, t \in Created, t \in Created'), Created')
    BY <1>1, <2>1, CountShift, Zenon DEF Counts
  <2>. QED
    BY <2>1, <2>2, Zenon DEF Tallies, Shift
<1>6. ASSUME NEW o \in {"completed", "cancelled", "failed"} PROVE CountIs(tele'[o], Ended(o)')
  <2>1. /\ Ended(o)' \ {t} = Ended(o) \ {t}
        /\ (t \in Ended(o) <=> HasEnded(t, o)) /\ (t \in Ended(o)' <=> HasEnded(t, o)')
    BY <1>2 DEF HasEnded, DepsLeft
  <2>2. CountIs(tele[o], Ended(o))
    BY <1>1, <1>6, Zenon DEF Counts
  <2>3. CountIs(Shift(tele[o], t \in Ended(o), t \in Ended(o)'), Ended(o)')
    BY <2>1, <2>2, CountShift, Zenon
  <2>. QED
    BY <1>6, <2>1, <2>3, Zenon DEF Tallies, Shift
<1>. QED
  BY <1>3, <1>4, <1>5, <1>6, Zenon DEF Counts, Tallies

\* A step that leaves the counters and the places of t in them alone.
Uncounted(t) ==
  /\ tele' = tele
  /\ IsActive(t)' <=> IsActive(t)
  /\ IsQueued(t)' <=> IsQueued(t)
  /\ IsCreated(t)' <=> IsCreated(t)
  /\ \A o \in {"completed", "cancelled", "failed"} : HasEnded(t, o)' <=> HasEnded(t, o)

\* A step that moves neither t nor a counter.
LEMMA UncountedTallies ==
  ASSUME IInv, NEW t, Uncounted(t)
  PROVE  Tallies(t)
<1>1. tele' = [f \in TeleFields |-> tele'[f]]
  BY DEF IInv, Counts, Uncounted
<1>. QED
  BY <1>1, Zenon DEF Uncounted, Tallies, Shift

\* A step that moves one gauge or counter with t and no other.
LEMMA CountedTallies ==
  ASSUME IInv, NEW t, NEW f \in TeleFields, NEW n, tele' = [tele EXCEPT ![f] = n],
         f # "active" => (IsActive(t)' <=> IsActive(t)),
         f # "queue_depth" => (IsQueued(t)' <=> IsQueued(t)),
         f # "created" => (IsCreated(t)' <=> IsCreated(t)),
         f = "active" => n = Shift(tele.active, IsActive(t), IsActive(t)'),
         f = "queue_depth" => n = Shift(tele.queue_depth, IsQueued(t), IsQueued(t)'),
         f = "created" => n = Shift(tele.created, IsCreated(t), IsCreated(t)'),
         f \notin {"completed", "cancelled", "failed"},
         \A o \in {"completed", "cancelled", "failed"} : HasEnded(t, o)' <=> HasEnded(t, o)
  PROVE  Tallies(t)
<1>1. tele = [g \in TeleFields |-> tele[g]]
  BY Zenon DEF IInv, Counts
<1>2. tele' = [g \in TeleFields |-> tele'[g]]
  BY <1>1
<1>3. \A g \in TeleFields : tele'[g] = IF g = f THEN n ELSE tele[g]
  BY <1>1
<1>. QED
  BY <1>2, <1>3, Zenon DEF Tallies, Shift, TeleFields

\* The pools and what t has reserved are as before.
LEMMA PoolsKept ==
  ASSUME IInv, NEW t \in Transfers, Others(t), pools' = pools,
         rec'[t].staging = rec[t].staging
  PROVE  PoolsFit'
<1>1. \A s \in Transfers : rec'[s].staging = rec[s].staging
  BY Zenon DEF Others
<1>. QED
  BY <1>1 DEF IInv, PoolsFit, StagingReachable, Listed, Named

\* The loops that release what t names do not change what is live.
LEMMA NamedGivenBack ==
  ASSUME IInv, NEW t \in Transfers, pools' = ReleaseAll(rec[t].staging)
  PROVE  /\ GivesBack(pools', pools, PoolKind, rec[t].staging, DOMAIN rec[t].staging)
         /\ \A i \in DOMAIN rec[t].staging :
              rec[t].staging[i].pool \in PoolKind /\ rec[t].staging[i].buf \in Buffer
<1>1. PICK bufs : bufs = rec[t].staging
  BY Zenon
<1>2. bufs \in Seq(Entry) /\ pools \in [PoolKind -> Pool]
  BY <1>1, Zenon DEF IInv, Local, RecordFits, PoolsFit
<1>3. PICK S : S = 1 .. Len(bufs)
  BY Zenon
<1>4. /\ S = DOMAIN bufs /\ IsFiniteSet(S)
      /\ \A i \in S : bufs[i].pool \in PoolKind /\ bufs[i].buf \in Buffer
  <2>1. S = DOMAIN bufs /\ Len(bufs) \in Nat
    BY <1>2, <1>3
  <2>2. IsFiniteSet(S)
    BY <1>3, <2>1, FS_Interval
  <2>3. \A i \in S : bufs[i] \in Entry
    BY <1>2, <2>1
  <2>. QED
    BY <2>1, <2>2, <2>3 DEF Entry
<1>5. pools' = ReleaseAt(pools, bufs, S)
  BY <1>1, <1>3, Zenon DEF ReleaseAll
<1>6. GivesBack(ReleaseAt(pools, bufs, S), pools, PoolKind, bufs, S)
  BY <1>2, <1>4, ReleaseGivesBack
<1>. QED
  BY <1>1, <1>4, <1>5, <1>6, Zenon

\* Every buffer that t names goes back to its pool, and t goes on naming all of
\* them or none.
LEMMA PoolsReleased ==
  ASSUME IInv, NEW t \in Transfers, Others(t), pools' = ReleaseAll(rec[t].staging),
         rec'[t].staging = <<>> \/ rec'[t].staging = rec[t].staging
  PROVE  PoolsFit'
<1>1. PICK bufs : bufs = rec[t].staging
  BY Zenon
<1>2. pools \in [PoolKind -> Pool] /\ StagingReachable
  BY <1>1, Zenon DEF IInv, PoolsFit
<1>3. PICK S : S = DOMAIN bufs
  BY Zenon
<1>4. /\ S = DOMAIN bufs
      /\ \A i \in S : bufs[i].pool \in PoolKind /\ bufs[i].buf \in Buffer
  BY <1>1, <1>3, NamedGivenBack, Zenon
<1>6. GivesBack(pools', pools, PoolKind, bufs, S)
  BY <1>1, <1>3, NamedGivenBack, Zenon
<1>7. ASSUME NEW k \in PoolKind, NEW a \in Addresses, pools'[k].heap[a] # 0
      PROVE  Listed(k, a)' \/ Named(k, a)'
  <2>1. pools[k].heap[a] # 0
    BY <1>6, <1>7, Zenon DEF GivesBack
  <2>2. CASE Listed(k, a)
    <3>1. PICK b \in Buffer : b.data = a /\ pools[k].free[b] > 0
      BY <2>2, Zenon DEF Listed
    <3>2. pools'[k].free[b] >= pools[k].free[b] /\ pools' \in [PoolKind -> Pool]
      BY <1>6 DEF GivesBack
    <3>3. pools[k].free[b] \in Nat /\ pools'[k].free[b] \in Nat
      BY <1>2, <3>2, PoolFields, SMTT(30)
    <3>4. pools'[k].free[b] > 0
      BY <3>1, <3>2, <3>3
    <3>. QED
      BY <3>1, <3>4, Zenon DEF Listed
  <2>3. CASE Named(k, a)
    <3>1. PICK s \in Transfers : \E i \in DOMAIN rec[s].staging :
            rec[s].staging[i].pool = k /\ rec[s].staging[i].buf.data = a
      BY <2>3, Zenon DEF Named
    <3>2. CASE s # t
      <4>1. rec'[s] = rec[s]
        BY <3>2, Zenon DEF Others
      <4>. QED
        BY <3>1, <4>1, Zenon DEF Named
    <3>3. CASE s = t
      <4>1. PICK i \in S : bufs[i].pool = k /\ bufs[i].buf.data = a
        BY <1>1, <1>4, <3>1, <3>3, Zenon
      <4>2. pools'[k].free[bufs[i].buf] > 0 /\ bufs[i].buf \in Buffer
        BY <1>4, <1>6, <4>1, Zenon DEF GivesBack
      <4>. QED
        BY <4>1, <4>2, Zenon DEF Listed
    <3>. QED
      BY <3>2, <3>3, Zenon
  <2>. QED
    BY <1>2, <2>1, <2>2, <2>3, Zenon DEF StagingReachable
<1>. QED
  BY <1>6, <1>7, Zenon DEF PoolsFit, StagingReachable, GivesBack

\* A pool hands t one buffer more.
LEMMA PoolsReserved ==
  ASSUME IInv, NEW t \in Transfers, Others(t), NEW k \in PoolKind, NEW b \in Buffer,
         NEW p \in Pool, pools' = [pools EXCEPT ![k] = p],
         rec'[t].staging = Append(rec[t].staging, [pool |-> k, buf |-> b]),
         \A a \in Addresses : a # b.data => p.heap[a] = pools[k].heap[a],
         \A x \in Buffer : x # b => p.free[x] = pools[k].free[x]
  PROVE  PoolsFit'
<1>1. /\ pools \in [PoolKind -> Pool] /\ StagingReachable
      /\ rec[t].staging \in Seq(Entry)
  BY Zenon DEF IInv, Local, RecordFits, PoolsFit
<1>2. /\ pools' \in [PoolKind -> Pool] /\ pools'[k] = p
      /\ \A j \in PoolKind \ {k} : pools'[j] = pools[j]
  BY <1>1, Zenon
<1>3. PICK bufs : bufs = rec[t].staging
  BY Zenon
<1>4. PICK e : e = [pool |-> k, buf |-> b]
  BY Zenon
<1>5. PICK more : more = rec'[t].staging
  BY Zenon
<1>6. /\ e \in Entry /\ e.pool = k /\ e.buf = b /\ bufs \in Seq(Entry)
      /\ more = Append(bufs, e)
  BY <1>1, <1>3, <1>4, <1>5, SMTT(30) DEF Entry
<1>7. /\ \A i \in DOMAIN bufs : i \in DOMAIN more /\ more[i] = bufs[i]
      /\ Len(bufs) + 1 \in DOMAIN more /\ more[Len(bufs) + 1] = e
  BY <1>6
<1>8. ASSUME NEW j \in PoolKind, NEW a \in Addresses, Named(j, a) PROVE Named(j, a)'
  <2>1. PICK s \in Transfers : \E i \in DOMAIN rec[s].staging :
          rec[s].staging[i].pool = j /\ rec[s].staging[i].buf.data = a
    BY <1>8, Zenon DEF Named
  <2>2. CASE s # t
    <3>1. rec'[s] = rec[s]
      BY <2>2, Zenon DEF Others
    <3>2. PICK i \in DOMAIN rec[s].staging :
            rec[s].staging[i].pool = j /\ rec[s].staging[i].buf.data = a
      BY <2>1, Zenon
    <3>3. /\ i \in DOMAIN rec'[s].staging
          /\ rec'[s].staging[i].pool = j /\ rec'[s].staging[i].buf.data = a
      BY <3>1, <3>2, Zenon
    <3>. QED
      BY <3>3, Zenon DEF Named
  <2>3. CASE s = t
    <3>1. PICK i \in DOMAIN bufs : bufs[i].pool = j /\ bufs[i].buf.data = a
      BY <1>3, <2>1, <2>3, Zenon
    <3>2. i \in DOMAIN more /\ more[i] = bufs[i]
      BY <1>7, Zenon
    <3>3. i \in DOMAIN more /\ more[i].pool = j /\ more[i].buf.data = a
      BY <3>1, <3>2, Zenon
    <3>4. /\ i \in DOMAIN rec'[t].staging
          /\ rec'[t].staging[i].pool = j /\ rec'[t].staging[i].buf.data = a
      BY <1>5, <3>3, Zenon
    <3>. QED
      BY <3>4, Zenon DEF Named
  <2>. QED
    BY <2>2, <2>3, Zenon
<1>9. Named(k, b.data)'
  BY <1>5, <1>6, <1>7, Zenon DEF Named
<1>10. ASSUME NEW j \in PoolKind, NEW a \in Addresses, pools'[j].heap[a] # 0
       PROVE  Listed(j, a)' \/ Named(j, a)'
  <2>1. CASE j = k /\ a = b.data
    BY <1>9, <2>1, Zenon
  <2>2. CASE j = k /\ a # b.data
    <3>1. Listed(j, a) \/ Named(j, a)
      BY <1>1, <1>2, <1>10, <2>2, Zenon DEF StagingReachable
    <3>2. Listed(j, a) => Listed(j, a)'
      BY <1>2, <2>2, SMTT(30) DEF Listed
    <3>. QED
      BY <1>8, <3>1, <3>2, Zenon
  <2>3. CASE j # k
    <3>1. Listed(j, a) \/ Named(j, a)
      BY <1>1, <1>2, <1>10, <2>3, Zenon DEF StagingReachable
    <3>2. Listed(j, a) => Listed(j, a)'
      BY <1>2, <2>3, Zenon DEF Listed
    <3>. QED
      BY <1>8, <3>1, <3>2, Zenon
  <2>. QED
    BY <2>1, <2>2, <2>3, Zenon
<1>. QED
  BY <1>2, <1>10, Zenon DEF PoolsFit, StagingReachable

\* A pool is drained: what its free list does not name stays live.
LEMMA PoolDrained ==
  ASSUME IInv, rec' = rec, NEW k \in PoolKind, pools' = [pools EXCEPT ![k] = Drain(@)]
  PROVE  PoolsFit'
<1>1. pools \in [PoolKind -> Pool] /\ StagingReachable
  BY Zenon DEF IInv, PoolsFit
<1>2. pools[k] \in Pool
  BY <1>1
<1>3. PICK p : p = Drain(pools[k])
  BY Zenon
<1>4. /\ p \in Pool
      /\ \A a \in Addresses : p.heap[a] = IF Listed(k, a) THEN 0 ELSE pools[k].heap[a]
  BY <1>2, <1>3, DrainFields DEF Listed
<1>5. /\ pools' \in [PoolKind -> Pool] /\ pools'[k] = p
      /\ \A j \in PoolKind \ {k} : pools'[j] = pools[j]
  BY <1>1, <1>3, <1>4, Zenon
<1>6. ASSUME NEW j \in PoolKind, NEW a \in Addresses, pools'[j].heap[a] # 0
      PROVE  Listed(j, a)' \/ Named(j, a)'
  <2>1. Named(j, a) => Named(j, a)'
    BY Zenon DEF Named
  <2>2. CASE j = k
    BY <1>1, <1>4, <1>5, <1>6, <2>1, <2>2, Zenon DEF StagingReachable
  <2>3. CASE j # k
    <3>1. Listed(j, a) => Listed(j, a)'
      BY <1>5, <2>3, Zenon DEF Listed
    <3>. QED
      BY <1>1, <1>5, <1>6, <2>1, <2>3, <3>1, Zenon DEF StagingReachable
  <2>. QED
    BY <2>2, <2>3, Zenon
<1>. QED
  BY <1>5, <1>6, Zenon DEF PoolsFit, StagingReachable

\* The loops of reserve_staging() are still inside the list of nodes.
LEMMA NextPool ==
  ASSUME NEW t \in Transfers, Local(t), pc[t] = "reserve", ~Reserved(t)
  PROVE  /\ PoolOfNext(t) \in PoolKind
         /\ Len(rec[t].staging) + 1 <= Depth * Len(Staged[t])
<1>1. Depth \in Nat /\ Depth > 0 /\ Staged[t] \in Seq(PoolKind)
  BY RuntimeConstants
<1>2. /\ rec[t].staging \in Seq(Entry)
      /\ Len(rec[t].staging) <= Depth * Len(Staged[t])
      /\ Len(rec[t].staging) # Depth * Len(Staged[t])
  BY Zenon DEF Local, RecordFits, Reserved
<1>3. PICK x \in Nat : x = Len(rec[t].staging)
  BY <1>2
<1>4. PICK m \in Nat : m = Len(Staged[t])
  BY <1>1
<1>5. Depth * m \in Nat /\ x <= Depth * m /\ x # Depth * m
  BY <1>1, <1>2, <1>3, <1>4, SMTT(30)
<1>6. x + 1 <= Depth * m
  <2>1. PICK y \in Nat : y = Depth * m
    BY <1>5
  <2>. QED
    BY <1>5, <2>1
<1>7. x \div Depth \in Nat /\ x \div Depth < m
  BY <1>1, <1>6
<1>8. (x \div Depth) + 1 \in 1 .. Len(Staged[t])
  BY <1>4, <1>7
<1>9. PoolOfNext(t) \in PoolKind
  <2>1. PICK i : i = (x \div Depth) + 1
    BY Zenon
  <2>2. Staged[t][i] \in PoolKind
    BY <1>1, <1>8, <2>1
  <2>. QED
    BY <1>3, <2>1, <2>2, Zenon DEF PoolOfNext
<1>. QED
  BY <1>3, <1>4, <1>6, <1>9, SMTT(30)

\* Nothing is reserved at first.
LEMMA NothingReserved ==
  /\ <<>> \in Seq(Entry)
  /\ \A t \in Transfers : Len(<<>>) <= Depth * Len(Staged[t])
<1>1. ASSUME NEW t \in Transfers PROVE Len(<<>>) <= Depth * Len(Staged[t])
  <2>1. Depth \in Nat /\ Len(Staged[t]) \in Nat
    BY RuntimeConstants
  <2>. QED
    BY <2>1
<1>. QED
  BY <1>1

\* No step of a transfer, no change of the pools.
LEMMA PoolsSame == ASSUME IInv, pools' = pools, rec' = rec PROVE PoolsFit'
BY DEF IInv, PoolsFit, StagingReachable, Listed, Named

\* The invariant after a step for t follows from what holds of t.
LEMMA OneTransfer ==
  ASSUME IInv, NEW t \in Transfers, Others(t), Local(t)', Queue', Steady(t),
         Tallies(t), PoolsFit'
  PROVE  IInv' /\ Lawful
<1>1. Shape'
  BY ZenonT(40) DEF IInv, Shape, Others
<1>2. ASSUME NEW s \in Transfers PROVE Local(s)'
  <2>1. CASE s = t
    BY <2>1, ZenonT(40)
  <2>2. CASE s # t
    <3>1. pc'[s] = pc[s] /\ rec'[s] = rec[s] /\ canceller'[s] = canceller[s]
      BY <2>2, Zenon DEF Others
    <3>2. Local(s)
      BY Zenon DEF IInv
    <3>3. StateFits(s)'
      BY <3>1, <3>2, Zenon DEF Local, StateFits
    <3>4. ResultFits(s)'
      BY <3>1, <3>2, Zenon DEF Local, ResultFits
    <3>5. DepsFit(s)'
      BY <3>1, <3>2, Zenon DEF Local, DepsFit
    <3>6. RecordFits(s)'
      BY <3>1, <3>2, Zenon DEF Local, RecordFits
    <3>. QED
      BY <3>3, <3>4, <3>5, <3>6, Zenon DEF Local
  <2>. QED
    BY <2>1, <2>2, Zenon
<1>3. ASSUME NEW s \in Transfers, rec[s].state = "completed"
      PROVE  rec'[s].state = "completed"
  BY <1>3, Zenon DEF Others, Steady
<1>4. ASSUME NEW s \in Transfers, NEW i \in 1 .. rec'[s].deps_seen
      PROVE  rec'[Deps[s][i]].state = "completed"
  <2>0. DepsDone
    BY Zenon DEF IInv
  <2>1. rec'[s].deps_seen \in 0 .. Len(Deps[s])
    BY <1>2, Zenon DEF Local, DepsFit
  <2>2. Deps[s] \in Seq(Transfers)
    BY RuntimeConstants, Zenon
  <2>3. Deps[s][i] \in Transfers
    BY <2>1, <2>2
  <2>4. rec[Deps[s][i]].state = "completed"
    <3>1. CASE s = t
      BY <3>1, <1>4, <2>0, Zenon DEF Steady, DepsDone
    <3>2. CASE s # t
      BY <3>2, <1>4, <2>0, ZenonT(40) DEF Others, DepsDone
    <3>. QED
      BY <3>1, <3>2, Zenon
  <2>. QED
    BY <2>3, <2>4, <1>3, Zenon
<1>5. DepsDone'
  BY <1>4, Zenon DEF DepsDone
<1>6. Lawful
  BY Zenon DEF Lawful, Others, Steady
<1>7. Counts'
  BY CountsMove, Zenon
<1>. QED
  BY <1>1, <1>2, <1>5, <1>6, <1>7, Zenon DEF IInv

\* The scheduler's list is as before, and t is not in it or stays where it is.
LEMMA QueueKept ==
  ASSUME IInv, NEW t \in Transfers, Others(t), pending' = pending,
         pc[t] # "in_queue" \/ pc'[t] = pc[t]
  PROVE  Queue'
<1>1. Queue
  BY Zenon DEF IInv
<1>2. ASSUME NEW i \in DOMAIN pending PROVE pc'[pending[i]] = "in_queue"
  <2>1. pending[i] \in Transfers /\ pc[pending[i]] = "in_queue"
    BY <1>1 DEF Queue
  <2>. QED
    BY <2>1, Zenon DEF Others
<1>. QED
  BY <1>1, <1>2, Zenon DEF Queue

\* set_state() where the table allows the change, and set_terminal() before the
\* end, assign the state.
LEMMA SetState ==
  ASSUME NEW r, NEW s, allowed(r.state, s)
  PROVE  set_state(r, s) = [r EXCEPT !["state"] = s]
BY Zenon DEF set_state

\* set_terminal() changes a state that is not terminal yet.
LEMMA SetTerminalState ==
  ASSUME NEW r, NEW s, ~is_terminal(r.state)
  PROVE  set_terminal(r, s) = [r EXCEPT !["state"] = s]
BY Zenon DEF set_terminal

\* A step that touches no transfer and not the list.
LEMMA Unmoved ==
  ASSUME IInv, pc' = pc, rec' = rec, canceller' = canceller, pending' = pending,
         tele' = tele, PoolsFit'
  PROVE  IInv' /\ Lawful
<1>1. Lawful
  BY Zenon DEF Lawful
<1>2. Shape'
  BY DEF IInv, Shape
<1>3. Queue' /\ DepsDone'
  BY Zenon DEF IInv, Queue, DepsDone
<1>4. Counts'
  BY DEF IInv, Counts, IsActive, IsQueued, IsCreated, HasEnded, DepsLeft
<1>5. ASSUME NEW t \in Transfers PROVE Local(t)'
  BY ZenonT(40) DEF IInv, Local, StateFits, ResultFits, DepsFit, RecordFits
<1>. QED
  BY <1>1, <1>2, <1>3, <1>4, <1>5, Zenon DEF IInv
-----------------------------------------------------------------------------
(* The actions.                                                            *)

\* submit() up to the reservation.
LEMMA SubmitInv ==
  ASSUME IInv, NEW t \in Transfers, Reject(t) \/ Admit(t) \/ Plan(t) \/ DependencyUnknown(t)
           \/ DependencyCompleted(t) \/ DependencyFailed(t) \/ DependenciesMet(t)
  PROVE  IInv' /\ Lawful
<1>0. Local(t)
  BY Zenon DEF IInv
<1>1. CASE Reject(t)
  <2>1. /\ pc[t] = "idle" /\ pc' = [pc EXCEPT ![t] = "rejected"]
        /\ rec' = rec /\ canceller' = canceller /\ pending' = pending
        /\ tele' = tele /\ pools' = pools
    BY <1>1, Zenon DEF Reject, Goto, executor
  <2>2. "rejected" \in Label
    BY Zenon DEF Label
  <2>3. Others(t) /\ pc'[t] = "rejected" /\ Steady(t)
    BY <2>1, <2>2, Went, Zenon
  <2>4. Local(t)'
    BY <1>0, <2>1, <2>3, Zenon
       DEF Local, StateFits, ResultFits, DepsFit, RecordFits, Result, Early, Later, Over
  <2>5. Queue'
    BY <2>1, <2>3, QueueKept, Zenon
  <2>6. Uncounted(t)
    BY <1>0, <2>1, <2>3, Zenon
    DEF Uncounted, IsActive, IsQueued, IsCreated, HasEnded, DepsLeft, Sets
  <2>7. Tallies(t) /\ PoolsFit'
    BY <2>1, <2>3, <2>6, UncountedTallies, PoolsKept, Zenon DEF Sets
  <2>. QED
    BY <2>3, <2>4, <2>5, <2>7, OneTransfer, Zenon
<1>2. CASE Admit(t)
  <2>1. /\ pc[t] = "idle" /\ pc' = [pc EXCEPT ![t] = "admitted"]
        /\ rec' = [rec EXCEPT ![t] = [rec[t] EXCEPT !["state"] = "created"]]
        /\ canceller' = canceller /\ pending' = pending
        /\ tele' = tele /\ pools' = pools
    BY <1>2, Zenon DEF Admit, Goto, executor
  <2>2. "admitted" \in Label /\ "state" \in Fields
    BY Zenon DEF Label, Fields
  <2>3. Others(t) /\ pc'[t] = "admitted" /\ Sets(t, "state", "created") /\ canceller'[t] = canceller[t]
    BY <2>1, <2>2, Moved, Zenon
  <2>4. Local(t)'
    <3>1. StateFits(t)' /\ ResultFits(t)' /\ DepsFit(t)'
      BY <1>0, <2>1, <2>3, SMTT(30)
         DEF Local, StateFits, ResultFits, DepsFit, Sets, Early, Later, Over
    <3>2. RecordFits(t)'
      BY <1>0, <2>1, <2>3, Zenon DEF Local, RecordFits, Result, Sets
    <3>. QED
      BY <3>1, <3>2, ZenonT(40) DEF Local
  <2>5. Steady(t)
    BY <1>0, <2>1, <2>3, Zenon DEF Sets, Steady, Local, StateFits
  <2>6. Queue'
    BY <2>1, <2>3, QueueKept, Zenon
  <2>7. Uncounted(t)
    BY <1>0, <2>1, <2>3, Zenon
    DEF Uncounted, IsActive, IsQueued, IsCreated, HasEnded, DepsLeft, Sets
  <2>8. Tallies(t) /\ PoolsFit'
    BY <2>1, <2>3, <2>7, UncountedTallies, PoolsKept, Zenon DEF Sets
  <2>. QED
    BY <2>3, <2>4, <2>5, <2>6, <2>8, OneTransfer, ZenonT(40)
<1>3. CASE Plan(t)
  <2>0. allowed(rec[t].state, "planned")
    BY <1>0, <1>3 DEF Plan, Local, StateFits, allowed, table
  <2>1. /\ pc[t] = "admitted" /\ pc' = [pc EXCEPT ![t] = "deps"]
        /\ rec' = [rec EXCEPT ![t] = [rec[t] EXCEPT !["state"] = "planned"]]
        /\ canceller' = canceller /\ pending' = pending
        /\ tele' = [tele EXCEPT !.created = @ + 1] /\ pools' = pools
    BY <1>3, <2>0, SetState, Zenon DEF Plan, Goto, executor
  <2>2. "deps" \in Label /\ "state" \in Fields
    BY Zenon DEF Label, Fields
  <2>3. Others(t) /\ pc'[t] = "deps" /\ Sets(t, "state", "planned") /\ canceller'[t] = canceller[t]
    BY <2>1, <2>2, Moved, ZenonT(40)
  <2>4. Local(t)'
    <3>1. StateFits(t)' /\ ResultFits(t)' /\ DepsFit(t)'
      BY <1>0, <2>1, <2>3, <2>0, SMTT(30)
         DEF Local, StateFits, ResultFits, DepsFit, Sets, Early, Later, Over
    <3>2. RecordFits(t)'
      BY <1>0, <2>1, <2>3, <2>0, Zenon DEF Local, RecordFits, Result, Sets
    <3>. QED
      BY <3>1, <3>2, Zenon DEF Local
  <2>5. Steady(t)
    BY <1>0, <2>1, <2>3, <2>0, Zenon DEF Sets, Steady, allowed, table, Local, StateFits
  <2>6. Queue'
    BY <2>1, <2>3, QueueKept, Zenon
  <2>7. Tallies(t)
    <3>1. /\ "created" \in TeleFields
          /\ tele' = [tele EXCEPT !["created"] = tele["created"] + 1]
      BY <2>1, Zenon DEF TeleFields
    <3>. QED
      BY <1>0, <2>1, <2>3, <3>1, CountedTallies, ZenonT(40)
      DEF IsActive, IsQueued, IsCreated, HasEnded, Sets, Shift
  <2>8. PoolsFit'
    BY <2>1, <2>3, PoolsKept, Zenon DEF Sets
  <2>. QED
    BY <2>3, <2>4, <2>5, <2>6, <2>7, <2>8, OneTransfer, ZenonT(40)
<1>4. CASE DependencyUnknown(t)
  <2>1. /\ pc[t] = "deps" /\ pc' = [pc EXCEPT ![t] = "abandoned"]
        /\ rec' = rec /\ canceller' = canceller /\ pending' = pending
        /\ tele' = tele /\ pools' = pools
    BY <1>4, Zenon DEF DependencyUnknown, Goto, executor
  <2>2. "abandoned" \in Label
    BY Zenon DEF Label
  <2>3. Others(t) /\ pc'[t] = "abandoned" /\ Steady(t)
    BY <2>1, <2>2, Went, Zenon
  <2>4. Local(t)'
    BY <1>0, <2>1, <2>3, Zenon
       DEF Local, StateFits, ResultFits, DepsFit, RecordFits, Result, Early, Later, Over
  <2>5. Queue'
    BY <2>1, <2>3, QueueKept, Zenon
  <2>6. Uncounted(t)
    BY <1>0, <2>1, <2>3, Zenon
    DEF Uncounted, IsActive, IsQueued, IsCreated, HasEnded, DepsLeft, Sets
  <2>7. Tallies(t) /\ PoolsFit'
    BY <2>1, <2>3, <2>6, UncountedTallies, PoolsKept, Zenon DEF Sets
  <2>. QED
    BY <2>3, <2>4, <2>5, <2>7, OneTransfer, Zenon
<1>5. CASE DependencyCompleted(t)
  <2>a. Len(Deps[t]) \in Nat
    BY RuntimeConstants, SMTT(30)
  <2>0. /\ rec[t].deps_seen \in Nat /\ rec[t].deps_seen + 1 \in 0 .. Len(Deps[t])
        /\ rec[Deps[t][rec[t].deps_seen + 1]].state = "completed"
    BY <1>0, <1>5, <2>a, SMTT(30) DEF DependencyCompleted, DepsLeft, NextDep, Local, DepsFit
  <2>. DEFINE v == rec[t].deps_seen + 1
  <2>1. /\ pc[t] = "deps" /\ pc' = [pc EXCEPT ![t] = "deps"]
        /\ rec' = [rec EXCEPT ![t] = [rec[t] EXCEPT !["deps_seen"] = v]]
        /\ canceller' = canceller /\ pending' = pending
        /\ tele' = tele /\ pools' = pools
    BY <1>5, Zenon DEF DependencyCompleted, executor, IInv, Shape
  <2>. HIDE DEF v
  <2>2. "deps" \in Label /\ "deps_seen" \in Fields
    BY Zenon DEF Label, Fields
  <2>3. Others(t) /\ pc'[t] = "deps" /\ Sets(t, "deps_seen", v) /\ canceller'[t] = canceller[t]
    BY <2>1, <2>2, Moved, Zenon
  <2>4. Local(t)'
    <3>a. StateFits(t)'
      BY <1>0, <2>1, <2>3, <2>0, Zenon DEF Local, StateFits, ResultFits, Sets, Early, Later, Over, v
    <3>b. ResultFits(t)'
      BY <1>0, <2>1, <2>3, <2>0, Zenon DEF Local, StateFits, ResultFits, Sets, Early, Later, Over, v
    <3>c. DepsFit(t)'
      BY <1>0, <2>1, <2>3, <2>0, Zenon DEF Local, DepsFit, Sets, Early, Later, Over, v
    <3>2. RecordFits(t)'
      BY <1>0, <2>1, <2>3, <2>0, ZenonT(40) DEF Local, RecordFits, Result, Sets
    <3>. QED
      BY <3>a, <3>b, <3>c, <3>2, Zenon DEF Local
  <2>5. Steady(t)
    BY <1>0, <2>1, <2>3, <2>0, SMTT(30) DEF Sets, Steady, Local, v
  <2>6. Queue'
    BY <2>1, <2>3, QueueKept, Zenon
  <2>7. Uncounted(t)
    BY <1>0, <2>1, <2>3, Zenon
    DEF Uncounted, IsActive, IsQueued, IsCreated, HasEnded, DepsLeft, Sets
  <2>8. Tallies(t) /\ PoolsFit'
    BY <2>1, <2>3, <2>7, UncountedTallies, PoolsKept, Zenon DEF Sets
  <2>. QED
    BY <2>3, <2>4, <2>5, <2>6, <2>8, OneTransfer, Zenon
<1>6. CASE DependencyFailed(t)
  <2>0. ~is_terminal(rec[t].state)
    BY <1>0, <1>6, Zenon DEF DependencyFailed, Local, StateFits, is_terminal
  <2>1. /\ pc[t] = "deps" /\ pc' = [pc EXCEPT ![t] = "done"]
        /\ rec' = [rec EXCEPT ![t] = [rec[t] EXCEPT !["state"] = "failed"]]
        /\ canceller' = canceller /\ pending' = pending
        /\ tele' = tele /\ pools' = pools
        /\ DepsLeft(t)
    BY <1>6, <2>0, SetTerminalState, Zenon DEF DependencyFailed, Goto, executor
  <2>2. "done" \in Label /\ "state" \in Fields
    BY Zenon DEF Label, Fields
  <2>3. Others(t) /\ pc'[t] = "done" /\ Sets(t, "state", "failed") /\ canceller'[t] = canceller[t]
    BY <2>1, <2>2, Moved, ZenonT(40)
  <2>4. Local(t)'
    <3>1. StateFits(t)' /\ ResultFits(t)' /\ DepsFit(t)'
      BY <1>0, <2>1, <2>3, <2>0, SMTT(30)
         DEF Local, StateFits, ResultFits, DepsFit, Sets, Early, Later, Over
    <3>2. RecordFits(t)'
      BY <1>0, <2>1, <2>3, <2>0, ZenonT(40) DEF Local, RecordFits, Result, Sets
    <3>. QED
      BY <3>1, <3>2, Zenon DEF Local
  <2>5. Steady(t)
    BY <1>0, <2>1, <2>3, <2>0, SMTT(30) DEF Sets, Steady, Local, allowed, table, StateFits
  <2>6. Queue'
    BY <2>1, <2>3, QueueKept, Zenon
  <2>7. Uncounted(t)
    BY <1>0, <2>1, <2>3, Zenon
    DEF Uncounted, IsActive, IsQueued, IsCreated, HasEnded, DepsLeft, Sets
  <2>8. Tallies(t) /\ PoolsFit'
    BY <2>1, <2>3, <2>7, UncountedTallies, PoolsKept, Zenon DEF Sets
  <2>. QED
    BY <2>3, <2>4, <2>5, <2>6, <2>8, OneTransfer, ZenonT(40)
<1>7. CASE DependenciesMet(t)
  <2>0. rec[t].deps_seen = Len(Deps[t]) /\ rec[t].staging = <<>>
    BY <1>0, <1>7, RuntimeConstants, SMTT(30) DEF DependenciesMet, DepsLeft, Local, DepsFit, Early
  <2>1. /\ pc[t] = "deps" /\ pc' = [pc EXCEPT ![t] = "reserve"]
        /\ rec' = rec /\ canceller' = canceller /\ pending' = pending
        /\ tele' = tele /\ pools' = pools
    BY <1>7, Zenon DEF DependenciesMet, Goto, executor
  <2>2. "reserve" \in Label
    BY Zenon DEF Label
  <2>3. Others(t) /\ pc'[t] = "reserve" /\ Steady(t)
    BY <2>1, <2>2, Went, Zenon
  <2>4. Local(t)'
    <3>1. StateFits(t)' /\ ResultFits(t)' /\ DepsFit(t)'
      BY <1>0, <2>1, <2>3, <2>0, Zenon DEF Local, StateFits, ResultFits, DepsFit, Early, Later, Over
    <3>2. RecordFits(t)'
      BY <1>0, <2>1, <2>3, <2>0, NothingReserved, Zenon DEF Local, RecordFits, Result
    <3>. QED
      BY <3>1, <3>2, Zenon DEF Local
  <2>5. Queue'
    BY <2>1, <2>3, QueueKept, Zenon
  <2>6. Uncounted(t)
    BY <1>0, <2>1, <2>3, Zenon
    DEF Uncounted, IsActive, IsQueued, IsCreated, HasEnded, DepsLeft, Sets
  <2>7. Tallies(t) /\ PoolsFit'
    BY <2>1, <2>3, <2>6, UncountedTallies, PoolsKept, Zenon DEF Sets
  <2>. QED
    BY <2>3, <2>4, <2>5, <2>7, OneTransfer, ZenonT(40)
<1>. QED
  BY <1>1, <1>2, <1>3, <1>4, <1>5, <1>6, <1>7, Zenon

\* reserve_staging() and queue_transfer().
LEMMA ReserveInv ==
  ASSUME IInv, NEW t \in Transfers, ReserveBuffer(t) \/ ReserveFails(t) \/ ReserveDone(t)
           \/ AnnounceQueued(t) \/ EnqueueRefused(t)
  PROVE  IInv' /\ Lawful
<1>0. Local(t)
  BY Zenon DEF IInv
<1>1. CASE ReserveBuffer(t)
  <2>1. PICK k \in PoolKind : k = PoolOfNext(t) /\ Len(rec[t].staging) + 1 <= Depth * Len(Staged[t])
    BY <1>0, <1>1, NextPool, Zenon DEF ReserveBuffer
  <2>2. /\ pc[t] = "reserve" /\ pc' = pc
        /\ canceller' = canceller /\ pending' = pending /\ tele' = tele
        /\ pools \in [PoolKind -> Pool] /\ ChunkSize[t] \in Sizes
    BY <1>1, RuntimeConstants, Zenon DEF ReserveBuffer, executor, IInv, PoolsFit
  <2>3. PICK b \in Buffer, p \in Pool :
          /\ pools' = [pools EXCEPT ![k] = p]
          /\ rec' = [rec EXCEPT ![t].staging = Append(@, [pool |-> k, buf |-> b])]
          /\ \A a \in Addresses : a # b.data => p.heap[a] = pools[k].heap[a]
          /\ \A x \in Buffer : x # b => p.free[x] = pools[k].free[x]
    <3>. DEFINE Grant(q, b) == /\ pools' = [pools EXCEPT ![k] = q]
                              /\ rec' = [rec EXCEPT ![t].staging = Append(@, [pool |-> k, buf |-> b])]
    <3>1. \/ \E b \in Reusable(pools[k], ChunkSize[t]) : Grant(Reuse(pools[k], b), b)
          \/ \E b \in Fresh(pools[k], ChunkSize[t]) : Grant(AddFresh(pools[k], b), b)
      BY <1>1, <2>1, Zenon DEF ReserveBuffer
    <3>2. CASE \E b \in Reusable(pools[k], ChunkSize[t]) : Grant(Reuse(pools[k], b), b)
      <4>1. PICK b \in Reusable(pools[k], ChunkSize[t]) : Grant(Reuse(pools[k], b), b)
        BY <3>2, Zenon
      <4>2. b \in Buffer /\ pools[k] \in Pool
        BY <2>2, Zenon DEF Reusable
      <4>3. PICK p : p = Reuse(pools[k], b)
        BY Zenon
      <4>4. /\ p \in Pool /\ p.heap = pools[k].heap
            /\ \A x \in Buffer : x # b => p.free[x] = pools[k].free[x]
        <5>1. /\ Reuse(pools[k], b) \in Pool /\ Reuse(pools[k], b).heap = pools[k].heap
              /\ \A x \in Buffer : x # b => Reuse(pools[k], b).free[x] = pools[k].free[x]
          BY <4>2, ReuseOthers, Zenon
        <5>. QED
          BY <4>3, <5>1, Zenon
      <4>. QED
        BY <4>1, <4>2, <4>3, <4>4, Zenon
    <3>3. CASE \E b \in Fresh(pools[k], ChunkSize[t]) : Grant(AddFresh(pools[k], b), b)
      <4>1. PICK b \in Fresh(pools[k], ChunkSize[t]) : Grant(AddFresh(pools[k], b), b)
        BY <3>3, Zenon
      <4>2. b \in Buffer /\ pools[k] \in Pool
        BY <2>2, ZenonT(40) DEF Fresh
      <4>3. PICK p : p = AddFresh(pools[k], b)
        BY Zenon
      <4>4. /\ p \in Pool /\ p.heap = [pools[k].heap EXCEPT ![b.data] = b.size]
            /\ p.free = pools[k].free
        BY <2>2, <4>2, <4>3, AddFreshFields, SMTT(30)
      <4>5. \A a \in Addresses : a # b.data => p.heap[a] = pools[k].heap[a]
        BY <4>2, <4>4, PoolFields, SMTT(30)
      <4>. QED
        BY <4>1, <4>2, <4>3, <4>4, <4>5, ZenonT(40)
    <3>. QED
      BY <3>1, <3>2, <3>3, Zenon
  <2>. DEFINE v == Append(rec[t].staging, [pool |-> k, buf |-> b])
  <2>4. /\ pc' = [pc EXCEPT ![t] = "reserve"] /\ "reserve" \in Label /\ "staging" \in Fields
        /\ rec' = [rec EXCEPT ![t] = [rec[t] EXCEPT !["staging"] = v]]
    BY <2>2, <2>3, Zenon DEF IInv, Shape, Label, Fields
  <2>5. v \in Seq(Entry) /\ Len(v) <= Depth * Len(Staged[t])
    <3>1. rec[t].staging \in Seq(Entry) /\ [pool |-> k, buf |-> b] \in Entry
      BY <1>0 DEF Local, RecordFits, Entry
    <3>2. v \in Seq(Entry) /\ Len(v) = Len(rec[t].staging) + 1
      BY <3>1
    <3>. QED
      BY <2>1, <3>2, ZenonT(40)
  <2>. HIDE DEF v
  <2>6. /\ Others(t) /\ pc'[t] = "reserve" /\ Sets(t, "staging", v)
        /\ canceller'[t] = canceller[t]
    BY <2>2, <2>4, Moved, Zenon
  <2>7. Local(t)'
    <3>1. StateFits(t)' /\ ResultFits(t)' /\ DepsFit(t)'
      BY <1>0, <2>2, <2>6, Zenon DEF Local, StateFits, ResultFits, DepsFit, Sets, Early, Later, Over
    <3>2. RecordFits(t)'
      BY <1>0, <2>2, <2>5, <2>6, Zenon DEF Local, RecordFits, Sets
    <3>. QED
      BY <3>1, <3>2, Zenon DEF Local
  <2>8. Steady(t)
    BY <2>6, Zenon DEF Sets, Steady
  <2>9. Queue'
    BY <2>2, <2>6, QueueKept, Zenon
  <2>10. Uncounted(t)
    BY <2>2, <2>6, Zenon
    DEF Uncounted, IsActive, IsQueued, IsCreated, HasEnded, DepsLeft, Sets
  <2>11. Tallies(t)
    BY <2>10, UncountedTallies, Zenon
  <2>12. PoolsFit'
    <3>1. rec'[t].staging = Append(rec[t].staging, [pool |-> k, buf |-> b])
      BY <2>6, Zenon DEF Sets, v
    <3>. QED
      BY <2>3, <2>6, <3>1, PoolsReserved, ZenonT(40)
  <2>. QED
    BY <2>6, <2>7, <2>8, <2>9, <2>11, <2>12, OneTransfer, ZenonT(40)
<1>2. CASE ReserveFails(t)
  <2>1. /\ pc[t] = "reserve" /\ pc' = [pc EXCEPT ![t] = "finalize"]
        /\ rec' = [rec EXCEPT ![t] = [[rec[t] EXCEPT !["staging"] = <<>>]
                                        EXCEPT !["result"] = "resource_exhausted"]]
        /\ canceller' = canceller /\ pending' = pending
        /\ tele' = tele /\ pools' = ReleaseAll(rec[t].staging)
    BY <1>2, Zenon DEF ReserveFails, Goto, executor, IInv, Shape
  <2>2. /\ Others(t) /\ pc'[t] = "finalize" /\ canceller'[t] = canceller[t]
        /\ rec'[t].staging = <<>> /\ rec'[t].result = "resource_exhausted"
        /\ \A g \in Fields \ {"staging", "result"} : rec'[t][g] = rec[t][g]
    <3>1. DOMAIN rec[t] = Fields
      BY Zenon DEF IInv, Shape
    <3>. DEFINE r == [[rec[t] EXCEPT !["staging"] = <<>>] EXCEPT !["result"] = "resource_exhausted"]
    <3>2. /\ DOMAIN r = Fields /\ r.staging = <<>> /\ r.result = "resource_exhausted"
          /\ \A g \in Fields \ {"staging", "result"} : r[g] = rec[t][g]
      BY <3>1, Zenon DEF Fields
    <3>a. r = [g \in Fields |-> r[g]]
      BY <3>1
    <3>. HIDE DEF r
    <3>3. rec' = [rec EXCEPT ![t] = r]
      BY <2>1, Zenon DEF r
    <3>4. Others(t) /\ pc'[t] = "finalize" /\ rec'[t] = r /\ canceller'[t] = canceller[t]
      BY <2>1, <3>2, <3>a, <3>3, Replaced, Zenon DEF Label
    <3>. QED
      BY <3>2, <3>4, Zenon
  <2>3. /\ rec'[t].state = rec[t].state /\ rec'[t].cancel = rec[t].cancel
        /\ rec'[t].started = rec[t].started
        /\ rec'[t].chunks_done = rec[t].chunks_done /\ rec'[t].deps_seen = rec[t].deps_seen
    BY <2>2, Zenon DEF Fields
  <2>4. Local(t)'
    <3>1. StateFits(t)' /\ ResultFits(t)' /\ DepsFit(t)'
      BY <1>0, <2>1, <2>2, <2>3, Zenon DEF Local, StateFits, ResultFits, DepsFit, Early, Later, Over
    <3>2. RecordFits(t)'
      BY <1>0, <2>1, <2>2, <2>3, NothingReserved, Zenon DEF Local, RecordFits, Result
    <3>. QED
      BY <3>1, <3>2, Zenon DEF Local
  <2>5. Steady(t)
    BY <2>3, Zenon DEF Steady
  <2>6. Queue'
    BY <2>1, <2>2, QueueKept, Zenon
  <2>7. Uncounted(t)
    BY <1>0, <2>1, <2>2, <2>3, Zenon
    DEF Uncounted, IsActive, IsQueued, IsCreated, HasEnded, DepsLeft, Sets
  <2>8. PoolsFit'
    BY <2>1, <2>2, PoolsReleased, Zenon
  <2>9. Tallies(t)
    BY <2>7, UncountedTallies, Zenon
  <2>. QED
    BY <2>2, <2>4, <2>5, <2>6, <2>8, <2>9, OneTransfer, Zenon
<1>3. CASE ReserveDone(t)
  <2>0. allowed(rec[t].state, "reserved")
    BY <1>0, <1>3 DEF ReserveDone, Local, StateFits, allowed, table
  <2>1. /\ pc[t] = "reserve" /\ pc' = [pc EXCEPT ![t] = "queue"]
        /\ rec' = [rec EXCEPT ![t] = [rec[t] EXCEPT !["state"] = "reserved"]]
        /\ canceller' = canceller /\ pending' = pending
        /\ tele' = tele /\ pools' = pools
    BY <1>3, <2>0, SetState, Zenon DEF ReserveDone, Goto, executor
  <2>2. "queue" \in Label /\ "state" \in Fields
    BY Zenon DEF Label, Fields
  <2>3. Others(t) /\ pc'[t] = "queue" /\ Sets(t, "state", "reserved") /\ canceller'[t] = canceller[t]
    BY <2>1, <2>2, Moved, ZenonT(40)
  <2>4. Local(t)'
    <3>1. StateFits(t)' /\ ResultFits(t)' /\ DepsFit(t)'
      BY <1>0, <2>1, <2>3, <2>0, SMTT(30)
         DEF Local, StateFits, ResultFits, DepsFit, Sets, Early, Later, Over
    <3>2. RecordFits(t)'
      BY <1>0, <2>1, <2>3, <2>0, Zenon DEF Local, RecordFits, Result, Sets
    <3>. QED
      BY <3>1, <3>2, Zenon DEF Local
  <2>5. Steady(t)
    BY <1>0, <2>1, <2>3, <2>0, Zenon DEF Sets, Steady, allowed, table, Local, StateFits
  <2>6. Queue'
    BY <2>1, <2>3, QueueKept, Zenon
  <2>7. Uncounted(t)
    BY <1>0, <2>1, <2>3, Zenon
    DEF Uncounted, IsActive, IsQueued, IsCreated, HasEnded, DepsLeft, Sets
  <2>8. Tallies(t) /\ PoolsFit'
    BY <2>1, <2>3, <2>7, UncountedTallies, PoolsKept, Zenon DEF Sets
  <2>. QED
    BY <2>3, <2>4, <2>5, <2>6, <2>8, OneTransfer, ZenonT(40)
<1>4. CASE AnnounceQueued(t)
  <2>0. allowed(rec[t].state, "queued")
    BY <1>0, <1>4 DEF AnnounceQueued, Local, StateFits, allowed, table
  <2>1. /\ pc[t] = "queue" /\ pc' = [pc EXCEPT ![t] = "submit"]
        /\ rec' = [rec EXCEPT ![t] = [rec[t] EXCEPT !["state"] = "queued"]]
        /\ canceller' = canceller /\ pending' = pending
        /\ tele' = [tele EXCEPT !.queue_depth = @ + 1] /\ pools' = pools
    BY <1>4, <2>0, SetState, Zenon DEF AnnounceQueued, Goto, executor
  <2>2. "submit" \in Label /\ "state" \in Fields
    BY Zenon DEF Label, Fields
  <2>3. Others(t) /\ pc'[t] = "submit" /\ Sets(t, "state", "queued") /\ canceller'[t] = canceller[t]
    BY <2>1, <2>2, Moved, ZenonT(40)
  <2>4. Local(t)'
    <3>1. StateFits(t)' /\ ResultFits(t)' /\ DepsFit(t)'
      BY <1>0, <2>1, <2>3, <2>0, SMTT(30)
         DEF Local, StateFits, ResultFits, DepsFit, Sets, Early, Later, Over
    <3>2. RecordFits(t)'
      BY <1>0, <2>1, <2>3, <2>0, Zenon DEF Local, RecordFits, Result, Sets
    <3>. QED
      BY <3>1, <3>2, Zenon DEF Local
  <2>5. Steady(t)
    BY <1>0, <2>1, <2>3, <2>0, Zenon DEF Sets, Steady, allowed, table, Local, StateFits
  <2>6. Queue'
    BY <2>1, <2>3, QueueKept, Zenon
  <2>7. Tallies(t)
    <3>1. /\ "queue_depth" \in TeleFields
          /\ tele' = [tele EXCEPT !["queue_depth"] = tele["queue_depth"] + 1]
      BY <2>1, Zenon DEF TeleFields
    <3>. QED
      BY <1>0, <2>1, <2>3, <3>1, CountedTallies, ZenonT(40)
      DEF IsActive, IsQueued, IsCreated, HasEnded, Sets, Shift
  <2>8. PoolsFit'
    BY <2>1, <2>3, PoolsKept, Zenon DEF Sets
  <2>. QED
    BY <2>3, <2>4, <2>5, <2>6, <2>7, <2>8, OneTransfer, ZenonT(40)
<1>5. CASE EnqueueRefused(t)
  <2>1. /\ pc[t] = "submit" /\ pc' = [pc EXCEPT ![t] = "finalize"]
        /\ rec' = [rec EXCEPT ![t] = [rec[t] EXCEPT !["result"] = "resource_exhausted"]]
        /\ canceller' = canceller /\ pending' = pending
        /\ tele' = [tele EXCEPT !.queue_depth = @ - 1] /\ pools' = pools
    BY <1>5, Zenon DEF EnqueueRefused, Goto, executor
  <2>2. "finalize" \in Label /\ "result" \in Fields
    BY Zenon DEF Label, Fields
  <2>3. Others(t) /\ pc'[t] = "finalize" /\ Sets(t, "result", "resource_exhausted") /\ canceller'[t] = canceller[t]
    BY <2>1, <2>2, Moved, ZenonT(40)
  <2>4. Local(t)'
    <3>1. StateFits(t)' /\ ResultFits(t)' /\ DepsFit(t)'
      BY <1>0, <2>1, <2>3, SMTT(30)
         DEF Local, StateFits, ResultFits, DepsFit, Sets, Early, Later, Over
    <3>2. RecordFits(t)'
      BY <1>0, <2>1, <2>3, Zenon DEF Local, RecordFits, Result, Sets
    <3>. QED
      BY <3>1, <3>2, Zenon DEF Local
  <2>5. Steady(t)
    BY <1>0, <2>1, <2>3, Zenon DEF Sets, Steady, Local
  <2>6. Queue'
    BY <2>1, <2>3, QueueKept, Zenon
  <2>7. Tallies(t)
    <3>1. /\ "queue_depth" \in TeleFields
          /\ tele' = [tele EXCEPT !["queue_depth"] = tele["queue_depth"] - 1]
      BY <2>1, Zenon DEF TeleFields
    <3>. QED
      BY <1>0, <2>1, <2>3, <3>1, CountedTallies, ZenonT(40)
      DEF IsActive, IsQueued, IsCreated, HasEnded, Sets, Shift
  <2>8. PoolsFit'
    BY <2>1, <2>3, PoolsKept, Zenon DEF Sets
  <2>. QED
    BY <2>3, <2>4, <2>5, <2>6, <2>7, <2>8, OneTransfer, ZenonT(40)
<1>. QED
  BY <1>1, <1>2, <1>3, <1>4, <1>5, Zenon

\* run_transfer() on a worker.
LEMMA DriverInv ==
  ASSUME IInv, NEW t \in Transfers, DriverStep(t)
  PROVE  IInv' /\ Lawful
<1>0. Local(t)
  BY Zenon DEF IInv
<1>1. CASE RunEmpty(t)
  <2>0. Chunks[t] = 0 /\ rec[t].chunks_done = 0
    BY <1>0, <1>1, RuntimeConstants, SMTT(30) DEF RunEmpty, Local, ResultFits
  <2>1. /\ pc[t] = "copy" /\ pc' = [pc EXCEPT ![t] = "finalize"]
        /\ rec' = rec /\ canceller' = canceller /\ pending' = pending
        /\ tele' = tele /\ pools' = pools
    BY <1>1, Zenon DEF RunEmpty, Goto, executor
  <2>2. "finalize" \in Label
    BY Zenon DEF Label
  <2>3. Others(t) /\ pc'[t] = "finalize" /\ Steady(t)
    BY <2>1, <2>2, Went, Zenon
  <2>4. Local(t)'
    BY <1>0, <2>1, <2>3, <2>0, Zenon
       DEF Local, StateFits, ResultFits, DepsFit, RecordFits, Result, Early, Later, Over
  <2>5. Queue'
    BY <2>1, <2>3, QueueKept, Zenon
  <2>6. Uncounted(t)
    BY <1>0, <2>1, <2>3, Zenon
    DEF Uncounted, IsActive, IsQueued, IsCreated, HasEnded, DepsLeft, Sets
  <2>7. Tallies(t) /\ PoolsFit'
    BY <2>1, <2>3, <2>6, UncountedTallies, PoolsKept, Zenon DEF Sets
  <2>. QED
    BY <2>3, <2>4, <2>5, <2>7, OneTransfer, ZenonT(40)
<1>2. CASE CopyChunk(t)
  <2>0. rec[t].chunks_done + 1 \in Nat /\ rec[t].chunks_done + 1 <= Chunks[t]
    BY <1>0, <1>2, RuntimeConstants, SMTT(30) DEF CopyChunk, Local, ResultFits
  <2>. DEFINE v == rec[t].chunks_done + 1
  <2>1. /\ pc[t] = "copy" /\ pc' = [pc EXCEPT ![t] = "copy"]
        /\ rec' = [rec EXCEPT ![t] = [rec[t] EXCEPT !["chunks_done"] = v]]
        /\ canceller' = canceller /\ pending' = pending
        /\ tele' = tele /\ pools' = pools
    BY <1>2, Zenon DEF CopyChunk, executor, IInv, Shape
  <2>. HIDE DEF v
  <2>2. "copy" \in Label /\ "chunks_done" \in Fields
    BY Zenon DEF Label, Fields
  <2>3. Others(t) /\ pc'[t] = "copy" /\ Sets(t, "chunks_done", v) /\ canceller'[t] = canceller[t]
    BY <2>1, <2>2, Moved, Zenon
  <2>4. Local(t)'
    <3>a. StateFits(t)'
      BY <1>0, <2>1, <2>3, <2>0, Zenon DEF Local, StateFits, ResultFits, Sets, Early, Later, Over, v
    <3>b. ResultFits(t)'
      BY <1>0, <2>1, <2>3, <2>0, ZenonT(40)
         DEF Local, StateFits, ResultFits, Sets, Early, Later, Over, v
    <3>c. DepsFit(t)'
      BY <1>0, <2>1, <2>3, <2>0, Zenon DEF Local, DepsFit, Sets, Early, Later, Over, v
    <3>2. RecordFits(t)'
      BY <1>0, <2>1, <2>3, <2>0, ZenonT(40) DEF Local, RecordFits, Result, Sets
    <3>. QED
      BY <3>a, <3>b, <3>c, <3>2, Zenon DEF Local
  <2>5. Steady(t)
    BY <1>0, <2>1, <2>3, <2>0, Zenon DEF Sets, Steady, Local, v
  <2>6. Queue'
    BY <2>1, <2>3, QueueKept, Zenon
  <2>7. Uncounted(t)
    BY <1>0, <2>1, <2>3, Zenon
    DEF Uncounted, IsActive, IsQueued, IsCreated, HasEnded, DepsLeft, Sets
  <2>8. Tallies(t) /\ PoolsFit'
    BY <2>1, <2>3, <2>7, UncountedTallies, PoolsKept, ZenonT(40) DEF Sets
  <2>. QED
    BY <2>3, <2>4, <2>5, <2>6, <2>8, OneTransfer, ZenonT(40)
<1>3. CASE CancelSeen(t)
  <2>0. rec[t].chunks_done < Chunks[t] /\ rec[t].cancel
    BY <1>3, Zenon DEF CancelSeen, StopCopy
  <2>1. /\ pc[t] = "copy" /\ pc' = [pc EXCEPT ![t] = "release"]
        /\ rec' = [rec EXCEPT ![t] = [rec[t] EXCEPT !["result"] = "cancellation"]]
        /\ canceller' = canceller /\ pending' = pending
        /\ tele' = tele /\ pools' = pools
    BY <1>3, Zenon DEF CancelSeen, StopCopy, Goto, executor
  <2>2. "release" \in Label /\ "result" \in Fields
    BY Zenon DEF Label, Fields
  <2>3. Others(t) /\ pc'[t] = "release" /\ Sets(t, "result", "cancellation") /\ canceller'[t] = canceller[t]
    BY <2>1, <2>2, Moved, Zenon
  <2>4. Local(t)'
    <3>1. StateFits(t)' /\ ResultFits(t)' /\ DepsFit(t)'
      BY <1>0, <2>1, <2>3, <2>0, SMTT(30)
         DEF Local, StateFits, ResultFits, DepsFit, Sets, Early, Later, Over
    <3>2. RecordFits(t)'
      BY <1>0, <2>1, <2>3, <2>0, Zenon DEF Local, RecordFits, Result, Sets
    <3>. QED
      BY <3>1, <3>2, ZenonT(40) DEF Local
  <2>5. Steady(t)
    BY <1>0, <2>1, <2>3, <2>0, Zenon DEF Sets, Steady, Local
  <2>6. Queue'
    BY <2>1, <2>3, QueueKept, Zenon
  <2>7. Uncounted(t)
    BY <1>0, <2>1, <2>3, Zenon
    DEF Uncounted, IsActive, IsQueued, IsCreated, HasEnded, DepsLeft, Sets
  <2>8. Tallies(t) /\ PoolsFit'
    BY <2>1, <2>3, <2>7, UncountedTallies, PoolsKept, Zenon DEF Sets
  <2>. QED
    BY <2>3, <2>4, <2>5, <2>6, <2>8, OneTransfer, ZenonT(40)
<1>4. CASE LegFails(t)
  <2>1. /\ pc[t] = "copy" /\ pc' = [pc EXCEPT ![t] = "release"]
        /\ rec' = [rec EXCEPT ![t] = [rec[t] EXCEPT !["result"] = "backend_failure"]]
        /\ canceller' = canceller /\ pending' = pending
        /\ tele' = tele /\ pools' = pools
    BY <1>4, Zenon DEF LegFails, StopCopy, Goto, executor
  <2>2. "release" \in Label /\ "result" \in Fields
    BY Zenon DEF Label, Fields
  <2>3. Others(t) /\ pc'[t] = "release" /\ Sets(t, "result", "backend_failure") /\ canceller'[t] = canceller[t]
    BY <2>1, <2>2, Moved, ZenonT(40)
  <2>4. Local(t)'
    <3>1. StateFits(t)' /\ ResultFits(t)' /\ DepsFit(t)'
      BY <1>0, <2>1, <2>3, SMTT(30)
         DEF Local, StateFits, ResultFits, DepsFit, Sets, Early, Later, Over
    <3>2. RecordFits(t)'
      BY <1>0, <2>1, <2>3, Zenon DEF Local, RecordFits, Result, Sets
    <3>. QED
      BY <3>1, <3>2, Zenon DEF Local
  <2>5. Steady(t)
    BY <1>0, <2>1, <2>3, Zenon DEF Sets, Steady, Local
  <2>6. Queue'
    BY <2>1, <2>3, QueueKept, Zenon
  <2>7. Uncounted(t)
    BY <1>0, <2>1, <2>3, Zenon
    DEF Uncounted, IsActive, IsQueued, IsCreated, HasEnded, DepsLeft, Sets
  <2>8. Tallies(t) /\ PoolsFit'
    BY <2>1, <2>3, <2>7, UncountedTallies, PoolsKept, ZenonT(40) DEF Sets
  <2>. QED
    BY <2>3, <2>4, <2>5, <2>6, <2>8, OneTransfer, ZenonT(40)
<1>5. CASE EndCopy(t)
  <2>0. rec[t].chunks_done = Chunks[t]
    BY <1>5, Zenon DEF EndCopy
  <2>1. /\ pc[t] = "copy" /\ pc' = [pc EXCEPT ![t] = "release"]
        /\ rec' = rec /\ canceller' = canceller /\ pending' = pending
        /\ tele' = tele /\ pools' = pools
    BY <1>5, Zenon DEF EndCopy, Goto, executor
  <2>2. "release" \in Label
    BY Zenon DEF Label
  <2>3. Others(t) /\ pc'[t] = "release" /\ Steady(t)
    BY <2>1, <2>2, Went, Zenon
  <2>4. Local(t)'
    BY <1>0, <2>1, <2>3, <2>0, ZenonT(40)
       DEF Local, StateFits, ResultFits, DepsFit, RecordFits, Result, Early, Later, Over
  <2>5. Queue'
    BY <2>1, <2>3, QueueKept, SMTT(30)
  <2>6. Uncounted(t)
    BY <1>0, <2>1, <2>3, Zenon
    DEF Uncounted, IsActive, IsQueued, IsCreated, HasEnded, DepsLeft, Sets
  <2>7. Tallies(t) /\ PoolsFit'
    BY <2>1, <2>3, <2>6, UncountedTallies, PoolsKept, ZenonT(40) DEF Sets
  <2>. QED
    BY <2>3, <2>4, <2>5, <2>7, OneTransfer, ZenonT(40)
<1>6. CASE SyncFails(t)
  <2>1. /\ pc[t] = "copy" /\ pc' = [pc EXCEPT ![t] = "release"]
        /\ rec' = [rec EXCEPT ![t] = [rec[t] EXCEPT !["result"] = "backend_failure"]]
        /\ canceller' = canceller /\ pending' = pending
        /\ tele' = tele /\ pools' = pools
    BY <1>6, ZenonT(40) DEF SyncFails, Goto, executor
  <2>2. "release" \in Label /\ "result" \in Fields
    BY Zenon DEF Label, Fields
  <2>3. Others(t) /\ pc'[t] = "release" /\ Sets(t, "result", "backend_failure") /\ canceller'[t] = canceller[t]
    BY <2>1, <2>2, Moved, Zenon
  <2>4. Local(t)'
    <3>1. StateFits(t)' /\ ResultFits(t)' /\ DepsFit(t)'
      BY <1>0, <2>1, <2>3 DEF Local, StateFits, ResultFits, DepsFit, Sets, Early, Later, Over
    <3>2. RecordFits(t)'
      BY <1>0, <2>1, <2>3, Zenon DEF Local, RecordFits, Result, Sets
    <3>. QED
      BY <3>1, <3>2, Zenon DEF Local
  <2>5. Steady(t)
    BY <1>0, <2>1, <2>3, Zenon DEF Sets, Steady, Local
  <2>6. Queue'
    BY <2>1, <2>3, QueueKept, Zenon
  <2>7. Uncounted(t)
    BY <1>0, <2>1, <2>3, Zenon
    DEF Uncounted, IsActive, IsQueued, IsCreated, HasEnded, DepsLeft, Sets
  <2>8. Tallies(t) /\ PoolsFit'
    BY <2>1, <2>3, <2>7, UncountedTallies, PoolsKept, Zenon DEF Sets
  <2>. QED
    BY <2>3, <2>4, <2>5, <2>6, <2>8, OneTransfer, Zenon
<1>7. CASE ReleaseRings(t) /\ rec[t].result = "ok"
  <2>0. rec[t].result = "ok"
    BY <1>7, Zenon
  <2>1. /\ pc[t] = "release" /\ pc' = [pc EXCEPT ![t] = "verify"]
        /\ rec' = rec /\ canceller' = canceller /\ pending' = pending
        /\ tele' = tele /\ pools' = ReleaseAll(rec[t].staging)
    BY <1>7, Zenon DEF ReleaseRings, Goto, executor
  <2>2. "verify" \in Label
    BY Zenon DEF Label
  <2>3. Others(t) /\ pc'[t] = "verify" /\ Steady(t)
    BY <2>1, <2>2, Went, Zenon
  <2>4. Local(t)'
    BY <1>0, <2>1, <2>3, <2>0, Zenon
       DEF Local, StateFits, ResultFits, DepsFit, RecordFits, Result, Early, Later, Over
  <2>5. Queue'
    BY <2>1, <2>3, QueueKept, SMTT(30)
  <2>6. Uncounted(t)
    BY <1>0, <2>1, <2>3, Zenon
    DEF Uncounted, IsActive, IsQueued, IsCreated, HasEnded, DepsLeft, Sets
  <2>7. PoolsFit'
    BY <2>1, <2>3, PoolsReleased, Zenon
  <2>8. Tallies(t)
    BY <2>6, UncountedTallies, Zenon
  <2>. QED
    BY <2>3, <2>4, <2>5, <2>7, <2>8, OneTransfer, ZenonT(40)
<1>8. CASE ReleaseRings(t) /\ rec[t].result # "ok"
  <2>0. rec[t].result # "ok"
    BY <1>8, Zenon
  <2>1. /\ pc[t] = "release" /\ pc' = [pc EXCEPT ![t] = "finalize"]
        /\ rec' = rec /\ canceller' = canceller /\ pending' = pending
        /\ tele' = tele /\ pools' = ReleaseAll(rec[t].staging)
    BY <1>8, Zenon DEF ReleaseRings, Goto, executor
  <2>2. "finalize" \in Label
    BY Zenon DEF Label
  <2>3. Others(t) /\ pc'[t] = "finalize" /\ Steady(t)
    BY <2>1, <2>2, Went, Zenon
  <2>4. Local(t)'
    BY <1>0, <2>1, <2>3, <2>0, Zenon
       DEF Local, StateFits, ResultFits, DepsFit, RecordFits, Result, Early, Later, Over
  <2>5. Queue'
    BY <2>1, <2>3, QueueKept, Zenon
  <2>6. Uncounted(t)
    BY <1>0, <2>1, <2>3, Zenon
    DEF Uncounted, IsActive, IsQueued, IsCreated, HasEnded, DepsLeft, Sets
  <2>7. PoolsFit'
    BY <2>1, <2>3, PoolsReleased, ZenonT(40)
  <2>8. Tallies(t)
    BY <2>6, UncountedTallies, Zenon
  <2>. QED
    BY <2>3, <2>4, <2>5, <2>7, <2>8, OneTransfer, ZenonT(40)
<1>9. CASE BeginVerify(t)
  <2>1. /\ pc[t] = "verify" /\ pc' = [pc EXCEPT ![t] = "hash"]
        /\ rec' = [rec EXCEPT ![t] = [rec[t] EXCEPT !["state"] = "verifying"]]
        /\ canceller' = canceller /\ pending' = pending
        /\ tele' = tele /\ pools' = pools
    BY <1>9, Zenon DEF BeginVerify, Goto, executor
  <2>2. "hash" \in Label /\ "state" \in Fields
    BY Zenon DEF Label, Fields
  <2>3. Others(t) /\ pc'[t] = "hash" /\ Sets(t, "state", "verifying") /\ canceller'[t] = canceller[t]
    BY <2>1, <2>2, Moved, ZenonT(40)
  <2>4. Local(t)'
    <3>1. StateFits(t)' /\ ResultFits(t)' /\ DepsFit(t)'
      BY <1>0, <2>1, <2>3, SMTT(30)
         DEF Local, StateFits, ResultFits, DepsFit, Sets, Early, Later, Over
    <3>2. RecordFits(t)'
      BY <1>0, <2>1, <2>3, ZenonT(40) DEF Local, RecordFits, Result, Sets
    <3>. QED
      BY <3>1, <3>2, Zenon DEF Local
  <2>5. Steady(t)
    BY <1>0, <2>1, <2>3, SMTT(30) DEF Sets, Steady, Local, allowed, table, StateFits
  <2>6. Queue'
    BY <2>1, <2>3, QueueKept, Zenon
  <2>7. Uncounted(t)
    BY <1>0, <2>1, <2>3, Zenon
    DEF Uncounted, IsActive, IsQueued, IsCreated, HasEnded, DepsLeft, Sets
  <2>8. Tallies(t) /\ PoolsFit'
    BY <2>1, <2>3, <2>7, UncountedTallies, PoolsKept, ZenonT(40) DEF Sets
  <2>. QED
    BY <2>3, <2>4, <2>5, <2>6, <2>8, OneTransfer, ZenonT(40)
<1>10. CASE EndVerify(t)
  <2>1. PICK r :
          /\ r \in {"ok", "integrity_failure", "backend_failure"}
          /\ pc[t] = "hash" /\ pc' = [pc EXCEPT ![t] = "finalize"]
          /\ rec' = [rec EXCEPT ![t].result = r]
          /\ canceller' = canceller /\ pending' = pending
          /\ tele' = tele /\ pools' = pools
    BY <1>10, Zenon DEF EndVerify, Goto, executor
  <2>2. rec' = [rec EXCEPT ![t] = [rec[t] EXCEPT !["result"] = r]]
    BY <2>1, Zenon
  <2>3. Others(t) /\ pc'[t] = "finalize" /\ Sets(t, "result", r) /\ canceller'[t] = canceller[t]
    BY <2>1, <2>2, Moved, ZenonT(40) DEF Label, Fields
  <2>4. Local(t)'
    <3>1. StateFits(t)' /\ ResultFits(t)' /\ DepsFit(t)'
      BY <1>0, <2>1, <2>3, Zenon DEF Local, StateFits, ResultFits, DepsFit, Sets, Early, Later, Over
    <3>2. RecordFits(t)'
      BY <1>0, <2>1, <2>3, ZenonT(40) DEF Local, RecordFits, Result, Sets
    <3>. QED
      BY <3>1, <3>2, Zenon DEF Local
  <2>5. Steady(t)
    BY <2>3, Zenon DEF Sets, Steady
  <2>6. Queue'
    BY <2>1, <2>3, QueueKept, Zenon
  <2>7. Uncounted(t)
    BY <1>0, <2>1, <2>3, Zenon
    DEF Uncounted, IsActive, IsQueued, IsCreated, HasEnded, DepsLeft, Sets
  <2>8. Tallies(t) /\ PoolsFit'
    BY <2>1, <2>3, <2>7, UncountedTallies, PoolsKept, Zenon DEF Sets
  <2>. QED
    BY <2>3, <2>4, <2>5, <2>6, <2>8, OneTransfer, ZenonT(40)
<1>. QED
  BY <1>1, <1>2, <1>3, <1>4, <1>5, <1>6, <1>7, <1>8, <1>9, <1>10, ZenonT(40) DEF DriverStep

\* finalize() and the return to the worker.
LEMMA FinalizeInv ==
  ASSUME IInv, NEW t \in Transfers, FinalizeStep(t)
  PROVE  IInv' /\ Lawful
<1>0. Local(t)
  BY Zenon DEF IInv
<1>1. CASE SetTerminal(t)
  <2>a. ~is_terminal(rec[t].state)
    BY <1>0, <1>1, Zenon DEF SetTerminal, Local, StateFits, is_terminal
  <2>0. /\ rec[t].result = "ok" => Terminal(rec[t].result) = "completed"
        /\ rec[t].result = "cancellation" => Terminal(rec[t].result) = "cancelled"
        /\ rec[t].result \notin {"ok", "cancellation"} => Terminal(rec[t].result) = "failed"
    BY Zenon DEF Terminal
  <2>. DEFINE v == Terminal(rec[t].result)
  <2>1. /\ pc[t] = "finalize" /\ pc' = [pc EXCEPT ![t] = "account"]
        /\ rec' = [rec EXCEPT ![t] = [rec[t] EXCEPT !["state"] = v]]
        /\ canceller' = canceller /\ pending' = pending
        /\ tele' = tele /\ pools' = pools
    BY <1>1, <2>a, SetTerminalState, Zenon DEF SetTerminal, Goto, executor
  <2>. HIDE DEF v
  <2>2. "account" \in Label /\ "state" \in Fields
    BY Zenon DEF Label, Fields
  <2>3. Others(t) /\ pc'[t] = "account" /\ Sets(t, "state", v) /\ canceller'[t] = canceller[t]
    BY <2>1, <2>2, Moved, ZenonT(40)
  <2>4. Local(t)'
    <3>a. StateFits(t)'
      BY <1>0, <2>1, <2>3, <2>0, Zenon DEF Local, StateFits, ResultFits, Sets, Early, Later, Over, v
    <3>b. ResultFits(t)'
      BY <1>0, <2>1, <2>3, <2>0, Zenon DEF Local, StateFits, ResultFits, Sets, Early, Later, Over, v
    <3>c. DepsFit(t)'
      BY <1>0, <2>1, <2>3, <2>0, Zenon DEF Local, DepsFit, Sets, Early, Later, Over, v
    <3>2. RecordFits(t)'
      BY <1>0, <2>1, <2>3, <2>0, ZenonT(40) DEF Local, RecordFits, Result, Sets, v
    <3>. QED
      BY <3>a, <3>b, <3>c, <3>2, Zenon DEF Local
  <2>5. Steady(t)
    BY <1>0, <2>1, <2>3, <2>0, SMTT(30)
       DEF Sets, Steady, Local, StateFits, ResultFits, allowed, table, v
  <2>6. Queue'
    BY <2>1, <2>3, QueueKept, Zenon
  <2>7. Uncounted(t)
    BY <1>0, <2>1, <2>3, Zenon
    DEF Uncounted, IsActive, IsQueued, IsCreated, HasEnded, DepsLeft, Sets
  <2>8. Tallies(t) /\ PoolsFit'
    BY <2>1, <2>3, <2>7, UncountedTallies, PoolsKept, Zenon DEF Sets
  <2>. QED
    BY <2>3, <2>4, <2>5, <2>6, <2>8, OneTransfer, ZenonT(40)
<1>2. CASE Account(t)
  <2>1. /\ pc[t] = "account" /\ pc' = [pc EXCEPT ![t] = "unstage"]
        /\ rec' = [rec EXCEPT ![t] = [rec[t] EXCEPT !["started"] = FALSE]]
        /\ canceller' = canceller /\ pending' = pending
        /\ pools' = pools
    BY <1>2, Zenon DEF Account, Goto, executor
  <2>2. "unstage" \in Label /\ "started" \in Fields
    BY Zenon DEF Label, Fields
  <2>3. Others(t) /\ pc'[t] = "unstage" /\ Sets(t, "started", FALSE) /\ canceller'[t] = canceller[t]
    BY <2>1, <2>2, Moved, ZenonT(40)
  <2>4. Local(t)'
    <3>1. StateFits(t)' /\ ResultFits(t)' /\ DepsFit(t)'
      BY <1>0, <2>1, <2>3, Zenon DEF Local, StateFits, ResultFits, DepsFit, Sets, Early, Later, Over
    <3>2. RecordFits(t)'
      BY <1>0, <2>1, <2>3, Zenon DEF Local, RecordFits, Result, Sets
    <3>. QED
      BY <3>1, <3>2, Zenon DEF Local
  <2>5. Steady(t)
    BY <1>0, <2>1, <2>3, Zenon DEF Sets, Steady, Local
  <2>6. Queue'
    BY <2>1, <2>3, QueueKept, Zenon
  <2>7. Tallies(t)
    <3>1. tele = [g \in TeleFields |-> tele[g]]
      BY Zenon DEF IInv, Counts
    <3>2. /\ rec[t].deps_seen = Len(Deps[t]) /\ rec[t].state = Terminal(rec[t].result)
          /\ rec[t].state \in {"completed", "cancelled", "failed"}
          /\ rec[t].started \in BOOLEAN
      BY <1>0, <2>1, ZenonT(40) DEF Local, DepsFit, RecordFits, StateFits, Later, Over
    <3>3. ~DepsLeft(t) /\ ~DepsLeft(t)'
      <4>1. Len(Deps[t]) \in Nat
        BY RuntimeConstants
      <4>. QED
        BY <2>3, <3>2, <4>1, SMTT(30) DEF DepsLeft, Sets
    <3>4. tele' = [tele EXCEPT !.active = IF rec[t].started THEN @ - 1 ELSE @,
                               !.completed = IF rec[t].state = "completed" THEN @ + 1 ELSE @,
                               !.cancelled = IF rec[t].state = "cancelled" THEN @ + 1 ELSE @,
                               !.failed = IF rec[t].state = "failed" THEN @ + 1 ELSE @]
      BY <1>2, <3>2, Zenon DEF Account
    <3>5. /\ tele' = [g \in TeleFields |-> tele'[g]]
          /\ tele'.active = IF rec[t].started THEN tele.active - 1 ELSE tele.active
          /\ tele'.queue_depth = tele.queue_depth /\ tele'.created = tele.created
          /\ \A o \in {"completed", "cancelled", "failed"} :
               tele'[o] = IF rec[t].state = o THEN tele[o] + 1 ELSE tele[o]
      BY <3>1, <3>4, Zenon DEF TeleFields
    <3>6. /\ IsActive(t) <=> rec[t].started
          /\ IsActive(t)' <=> FALSE
          /\ IsQueued(t)' <=> IsQueued(t)
          /\ IsCreated(t)' <=> IsCreated(t)
      BY <2>1, <2>3, Zenon DEF IsActive, IsQueued, IsCreated, Sets
    <3>7. \A o : /\ HasEnded(t, o) <=> FALSE
                 /\ HasEnded(t, o)' <=> rec[t].state = o
      BY <2>1, <2>3, <3>3, Zenon DEF HasEnded, Sets
    <3>. QED
      BY <3>2, <3>5, <3>6, <3>7, Zenon DEF Tallies, Shift
  <2>8. PoolsFit'
    BY <2>1, <2>3, PoolsKept, Zenon DEF Sets
  <2>. QED
    BY <2>3, <2>4, <2>5, <2>6, <2>7, <2>8, OneTransfer, ZenonT(40)
<1>3. CASE ReleaseStaging(t)
  <2>1. /\ pc[t] = "unstage" /\ pc' = [pc EXCEPT ![t] = "done"]
        /\ rec' = [rec EXCEPT ![t] = [rec[t] EXCEPT !["staging"] = <<>>]]
        /\ canceller' = canceller /\ pending' = pending
        /\ tele' = tele /\ pools' = ReleaseAll(rec[t].staging)
    BY <1>3, Zenon DEF ReleaseStaging, Goto, executor
  <2>2. "done" \in Label /\ "staging" \in Fields
    BY Zenon DEF Label, Fields
  <2>3. Others(t) /\ pc'[t] = "done" /\ Sets(t, "staging", <<>>) /\ canceller'[t] = canceller[t]
    BY <2>1, <2>2, Moved, ZenonT(40)
  <2>4. Local(t)'
    <3>1. StateFits(t)' /\ ResultFits(t)' /\ DepsFit(t)'
      BY <1>0, <2>1, <2>3, ZenonT(40)
         DEF Local, StateFits, ResultFits, DepsFit, Sets, Early, Later, Over
    <3>2. RecordFits(t)'
      BY <1>0, <2>1, <2>3, NothingReserved, Zenon DEF Local, RecordFits, Result, Sets
    <3>. QED
      BY <3>1, <3>2, Zenon DEF Local
  <2>5. Steady(t)
    BY <1>0, <2>1, <2>3, Zenon DEF Sets, Steady, Local
  <2>6. Queue'
    BY <2>1, <2>3, QueueKept, Zenon
  <2>7. Uncounted(t)
    BY <1>0, <2>1, <2>3, Zenon
    DEF Uncounted, IsActive, IsQueued, IsCreated, HasEnded, DepsLeft, Sets
  <2>8. PoolsFit'
    BY <2>1, <2>3, PoolsReleased, ZenonT(40) DEF Sets
  <2>9. Tallies(t)
    BY <2>7, UncountedTallies, Zenon
  <2>. QED
    BY <2>3, <2>4, <2>5, <2>6, <2>8, <2>9, OneTransfer, ZenonT(40)
<1>4. CASE Retire(t)
  <2>1. /\ pc' = pc /\ rec' = rec /\ canceller' = canceller /\ pending' = pending
        /\ tele' = tele /\ pools' = pools
    BY <1>4, Zenon DEF Retire, Executor!Finish
  <2>. QED
    BY <2>1, PoolsSame, Unmoved, Zenon
<1>. QED
  BY <1>1, <1>2, <1>3, <1>4, ZenonT(40) DEF FinalizeStep

\* The scheduler accepts the task: it is not in the list, its thread is still
\* in submit().
LEMMA EnqueueInv ==
  ASSUME IInv, NEW t \in Transfers, Enqueue(t)
  PROVE  IInv' /\ Lawful
<1>0. Local(t) /\ Queue
  BY Zenon DEF IInv
<1>1. /\ pc[t] = "submit" /\ pc' = [pc EXCEPT ![t] = "in_queue"]
      /\ rec' = rec /\ canceller' = canceller /\ pending' = Append(pending, t)
      /\ tele' = tele /\ pools' = pools
  BY Zenon DEF Enqueue, Goto, Executor!Accept
<1>2. "in_queue" \in Label
  BY Zenon DEF Label
<1>3. Others(t) /\ pc'[t] = "in_queue" /\ Steady(t)
  BY <1>1, <1>2, Went, Zenon
<1>4. Local(t)'
  BY <1>0, <1>1, <1>3, Zenon
     DEF Local, StateFits, ResultFits, DepsFit, RecordFits, Result, Early, Later, Over
<1>5. Queue'
  <2>1. /\ pending' \in Seq(Transfers) /\ Len(pending') = Len(pending) + 1
        /\ \A i \in 1 .. Len(pending) : pending'[i] = pending[i]
        /\ pending'[Len(pending) + 1] = t
    BY <1>0, <1>1 DEF Queue
  <2>2. ASSUME NEW i \in DOMAIN pending
        PROVE  pending[i] \in Transfers \ {t} /\ pc'[pending[i]] = "in_queue"
    <3>1. pending[i] \in Transfers /\ pc[pending[i]] = "in_queue"
      BY <1>0 DEF Queue
    <3>. QED
      BY <3>1, <1>1, <1>3, Zenon DEF Others
  <2>3. DOMAIN pending = 1 .. Len(pending) /\ DOMAIN pending' = 1 .. Len(pending) + 1
        /\ Len(pending) \in Nat
    BY <1>0, <2>1, SMTT(30) DEF Queue
  <2>4. ASSUME NEW i \in DOMAIN pending' PROVE pc'[pending'[i]] = "in_queue"
    BY <1>3, <2>1, <2>2, <2>3, SMTT(30)
  <2>5. ASSUME NEW i \in DOMAIN pending', NEW j \in DOMAIN pending', pending'[i] = pending'[j]
        PROVE  i = j
    <3>1. CASE i \in DOMAIN pending /\ j \in DOMAIN pending
      BY <3>1, <2>1, <2>3, <2>5, <1>0, ZenonT(40) DEF Queue
    <3>2. CASE i \notin DOMAIN pending \/ j \notin DOMAIN pending
      BY <3>2, <2>1, <2>2, <2>3, <2>5, SMTT(30)
    <3>. QED
      BY <3>1, <3>2, Zenon
  <2>. QED
    BY <2>1, <2>4, <2>5, Zenon DEF Queue
<1>6. Uncounted(t)
  BY <1>1, <1>3, Zenon
  DEF Uncounted, IsActive, IsQueued, IsCreated, HasEnded, DepsLeft
<1>7. Tallies(t) /\ PoolsFit'
  BY <1>1, <1>6, PoolsSame, UncountedTallies, Zenon
<1>. QED
  BY <1>3, <1>4, <1>5, <1>7, OneTransfer, Zenon

\* A worker takes a task: the list holds it no more.
LEMMA StartInv ==
  ASSUME IInv, NEW k \in DOMAIN pending, Start(k)
  PROVE  IInv' /\ Lawful
<1>0. Queue
  BY Zenon DEF IInv
<1>1. PICK t \in Transfers : t = pending[k] /\ pc[t] = "in_queue"
  BY <1>0 DEF Queue
<1>2. Local(t)
  BY <1>1, Zenon DEF IInv
<1>3. rec[t].state = "queued" /\ allowed(rec[t].state, "active")
  BY <1>1, <1>2 DEF Local, StateFits, allowed, table
<1>4. set_state(rec[t], "active") = [rec[t] EXCEPT !["state"] = "active"]
  BY <1>3, SetState, Zenon
<1>5. /\ pc' = [pc EXCEPT ![t] = "copy"]
      /\ rec' = [rec EXCEPT ![t] = [set_state(rec[t], "active") EXCEPT !["started"] = TRUE]]
      /\ canceller' = canceller /\ pools' = pools
      /\ tele' = [tele EXCEPT !.active = @ + 1, !.queue_depth = @ - 1]
  BY <1>1, Zenon DEF Start, Goto
<1>6. /\ Others(t) /\ pc'[t] = "copy" /\ canceller'[t] = canceller[t]
      /\ rec'[t].state = "active" /\ rec'[t].started = TRUE
      /\ \A g \in Fields \ {"state", "started"} : rec'[t][g] = rec[t][g]
  <2>. DEFINE r == [[rec[t] EXCEPT !["state"] = "active"] EXCEPT !["started"] = TRUE]
  <2>1. DOMAIN rec[t] = Fields
    BY <1>1, Zenon DEF IInv, Shape
  <2>2. /\ DOMAIN r = Fields /\ r.state = "active" /\ r.started = TRUE
        /\ \A g \in Fields \ {"state", "started"} : r[g] = rec[t][g]
    BY <2>1, Zenon DEF Fields
  <2>3. rec' = [rec EXCEPT ![t] = r] /\ r = [g \in Fields |-> r[g]]
    <3>1. r = [g \in Fields |-> r[g]]
      BY <2>1, Zenon
    <3>. QED
      BY <1>4, <1>5, <3>1, Zenon
  <2>. HIDE DEF r
  <2>4. "copy" \in Label
    BY Zenon DEF Label
  <2>5. Others(t) /\ pc'[t] = "copy" /\ rec'[t] = r /\ canceller'[t] = canceller[t]
    BY <1>5, <2>2, <2>3, <2>4, Replaced, ZenonT(40)
  <2>. QED
    BY <2>2, <2>5, Zenon
<1>7. /\ rec'[t].cancel = rec[t].cancel /\ rec'[t].staging = rec[t].staging
      /\ rec'[t].chunks_done = rec[t].chunks_done /\ rec'[t].deps_seen = rec[t].deps_seen
      /\ rec'[t].result = rec[t].result
  BY <1>6, Zenon DEF Fields
<1>8. rec[t].chunks_done = 0
  BY <1>1, <1>2, Zenon DEF Local, ResultFits
<1>a. 0 <= Chunks[t]
  BY RuntimeConstants
<1>9. Local(t)'
  BY <1>1, <1>2, <1>6, <1>7, <1>8, <1>a, ZenonT(40)
  DEF Local, StateFits, ResultFits, DepsFit, RecordFits, Result, Early, Later, Over
<1>10. Steady(t)
  BY <1>3, <1>6, <1>7, Zenon DEF Steady
<1>11. Queue'
  <2>1. /\ pending \in Seq(Transfers) /\ Len(pending) \in Nat /\ k \in 1 .. Len(pending)
        /\ DOMAIN pending = 1 .. Len(pending)
    BY <1>0 DEF Queue
  <2>. DEFINE a == SubSeq(pending, 1, k - 1)
              b == SubSeq(pending, k + 1, Len(pending))
  <2>2. /\ a \in Seq(Transfers) /\ Len(a) = k - 1
        /\ \A i \in 1 .. k - 1 : a[i] = pending[i]
    BY <2>1, SMTT(30)
  <2>3. /\ b \in Seq(Transfers) /\ Len(b) = Len(pending) - k
        /\ \A i \in 1 .. Len(pending) - k : b[i] = pending[k + i]
    BY <2>1, SMTT(30)
  <2>4. pending' = a \o b
    BY Zenon DEF Start, Executor!Start
  <2>. HIDE DEF a, b
  <2>5. /\ pending' \in Seq(Transfers) /\ Len(pending') = Len(pending) - 1
        /\ DOMAIN pending' = 1 .. Len(pending) - 1
    <3>1. a \in Seq(Transfers) /\ b \in Seq(Transfers)
      BY <2>2, <2>3, Zenon
    <3>2. pending' \in Seq(Transfers) /\ Len(pending') = Len(a) + Len(b)
      BY <2>4, <3>1, SMTT(30)
    <3>3. Len(pending') = Len(pending) - 1
      BY <2>1, <2>2, <2>3, <3>2, SMTT(30)
    <3>. QED
      BY <3>2, <3>3, SMTT(30)
  <2>a. ASSUME NEW i \in DOMAIN pending'
        PROVE  \E m \in DOMAIN pending :
                 /\ m # k /\ pending'[i] = pending[m]
                 /\ m = IF i < k THEN i ELSE i + 1
    <3>1. CASE i < k
      <4>1. i \in 1 .. Len(a) /\ i \in DOMAIN pending /\ i # k
        BY <3>1, <2>1, <2>2, <2>5, SMTT(30)
      <4>2. pending'[i] = a[i]
        BY <4>1, <2>2, <2>3, <2>4, SMTT(30)
      <4>. QED
        BY <3>1, <4>1, <4>2, <2>2, ZenonT(40)
    <3>2. CASE ~(i < k)
      <4>1. /\ i \in Len(a) + 1 .. Len(a) + Len(b) /\ i + 1 \in DOMAIN pending /\ i + 1 # k
            /\ i - Len(a) \in 1 .. Len(pending) - k /\ k + (i - Len(a)) = i + 1
        BY <3>2, <2>1, <2>2, <2>3, <2>5, SMTT(30)
      <4>a. a \in Seq(Transfers) /\ b \in Seq(Transfers)
        BY <2>2, <2>3, Zenon
      <4>2. pending'[i] = b[i - Len(a)]
        BY <4>1, <4>a, <2>4, SMTT(30)
      <4>3. pending'[i] = pending[i + 1]
        BY <4>1, <4>2, <2>3, Zenon
      <4>. QED
        BY <3>2, <4>1, <4>3, ZenonT(40)
    <3>. QED
      BY <3>1, <3>2, Zenon
  <2>6. ASSUME NEW i \in DOMAIN pending, i # k PROVE pc'[pending[i]] = "in_queue"
    <3>1. pending[i] \in Transfers /\ pc[pending[i]] = "in_queue" /\ pending[i] # t
      BY <1>0, <1>1, <2>6, SMTT(30) DEF Queue
    <3>. QED
      BY <3>1, <1>6, Zenon DEF Others
  <2>7. ASSUME NEW i \in DOMAIN pending' PROVE pc'[pending'[i]] = "in_queue"
    BY <2>a, <2>6, Zenon
  <2>8. ASSUME NEW i \in DOMAIN pending', NEW j \in DOMAIN pending', pending'[i] = pending'[j]
        PROVE  i = j
    <3>1. PICK m \in DOMAIN pending :
            pending'[i] = pending[m] /\ m = IF i < k THEN i ELSE i + 1
      BY <2>a, Zenon
    <3>2. PICK n \in DOMAIN pending :
            pending'[j] = pending[n] /\ n = IF j < k THEN j ELSE j + 1
      BY <2>a, Zenon
    <3>3. m = n
      BY <1>0, <2>8, <3>1, <3>2, ZenonT(40) DEF Queue
    <3>4. i \in Int /\ j \in Int /\ k \in Int
      BY <2>1, <2>5, SMTT(30)
    <3>. QED
      BY <3>1, <3>2, <3>3, <3>4, SMTT(30)
  <2>. QED
    BY <2>5, <2>7, <2>8, Zenon DEF Queue
<1>12. PoolsFit'
  BY <1>1, <1>5, <1>6, <1>7, PoolsKept, ZenonT(40)
<1>13. Tallies(t)
  <2>1. tele = [g \in TeleFields |-> tele[g]]
    BY Zenon DEF IInv, Counts
  <2>2. /\ tele' = [g \in TeleFields |-> tele'[g]]
        /\ tele'.active = tele.active + 1 /\ tele'.queue_depth = tele.queue_depth - 1
        /\ \A g \in TeleFields \ {"active", "queue_depth"} : tele'[g] = tele[g]
    BY <1>5, <2>1, Zenon DEF TeleFields
  <2>3. ~IsActive(t) /\ IsActive(t)'
    BY <1>1, <1>2, <1>6, Zenon DEF IsActive, Local, RecordFits
  <2>4. /\ IsQueued(t) /\ ~IsQueued(t)'
        /\ IsCreated(t) <=> IsCreated(t)'
        /\ \A o : HasEnded(t, o) <=> HasEnded(t, o)'
    BY <1>1, <1>6, Zenon DEF IsQueued, IsCreated, HasEnded
  <2>. QED
    BY <2>2, <2>3, <2>4, Zenon DEF Tallies, Shift, TeleFields
<1>. QED
  BY <1>1, <1>6, <1>9, <1>10, <1>11, <1>12, <1>13, OneTransfer, ZenonT(40)

\* cancel(), at whatever place the thread of the transfer is.
LEMMA CancelInv ==
  ASSUME IInv, NEW t \in Transfers, CancelTest(t) \/ CancelSet(t)
  PROVE  IInv' /\ Lawful
<1>0. /\ Local(t) /\ pc \in [Transfers -> Label]
      /\ DOMAIN rec = Transfers /\ rec = [s \in Transfers |-> rec[s]]
      /\ DOMAIN rec[t] = Fields /\ rec[t] = [f \in Fields |-> rec[t][f]]
      /\ DOMAIN canceller = Transfers
  BY Zenon DEF IInv, Shape
<1>1. CASE CancelTest(t)
  <2>1. /\ canceller[t] = "idle" /\ pc' = pc /\ rec' = rec /\ pending' = pending
        /\ DOMAIN canceller' = Transfers /\ tele' = tele /\ pools' = pools
        /\ \A s \in Transfers \ {t} : canceller'[s] = canceller[s]
    BY <1>0, <1>1, Zenon DEF CancelTest, executor
  <2>2. Others(t) /\ Steady(t)
    BY <1>0, <2>1, Zenon DEF Others, Steady
  <2>3. ~rec[t].cancel
    BY <1>0, <2>1, Zenon DEF Local, ResultFits
  <2>4. Local(t)'
    <3>1. StateFits(t)' /\ DepsFit(t)'
      BY <1>0, <2>1, Zenon DEF Local, StateFits, DepsFit
    <3>a. RecordFits(t)'
      BY <1>0, <2>1, Zenon DEF Local, RecordFits
    <3>2. ResultFits(t)'
      BY <1>0, <2>1, <2>3, Zenon DEF Local, ResultFits
    <3>. QED
      BY <3>1, <3>a, <3>2, Zenon DEF Local
  <2>5. Queue'
    BY <2>1, <2>2, QueueKept, Zenon
  <2>6. Uncounted(t)
    BY <2>1, Zenon DEF Uncounted, IsActive, IsQueued, IsCreated, HasEnded, DepsLeft
  <2>7. Tallies(t) /\ PoolsFit'
    BY <2>1, <2>6, PoolsSame, UncountedTallies, ZenonT(40)
  <2>. QED
    BY <2>2, <2>4, <2>5, <2>7, OneTransfer, ZenonT(40)
<1>2. CASE CancelSet(t)
  <2>1. /\ canceller' = [canceller EXCEPT ![t] = "accepted"] /\ pc' = pc
        /\ pending' = pending /\ rec' = [rec EXCEPT ![t].cancel = TRUE]
        /\ tele' = tele /\ pools' = pools
    BY <1>2, Zenon DEF CancelSet, executor
  <2>2. /\ DOMAIN canceller' = Transfers /\ canceller'[t] = "accepted"
        /\ \A s \in Transfers \ {t} : canceller'[s] = canceller[s]
    BY <1>0, <2>1, Zenon
  <2>3. /\ DOMAIN rec' = Transfers /\ \A s \in Transfers \ {t} : rec'[s] = rec[s]
        /\ rec'[t] = [rec[t] EXCEPT !.cancel = TRUE]
    BY <1>0, <2>1, Zenon
  <2>4. DOMAIN rec'[t] = Fields /\ Sets(t, "cancel", TRUE)
    BY <1>0, <2>3, Zenon DEF Fields, Sets
  <2>a. rec' = [s \in Transfers |-> rec'[s]] /\ rec'[t] = [f \in Fields |-> rec'[t][f]]
    BY <1>0, <2>1, <2>3, SMTT(30)
  <2>5. Others(t) /\ Steady(t)
    BY <1>0, <2>1, <2>2, <2>3, <2>4, <2>a, ZenonT(40) DEF Others, Steady, Sets
  <2>6. /\ rec'[t].cancel /\ rec'[t].cancel = TRUE /\ rec'[t].started = rec[t].started
        /\ rec'[t].state = rec[t].state /\ rec'[t].staging = rec[t].staging
        /\ rec'[t].chunks_done = rec[t].chunks_done /\ rec'[t].deps_seen = rec[t].deps_seen
        /\ rec'[t].result = rec[t].result
    BY <2>4, Zenon DEF Sets
  <2>7. Local(t)'
    <3>1. StateFits(t)'
      BY <1>0, <2>1, <2>6, ZenonT(40) DEF Local, StateFits
    <3>a. DepsFit(t)'
      BY <1>0, <2>1, <2>6, Zenon DEF Local, DepsFit
    <3>2. RecordFits(t)'
      BY <1>0, <2>1, <2>6, ZenonT(40) DEF Local, RecordFits
    <3>3. ResultFits(t)'
      BY <1>0, <2>1, <2>2, <2>6, SMTT(30) DEF Local, ResultFits
    <3>. QED
      BY <3>1, <3>a, <3>2, <3>3, ZenonT(40) DEF Local
  <2>8. Queue'
    BY <2>1, <2>5, QueueKept, Zenon
  <2>9. Uncounted(t)
    BY <2>1, <2>6, Zenon DEF Uncounted, IsActive, IsQueued, IsCreated, HasEnded, DepsLeft
  <2>10. Tallies(t) /\ PoolsFit'
    BY <2>1, <2>5, <2>6, <2>9, PoolsKept, UncountedTallies, ZenonT(40)
  <2>. QED
    BY <2>5, <2>7, <2>8, <2>10, OneTransfer, Zenon
<1>. QED
  BY <1>1, <1>2, Zenon

\* shutdown() and the end of all work touch no transfer.
LEMMA ShutdownInv ==
  ASSUME IInv, BeginShutdown \/ ShutdownStep \/ AllDown \/ UNCHANGED vars
  PROVE  IInv' /\ Lawful
<1>1. /\ pc' = pc /\ rec' = rec /\ canceller' = canceller /\ pending' = pending
      /\ tele' = tele
  BY Zenon DEF BeginShutdown, ShutdownStep, StopScheduler, SchedulerStopped, DrainPool,
     AllDown, vars, executor, Executor!Close, Executor!CloseReturns
<1>2. pools' = pools \/ \E k \in PoolKind : pools' = [pools EXCEPT ![k] = Drain(@)]
  BY Zenon DEF BeginShutdown, ShutdownStep, StopScheduler, SchedulerStopped, DrainPool,
     AllDown, vars, PoolKind
<1>3. PoolsFit'
  BY <1>1, <1>2, PoolsSame, PoolDrained, Zenon
<1>. QED
  BY <1>1, <1>3, Unmoved, Zenon
-----------------------------------------------------------------------------
(* The invariant and what follows from it.                                 *)

\* The inductive invariant holds at the start: no transfer has a record.
LEMMA InitInv == ASSUME Init PROVE IInv
<1>1. /\ pending = <<>> /\ DOMAIN rec = Transfers /\ DOMAIN canceller = Transfers
      /\ pc \in [Transfers -> Label] /\ rec = [t \in Transfers |-> rec[t]]
  BY Zenon DEF Init, Executor!Init, Label
<1>2. ASSUME NEW t \in Transfers
      PROVE  /\ pc[t] = "idle" /\ canceller[t] = "idle"
             /\ rec[t] = [state |-> "none", cancel |-> FALSE, started |-> FALSE,
                          staging |-> <<>>, chunks_done |-> 0, deps_seen |-> 0,
                          result |-> "ok"]
  BY Zenon DEF Init
<1>3. ASSUME NEW t \in Transfers
      PROVE  /\ DOMAIN rec[t] = Fields /\ rec[t] = [f \in Fields |-> rec[t][f]]
             /\ rec[t].state = "none" /\ rec[t].cancel = FALSE /\ rec[t].started = FALSE
             /\ rec[t].staging = <<>> /\ rec[t].chunks_done = 0 /\ rec[t].deps_seen = 0
             /\ rec[t].result = "ok"
  BY <1>2 DEF Fields
<1>4. Shape
  BY <1>1, <1>3, Zenon DEF Shape
<1>5. Queue
  BY <1>1 DEF Queue
<1>6. DepsDone
  <2>0. 1 .. 0 = {}
    OBVIOUS
  <2>1. ASSUME NEW t \in Transfers PROVE 1 .. rec[t].deps_seen = {}
    BY <1>3, <2>0, Zenon
  <2>. QED
    BY <2>1, Zenon DEF DepsDone
<1>7. ASSUME NEW t \in Transfers PROVE Local(t)
  <2>1. Len(Deps[t]) \in Nat
    BY RuntimeConstants
  <2>2. 0 \in 0 .. Len(Deps[t]) /\ 0 \in Nat
    BY <2>1
  <2>3. StateFits(t)
    BY <1>2, <1>3, Zenon DEF StateFits, Over
  <2>4. ResultFits(t)
    BY <1>2, <1>3, <2>2, Zenon DEF ResultFits, Over, Early
  <2>5. DepsFit(t)
    BY <1>2, <1>3, <2>2, Zenon DEF DepsFit, Early, Later
  <2>6. RecordFits(t)
    BY <1>2, <1>3, NothingReserved, Zenon DEF RecordFits, Result
  <2>. QED
    BY <2>3, <2>4, <2>5, <2>6, Zenon DEF Local
<1>8. Counts
  <2>1. /\ {t \in Transfers : IsActive(t)} = {}
        /\ {t \in Transfers : IsQueued(t)} = {}
        /\ {t \in Transfers : IsCreated(t)} = {}
        /\ \A o : {t \in Transfers : HasEnded(t, o)} = {}
    BY <1>2, <1>3, Zenon DEF IsActive, IsQueued, IsCreated, HasEnded
  <2>2. CountIs(0, {})
    BY FS_EmptySet, SMTT(30) DEF CountIs
  <2>3. /\ tele = [f \in TeleFields |-> tele[f]]
        /\ \A f \in TeleFields : tele[f] = 0
    BY DEF Init, TeleFields
  <2>. QED
    BY <2>1, <2>2, <2>3, Zenon DEF Counts, TeleFields
<1>9. PoolsFit
  <2>1. pools = [k \in PoolKind |-> EmptyPool]
    BY Zenon DEF Init
  <2>2. EmptyPool \in Pool /\ \A a \in Addresses : EmptyPool.heap[a] = 0
    BY EmptyFields
  <2>. QED
    BY <2>1, <2>2, Zenon DEF PoolsFit, StagingReachable
<1>. QED
  BY <1>4, <1>5, <1>6, <1>7, <1>8, <1>9, ZenonT(40) DEF IInv

\* Every step of every thread keeps the invariant and follows the table.
LEMMA StepInv == ASSUME IInv, [Next]_vars PROVE IInv' /\ Lawful
<1>1. ASSUME NEW t \in Transfers, Reject(t) \/ Admit(t) PROVE IInv' /\ Lawful
  BY <1>1, SubmitInv, Zenon
<1>2. ASSUME NEW t \in Transfers, SubmitStep(t) PROVE IInv' /\ Lawful
  BY <1>2, SubmitInv, ReserveInv, EnqueueInv, ZenonT(40) DEF SubmitStep
<1>3. ASSUME NEW t \in Transfers, DriverStep(t) \/ FinalizeStep(t) PROVE IInv' /\ Lawful
  BY <1>3, DriverInv, FinalizeInv, Zenon
<1>4. ASSUME NEW t \in Transfers, CancelTest(t) \/ CancelSet(t) PROVE IInv' /\ Lawful
  BY <1>4, CancelInv, Zenon
<1>5. ASSUME NEW i \in DOMAIN pending, Start(i) PROVE IInv' /\ Lawful
  BY <1>5, StartInv, Zenon
<1>6. ASSUME BeginShutdown \/ ShutdownStep \/ AllDown \/ UNCHANGED vars PROVE IInv' /\ Lawful
  BY <1>6, ShutdownInv, Zenon
<1>. QED
  BY <1>1, <1>2, <1>3, <1>4, <1>5, <1>6, ZenonT(40) DEF Next

\* The inductive invariant holds in every reachable state.
LEMMA Inductive == Spec => []IInv
<1>1. Init => IInv
  BY InitInv, Zenon
<1>2. IInv /\ [Next]_vars => IInv'
  BY StepInv, Zenon
<1>. QED
  BY <1>1, <1>2, PTL DEF Spec

\* A completed transfer moved every chunk; a cancelled one was asked to stop and
\* did before its last chunk, wherever cancel() fell between the turns of the
\* loop of run_transfer() and finalize().
THEOREM OutcomeHonestAlways == Spec => []OutcomeHonest
<1>1. IInv => OutcomeHonest
  BY Zenon DEF IInv, Local, ResultFits, OutcomeHonest
<1>. QED
  BY <1>1, Inductive, PTL

\* No transfer holds staging, is queued, runs or completes before all of its
\* dependencies have completed, whatever the dependencies are and however often
\* submit() is interrupted by shutdown() and cancel().
THEOREM DependenciesFirstAlways == Spec => []DependenciesFirst
<1>1. ASSUME IInv, NEW t \in Transfers,
             \/ rec[t].staging # <<>>
             \/ rec[t].state \in {"reserved", "queued", "active", "verifying", "completed"},
             NEW i \in DOMAIN Deps[t]
      PROVE  rec[Deps[t][i]].state = "completed"
  <2>1. Local(t) /\ DepsDone /\ pc[t] \in Label
    BY <1>1, Zenon DEF IInv, Shape
  <2>2. rec[t].deps_seen = Len(Deps[t])
    <3>1. StateFits(t) /\ DepsFit(t)
      BY <2>1, Zenon DEF Local
    <3>2. pc[t] \in Later \/ (pc[t] = "done" /\ rec[t].state # "failed")
      BY <2>1, <3>1, <1>1, Zenon DEF StateFits, DepsFit, Label, Early, Later, Over
    <3>. QED
      BY <3>1, <3>2, Zenon DEF DepsFit
  <2>3. i \in 1 .. rec[t].deps_seen
    BY <2>2, RuntimeConstants, SMTT(30)
  <2>. QED
    BY <2>1, <2>3, Zenon DEF DepsDone
<1>2. IInv => DependenciesFirst
  BY <1>1, Zenon DEF DependenciesFirst
<1>. QED
  BY <1>2, Inductive, PTL

\* When every transfer has a chunk, no thread takes a transfer along an edge the
\* table of status.cpp lacks, although set_terminal() and the executor assign
\* the state without asking it.
THEOREM LegalLifecycleAlways ==
  ASSUME \A t \in Transfers : Chunks[t] > 0
  PROVE  Spec => LegalLifecycle
<1>1. ASSUME IInv, [Next]_vars
      PROVE  [\A t \in Transfers : rec'[t].state # rec[t].state =>
                \/ rec[t].state = "none" /\ rec'[t].state = "created"
                \/ allowed(rec[t].state, rec'[t].state)]_vars
  <2>1. Lawful
    BY <1>1, StepInv, ZenonT(40)
  <2>. QED
    BY <2>1, Zenon DEF Lawful
<1>. QED
  BY <1>1, Inductive, PTL DEF Spec, LegalLifecycle
-----------------------------------------------------------------------------
(* The counters and the pools.                                             *)

\* Whenever no thread is at work on a transfer, the gauges are back at zero and
\* each outcome counter is the number of transfers that ended that way, however
\* refusals, failed reservations and cancellations were interleaved.
THEOREM CountersCloseAlways == Spec => []CountersClose
<1>1. ASSUME IInv, Settled PROVE CountersClose
  <2>1. \A t \in Transfers : /\ pc[t] \in {"idle", "rejected", "abandoned", "done"}
                             /\ StateFits(t) /\ DepsFit(t) /\ RecordFits(t)
    BY <1>1, Zenon DEF IInv, Local, Settled
  <2>2. /\ {t \in Transfers : IsActive(t)} = {}
        /\ {t \in Transfers : IsQueued(t)} = {}
    <3>1. \A t \in Transfers : ~rec[t].started
      BY <2>1, Zenon DEF RecordFits
    <3>2. \A t \in Transfers : pc[t] \notin {"submit", "in_queue"}
      BY <2>1, Zenon
    <3>. QED
      BY <3>1, <3>2, Zenon DEF IsActive, IsQueued
  <2>3. {t \in Transfers : IsCreated(t)} = {t \in Transfers : rec[t].state \in TransferState}
    <3>1. ASSUME NEW t \in Transfers PROVE IsCreated(t) <=> rec[t].state \in TransferState
      BY <2>1, <3>1, Zenon DEF IsCreated, StateFits, TransferState, Over
    <3>. QED
      BY <3>1, Zenon
  <2>4. ASSUME NEW o \in {"completed", "cancelled"}
        PROVE  {t \in Transfers : HasEnded(t, o)} = {t \in Transfers : rec[t].state \in {o}}
    <3>1. ASSUME NEW t \in Transfers PROVE HasEnded(t, o) <=> rec[t].state \in {o}
      <4>1. pc[t] = "done" /\ rec[t].state = o => rec[t].deps_seen = Len(Deps[t])
        BY <2>1, <2>4, Zenon DEF DepsFit
      <4>2. Len(Deps[t]) \in Nat
        BY RuntimeConstants
      <4>3. pc[t] = "done" /\ rec[t].state = o => ~DepsLeft(t)
        BY <4>1, <4>2 DEF DepsLeft
      <4>4. rec[t].state = o => pc[t] = "done"
        BY <2>1, <2>4, Zenon DEF StateFits
      <4>. QED
        BY <4>3, <4>4, Zenon DEF HasEnded
    <3>. QED
      BY <3>1, Zenon
  <2>5. {t \in Transfers : HasEnded(t, "failed")} =
        {t \in Transfers : rec[t].state = "failed" /\ ~DepsLeft(t)}
    <3>1. \A t \in Transfers : rec[t].state = "failed" => pc[t] = "done"
      BY <2>1, Zenon DEF StateFits
    <3>. QED
      BY <3>1, Zenon DEF HasEnded
  <2>6. Cardinality({}) = 0
    BY FS_EmptySet
  <2>7. Counts
    BY <1>1, Zenon DEF IInv
  <2>. QED
    BY <2>2, <2>3, <2>4, <2>5, <2>6, <2>7, ZenonT(40) DEF Counts, CountIs, CountersClose, InState
<1>2. IInv => CountersClose
  BY <1>1, Zenon DEF CountersClose
<1>. QED
  BY <1>2, Inductive, PTL

\* Nothing a pool has live is lost, also when a reservation fails half way, the
\* scheduler refuses the task, the buffers are released twice or the pools are
\* drained while a transfer still names some.
THEOREM StagingReachableAlways == Spec => []StagingReachable
<1>1. IInv => StagingReachable
  BY Zenon DEF IInv, PoolsFit
<1>. QED
  BY <1>1, Inductive, PTL

\* What the steps of each thread do to the pools, to cancel() and to shutdown().
LEMMA NextKeeps ==
  ASSUME [Next]_vars
  PROVE  /\ \/ canceller' = canceller
            \/ \E t \in Transfers : CancelTest(t) \/ CancelSet(t)
         /\ \/ shutdown' = shutdown /\ spc' = spc
            \/ shutdown' = TRUE /\ spc' = "stop_scheduler" /\ spc = "idle"
            \/ /\ shutdown' = shutdown
               /\ \/ spc' = "join" /\ spc = "stop_scheduler"
                  \/ spc' = "drain_host" /\ spc = "join"
                  \/ spc' \in {"drain_pinned", "down"}
         /\ \/ pools' = pools
            \/ \E t \in Transfers : pools' = ReleaseAll(rec[t].staging) \/ ReserveBuffer(t)
            \/ spc' \in {"drain_pinned", "down"}
<1>. DEFINE Calm == canceller' = canceller /\ shutdown' = shutdown /\ spc' = spc
<1>1. ASSUME NEW t \in Transfers, Reject(t) \/ Admit(t) PROVE Calm /\ pools' = pools
  BY <1>1, Zenon DEF Reject, Admit
<1>2. ASSUME NEW t \in Transfers, SubmitStep(t)
      PROVE  /\ Calm
             /\ pools' = pools \/ pools' = ReleaseAll(rec[t].staging) \/ ReserveBuffer(t)
  <2>1. CASE \/ Plan(t) \/ DependencyUnknown(t) \/ DependencyCompleted(t)
             \/ DependencyFailed(t) \/ DependenciesMet(t)
    BY <2>1, Zenon DEF Plan, DependencyUnknown, DependencyCompleted, DependencyFailed,
       DependenciesMet
  <2>2. CASE ReserveBuffer(t) \/ ReserveFails(t) \/ ReserveDone(t)
    BY <2>2, Zenon DEF ReserveBuffer, ReserveFails, ReserveDone
  <2>3. CASE AnnounceQueued(t) \/ Enqueue(t) \/ EnqueueRefused(t)
    BY <2>3, Zenon DEF AnnounceQueued, Enqueue, EnqueueRefused
  <2>. QED
    BY <1>2, <2>1, <2>2, <2>3, Zenon DEF SubmitStep
<1>3. ASSUME NEW t \in Transfers, DriverStep(t)
      PROVE  Calm /\ (pools' = pools \/ pools' = ReleaseAll(rec[t].staging))
  BY <1>3, Zenon DEF DriverStep, RunEmpty, CopyChunk, CancelSeen, LegFails, StopCopy,
     EndCopy, SyncFails, ReleaseRings, BeginVerify, EndVerify
<1>4. ASSUME NEW t \in Transfers, FinalizeStep(t)
      PROVE  Calm /\ (pools' = pools \/ pools' = ReleaseAll(rec[t].staging))
  BY <1>4, Zenon DEF FinalizeStep, SetTerminal, Account, ReleaseStaging, Retire
<1>5. ASSUME NEW t \in Transfers, CancelTest(t) \/ CancelSet(t)
      PROVE  shutdown' = shutdown /\ spc' = spc /\ pools' = pools
  BY <1>5, Zenon DEF CancelTest, CancelSet
<1>6. ASSUME NEW i \in DOMAIN pending, Start(i) PROVE Calm /\ pools' = pools
  BY <1>6, Zenon DEF Start
<1>7. ASSUME BeginShutdown
      PROVE  /\ canceller' = canceller /\ pools' = pools
             /\ shutdown' = TRUE /\ spc' = "stop_scheduler" /\ spc = "idle"
  BY <1>7, Zenon DEF BeginShutdown
<1>8. ASSUME ShutdownStep
      PROVE  /\ canceller' = canceller /\ shutdown' = shutdown
             /\ \/ spc' = "join" /\ spc = "stop_scheduler" /\ pools' = pools
                \/ spc' = "drain_host" /\ spc = "join" /\ pools' = pools
                \/ spc' \in {"drain_pinned", "down"}
  BY <1>8, Zenon DEF ShutdownStep, StopScheduler, SchedulerStopped, DrainPool
<1>9. ASSUME AllDown \/ UNCHANGED vars PROVE Calm /\ pools' = pools
  BY <1>9, Zenon DEF AllDown, vars
<1>. QED
  BY <1>1, <1>2, <1>3, <1>4, <1>5, <1>6, <1>7, <1>8, <1>9, ZenonT(40) DEF Next

Control ==
  /\ canceller \in [Transfers -> {"idle", "tested", "accepted", "refused"}]
  /\ shutdown \in BOOLEAN
  /\ spc \in {"idle", "stop_scheduler", "join", "drain_host", "drain_pinned", "down"}

\* The places of cancel() and shutdown() and the flag.
LEMMA ControlStep == ASSUME Control, [Next]_vars PROVE Control'
<1>. DEFINE C == {"idle", "tested", "accepted", "refused"}
            P == {"idle", "stop_scheduler", "join", "drain_host", "drain_pinned", "down"}
<1>1. canceller' \in [Transfers -> C]
  <2>1. \/ canceller' = canceller
        \/ \E t \in Transfers, c \in C : canceller' = [canceller EXCEPT ![t] = c]
    <3>1. ASSUME NEW t \in Transfers, CancelTest(t)
          PROVE  \E c \in C : canceller' = [canceller EXCEPT ![t] = c]
      BY <3>1, Zenon DEF CancelTest
    <3>2. ASSUME NEW t \in Transfers, CancelSet(t)
          PROVE  \E c \in C : canceller' = [canceller EXCEPT ![t] = c]
      BY <3>2, Zenon DEF CancelSet
    <3>. QED
      BY <3>1, <3>2, NextKeeps, Zenon
  <2>. QED
    BY <2>1, Zenon DEF Control
<1>2. shutdown' \in BOOLEAN /\ spc' \in P
  BY NextKeeps, Zenon DEF Control
<1>. QED
  BY <1>1, <1>2, Zenon DEF Control

\* Every variable has its type, for any number of transfers.
THEOREM TypeCorrect == Spec => []TypeOK
<1>1. Init => Control
  BY Zenon DEF Init, Control
<1>2. Control /\ [Next]_vars => Control'
  BY ControlStep, Zenon
<1>3. ASSUME IInv, Control PROVE TypeOK
  <2>1. rec \in [Transfers -> Record]
    <3>1. ASSUME NEW t \in Transfers PROVE rec[t] \in Record
      <4>1. Local(t) /\ rec[t] = [f \in Fields |-> rec[t][f]] /\ pc[t] \in Label
        BY <1>3, Zenon DEF IInv, Shape
      <4>2. rec[t].state \in TransferState \cup {"none"}
        BY <4>1, Zenon DEF Local, StateFits, Label, TransferState, Over
      <4>3. /\ rec[t].cancel \in BOOLEAN /\ rec[t].started \in BOOLEAN
            /\ rec[t].result \in Result
            /\ rec[t].staging \in Seq([pool : PoolKind, buf : Buffer])
            /\ rec[t].chunks_done \in Nat /\ rec[t].deps_seen \in 0 .. Len(Deps[t])
        BY <4>1, Zenon DEF Local, RecordFits, ResultFits, DepsFit, Entry
      <4>4. rec[t].deps_seen \in Nat
        BY <4>3, RuntimeConstants
      <4>5. PICK r : r = rec[t]
        BY Zenon
      <4>6. r = [state |-> r.state, cancel |-> r.cancel, started |-> r.started,
                 staging |-> r.staging, chunks_done |-> r.chunks_done,
                 deps_seen |-> r.deps_seen, result |-> r.result]
        BY <4>1, <4>5 DEF Fields
      <4>. QED
        BY <4>2, <4>3, <4>4, <4>5, <4>6, ZenonT(40) DEF Record
    <3>2. rec = [t \in Transfers |-> rec[t]]
      BY <1>3, Zenon DEF IInv, Shape
    <3>. QED
      BY <3>1, <3>2, Zenon
  <2>2. tele \in [TeleFields -> Nat]
    <3>1. /\ tele = [f \in TeleFields |-> tele[f]]
          /\ tele.active \in Nat /\ tele.queue_depth \in Nat /\ tele.created \in Nat
          /\ tele.completed \in Nat /\ tele.cancelled \in Nat /\ tele.failed \in Nat
      <4>1. \A n, S : CountIs(n, S) => n \in Nat
        BY FS_CardinalityType DEF CountIs
      <4>. QED
        BY <1>3, <4>1, Zenon DEF IInv, Counts
    <3>2. \A f \in TeleFields : tele[f] \in Nat
      BY <3>1, Zenon DEF TeleFields
    <3>. QED
      BY <3>1, <3>2, Zenon
  <2>. QED
    BY <1>3, <2>1, <2>2, Zenon DEF TypeOK, IInv, Shape, PoolsFit, Control, TeleFields
<1>. QED
  BY <1>1, <1>2, <1>3, Inductive, PTL DEF Spec

\* A new buffer is within the capacity and counted, when the sum that is tested
\* does not wrap.
LEMMA FreshBounded ==
  ASSUME CountersFit, NEW k \in PoolKind, NEW t \in Transfers, NEW p \in Pool,
         HasRoom(p, Capacity[k], ChunkSize[t]), NEW b \in Fresh(p, ChunkSize[t]),
         BytesAt(p.heap, Addresses) = p.allocated, BytesAt(p.heap, Addresses) <= Capacity[k]
  PROVE  /\ BytesAt(AddFresh(p, b).heap, Addresses) = AddFresh(p, b).allocated
         /\ BytesAt(AddFresh(p, b).heap, Addresses) <= Capacity[k]
<1>1. PICK n \in Sizes : n = ChunkSize[t]
  BY RuntimeConstants, SMTT(30)
<1>2. /\ n \in Nat /\ p.allocated \in Nat /\ Capacity[k] \in Nat /\ ByteWrap \in Nat \ {0}
      /\ Capacity[k] + n < ByteWrap
  BY <1>1, RuntimeConstants, StagingConstants, SizeRange, PoolFields, SMTT(30) DEF CountersFit
<1>3. (p.allocated + n) % ByteWrap = p.allocated + n
  BY <1>2
<1>4. b \in Fresh(p, n) /\ p.allocated + n <= Capacity[k]
  BY <1>1, <1>3, Zenon DEF HasRoom
<1>5. /\ BytesAt(AddFresh(p, b).heap, Addresses) = n + BytesAt(p.heap, Addresses)
      /\ AddFresh(p, b).allocated = (p.allocated + n) % ByteWrap
  BY <1>4, AddFreshBytes, AddFreshFields, Zenon
<1>. QED
  BY <1>2, <1>3, <1>4, <1>5, SMTT(30)

Drained == {"drain_pinned", "down"}

\* Whatever the step, the pools stay exact until they are drained.
LEMMA BoundedStep ==
  ASSUME CountersFit, IInv, BoundedStaging, [Next]_vars
  PROVE  BoundedStaging'
<1>. SUFFICES ASSUME spc' \notin Drained, NEW k \in PoolKind
              PROVE  LiveBytes(k)' = pools'[k].allocated /\ LiveBytes(k)' <= Capacity[k]
  BY Zenon DEF BoundedStaging, Drained
<1>1. /\ pools \in [PoolKind -> Pool]
      /\ \A j \in PoolKind : LiveBytes(j) = pools[j].allocated /\ LiveBytes(j) <= Capacity[j]
  <2>1. spc \notin Drained
    BY NextKeeps, Zenon DEF Drained
  <2>. QED
    BY <2>1, Zenon DEF IInv, PoolsFit, BoundedStaging, Drained
<1>2. CASE pools' = pools
  BY <1>1, <1>2, Zenon DEF LiveBytes
<1>3. ASSUME NEW t \in Transfers, pools' = ReleaseAll(rec[t].staging)
      PROVE  LiveBytes(k)' = pools'[k].allocated /\ LiveBytes(k)' <= Capacity[k]
  <2>1. pools'[k].heap = pools[k].heap /\ pools'[k].allocated = pools[k].allocated
    BY <1>3, NamedGivenBack, Zenon DEF GivesBack
  <2>. QED
    BY <1>1, <2>1, Zenon DEF LiveBytes
<1>4. ASSUME NEW t \in Transfers, ReserveBuffer(t)
      PROVE  LiveBytes(k)' = pools'[k].allocated /\ LiveBytes(k)' <= Capacity[k]
  <2>1. PICK j \in PoolKind : j = PoolOfNext(t)
    <3>1. Local(t) /\ pc[t] = "reserve" /\ ~Reserved(t)
      BY <1>4, Zenon DEF IInv, ReserveBuffer
    <3>. QED
      BY <3>1, NextPool, Zenon
  <2>2. PICK p : /\ pools' = [pools EXCEPT ![j] = p]
                 /\ \/ \E b \in Reusable(pools[j], ChunkSize[t]) : p = Reuse(pools[j], b)
                    \/ /\ HasRoom(pools[j], Capacity[j], ChunkSize[t])
                       /\ \E b \in Fresh(pools[j], ChunkSize[t]) : p = AddFresh(pools[j], b)
    BY <1>4, <2>1, Zenon DEF ReserveBuffer
  <2>3. pools[j] \in Pool
    BY <1>1, Zenon
  <2>4. BytesAt(p.heap, Addresses) = p.allocated /\ BytesAt(p.heap, Addresses) <= Capacity[j]
    <3>1. CASE \E b \in Reusable(pools[j], ChunkSize[t]) : p = Reuse(pools[j], b)
      <4>1. PICK b \in Reusable(pools[j], ChunkSize[t]) : p = Reuse(pools[j], b)
        BY <3>1, Zenon
      <4>2. /\ Reuse(pools[j], b).heap = pools[j].heap
            /\ Reuse(pools[j], b).allocated = pools[j].allocated
        BY <2>3, ReuseOthers, Zenon
      <4>. QED
        BY <1>1, <4>1, <4>2, Zenon DEF LiveBytes
    <3>2. CASE /\ HasRoom(pools[j], Capacity[j], ChunkSize[t])
               /\ \E b \in Fresh(pools[j], ChunkSize[t]) : p = AddFresh(pools[j], b)
      <4>1. PICK b \in Fresh(pools[j], ChunkSize[t]) : p = AddFresh(pools[j], b)
        BY <3>2, Zenon
      <4>2. /\ BytesAt(AddFresh(pools[j], b).heap, Addresses) = AddFresh(pools[j], b).allocated
            /\ BytesAt(AddFresh(pools[j], b).heap, Addresses) <= Capacity[j]
        BY <1>1, <2>3, <3>2, FreshBounded, ZenonT(40) DEF LiveBytes
      <4>. QED
        BY <4>1, <4>2, Zenon
    <3>. QED
      BY <2>2, <3>1, <3>2, Zenon
  <2>5. pools'[j] = p /\ (k # j => pools'[k] = pools[k])
    BY <1>1, <2>2, Zenon
  <2>. QED
    BY <1>1, <2>4, <2>5, Zenon DEF LiveBytes
<1>. QED
  BY <1>2, <1>3, <1>4, NextKeeps, Zenon DEF Drained

\* Until shutdown() drains the pools, allocated_bytes_ is what the allocator has
\* live and stays within the capacity, whatever transfers reserve and release at
\* the same time, and although each buffer is released twice.
THEOREM BoundedStagingAlways == CountersFit => (Spec => []BoundedStaging)
<1>. SUFFICES ASSUME CountersFit PROVE Spec => []BoundedStaging
  OBVIOUS
<1>1. Init => BoundedStaging
  <2>1. ASSUME Init, NEW k \in PoolKind
        PROVE  LiveBytes(k) = pools[k].allocated /\ LiveBytes(k) <= Capacity[k]
    <3>1. pools[k] = EmptyPool
      BY <2>1, Zenon DEF Init
    <3>2. BytesAt(EmptyPool.heap, Addresses) = 0 /\ EmptyPool.allocated = 0
      BY EmptyFields, BytesZero, StagingConstants, SMTT(30)
    <3>3. 0 <= Capacity[k]
      BY RuntimeConstants, StagingConstants
    <3>. QED
      BY <3>1, <3>2, <3>3, Zenon DEF LiveBytes
  <2>. QED
    BY <2>1, Zenon DEF BoundedStaging
<1>2. IInv /\ BoundedStaging /\ [Next]_vars => BoundedStaging'
  BY BoundedStep, Zenon
<1>. QED
  BY <1>1, <1>2, Inductive, PTL DEF Spec
=============================================================================
