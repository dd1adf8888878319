--------------------------- MODULE SchedulerProofs --------------------------
(***************************************************************************)
(* Proofs about module Scheduler for every set of tasks, workers and       *)
(* callers, every bound and every number of bands.                         *)
(***************************************************************************)
EXTENDS Scheduler, FiniteSetTheorems, SequenceTheorems, WellFoundedInduction, TLAPS

\* A band holds exactly the queued tasks of that band, each of them once.
BandsHoldQueued ==
  /\ \A b \in Bands : \A i \in 1 .. Len(queues[b]) :
       task[queues[b][i]] = "queued" /\ Band(queues[b][i]) = b
  /\ \A b \in Bands : \A i, j \in 1 .. Len(queues[b]) :
       queues[b][i] = queues[b][j] => i = j
  /\ \A t \in Queued : \E i \in 1 .. Len(queues[Band(t)]) : queues[Band(t)][i] = t

\* The counter is the number of queued tasks and within the bound.
DepthExact ==
  /\ queue_depth = Cardinality(Queued)
  /\ queue_depth <= max_queued

\* No task waits above max_band.
TopCovers == \A b \in Bands : queues[b] # <<>> => b <= max_band

\* A worker in a task body holds a running task, no two the same one, and
\* every running task is held.
WorkersHoldRunning ==
  /\ \A w \in Workers : wpc[w] = "running" =>
       holds[w] \in Tasks /\ task[holds[w]] = "running"
  /\ \A w, v \in Workers :
       wpc[w] = "running" /\ wpc[v] = "running" /\ holds[w] = holds[v] => w = v
  /\ \A t \in Tasks : task[t] = "running" =>
       \E w \in Workers : wpc[w] = "running" /\ holds[w] = t

\* A worker leaves only a closed and empty scheduler; only shutdown() closes
\* it, and the joining call returns after the last worker.
ExitOrder ==
  /\ \A w \in Workers : wpc[w] = "exited" => shutting_down /\ queue_depth = 0
  /\ \A c \in Callers : caller[c] # "idle" => shutting_down
  /\ \A c \in Callers : caller[c] = "joined" => \A w \in Workers : wpc[w] = "exited"

\* The history lists the queued tasks once each, and those of one band in the
\* order of the band.
OrderFits ==
  /\ Len(order) = queue_depth
  /\ \A i \in 1 .. Len(order) : task[order[i]] = "queued"
  /\ \A i, j \in 1 .. Len(order) : order[i] = order[j] => i = j
  /\ \A t \in Queued : \E i \in 1 .. Len(order) : order[i] = t
  /\ \A b \in Bands : \A k, l \in 1 .. Len(queues[b]) : \A i, j \in 1 .. Len(order) :
       order[i] = queues[b][k] /\ order[j] = queues[b][l] /\ k < l => i < j

\* The inductive invariant.
IInv ==
  /\ TypeOK
  /\ BandsHoldQueued
  /\ DepthExact
  /\ TopCovers
  /\ WorkersHoldRunning
  /\ ExitOrder
  /\ OrderFits
-----------------------------------------------------------------------------
\* submit() clamps every priority to a band.
LEMMA BandType == \A t \in Tasks : Band(t) \in Bands
  BY SchedulerConstants DEF Band, Bands

\* s without its entry at position i.
Cut(s, i) == SubSeq(s, 1, i - 1) \o SubSeq(s, i + 1, Len(s))

\* Taking an entry out of a list moves the later ones up.
LEMMA Removed ==
  ASSUME NEW S, NEW s \in Seq(S), NEW i \in 1 .. Len(s)
  PROVE  /\ Cut(s, i) \in Seq(S) /\ Len(Cut(s, i)) = Len(s) - 1
         /\ \A j \in 1 .. Len(s) - 1 : Cut(s, i)[j] = IF j < i THEN s[j] ELSE s[j + 1]
  <1> DEFINE r == Cut(s, i)
  <1>1. PICK n \in Nat : n = Len(s)
    OBVIOUS
  <1>2. i \in Nat /\ 1 <= i /\ i <= n
    BY <1>1
  <1>3. PICK a : a = SubSeq(s, 1, i - 1)
    BY Zenon
  <1>4. PICK b : b = SubSeq(s, i + 1, n)
    BY Zenon
  <1>5. a \in Seq(S) /\ Len(a) = i - 1 /\ \A j \in 1 .. i - 1 : a[j] = s[j]
    BY <1>1, <1>2, <1>3
  <1>6. b \in Seq(S) /\ Len(b) = n - i /\ \A j \in 1 .. n - i : b[j] = s[i + j]
    BY <1>1, <1>2, <1>4
  <1>7. r = a \o b
    BY <1>1, <1>3, <1>4, Zenon DEF Cut
  <1> HIDE DEF r
  <1>8. /\ a \o b \in Seq(S) /\ Len(a \o b) = Len(a) + Len(b)
        /\ \A j \in 1 .. Len(a) + Len(b) :
             (a \o b)[j] = IF j <= Len(a) THEN a[j] ELSE b[j - Len(a)]
    BY <1>5, <1>6, ConcatProperties, Zenon
  <1>9. (i - 1) + (n - i) = n - 1
    BY <1>2
  <1>10. /\ r \in Seq(S) /\ Len(r) = n - 1
         /\ \A j \in 1 .. n - 1 : r[j] = IF j <= i - 1 THEN a[j] ELSE b[j - (i - 1)]
    BY <1>5, <1>6, <1>7, <1>8, <1>9, Zenon
  <1>11. ASSUME NEW j \in 1 .. n - 1 PROVE r[j] = IF j < i THEN s[j] ELSE s[j + 1]
    <2>1. r[j] = IF j <= i - 1 THEN a[j] ELSE b[j - (i - 1)]
      BY <1>10, Zenon
    <2>2. CASE j < i
      <3>1. j <= i - 1 /\ j \in 1 .. i - 1
        BY <1>2, <2>2
      <3> QED BY <1>5, <2>1, <2>2, <3>1, Zenon
    <2>3. CASE ~(j < i)
      <3>1. /\ ~(j <= i - 1)
            /\ j - (i - 1) \in 1 .. n - i /\ i + (j - (i - 1)) = j + 1
        BY <1>2, <2>3
      <3>2. b[j - (i - 1)] = s[i + (j - (i - 1))]
        BY <1>6, <3>1, Zenon
      <3> QED BY <2>1, <2>3, <3>1, <3>2, Zenon
    <2> QED BY <2>2, <2>3, Zenon
  <1> QED BY <1>1, <1>10, <1>11, Zenon DEF r

\* The queued tasks can be counted.
LEMMA QueuedFinite == IsFiniteSet(Queued) /\ Cardinality(Queued) \in Nat
  <1>1. Queued \in SUBSET Tasks
    BY DEF Queued
  <1>2. IsFiniteSet(Queued)
    BY <1>1, FS_Subset, SchedulerConstants
  <1> QED
    BY <1>2, FS_CardinalityType

\* pop() succeeds whenever the depth is positive: among the non-empty bands
\* there is a highest one and max_band does not exclude it.
LEMMA TopExists ==
  ASSUME IInv, queue_depth > 0
  PROVE  \E b \in Bands : IsTop(b)
  <1> DEFINE Busy == {b \in Bands : queues[b] # <<>>}
             Gaps == {kPriorityBands - b : b \in Busy}
  <1>1. Queued # {}
    BY FS_EmptySet DEF IInv, DepthExact
  <1>2. PICK t \in Queued : TRUE
    BY <1>1
  <1>3. t \in Tasks /\ Band(t) \in Bands
    BY <1>2, BandType DEF Queued
  <1>4. queues[Band(t)] # <<>>
    BY <1>2, <1>3 DEF IInv, BandsHoldQueued, TypeOK
  <1>5. Gaps \subseteq Nat /\ Gaps # {}
    BY <1>3, <1>4, SchedulerConstants DEF Bands
  <1>6. PICK g \in Gaps : \A h \in Gaps : ~ (<<h, g>> \in OpToRel(<, Nat))
    <2> HIDE DEF Gaps
    <2> QED BY <1>5, NatLessThanWellFounded, WFMin, Zenon
  <1>7. \A h \in Gaps : g <= h
    <2> TAKE h \in Gaps
    <2>1. h \in Nat /\ g \in Nat
      BY <1>5
    <2>2. ~ (h < g)
      BY <1>6, <2>1, Zenon DEF OpToRel
    <2> QED BY <2>1, <2>2
  <1>8. PICK b \in Busy : g = kPriorityBands - b
    OBVIOUS
  <1>9. \A c \in Busy : c <= b
    <2> TAKE c \in Busy
    <2>1. kPriorityBands - c \in Gaps
      OBVIOUS
    <2>2. kPriorityBands - b <= kPriorityBands - c
      BY <1>7, <1>8, <2>1
    <2>3. kPriorityBands \in Int /\ b \in Int /\ c \in Int
      BY SchedulerConstants DEF Bands
    <2> HIDE DEF Busy, Gaps
    <2> QED BY <2>2, <2>3
  <1>10. IsTop(b)
    BY <1>8, <1>9, SchedulerConstants DEF IsTop, IInv, TopCovers, Bands
  <1> QED BY <1>8, <1>10

\* The scheduler after start() satisfies the inductive invariant.
LEMMA InitInv == Init => IInv
  <1> SUFFICES ASSUME Init PROVE IInv
    OBVIOUS
  <1> USE DEF Init
  <1>1. TypeOK
    <2>1. <<>> \in Seq(Tasks)
      OBVIOUS
    <2>2. queues \in [Bands -> Seq(Tasks)]
      BY <2>1
    <2> QED BY <2>1, <2>2, Zenon DEF TypeOK
  <1>2. Queued = {}
    BY DEF Queued
  <1>3. DepthExact
    BY <1>2, FS_EmptySet, SchedulerConstants DEF DepthExact, max_queued
  <1>4. BandsHoldQueued
    BY <1>2 DEF BandsHoldQueued
  <1>5. OrderFits
    BY <1>2 DEF OrderFits
  <1> QED
    BY <1>1, <1>3, <1>4, <1>5 DEF IInv, TopCovers, WorkersHoldRunning, ExitOrder

\* An accepted task is the last of its band and of the order.
LEMMA SubmitAcceptedOrder ==
  ASSUME IInv, NEW t \in Tasks, SubmitAccepted(t)
  PROVE  OrderFits'
  <1>1. PICK n \in Nat : n = Len(order)
    BY DEF IInv, TypeOK
  <1>2. /\ order \in Seq(Tasks) /\ task[t] = "new" /\ Band(t) \in Bands
        /\ queues \in [Bands -> Seq(Tasks)]
        /\ order' = Append(order, t) /\ queue_depth' = queue_depth + 1
        /\ queues' = [queues EXCEPT ![Band(t)] = Append(@, t)]
        /\ task' = [task EXCEPT ![t] = "queued"] /\ DOMAIN task = Tasks
        /\ OrderFits /\ BandsHoldQueued
    BY BandType DEF IInv, TypeOK, SubmitAccepted
  <1>3. /\ Len(order') = n + 1 /\ order'[n + 1] = t
        /\ \A i \in 1 .. n : order'[i] = order[i] /\ order[i] \in Tasks
    BY <1>1, <1>2
  <1>4. /\ Len(order) = queue_depth
        /\ \A i \in 1 .. n : task[order[i]] = "queued"
        /\ \A i, j \in 1 .. n : order[i] = order[j] => i = j
        /\ \A u \in Queued : \E i \in 1 .. n : order[i] = u
        /\ \A b \in Bands : \A k, l \in 1 .. Len(queues[b]) : \A i, j \in 1 .. n :
             order[i] = queues[b][k] /\ order[j] = queues[b][l] /\ k < l => i < j
    BY <1>1, <1>2, Zenon DEF OrderFits
  <1>5. \A i \in 1 .. n : order[i] # t
    BY <1>2, <1>4, Zenon
  <1>6. Len(order') = queue_depth'
    BY <1>1, <1>2, <1>3, <1>4
  <1>7. \A i \in 1 .. n + 1 : i \in 1 .. n \/ i = n + 1
    OBVIOUS
  <1>8. task'[t] = "queued" /\ \A u \in Tasks \ {t} : task'[u] = task[u]
    BY <1>2, Zenon
  <1>9. \A i \in 1 .. n + 1 : task'[order'[i]] = "queued"
    <2> TAKE i \in 1 .. n + 1
    <2>1. CASE i = n + 1
      BY <1>3, <1>8, <2>1, Zenon
    <2>2. CASE i \in 1 .. n
      <3>1. order'[i] = order[i] /\ order[i] \in Tasks \ {t} /\ task[order[i]] = "queued"
        BY <1>3, <1>4, <1>5, <2>2, Zenon
      <3>2. task'[order[i]] = "queued"
        BY <1>8, <3>1, Zenon
      <3> QED BY <3>1, <3>2, Zenon
    <2> QED BY <1>7, <2>1, <2>2, Zenon
  <1>10. \A i, j \in 1 .. n + 1 : order'[i] = order'[j] => i = j
    <2>1. \A i, j \in 1 .. n : order'[i] = order'[j] => i = j
      BY <1>3, <1>4
    <2>2. \A i \in 1 .. n : order'[i] # order'[n + 1]
      BY <1>3, <1>5
    <2> QED BY <1>7, <2>1, <2>2, Zenon
  <1>11. \A u \in Queued' : \E i \in 1 .. n + 1 : order'[i] = u
    <2> TAKE u \in Queued'
    <2>1. CASE u = t
      BY <1>1, <1>3, <2>1
    <2>2. CASE u # t
      <3>1. u \in Queued
        BY <1>8, <2>2, Zenon DEF Queued
      <3>2. PICK i \in 1 .. n : order[i] = u
        BY <1>4, <3>1, Zenon
      <3>3. i \in 1 .. n + 1
        BY <1>1
      <3> QED BY <1>3, <3>2, <3>3, Zenon
    <2> QED BY <2>1, <2>2, Zenon
  <1>12. ASSUME NEW b \in Bands, NEW k \in 1 .. Len(queues'[b]), NEW l \in 1 .. Len(queues'[b]),
                NEW i \in 1 .. n + 1, NEW j \in 1 .. n + 1,
                order'[i] = queues'[b][k], order'[j] = queues'[b][l], k < l
         PROVE  i < j
    <2>1. PICK m \in Nat : m = Len(queues[b])
      BY <1>2
    <2>2. queues[b] \in Seq(Tasks) /\ \A x \in 1 .. m : queues[b][x] # t
      <3>1. queues[b] \in Seq(Tasks)
        BY <1>2, Zenon
      <3>2. ASSUME NEW x \in 1 .. m PROVE queues[b][x] # t
        <4>1. task[queues[b][x]] = "queued"
          BY <1>2, <2>1, Zenon DEF BandsHoldQueued
        <4> QED BY <1>2, <4>1
      <3> QED BY <3>1, <3>2, Zenon
    <2>3. /\ \A x \in 1 .. m : queues'[b][x] = queues[b][x]
          /\ Len(queues'[b]) = m \/ (Len(queues'[b]) = m + 1 /\ queues'[b][m + 1] = t)
      <3>1. CASE b = Band(t)
        <4>1. queues'[b] = Append(queues[b], t)
          BY <1>2, <3>1, Zenon
        <4> QED BY <2>1, <2>2, <4>1
      <3>2. CASE b # Band(t)
        <4>1. queues'[b] = queues[b]
          BY <1>2, <3>2, Zenon
        <4> QED BY <2>1, <4>1, Zenon
      <3> QED BY <3>1, <3>2, Zenon
    <2>4. k \in 1 .. m /\ (l \in 1 .. m \/ (l = m + 1 /\ queues'[b][l] = t))
      BY <1>12, <2>1, <2>3, SMTT(30)
    <2>5. queues'[b][k] = queues[b][k] /\ queues[b][k] # t
      BY <2>2, <2>3, <2>4, Zenon
    <2>6. i \in 1 .. n
      BY <1>3, <1>7, <1>12, <2>5, Zenon
    <2>7. CASE j = n + 1
      BY <1>1, <2>6, <2>7
    <2>8. CASE j \in 1 .. n
      <3>1. order'[j] # t
        BY <1>3, <1>5, <2>8, Zenon
      <3>2. l \in 1 .. m
        BY <1>12, <2>4, <3>1, Zenon
      <3>3. queues'[b][l] = queues[b][l]
        BY <2>3, <3>2, Zenon
      <3>4. order[i] = queues[b][k] /\ order[j] = queues[b][l]
        BY <1>3, <1>12, <2>5, <2>6, <2>8, <3>3
      <3>5. k \in 1 .. Len(queues[b]) /\ l \in 1 .. Len(queues[b])
        BY <2>1, <2>4, <3>2, Zenon
      <3>6. \A u, v \in 1 .. n : order[u] = queues[b][k] /\ order[v] = queues[b][l] => u < v
        BY <1>4, <1>12, <3>5
      <3> QED BY <2>6, <2>8, <3>4, <3>6, Zenon
    <2> QED BY <1>7, <2>7, <2>8, Zenon
  <1>13. Len(order') = n + 1
    BY <1>3
  <1> QED BY <1>6, <1>9, <1>10, <1>11, <1>12, <1>13, Zenon DEF OrderFits

\* A task accepted by submit() keeps the invariant: it is counted, and its
\* band is not above max_band_.
LEMMA SubmitAcceptedInv ==
  ASSUME IInv, NEW t \in Tasks, SubmitAccepted(t)
  PROVE  IInv'
  <1> DEFINE q == queues[Band(t)]
  <1>1. Band(t) \in Bands /\ q \in Seq(Tasks) /\ task[t] = "new"
    BY BandType DEF IInv, TypeOK, SubmitAccepted
  <1>2. TypeOK'
    BY <1>1 DEF IInv, TypeOK, SubmitAccepted, RaiseBand, NotifyAll, Bands
  <1>3. Queued' = Queued \cup {t} /\ t \notin Queued
    BY <1>1 DEF Queued, SubmitAccepted, IInv, TypeOK
  <1>4. DepthExact'
    <2>1. Cardinality(Queued') = Cardinality(Queued) + 1
      BY <1>3, FS_AddElement, QueuedFinite
    <2>2. queue_depth' = queue_depth + 1 /\ queue_depth < max_queued
      BY DEF SubmitAccepted
    <2>3. queue_depth = Cardinality(Queued) /\ queue_depth \in Nat
      BY DEF IInv, DepthExact, TypeOK
    <2>4. max_queued \in Nat
      BY SchedulerConstants DEF max_queued
    <2> QED BY <2>1, <2>2, <2>3, <2>4 DEF DepthExact
  <1>5. BandsHoldQueued'
    <2>1. /\ Len(queues'[Band(t)]) = Len(q) + 1
          /\ queues'[Band(t)][Len(q) + 1] = t
          /\ \A i \in 1 .. Len(q) : queues'[Band(t)][i] = q[i]
      BY <1>1 DEF SubmitAccepted, IInv, TypeOK
    <2>2. \A b \in Bands : b # Band(t) => queues'[b] = queues[b]
      BY DEF SubmitAccepted, IInv, TypeOK
    <2>3. \A b \in Bands : \A i \in 1 .. Len(queues[b]) : queues[b][i] # t
      BY <1>1 DEF IInv, BandsHoldQueued
    <2>4. \A b \in Bands : \A i \in 1 .. Len(queues'[b]) :
             task'[queues'[b][i]] = "queued" /\ Band(queues'[b][i]) = b
      <3> TAKE b \in Bands
      <3> TAKE i \in 1 .. Len(queues'[b])
      <3>1. queues[b] \in Seq(Tasks)
        BY DEF IInv, TypeOK
      <3>2. CASE b # Band(t)
        BY <3>1, <3>2, <2>2, <2>3 DEF IInv, BandsHoldQueued, SubmitAccepted, TypeOK
      <3>3. CASE b = Band(t) /\ i = Len(q) + 1
        BY <3>3, <2>1, <1>1 DEF SubmitAccepted, IInv, TypeOK
      <3>4. CASE b = Band(t) /\ i \in 1 .. Len(q)
        BY <3>1, <3>4, <2>1, <2>3 DEF IInv, BandsHoldQueued, SubmitAccepted, TypeOK
      <3> QED BY <3>2, <3>3, <3>4, <2>1, <1>1
    <2>5. \A b \in Bands : \A i, j \in 1 .. Len(queues'[b]) :
             queues'[b][i] = queues'[b][j] => i = j
      <3> TAKE b \in Bands
      <3>1. CASE b # Band(t)
        BY <3>1, <2>2 DEF IInv, BandsHoldQueued
      <3>2. CASE b = Band(t)
        <4>1. \A i, j \in 1 .. Len(q) : q[i] = q[j] => i = j
          BY <1>1 DEF IInv, BandsHoldQueued
        <4>2. \A i \in 1 .. Len(q) : q[i] # t
          BY <2>3, <1>1
        <4>3. Len(q) \in Nat
          BY <1>1
        <4> HIDE DEF q
        <4> QED BY <3>2, <2>1, <4>1, <4>2, <4>3, SMTT(30)
      <3> QED BY <3>1, <3>2
    <2>6. \A u \in Queued' : \E i \in 1 .. Len(queues'[Band(u)]) : queues'[Band(u)][i] = u
      <3> TAKE u \in Queued'
      <3>1. CASE u = t
        BY <3>1, <2>1, <1>1
      <3>2. CASE u \in Queued /\ Band(u) # Band(t)
        BY <3>2, <2>2, BandType DEF IInv, BandsHoldQueued, Queued
      <3>3. CASE u \in Queued /\ Band(u) = Band(t)
        <4>1. PICK i \in 1 .. Len(q) : q[i] = u
          BY <3>3 DEF IInv, BandsHoldQueued
        <4> QED BY <4>1, <3>3, <2>1, <1>1
      <3> QED BY <3>1, <3>2, <3>3, <1>3
    <2> QED BY <2>4, <2>5, <2>6 DEF BandsHoldQueued
  <1>6. TopCovers'
    <2> SUFFICES ASSUME NEW b \in Bands, queues'[b] # <<>>
                 PROVE  b <= max_band'
      BY DEF TopCovers
    <2>1. max_band' = IF Band(t) > max_band THEN Band(t) ELSE max_band
      BY DEF SubmitAccepted, RaiseBand
    <2>2. b \in Int /\ Band(t) \in Int /\ max_band \in Int
      BY <1>1 DEF Bands, IInv, TypeOK
    <2>3. b = Band(t) \/ b <= max_band
      BY DEF SubmitAccepted, RaiseBand, IInv, TypeOK, TopCovers
    <2> QED BY <2>1, <2>2, <2>3
  <1>7. WorkersHoldRunning'
    BY <1>1 DEF IInv, TypeOK, WorkersHoldRunning, SubmitAccepted, NotifyAll
  <1>8. ExitOrder'
    BY DEF IInv, TypeOK, ExitOrder, SubmitAccepted, NotifyAll
  <1>9. OrderFits'
    BY SubmitAcceptedOrder, Zenon
  <1> QED
    BY <1>2, <1>4, <1>5, <1>6, <1>7, <1>8, <1>9 DEF IInv

\* The oldest task of a band leaves the band and the order.
LEMMA TakeOrder ==
  ASSUME IInv, NEW b \in Bands, queue_depth' = queue_depth - 1,
         NEW h \in Queued, queues[b] # <<>>, h = Head(queues[b]),
         queues'[b] = Tail(queues[b]), \A c \in Bands : c # b => queues'[c] = queues[c],
         \A t \in Tasks : t # h => task'[t] = task[t], Queued' = Queued \ {h},
         NEW at \in 1 .. Len(order), order[at] = h,
         order' \in Seq(Tasks), Len(order') = Len(order) - 1,
         \A j \in 1 .. Len(order') : order'[j] = IF j < at THEN order[j] ELSE order[j + 1]
  PROVE  OrderFits'
  <1> DEFINE up(j) == IF j < at THEN j ELSE j + 1
  <1>1. PICK n \in Nat, m \in Nat : /\ n = Len(order) /\ Len(order') = m
                                /\ m = n - 1 /\ at \in 1 .. n
    BY DEF IInv, TypeOK
  <1>2. /\ order \in Seq(Tasks) /\ queues \in [Bands -> Seq(Tasks)]
        /\ Len(order) = queue_depth
        /\ \A i \in 1 .. n : task[order[i]] = "queued" /\ order[i] \in Tasks
        /\ \A i, j \in 1 .. n : order[i] = order[j] => i = j
        /\ \A u \in Queued : \E i \in 1 .. n : order[i] = u
        /\ \A c \in Bands : \A k, l \in 1 .. Len(queues[c]) : \A i, j \in 1 .. n :
             order[i] = queues[c][k] /\ order[j] = queues[c][l] /\ k < l => i < j
    BY <1>1 DEF IInv, TypeOK, OrderFits
  <1>3. \A j \in 1 .. m : up(j) \in 1 .. n /\ up(j) # at /\ order'[j] = order[up(j)]
    <2> TAKE j \in 1 .. m
    <2>1. up(j) \in 1 .. n /\ up(j) # at
      BY <1>1
    <2>2. order'[j] = IF j < at THEN order[j] ELSE order[j + 1]
      BY <1>1, Zenon
    <2> QED BY <2>1, <2>2
  <1>4. \A i, j \in 1 .. m : (up(i) = up(j) => i = j) /\ (up(i) < up(j) => i < j)
    BY <1>1
  <1>5. \A i \in 1 .. n : i # at => \E j \in 1 .. m : up(j) = i
    <2> TAKE i \in 1 .. n
    <2>1. CASE i < at
      BY <1>1, <2>1
    <2>2. CASE i > at
      <3>1. i - 1 \in 1 .. m /\ up(i - 1) = i
        BY <1>1, <2>2
      <3> QED BY <3>1, Zenon
    <2> QED BY <1>1, <2>1, <2>2
  <1> HIDE DEF up
  <1>6. Len(order') = queue_depth'
    BY <1>1, <1>2
  <1>7. \A j \in 1 .. m : order'[j] # h /\ order'[j] \in Tasks
    <2> TAKE j \in 1 .. m
    <2>1. up(j) \in 1 .. n /\ up(j) # at /\ order'[j] = order[up(j)]
      BY <1>3, Zenon
    <2>2. order[up(j)] # order[at] /\ order[up(j)] \in Tasks
      BY <1>1, <1>2, <2>1, Zenon
    <2> QED BY <2>1, <2>2
  <1>8. \A j \in 1 .. m : task'[order'[j]] = "queued"
    <2> TAKE j \in 1 .. m
    <2>1. task[order[up(j)]] = "queued" /\ order'[j] = order[up(j)]
      BY <1>2, <1>3, Zenon
    <2>2. task'[order'[j]] = task[order'[j]]
      BY <1>7, Zenon
    <2> QED BY <2>1, <2>2
  <1>9. \A i, j \in 1 .. m : order'[i] = order'[j] => i = j
    <2> TAKE i, j \in 1 .. m
    <2> HAVE order'[i] = order'[j]
    <2>1. up(i) \in 1 .. n /\ up(j) \in 1 .. n /\ order[up(i)] = order[up(j)]
      BY <1>3
    <2>2. up(i) = up(j)
      BY <1>2, <2>1, Zenon
    <2> QED BY <1>4, <2>2, Zenon
  <1>10. \A u \in Queued' : \E j \in 1 .. m : order'[j] = u
    <2> TAKE u \in Queued'
    <2>1. u \in Queued /\ u # h
      BY Zenon
    <2>2. PICK i \in 1 .. n : order[i] = u
      BY <1>2, <2>1, Zenon
    <2>3. i # at
      BY <2>1, <2>2, Zenon
    <2>4. PICK j \in 1 .. m : up(j) = i
      BY <1>5, <2>3, Zenon
    <2> QED BY <1>3, <2>2, <2>4, Zenon
  <1>11. ASSUME NEW c \in Bands, NEW k \in 1 .. Len(queues'[c]), NEW l \in 1 .. Len(queues'[c]),
                NEW i \in 1 .. m, NEW j \in 1 .. m,
                order'[i] = queues'[c][k], order'[j] = queues'[c][l], k < l
         PROVE  i < j
    <2>1. PICK x \in 1 .. Len(queues[c]), y \in 1 .. Len(queues[c]) :
            x < y /\ queues'[c][k] = queues[c][x] /\ queues'[c][l] = queues[c][y]
      <3>1. CASE c # b
        BY <1>11, <3>1, Zenon
      <3>2. CASE c = b
        <4>1. PICK q \in Seq(Tasks) : q = queues[b]
          BY <1>2, Zenon
        <4>2. /\ Len(Tail(q)) = Len(q) - 1 /\ Len(q) \in Nat
              /\ \A z \in 1 .. Len(q) - 1 : Tail(q)[z] = q[z + 1]
          BY <4>1, SMTT(30)
        <4>3. queues'[c] = Tail(q) /\ queues[c] = q
          BY <3>2, <4>1, Zenon
        <4>4. k \in 1 .. Len(q) - 1 /\ l \in 1 .. Len(q) - 1
          BY <4>2, <4>3, Zenon
        <4>5. k + 1 \in 1 .. Len(q) /\ l + 1 \in 1 .. Len(q) /\ k + 1 < l + 1
          BY <1>11, <4>2, <4>4
        <4>6. queues'[c][k] = q[k + 1] /\ queues'[c][l] = q[l + 1]
          BY <4>2, <4>3, <4>4, Zenon
        <4> QED BY <4>3, <4>5, <4>6, Zenon
      <3> QED BY <3>1, <3>2, Zenon
    <2>2. up(i) < up(j)
      <3>1. up(i) \in 1 .. n /\ up(j) \in 1 .. n
        BY <1>3, Zenon
      <3>2. order[up(i)] = queues[c][x] /\ order[up(j)] = queues[c][y]
        BY <1>3, <1>11, <2>1, SMTT(30)
      <3>3. \A u, v \in 1 .. n : order[u] = queues[c][x] /\ order[v] = queues[c][y] => u < v
        BY <1>2, <2>1, SMTT(30)
      <3> QED BY <3>1, <3>2, <3>3, Zenon
    <2> QED BY <1>4, <2>2, Zenon
  <1>12. Len(order') = m
    BY <1>1, Zenon
  <1>13. \A c \in Bands : \A k, l \in 1 .. Len(queues'[c]) : \A i, j \in 1 .. m :
           order'[i] = queues'[c][k] /\ order'[j] = queues'[c][l] /\ k < l => i < j
    BY <1>11, ZenonT(40)
  <1>14. /\ \A i \in 1 .. Len(order') : task'[order'[i]] = "queued"
         /\ \A i, j \in 1 .. Len(order') : order'[i] = order'[j] => i = j
    BY <1>8, <1>9, <1>12, Zenon
  <1>15. \A u \in Queued' : \E i \in 1 .. Len(order') : order'[i] = u
    BY <1>10, <1>12, Zenon
  <1>16. \A c \in Bands : \A k, l \in 1 .. Len(queues'[c]) : \A i, j \in 1 .. Len(order') :
           order'[i] = queues'[c][k] /\ order'[j] = queues'[c][l] /\ k < l => i < j
    BY <1>12, <1>13, ZenonT(40)
  <1> QED BY <1>6, <1>14, <1>15, <1>16, Zenon DEF OrderFits

\* The successful branch of pop().
LEMMA TakeTopInv ==
  ASSUME IInv, NEW w \in Workers, Take(w), NEW b \in Bands, IsTop(b),
         holds' = [holds EXCEPT ![w] = Head(queues[b])],
         task' = [task EXCEPT ![Head(queues[b])] = "running"],
         queues' = [queues EXCEPT ![b] = Tail(@)],
         queue_depth' = queue_depth - 1,
         max_band' = IF Tail(queues[b]) = <<>> THEN b - 1 ELSE b,
         wpc' = [wpc EXCEPT ![w] = "running"],
         order' = Without(order, Head(queues[b]))
  PROVE  IInv'
  <1> DEFINE q == queues[b]
             h == Head(q)
  <1>1. q \in Seq(Tasks) /\ q # <<>> /\ Len(q) \in Nat /\ Len(q) >= 1
    BY DEF IInv, TypeOK, IsTop
  <1>2. h = q[1] /\ h \in Tasks /\ 1 \in 1 .. Len(q)
    BY <1>1
  <1>3. task[h] = "queued" /\ Band(h) = b
    BY <1>2 DEF IInv, BandsHoldQueued
  <1>4. /\ Tail(q) \in Seq(Tasks)
        /\ Len(Tail(q)) = Len(q) - 1
        /\ \A i \in 1 .. Len(q) - 1 : Tail(q)[i] = q[i + 1]
    BY <1>1
  <1>5. wpc[w] = "ready" /\ UNCHANGED <<shutting_down, caller>>
    BY DEF Take
  <1>6. queues'[b] = Tail(q) /\ \A c \in Bands : c # b => queues'[c] = queues[c]
    BY DEF IInv, TypeOK
  <1>7. task'[h] = "running" /\ \A t \in Tasks : t # h => task'[t] = task[t]
    BY <1>2 DEF IInv, TypeOK
  <1>8. Queued' = Queued \ {h} /\ h \in Queued
    BY <1>2, <1>3, <1>7 DEF Queued
  <1>a. PICK at \in 1 .. Len(order) :
          /\ order[at] = h
          /\ order' = SubSeq(order, 1, at - 1) \o SubSeq(order, at + 1, Len(order))
    <2>1. \E i \in DOMAIN order : order[i] = h
      <3>1. \E i \in 1 .. Len(order) : order[i] = h
        BY <1>8, Zenon DEF IInv, OrderFits
      <3>2. DOMAIN order = 1 .. Len(order)
        BY DEF IInv, TypeOK
      <3> QED BY <3>1, <3>2, Zenon
    <2>2. PICK at : at = CHOOSE i \in DOMAIN order : order[i] = h
      BY Zenon
    <2>3. at \in DOMAIN order /\ order[at] = h
      BY <2>1, <2>2, Zenon
    <2>4. order' = SubSeq(order, 1, at - 1) \o SubSeq(order, at + 1, Len(order))
      BY <2>2, Zenon DEF Without
    <2>5. DOMAIN order = 1 .. Len(order)
      BY DEF IInv, TypeOK
    <2> QED BY <2>3, <2>4, <2>5, Zenon
  <1>b. /\ order' \in Seq(Tasks) /\ Len(order') = Len(order) - 1
        /\ \A j \in 1 .. Len(order') : order'[j] = IF j < at THEN order[j] ELSE order[j + 1]
    <2>1. order \in Seq(Tasks)
      BY Zenon DEF IInv, TypeOK
    <2>2. /\ Cut(order, at) \in Seq(Tasks) /\ Len(Cut(order, at)) = Len(order) - 1
          /\ \A j \in 1 .. Len(order) - 1 :
               Cut(order, at)[j] = IF j < at THEN order[j] ELSE order[j + 1]
      BY <2>1, Removed, Zenon
    <2>3. order' = Cut(order, at)
      BY <1>a, Zenon DEF Cut
    <2> QED BY <2>2, <2>3, Zenon
  <1>9. DepthExact'
    <2>1. Cardinality(Queued') = Cardinality(Queued) - 1
      BY <1>8, FS_RemoveElement, QueuedFinite, Zenon
    <2>2. queue_depth = Cardinality(Queued) /\ queue_depth \in Nat /\ queue_depth <= max_queued
      BY DEF IInv, DepthExact, TypeOK
    <2>3. max_queued \in Nat
      BY SchedulerConstants, SMTT(30) DEF max_queued
    <2> QED BY <2>1, <2>2, <2>3 DEF DepthExact
  <1>10. TypeOK'
    <2>1. queue_depth' \in Nat
      BY <1>9, <1>8, FS_RemoveElement, FS_CardinalityType, QueuedFinite, SMTT(30) DEF DepthExact
    <2>2. max_band' \in Bands \cup {-1}
      BY SchedulerConstants DEF Bands
    <2> QED BY <2>1, <2>2, <1>2, <1>4, <1>5, <1>b, SMTT(30) DEF IInv, TypeOK
  <1>11. BandsHoldQueued'
    <2>1. \A c \in Bands : \A i \in 1 .. Len(queues'[c]) :
             task'[queues'[c][i]] = "queued" /\ Band(queues'[c][i]) = c
      <3> TAKE c \in Bands
      <3> TAKE i \in 1 .. Len(queues'[c])
      <3>1. queues[c] \in Seq(Tasks)
        BY DEF IInv, TypeOK
      <3>2. CASE c # b
        <4>1. queues'[c][i] = queues[c][i] /\ i \in 1 .. Len(queues[c])
          BY <3>2, <1>6
        <4>2. queues[c][i] \in Tasks
          BY <4>1, <3>1, SMTT(30)
        <4>3. task[queues[c][i]] = "queued" /\ Band(queues[c][i]) = c
          BY <4>1 DEF IInv, BandsHoldQueued
        <4> QED BY <3>2, <4>1, <4>2, <4>3, <1>3, <1>7, SMTT(30)
      <3>3. CASE c = b
        <4>1. queues'[c][i] = q[i + 1] /\ i + 1 \in 1 .. Len(q) /\ i + 1 # 1
          <5>1. queues'[c] = Tail(q) /\ i \in 1 .. Len(q) - 1
            BY <3>3, <1>6, <1>4, Zenon
          <5>2. queues'[c][i] = q[i + 1]
            BY <5>1, <1>4, Zenon
          <5>3. i + 1 \in 1 .. Len(q) /\ i + 1 # 1
            BY <5>1, <1>1
          <5> QED BY <5>2, <5>3
        <4>2. q[i + 1] \in Tasks
          BY <4>1, <1>1, SMTT(30)
        <4>3. task[q[i + 1]] = "queued" /\ Band(q[i + 1]) = b
          BY <4>1 DEF IInv, BandsHoldQueued
        <4>4. q[i + 1] # h
          BY <4>1, <1>2 DEF IInv, BandsHoldQueued
        <4> QED BY <3>3, <4>1, <4>2, <4>3, <4>4, <1>7, SMTT(30)
      <3> QED BY <3>2, <3>3
    <2>2. \A c \in Bands : \A i, j \in 1 .. Len(queues'[c]) :
             queues'[c][i] = queues'[c][j] => i = j
      <3> TAKE c \in Bands
      <3>1. CASE c # b
        BY <3>1, <1>6 DEF IInv, BandsHoldQueued
      <3>2. CASE c = b
        <4>1. \A i, j \in 1 .. Len(q) : q[i] = q[j] => i = j
          BY Zenon DEF IInv, BandsHoldQueued
        <4>2. queues'[c] = Tail(q) /\ Len(queues'[c]) = Len(q) - 1
          BY <3>2, <1>4, <1>6, Zenon
        <4> HIDE DEF q
        <4> TAKE i, j \in 1 .. Len(queues'[c])
        <4>3. i + 1 \in 1 .. Len(q) /\ j + 1 \in 1 .. Len(q)
          BY <4>2, <1>1, SMTT(30)
        <4>4. queues'[c][i] = q[i + 1] /\ queues'[c][j] = q[j + 1]
          BY <4>2, <1>4, Zenon
        <4>5. i \in Int /\ j \in Int
          BY <4>2, <1>1
        <4>6. q[i + 1] = q[j + 1] => i + 1 = j + 1
          BY <4>1, <4>3, Zenon
        <4> QED BY <4>4, <4>5, <4>6
      <3> QED BY <3>1, <3>2, Zenon
    <2>3. \A t \in Queued' : \E i \in 1 .. Len(queues'[Band(t)]) : queues'[Band(t)][i] = t
      <3> TAKE t \in Queued'
      <3>1. t \in Queued /\ t # h /\ t \in Tasks /\ Band(t) \in Bands
        BY <1>8, BandType DEF Queued
      <3>2. PICK i \in 1 .. Len(queues[Band(t)]) : queues[Band(t)][i] = t
        BY <3>1 DEF IInv, BandsHoldQueued
      <3>3. CASE Band(t) # b
        BY <3>1, <3>2, <3>3, <1>6
      <3>4. CASE Band(t) = b
        <4>1. i # 1 /\ i - 1 \in 1 .. Len(q) - 1
          BY <3>1, <3>2, <3>4, <1>1, <1>2, SMTT(30)
        <4>2. Tail(q)[i - 1] = t
          BY <4>1, <3>2, <3>4, <1>4, SMTT(30)
        <4> QED BY <4>1, <4>2, <3>4, <1>4, <1>6, Zenon
      <3> QED BY <3>3, <3>4
    <2> QED BY <2>1, <2>2, <2>3, Zenon DEF BandsHoldQueued
  <1>12. TopCovers'
    <2> SUFFICES ASSUME NEW c \in Bands, queues'[c] # <<>>
                 PROVE  c <= max_band'
      BY DEF TopCovers
    <2>1. c \in Int /\ b \in Int /\ max_band \in Int
      BY DEF Bands, IInv, TypeOK
    <2>2. CASE c = b
      <3>1. Tail(queues[b]) # <<>>
        BY <2>2, <1>6, Zenon
      <3>2. max_band' = b
        BY <3>1
      <3> QED BY <2>1, <2>2, <3>2
    <2>3. CASE c # b
      <3>1. queues[c] # <<>> /\ c <= max_band
        BY <2>3, <1>6 DEF IInv, TopCovers
      <3>2. ~ (b < c)
        BY <3>1 DEF IsTop
      <3> QED BY <2>1, <2>3, <3>2
    <2> QED BY <2>2, <2>3
  <1>13. WorkersHoldRunning'
    <2>1. \A v \in Workers : wpc[v] = "running" => holds[v] # h
      BY <1>3 DEF IInv, WorkersHoldRunning
    <2> QED
      BY <2>1, <1>2, <1>3, <1>5, <1>7, SMTT(30) DEF IInv, TypeOK, WorkersHoldRunning
  <1>14. ExitOrder'
    <2>1. queue_depth # 0
      BY DEF Take, IInv, TypeOK
    <2> QED BY <2>1, <1>5, SMTT(30) DEF IInv, TypeOK, ExitOrder
  <1>15. OrderFits'
    <2> HIDE DEF h
    <2>1. queues[b] # <<>> /\ h = Head(queues[b])
      BY <1>1 DEF h
    <2>2. queues'[b] = Tail(queues[b])
      BY <1>6, Zenon
    <2> QED BY <1>6, <1>7, <1>8, <1>a, <1>b, <2>1, <2>2, TakeOrder, Zenon
  <1> QED
    BY <1>9, <1>10, <1>11, <1>12, <1>13, <1>14, <1>15 DEF IInv

\* pop() keeps the invariant: with queue_depth_ > 0 it always finds a task.
LEMMA TakeInv ==
  ASSUME IInv, NEW w \in Workers, Take(w)
  PROVE  IInv'
  <1>1. \E b \in Bands : IsTop(b)
    BY TopExists DEF Take
  <1>2. PICK b \in Bands :
          /\ IsTop(b)
          /\ holds' = [holds EXCEPT ![w] = Head(queues[b])]
          /\ task' = [task EXCEPT ![Head(queues[b])] = "running"]
          /\ queues' = [queues EXCEPT ![b] = Tail(@)]
          /\ queue_depth' = queue_depth - 1
          /\ max_band' = IF Tail(queues[b]) = <<>> THEN b - 1 ELSE b
          /\ wpc' = [wpc EXCEPT ![w] = "running"]
          /\ order' = Without(order, Head(queues[b]))
    BY <1>1 DEF Take
  <1> QED
    BY <1>2, TakeTopInv, Zenon

\* The end of a task body keeps the invariant.
LEMMA FinishInv ==
  ASSUME IInv, NEW w \in Workers, Finish(w)
  PROVE  IInv'
  <1> DEFINE h == holds[w]
  <1>1. wpc[w] = "running" /\ h \in Tasks /\ task[h] = "running"
    BY DEF Finish, IInv, WorkersHoldRunning
  <1>2. TypeOK'
    BY <1>1 DEF IInv, TypeOK, Finish
  <1>3. task' = [task EXCEPT ![h] = "done"]
    BY DEF Finish
  <1>4. Queued' = Queued
    BY <1>1, <1>3 DEF Queued, IInv, TypeOK
  <1>5. DepthExact' /\ TopCovers'
    BY <1>4 DEF IInv, DepthExact, TopCovers, Finish
  <1>6. BandsHoldQueued'
    <2>1. \A b \in Bands : \A i \in 1 .. Len(queues[b]) :
            /\ queues[b][i] \in Tasks
            /\ queues[b][i] # h
      BY <1>1 DEF IInv, TypeOK, BandsHoldQueued
    <2>2. queues' = queues
      BY DEF Finish
    <2> QED BY <1>3, <1>4, <2>1, <2>2 DEF IInv, TypeOK, BandsHoldQueued
  <1>7. WorkersHoldRunning'
    BY <1>1, <1>3 DEF IInv, TypeOK, WorkersHoldRunning, Finish
  <1>8. ExitOrder'
    BY <1>1, SMTT(30) DEF IInv, TypeOK, ExitOrder, Finish
  <1>9. OrderFits'
    <2>1. UNCHANGED <<queues, queue_depth, order>> /\ order \in Seq(Tasks) /\ OrderFits
      BY SMTT(30) DEF IInv, TypeOK, Finish
    <2>2. \A i \in 1 .. Len(order) : order[i] \in Tasks /\ task[order[i]] = "queued"
      BY <2>1 DEF OrderFits
    <2>3. \A u \in Tasks \ {h} : task'[u] = task[u]
      BY <1>3, Zenon DEF IInv, TypeOK
    <2>4. \A i \in 1 .. Len(order) : task'[order[i]] = "queued"
      BY <1>1, <2>2, <2>3, Zenon
    <2> QED BY <1>4, <2>1, <2>4 DEF OrderFits
  <1> QED
    BY <1>2, <1>5, <1>6, <1>7, <1>8, <1>9, SMTT(30) DEF IInv

\* The actions that leave the tasks and the bands alone.
LEMMA ThreadStepInv ==
  ASSUME IInv, UNCHANGED <<queues, queue_depth, max_band, holds, task, order>>,
         TypeOK', ExitOrder',
         \A w \in Workers : wpc'[w] = "running" <=> wpc[w] = "running"
  PROVE  IInv'
  <1>1. Queued' = Queued
    BY DEF Queued
  <1>2. BandsHoldQueued' /\ DepthExact' /\ TopCovers'
    BY <1>1 DEF IInv, BandsHoldQueued, DepthExact, TopCovers
  <1>3. WorkersHoldRunning'
    BY DEF IInv, WorkersHoldRunning
  <1>4. OrderFits'
    BY <1>1, SMTT(30) DEF IInv, OrderFits
  <1> QED
    BY <1>2, <1>3, <1>4, SMTT(30) DEF IInv

\* Every step of workers, clients and shutdown() callers keeps the invariant.
LEMMA NextInv == IInv /\ [Next]_vars => IInv'
  <1> SUFFICES ASSUME IInv, [Next]_vars PROVE IInv'
    OBVIOUS
  <1>1. ASSUME NEW t \in Tasks, SubmitAccepted(t) PROVE IInv'
    BY <1>1, SubmitAcceptedInv
  <1>2. ASSUME NEW t \in Tasks, SubmitRefused(t) PROVE IInv'
    <2>1. task[t] = "new" /\ task' = [task EXCEPT ![t] = "refused"]
      BY <1>2 DEF SubmitRefused
    <2>2. TypeOK' /\ ExitOrder'
      BY <1>2 DEF SubmitRefused, IInv, TypeOK, ExitOrder
    <2>3. Queued' = Queued
      BY <2>1 DEF Queued, IInv, TypeOK
    <2>4. DepthExact' /\ TopCovers'
      BY <1>2, <2>3 DEF SubmitRefused, IInv, DepthExact, TopCovers
    <2>5. BandsHoldQueued'
      <3>1. \A b \in Bands : \A i \in 1 .. Len(queues[b]) :
              queues[b][i] \in Tasks /\ queues[b][i] # t
        BY <2>1 DEF IInv, TypeOK, BandsHoldQueued
      <3>2. queues' = queues
        BY <1>2 DEF SubmitRefused
      <3> QED BY <2>1, <2>3, <3>1, <3>2, SMTT(30) DEF IInv, TypeOK, BandsHoldQueued
    <2>6. WorkersHoldRunning'
      BY <1>2, SMTT(30) DEF SubmitRefused, IInv, TypeOK, WorkersHoldRunning
    <2>7. OrderFits'
      <3>1. UNCHANGED <<queues, queue_depth, order>> /\ order \in Seq(Tasks) /\ OrderFits
        BY <1>2 DEF IInv, TypeOK, SubmitRefused
      <3>2. \A i \in 1 .. Len(order) : order[i] \in Tasks /\ task[order[i]] = "queued"
        BY <3>1 DEF OrderFits
      <3>3. \A u \in Tasks \ {t} : task'[u] = task[u]
        BY <2>1, Zenon DEF IInv, TypeOK
      <3>4. \A i \in 1 .. Len(order) : task'[order[i]] = "queued"
        BY <2>1, <3>2, <3>3, Zenon
      <3> QED BY <2>3, <3>1, <3>4, SMTT(30) DEF OrderFits
    <2> QED BY <2>2, <2>4, <2>5, <2>6, <2>7 DEF IInv
  <1>3. ASSUME NEW w \in Workers, Sleep(w) PROVE IInv'
    <2>1. TypeOK' /\ ExitOrder'
      BY <1>3, SMTT(30) DEF Sleep, IInv, TypeOK, ExitOrder
    <2> QED BY <1>3, <2>1, ThreadStepInv, SMTT(30) DEF Sleep, IInv, TypeOK
  <1>4. ASSUME NEW w \in Workers, SpuriousWakeup(w) PROVE IInv'
    <2>1. TypeOK' /\ ExitOrder'
      BY <1>4, SMTT(30) DEF SpuriousWakeup, IInv, TypeOK, ExitOrder
    <2> QED BY <1>4, <2>1, ThreadStepInv DEF SpuriousWakeup, IInv, TypeOK
  <1>5. ASSUME NEW w \in Workers, Take(w) PROVE IInv'
    BY <1>5, TakeInv
  <1>6. ASSUME NEW w \in Workers, Finish(w) PROVE IInv'
    BY <1>6, FinishInv
  <1>7. ASSUME NEW w \in Workers, Exit(w) PROVE IInv'
    <2>1. TypeOK' /\ ExitOrder'
      BY <1>7, SMTT(30) DEF Exit, IInv, TypeOK, ExitOrder
    <2> QED BY <1>7, <2>1, ThreadStepInv, SMTT(30) DEF Exit, IInv, TypeOK
  <1>8. ASSUME NEW c \in Callers, BeginShutdown(c) PROVE IInv'
    <2>1. TypeOK' /\ ExitOrder'
      BY <1>8 DEF BeginShutdown, NotifyAll, IInv, TypeOK, ExitOrder
    <2> QED BY <1>8, <2>1, ThreadStepInv, SMTT(30) DEF BeginShutdown, NotifyAll, IInv, TypeOK
  <1>9. ASSUME NEW c \in Callers, Joined(c) PROVE IInv'
    <2>1. TypeOK' /\ ExitOrder'
      BY <1>9 DEF Joined, IInv, TypeOK, ExitOrder
    <2> QED BY <1>9, <2>1, ThreadStepInv, SMTT(30) DEF Joined
  <1>10. CASE UNCHANGED vars
    <2>1. TypeOK' /\ ExitOrder'
      BY <1>10 DEF vars, IInv, TypeOK, ExitOrder
    <2> QED BY <1>10, <2>1, ThreadStepInv, SMTT(30) DEF vars
  <1>11. CASE Stopped
    BY <1>11, <1>10 DEF Stopped
  <1> QED
    BY <1>1, <1>2, <1>3, <1>4, <1>5, <1>6, <1>7, <1>8, <1>9, <1>10, <1>11, SMTT(30)
    DEF Next, WorkerStep
-----------------------------------------------------------------------------
\* The type invariant and the strengthening hold in every reachable state.
THEOREM Invariance == Spec => []IInv
  BY InitInv, NextInv, PTL DEF Spec

\* Every variable of the scheduler keeps its type: in particular max_band_
\* stays a valid index or -1 and queue_depth_ never goes below zero.
THEOREM TypeCorrect == Spec => []TypeOK
  <1>1. IInv => TypeOK
    BY DEF IInv
  <1> QED BY <1>1, Invariance, PTL

\* queue_depth_ is the number of queued tasks, is bounded by max_queued, and
\* max_band_ hides no task from pop(), whatever the workers and clients do.
THEOREM DepthIsWorkAlways == Spec => []DepthIsWork
  <1>1. IInv => DepthIsWork
    <2> SUFFICES ASSUME IInv PROVE DepthIsWork
      OBVIOUS
    <2>1. \A t \in Queued : \E i \in DOMAIN queues[Band(t)] : queues[Band(t)][i] = t
      <3> TAKE t \in Queued
      <3>1. queues[Band(t)] \in Seq(Tasks)
        BY BandType DEF Queued, IInv, TypeOK
      <3> QED BY <3>1 DEF IInv, BandsHoldQueued
    <2> QED BY <2>1 DEF IInv, DepthIsWork, DepthExact, TopCovers
  <1> QED BY <1>1, Invariance, PTL

\* When the shutdown() that joins has returned, no task is queued or running
\* and no worker is left.
THEOREM JoinedMeansDrainedAlways == Spec => []JoinedMeansDrained
  <1>1. IInv => JoinedMeansDrained
    <2> SUFFICES ASSUME IInv, NEW c \in Callers, caller[c] = "joined"
                 PROVE  /\ \A t \in Tasks : task[t] \in {"new", "refused", "done"}
                        /\ \A w \in Workers : wpc[w] = "exited"
      BY DEF JoinedMeansDrained
    <2>1. \A w \in Workers : wpc[w] = "exited"
      BY DEF IInv, ExitOrder
    <2>2. queue_depth = 0
      BY <2>1, SchedulerConstants DEF IInv, ExitOrder
    <2>3. Queued = {}
      BY <2>2, QueuedFinite, FS_EmptySet, Zenon DEF IInv, DepthExact
    <2>4. \A t \in Tasks : task[t] # "running"
      BY <2>1 DEF IInv, WorkersHoldRunning
    <2> QED BY <2>1, <2>3, <2>4 DEF Queued, IInv, TypeOK
  <1> QED BY <1>1, Invariance, PTL

\* pop() is a strict priority queue: a task starts only when no task of a
\* higher band is queued.
THEOREM StrictPriorityAlways == Spec => StrictPriority
  <1> DEFINE Step == \A t \in Tasks : task[t] = "queued" /\ task'[t] = "running" =>
                       \A u \in Queued : Band(u) <= Band(t)
  <1>1. IInv /\ [Next]_vars => [Step]_vars
    <2> SUFFICES ASSUME IInv, Next, NEW t \in Tasks,
                        task[t] = "queued", task'[t] = "running",
                        NEW u \in Queued
                 PROVE  Band(u) <= Band(t)
      OBVIOUS
    <2>1. PICK w \in Workers : Take(w)
      BY Zenon DEF Next, WorkerStep, SubmitAccepted, SubmitRefused, Sleep, SpuriousWakeup,
             Finish, Exit, BeginShutdown, Joined, Stopped, vars, IInv, TypeOK
    <2>2. PICK b \in Bands : IsTop(b) /\ task' = [task EXCEPT ![Head(queues[b])] = "running"]
      BY <2>1, TopExists DEF Take
    <2>3. queues[b] \in Seq(Tasks) /\ queues[b] # <<>>
      BY <2>2 DEF IsTop, IInv, TypeOK
    <2>4. Head(queues[b]) = queues[b][1] /\ 1 \in 1 .. Len(queues[b])
      BY <2>3
    <2>5. t = Head(queues[b])
      BY <2>2 DEF IInv, TypeOK
    <2>6. Band(t) = b
      BY <2>4, <2>5 DEF IInv, BandsHoldQueued
    <2>7. Band(u) \in Bands /\ queues[Band(u)] \in Seq(Tasks)
      BY BandType DEF Queued, IInv, TypeOK
    <2>8. queues[Band(u)] # <<>>
      BY <2>7 DEF IInv, BandsHoldQueued
    <2>9. Band(u) <= max_band /\ ~ (b < Band(u))
      BY <2>2, <2>7, <2>8, SMTT(30) DEF IInv, TopCovers, IsTop
    <2>10. Band(u) \in Int /\ b \in Int
      BY <2>7 DEF Bands
    <2> QED BY <2>6, <2>9, <2>10
  <1>2. IInv /\ [Next]_vars => IInv'
    BY NextInv
  <1> QED BY <1>1, Invariance, PTL DEF Spec, StrictPriority

\* A worker sleeps on cv_ only while there is nothing to be done.
Asleep == \A w \in Workers : wpc[w] = "waiting" => ~shutting_down /\ queue_depth = 0

\* No wakeup is lost: a worker that sleeps has nothing queued to miss and no
\* shutdown to follow, and as long as a task is queued some worker will come back
\* to the queue without being woken.
NoLostWakeup ==
  /\ \A w \in Workers : wpc[w] = "waiting" => ~shutting_down /\ Queued = {}
  /\ Queued # {} => \E w \in Workers : wpc[w] \in {"ready", "running"}

\* notify_all() leaves nobody asleep.
LEMMA NobodyAsleep ==
  ASSUME TypeOK, NotifyAll, NEW w \in Workers
  PROVE  wpc'[w] # "waiting"
  BY Zenon DEF NotifyAll

\* Every step keeps it: submit() and shutdown() wake all, and the predicate is
\* tested in the critical section that ends in the wait.
LEMMA AsleepNext ==
  ASSUME IInv, Asleep, [Next]_vars
  PROVE  Asleep'
  <1>0. TypeOK /\ queue_depth \in Nat /\ DOMAIN wpc = Workers
    BY DEF IInv, TypeOK
  <1>1. CASE \E t \in Tasks : SubmitAccepted(t)
    <2>1. NotifyAll
      BY <1>1, Zenon DEF SubmitAccepted
    <2> QED BY <1>0, <2>1, NobodyAsleep, Zenon DEF Asleep
  <1>2. CASE \E t \in Tasks : SubmitRefused(t)
    <2>1. UNCHANGED <<wpc, shutting_down, queue_depth>>
      BY <1>2 DEF SubmitRefused
    <2> QED BY <2>1 DEF Asleep
  <1>3. CASE \E w \in Workers : Sleep(w)
    <2>1. ~shutting_down /\ queue_depth = 0 /\ UNCHANGED <<shutting_down, queue_depth>>
      BY <1>3, SMTT(30) DEF Sleep
    <2> QED BY <2>1 DEF Asleep
  <1>4. CASE \E w \in Workers : Take(w)
    <2>1. PICK w \in Workers : Take(w)
      BY <1>4
    <2>2. queue_depth > 0 /\ \A v \in Workers : wpc'[v] = "waiting" => wpc[v] = "waiting"
      <3>1. queue_depth > 0
        BY <2>1, Zenon DEF Take
      <3>2. wpc' = wpc \/ wpc' = [wpc EXCEPT ![w] = "running"]
        BY <2>1, Zenon DEF Take
      <3> QED BY <1>0, <3>1, <3>2, Zenon
    <2>3. queue_depth # 0
      BY <1>0, <2>2
    <2> QED BY <2>2, <2>3, Zenon DEF Asleep
  <1>5. CASE \E w \in Workers : Finish(w) \/ Exit(w) \/ SpuriousWakeup(w)
    BY <1>0, <1>5, Zenon DEF Finish, Exit, SpuriousWakeup, Asleep
  <1>6. CASE \E c \in Callers : BeginShutdown(c)
    <2>1. NotifyAll
      BY <1>6, Zenon DEF BeginShutdown
    <2> QED BY <1>0, <2>1, NobodyAsleep, Zenon DEF Asleep
  <1>7. CASE \E c \in Callers : Joined(c)
    BY <1>7, Zenon DEF Joined, Asleep
  <1>8. CASE UNCHANGED vars
    BY <1>8, Zenon DEF vars, Asleep
  <1> QED
    BY <1>1, <1>2, <1>3, <1>4, <1>5, <1>6, <1>7, <1>8, ZenonT(40) DEF Next, WorkerStep, Stopped

\* However submissions, wakeups, task bodies and shutdowns interleave, no worker
\* sleeps through a task or a shutdown, and a queued task has a worker that is
\* on its way to the queue.  It is what AcceptedTasksRun and ShutdownTerminates
\* need besides fair threads.
THEOREM NoLostWakeupAlways == Spec => []NoLostWakeup
  <1>1. Init => Asleep
    BY Zenon DEF Init, Asleep
  <1>2. IInv /\ Asleep /\ [Next]_vars => Asleep'
    BY AsleepNext, Zenon
  <1>3. ASSUME IInv, Asleep PROVE NoLostWakeup
    <2>1. queue_depth = 0 => Queued = {}
      BY <1>3, QueuedFinite, FS_EmptySet, Zenon DEF IInv, DepthExact
    <2>2. PICK w \in Workers : TRUE
      BY SchedulerConstants
    <2>3. wpc[w] \in {"ready", "waiting", "running", "exited"}
      BY <1>3, Zenon DEF IInv, TypeOK
    <2>4. Queued # {} => wpc[w] # "waiting" /\ wpc[w] # "exited"
      BY <1>3, <2>1, Zenon DEF IInv, ExitOrder, Asleep
    <2>5. Queued # {} => wpc[w] \in {"ready", "running"}
      BY <2>3, <2>4, Zenon
    <2> QED BY <1>3, <2>1, <2>5, Zenon DEF NoLostWakeup, Asleep
  <1>4. IInv /\ Asleep => NoLostWakeup
    BY <1>3, Zenon
  <1> QED BY <1>1, <1>2, <1>4, Invariance, PTL DEF Spec
-----------------------------------------------------------------------------
\* Whether a shutdown() that joined has returned: drained of the executor.
Returned == \E c \in Callers : caller[c] = "joined"

\* A scheduler step that leaves the mapped variables alone is a stutter of the
\* executor.
LEMMA Stutter ==
  ASSUME UNCHANGED <<order, Running, Done, shutting_down, Returned>>
  PROVE  UNCHANGED Executor!vars
  BY Zenon DEF Executor!vars, Returned

\* The tasks a step leaves as they were.
LEMMA SameTasks ==
  ASSUME task' = task
  PROVE  Running' = Running /\ Done' = Done
  BY DEF Running, Done

\* A worker that is not in a task body leaves a slot free.
LEMMA SlotFree ==
  ASSUME IInv, NEW w \in Workers, wpc[w] # "running"
  PROVE  Cardinality(Running) < Cardinality(Workers)
  <1> DEFINE holder == [t \in Running |->
                          CHOOSE v \in Workers : wpc[v] = "running" /\ holds[v] = t]
  <1>1. \A t \in Running : /\ holder[t] \in Workers /\ wpc[holder[t]] = "running"
                           /\ holds[holder[t]] = t
    <2> TAKE t \in Running
    <2>1. \E v \in Workers : wpc[v] = "running" /\ holds[v] = t
      BY Zenon DEF Running, IInv, WorkersHoldRunning
    <2>2. holder[t] = CHOOSE v \in Workers : wpc[v] = "running" /\ holds[v] = t
      BY Zenon
    <2> QED BY <2>1, <2>2, Zenon
  <1>2. holder \in [Running -> Workers \ {w}] /\ DOMAIN holder = Running
    <2>1. \A t \in Running : holder[t] \in Workers \ {w}
      BY <1>1, Zenon
    <2> QED BY <2>1, Zenon
  <1> HIDE DEF holder
  <1>3. \A t, u \in Running : holder[t] = holder[u] => t = u
    BY <1>1, Zenon
  <1>4. holder \in Injection(Running, Workers \ {w})
    BY <1>2, <1>3, Zenon DEF Injection, IsInjective
  <1>5. /\ IsFiniteSet(Workers \ {w})
        /\ Cardinality(Workers \ {w}) = Cardinality(Workers) - 1
    BY SchedulerConstants, FS_RemoveElement, Zenon
  <1>6. IsFiniteSet(Running) /\ Cardinality(Running) <= Cardinality(Workers \ {w})
    BY <1>4, <1>5, FS_Injection, Zenon
  <1>7. Cardinality(Running) \in Nat /\ Cardinality(Workers) \in Nat
    BY <1>6, SchedulerConstants, FS_CardinalityType, Zenon
  <1> QED BY <1>5, <1>6, <1>7

\* The head of the band pop() stops at is the earliest task of the highest
\* band that is pending.
LEMMA TopIsForemost ==
  ASSUME IInv, NEW b \in Bands, IsTop(b),
         NEW at \in 1 .. Len(order), order[at] = Head(queues[b])
  PROVE  Executor!Foremost(at)
  <1> DEFINE h == Head(queues[b])
  <1>1. queues[b] \in Seq(Tasks) /\ queues[b] # <<>>
    BY Zenon DEF IsTop, IInv, TypeOK
  <1>2. h = queues[b][1] /\ h \in Tasks /\ 1 \in 1 .. Len(queues[b])
    BY <1>1
  <1>3. Band(h) = b
    <2>1. Band(queues[b][1]) = b
      BY <1>2, Zenon DEF IInv, BandsHoldQueued
    <2> QED BY <1>2, <2>1
  <1> HIDE DEF h
  <1>4. order[at] = h
    BY Zenon DEF h
  <1>5. order \in Seq(Tasks) /\ DOMAIN order = 1 .. Len(order) /\ Len(order) \in Nat
    BY DEF IInv, TypeOK
  <1>6. SUFFICES ASSUME NEW j \in 1 .. Len(order)
                 PROVE  Band(order[j]) < b \/ (Band(order[j]) = b /\ at <= j)
    <2>1. \A j \in 1 .. Len(order) : [t \in Tasks |-> Band(t)][order[j]] = Band(order[j])
      BY <1>5
    <2> QED BY <1>3, <1>4, <1>5, <1>6, <2>1, Zenon DEF Executor!Foremost
  <1>7. PICK u \in Tasks : u = order[j]
    BY <1>5
  <1>8. u \in Queued
    BY <1>7, Zenon DEF IInv, OrderFits, Queued
  <1>9. Band(u) \in Bands /\ queues[Band(u)] \in Seq(Tasks)
    BY BandType, Zenon DEF IInv, TypeOK
  <1>10. PICK k \in 1 .. Len(queues[Band(u)]) : queues[Band(u)][k] = u
    BY <1>8, Zenon DEF IInv, BandsHoldQueued
  <1>11. queues[Band(u)] # <<>>
    BY <1>9, <1>10
  <1>12. Band(u) <= max_band /\ ~(b < Band(u))
    BY <1>9, <1>11, Zenon DEF IInv, TopCovers, IsTop
  <1>13. Band(u) \in Int /\ b \in Int
    BY <1>9 DEF Bands
  <1>14. CASE Band(u) # b
    BY <1>7, <1>12, <1>13, <1>14
  <1>15. CASE Band(u) = b
    <2>1. k \in 1 .. Len(queues[b]) /\ queues[b][k] = u
      BY <1>10, <1>15, Zenon
    <2>2. CASE k = 1
      <3>1. order[j] = order[at]
        BY <1>2, <1>4, <1>7, <2>1, <2>2, Zenon
      <3>2. j = at
        BY <3>1, Zenon DEF IInv, OrderFits
      <3> QED BY <1>5, <1>7, <1>15, <3>2
    <2>3. CASE k # 1
      <3>1. 1 < k
        BY <1>1, <2>1, <2>3
      <3>2. order[at] = queues[b][1] /\ order[j] = queues[b][k]
        BY <1>2, <1>4, <1>7, <2>1, Zenon
      <3>3. at < j
        BY <1>2, <2>1, <3>1, <3>2 DEF IInv, OrderFits
      <3> QED BY <1>5, <1>7, <1>15, <3>3
    <2> QED BY <2>2, <2>3, Zenon
  <1> QED BY <1>14, <1>15, Zenon

\* submit() that accepts is Accept.
LEMMA AcceptStep ==
  ASSUME IInv, NEW t \in Tasks, SubmitAccepted(t)
  PROVE  Executor!Accept(t)
  <1>1. /\ ~shutting_down /\ task[t] = "new" /\ order' = Append(order, t)
        /\ queue_depth < max_queued /\ task' = [task EXCEPT ![t] = "queued"]
        /\ UNCHANGED <<shutting_down, caller>>
    BY Zenon DEF SubmitAccepted
  <1>2. Len(order) < max_queued
    BY <1>1, Zenon DEF IInv, OrderFits
  <1>3. t \notin Executor!Pending
    <2>1. DOMAIN order = 1 .. Len(order)
      BY DEF IInv, TypeOK
    <2>2. \A i \in 1 .. Len(order) : task[order[i]] = "queued"
      BY Zenon DEF IInv, OrderFits
    <2> QED BY <1>1, <2>1, <2>2 DEF Executor!Pending
  <1>4. t \notin Running /\ t \notin Done
    BY <1>1 DEF Running, Done
  <1>5. Running' = Running /\ Done' = Done
    BY <1>1 DEF Running, Done, IInv, TypeOK
  <1>6. Returned' = Returned
    BY <1>1 DEF Returned
  <1> QED BY <1>1, <1>2, <1>3, <1>4, <1>5, <1>6 DEF Executor!Accept, Returned

\* pop() that succeeds is Start of the earliest pending task of the highest
\* band, and it always succeeds.
LEMMA StartStep ==
  ASSUME IInv, NEW w \in Workers, Take(w)
  PROVE  \E i \in DOMAIN order : Executor!Start(i)
  <1>1. PICK b \in Bands :
          /\ IsTop(b) /\ task' = [task EXCEPT ![Head(queues[b])] = "running"]
          /\ order' = Without(order, Head(queues[b]))
    BY TopExists, Zenon DEF Take
  <1>2. wpc[w] = "ready" /\ UNCHANGED <<shutting_down, caller>>
    BY Zenon DEF Take
  <1> DEFINE h == Head(queues[b])
  <1>3. queues[b] \in Seq(Tasks) /\ queues[b] # <<>>
    BY <1>1, Zenon DEF IsTop, IInv, TypeOK
  <1>4. h = queues[b][1] /\ h \in Tasks /\ 1 \in 1 .. Len(queues[b])
    BY <1>3
  <1>5. task[h] = "queued"
    <2>1. task[queues[b][1]] = "queued"
      BY <1>4, Zenon DEF IInv, BandsHoldQueued
    <2> QED BY <1>4, <2>1
  <1>6. DOMAIN order = 1 .. Len(order)
    BY DEF IInv, TypeOK
  <1>7. \E i \in DOMAIN order : order[i] = h
    BY <1>4, <1>5, <1>6, Zenon DEF IInv, OrderFits, Queued
  <1>8. PICK at : at = CHOOSE i \in DOMAIN order : order[i] = h
    BY Zenon
  <1>9. at \in DOMAIN order /\ order[at] = h
    BY <1>7, <1>8, Zenon
  <1>10. order' = SubSeq(order, 1, at - 1) \o SubSeq(order, at + 1, Len(order))
    BY <1>1, <1>8, Zenon DEF Without
  <1>11. Executor!Foremost(at)
    BY <1>1, <1>6, <1>9, TopIsForemost, Zenon
  <1>12. Cardinality(Running) < Cardinality(Workers)
    BY <1>2, SlotFree
  <1>13. Running' = Running \cup {h} /\ Done' = Done
    <2> HIDE DEF h
    <2>1. task' = [task EXCEPT ![h] = "running"] /\ DOMAIN task = Tasks
      BY <1>1, Zenon DEF h, IInv, TypeOK
    <2>2. task'[h] = "running" /\ \A t \in Tasks : t # h => task'[t] = task[t]
      BY <1>4, <2>1, Zenon
    <2> QED BY <1>4, <1>5, <2>2 DEF Running, Done
  <1>14. Returned' = Returned
    BY <1>2 DEF Returned
  <1>15. Executor!Start(at)
    <2> HIDE DEF h
    <2>1. Running' = Running \cup {order[at]}
      BY <1>9, <1>13, Zenon
    <2>2. Executor!Cardinality(Running) = Cardinality(Running)
      BY Zenon DEF Executor!Cardinality, Cardinality
    <2> QED
      BY <1>2, <1>9, <1>10, <1>11, <1>12, <1>13, <1>14, <2>1, <2>2, Zenon
      DEF Executor!Start, Returned
  <1> QED BY <1>9, <1>15, Zenon

\* A body that returns is Finish of the task its worker holds.
LEMMA FinishStep ==
  ASSUME IInv, NEW w \in Workers, Finish(w)
  PROVE  \E t \in Running : Executor!Finish(t)
  <1>1. PICK h : h = holds[w]
    BY Zenon
  <1>2. /\ wpc[w] = "running" /\ task' = [task EXCEPT ![h] = "done"]
        /\ UNCHANGED <<shutting_down, caller, order>>
    BY <1>1, Zenon DEF Finish
  <1>3. h \in Tasks /\ task[h] = "running"
    BY <1>1, <1>2, Zenon DEF IInv, WorkersHoldRunning
  <1>4. task'[h] = "done" /\ \A t \in Tasks : t # h => task'[t] = task[t]
    BY <1>2, <1>3, Zenon DEF IInv, TypeOK
  <1>5. h \in Running /\ Running' = Running \ {h} /\ Done' = Done \cup {h}
    BY <1>3, <1>4 DEF Running, Done
  <1>6. Returned' = Returned
    BY <1>2 DEF Returned
  <1> QED BY <1>2, <1>5, <1>6, Zenon DEF Executor!Finish, Returned

\* The first shutdown() is Close, any later one a stutter.
LEMMA CloseStep ==
  ASSUME IInv, NEW c \in Callers, BeginShutdown(c)
  PROVE  Executor!Close \/ UNCHANGED Executor!vars
  <1>1. /\ caller[c] = "idle" /\ shutting_down' = TRUE
        /\ caller' = [caller EXCEPT ![c] = IF shutting_down THEN "returned" ELSE "joining"]
        /\ UNCHANGED <<task, order>>
    BY Zenon DEF BeginShutdown
  <1>2. Running' = Running /\ Done' = Done
    BY <1>1, SameTasks
  <1>3. Returned' = Returned
    <2>1. \A d \in Callers : caller'[d] = "joined" <=> caller[d] = "joined"
      BY <1>1 DEF IInv, TypeOK
    <2> QED BY <2>1 DEF Returned
  <1>4. shutting_down \in BOOLEAN
    BY DEF IInv, TypeOK
  <1>5. CASE shutting_down
    BY <1>1, <1>2, <1>3, <1>4, <1>5, Stutter
  <1>6. CASE ~shutting_down
    BY <1>1, <1>2, <1>3, <1>6, Zenon DEF Executor!Close, Returned
  <1> QED BY <1>5, <1>6, Zenon

\* The join loop that ends is CloseReturns: every worker left an empty queue.
LEMMA CloseReturnsStep ==
  ASSUME IInv, NEW c \in Callers, Joined(c)
  PROVE  Executor!CloseReturns
  <1>1. /\ caller[c] = "joining" /\ \A w \in Workers : wpc[w] = "exited"
        /\ caller' = [caller EXCEPT ![c] = "joined"]
        /\ UNCHANGED <<shutting_down, task, order>>
    BY Zenon DEF Joined
  <1>2. shutting_down /\ queue_depth = 0
    <2>1. PICK w \in Workers : TRUE
      BY SchedulerConstants, Zenon
    <2> QED BY <1>1, <2>1, Zenon DEF IInv, ExitOrder
  <1>3. order = <<>>
    <2>1. order \in Seq(Tasks) /\ Len(order) = 0
      BY <1>2, Zenon DEF IInv, TypeOK, OrderFits
    <2> QED BY <2>1
  <1>4. Running = {}
    <2>1. \A t \in Tasks : task[t] # "running"
      BY <1>1 DEF IInv, WorkersHoldRunning
    <2> QED BY <2>1, Zenon DEF Running
  <1>5. Returned'
    <2>1. caller'[c] = "joined"
      BY <1>1, Zenon DEF IInv, TypeOK
    <2> QED BY <2>1, Zenon DEF Returned
  <1>6. Running' = Running /\ Done' = Done
    BY <1>1, SameTasks
  <1> QED BY <1>1, <1>2, <1>3, <1>4, <1>5, <1>6 DEF Executor!CloseReturns, Returned

\* Every step of the scheduler is a step of the executor or a stutter.
LEMMA ExecutorStep ==
  ASSUME IInv, [Next]_vars
  PROVE  [Executor!Next]_(Executor!vars)
  <1>1. ASSUME NEW t \in Tasks, SubmitAccepted(t) PROVE Executor!Next
    BY <1>1, AcceptStep, Zenon DEF Executor!Next
  <1>2. ASSUME NEW t \in Tasks, SubmitRefused(t) PROVE UNCHANGED Executor!vars
    <2>1. /\ task[t] = "new" /\ task' = [task EXCEPT ![t] = "refused"]
          /\ UNCHANGED <<shutting_down, caller, order>>
      BY <1>2, Zenon DEF SubmitRefused
    <2>2. Running' = Running /\ Done' = Done
      BY <2>1 DEF Running, Done, IInv, TypeOK
    <2>3. Returned' = Returned
      BY <2>1 DEF Returned
    <2> QED BY <2>1, <2>2, <2>3, Stutter
  <1>3. ASSUME UNCHANGED <<task, order, shutting_down, caller>>
        PROVE  UNCHANGED Executor!vars
    <2>1. Running' = Running /\ Done' = Done
      BY <1>3, SameTasks
    <2>2. Returned' = Returned
      BY <1>3 DEF Returned
    <2> QED BY <1>3, <2>1, <2>2, Stutter
  <1>4. ASSUME NEW w \in Workers, Sleep(w) \/ Exit(w) \/ SpuriousWakeup(w)
        PROVE  UNCHANGED Executor!vars
    BY <1>3, <1>4, Zenon DEF Sleep, Exit, SpuriousWakeup
  <1>5. ASSUME NEW w \in Workers, Take(w) PROVE Executor!Next
    BY <1>5, StartStep, Zenon DEF Executor!Next
  <1>6. ASSUME NEW w \in Workers, Finish(w) PROVE Executor!Next
    BY <1>6, FinishStep, Zenon DEF Executor!Next
  <1>7. ASSUME NEW c \in Callers, BeginShutdown(c) PROVE [Executor!Next]_(Executor!vars)
    BY <1>7, CloseStep, Zenon DEF Executor!Next
  <1>8. ASSUME NEW c \in Callers, Joined(c) PROVE Executor!Next
    BY <1>8, CloseReturnsStep, Zenon DEF Executor!Next
  <1>9. ASSUME UNCHANGED vars PROVE UNCHANGED Executor!vars
    BY <1>3, <1>9, Zenon DEF vars
  <1> QED
    BY <1>1, <1>2, <1>4, <1>5, <1>6, <1>7, <1>8, <1>9, Zenon
    DEF Next, WorkerStep, Stopped

\* The worker pool implements the abstract executor step by step: whatever the
\* threads do, accepted tasks stay within the bound, each starts once, as the
\* earliest of the highest band and only while a slot is free, and shutdown()
\* returns from its join only when nothing is pending or running.
THEOREM ImplementsExecutorSteps ==
  Spec => Executor!Init /\ [][Executor!Next]_(Executor!vars)
  <1>1. Init => Executor!Init
    BY DEF Init, Executor!Init, Running, Done
  <1>2. IInv /\ [Next]_vars => [Executor!Next]_(Executor!vars)
    BY ExecutorStep
  <1> QED BY <1>1, <1>2, Invariance, PTL DEF Spec
=============================================================================
