--------------------------- MODULE PipelineProofs ---------------------------
(***************************************************************************)
(* Proofs about module Pipeline for any number of transfers, chunks, legs, *)
(* slots and buffers, any free list and any begin of a file region,        *)
(* provided that the endpoints of a transfer are its own                   *)
(* (PrivateEndpoints).  What happens without is the instance               *)
(* MCPipelineShared.                                                       *)
(***************************************************************************)
EXTENDS Pipeline, TLAPS

\* In the chunk loop; there between the wait for the slot and the end of the
\* last leg; with rings; and before the rings are complete.
Working == {"head", "sync", "leg", "read", "seek", "write"}
Copying == {"leg", "read", "seek", "write"}
Owning  == Working \cup {"release"}
Verifying == {"hash", "hash_read", "compare", "compare_read"}
Ringless == {"idle", "reserve", "over"}
Before == {"idle", "reserve"}

Owns(t, b) == pc[t] \in Holding /\ b \in Range(bufs[t])

\* Chunk c is where the plan puts it.
Arrived(t, c) == data[Dest[t]][DstOff[t] + c] = Carried(t, c)

\* No buffer is in two slots.
Distinct(b) == \A i, k \in DOMAIN b : b[i] = b[k] => i = k

\* A transfer that the history does not name has each of its buffers once, and
\* nobody else has it.
Exclusive ==
  \A t \in Transfers \ shared :
    /\ pc[t] \in Holding => Distinct(bufs[t])
    /\ \A u \in Transfers, b \in Buffers : Owns(t, b) /\ Owns(u, b) => t = u

\* No transfer writes to a source.
SourcesIntact ==
  \A t \in Transfers : \A i \in 0 .. Cells[Source[t]] - 1 :
    data[Source[t]][i] = Initially(Source[t], i)

\* What is queued on the streams of t.
Streams(t) ==
  /\ \A c \in inflight[t] : c < ci[t]
  /\ ~async[t] => inflight[t] = {} /\ broken[t] = {}
  /\ async[t] => Streamed(t)
  /\ pc[t] \in Before => ci[t] = 0 /\ ~async[t]
  /\ pc[t] = "idle" => bufs[t] = <<>>
  /\ pc[t] \in Working \cup Verifying \cup Before => result[t] = "ok"
  /\ pc[t] \notin Working /\ result[t] = "ok" => inflight[t] = {}
  /\ pc[t] \notin Owning \cup {"destroy"} => inflight[t] = {}

\* Where the worker is: the positions it has set, and for the chunk at hand
\* that its slots are not read by a stream.
Current(t) ==
  /\ pc[t] \in Copying => \A c \in inflight[t] : Slot(c) # Slot(ci[t])
  /\ pc[t] = "read" => FromFile(t) /\ pos[Source[t]] = SrcOff[t] + ci[t]
  /\ pc[t] = "seek" => FromFile(t) /\ ToFile(t)
  /\ pc[t] = "write" => ToFile(t) /\ pos[Dest[t]] = DstOff[t] + ci[t]

\* The chunk has come as far as the leg says.
AtHand(t) ==
  t \notin shared =>
    /\ pc[t] \in Copying /\ li[t] > 0 => mem[BufferAt(t, li[t], ci[t])] = Carried(t, ci[t])
    /\ pc[t] \in {"seek", "write"} /\ FromFile(t) => tmp[t] = Carried(t, ci[t])

\* The chunks before it: queued with the right content, lost on a stream that
\* will report it, or delivered.
Earlier(t) ==
  t \notin shared =>
    /\ result[t] = "ok" =>
         \A c \in inflight[t] : mem[BufferAt(t, Legs[t] - 1, c)] = Carried(t, c)
    /\ pc[t] \in Working =>
         \A c \in 0 .. ci[t] - 1 :
           c \in inflight[t] \/ Slot(c) \in broken[t] \/ Arrived(t, c)
    /\ pc[t] \notin Working \cup Before /\ result[t] = "ok" =>
         \A c \in 0 .. Chunks[t] - 1 : Arrived(t, c)

BothHashed(t) == HashedAsAsked(Source[t]) /\ HashedAsAsked(Dest[t])

\* The digest of the region that was asked for.
Expected(t) ==
  [k \in 0 .. Chunks[t] - 1 |-> Initially(Source[t], CellAt(Source[t], SrcOff[t] + k))]

\* The verification, which does not depend on who has the buffers: positions
\* set behind desc.offset, the digest of the source, and what a success says.
Checked(t) ==
  /\ pc[t] = "hash_read" => pos[Source[t]] = Start[Source[t]] + SrcOff[t]
  /\ pc[t] = "compare_read" => pos[Dest[t]] = Start[Dest[t]] + DstOff[t]
  /\ pc[t] \in {"hash_read", "compare_read"} =>
       Kind[IF pc[t] = "hash_read" THEN Source[t] ELSE Dest[t]] = "file"
  /\ pc[t] \in {"compare", "compare_read"} /\ BothHashed(t) =>
       digest[t] \in {Nothing, Expected(t)}
  /\ Settled(t) /\ result[t] = "ok" /\ Verified[t] /\ BothHashed(t) =>
       \A c \in 0 .. Chunks[t] - 1 : InPlace(t, c)

Local(t) == Streams(t) /\ Current(t) /\ AtHand(t) /\ Earlier(t) /\ Checked(t)

\* The inductive invariant.
IInv ==
  /\ TypeOK
  /\ Exclusive
  /\ SourcesIntact
  /\ \A t \in Transfers : Local(t)
-----------------------------------------------------------------------------
(* Facts about slots, rings and contents.                                  *)

\* A chunk index has a slot, and the first chunks have different ones.
LEMMA SlotFacts ==
  \A c \in Nat : Slot(c) \in Slots /\ (c < Depth => Slot(c) = c)
  <1>1. Depth \in Nat \ {0}
    BY PipelineConstants, Zenon
  <1> QED BY <1>1 DEF Slot, Slots

\* The places of the slots of n rings, no two slots at one.
LEMMA PlaceFacts ==
  ASSUME NEW n \in Nat, NEW j \in 1 .. n, NEW s \in Slots
  PROVE  /\ Place(j, s) \in 1 .. n * Depth
         /\ \A k \in 1 .. n, r \in Slots : Place(j, s) = Place(k, r) => s = r
  <1>1. Depth \in Nat /\ Depth > 0 /\ s \in Nat /\ s < Depth /\ j \in Nat /\ j >= 1 /\ j <= n
    BY PipelineConstants DEF Slots
  <1>2. /\ (j - 1) * Depth \in Nat /\ n * Depth \in Nat
        /\ (j - 1) * Depth + Depth <= n * Depth
    <2>1. /\ j * Depth = (j - 1) * Depth + Depth
          /\ (n - j) * Depth >= 0
          /\ n * Depth = j * Depth + (n - j) * Depth
      BY <1>1
    <2> QED BY <1>1, <2>1
  <1>3. Place(j, s) \in 1 .. n * Depth
    BY <1>1, <1>2 DEF Place
  <1>4. ASSUME NEW k \in 1 .. n, NEW r \in Slots, Place(j, s) = Place(k, r)
        PROVE  s = r
    <2>1. r \in Nat /\ r < Depth /\ k \in Nat /\ k >= 1
      BY <1>1 DEF Slots
    <2>2. (j - 1) * Depth + s = (k - 1) * Depth + r
      BY <1>1, <1>4, <2>1 DEF Place
    <2>3. s - r = (k - j) * Depth
      BY <1>1, <2>1, <2>2
    <2>4. CASE k = j
      BY <1>1, <2>1, <2>3, <2>4
    <2>5. CASE k > j
      <3>1. (k - j) * Depth >= Depth
        BY <1>1, <2>1, <2>5
      <3> QED BY <1>1, <2>1, <2>3, <3>1
    <2>6. CASE k < j
      <3>1. (k - j) * Depth <= 0 - Depth
        BY <1>1, <2>1, <2>6
      <3> QED BY <1>1, <2>1, <2>3, <3>1
    <2> QED BY <1>1, <2>1, <2>4, <2>5, <2>6
  <1> QED BY <1>3, <1>4

\* The buffers in the slots of a ring.
LEMMA RingFacts ==
  ASSUME TypeOK, NEW t \in Transfers, pc[t] \notin Ringless,
         NEW j \in Nat, j > 0, j < Legs[t], NEW c \in Nat
  PROVE  /\ Place(j, Slot(c)) \in DOMAIN bufs[t]
         /\ BufferAt(t, j, c) \in Buffers
         /\ BufferAt(t, j, c) \in Range(bufs[t])
  <1>1. bufs[t] \in Seq(Buffers) /\ Len(bufs[t]) = (Legs[t] - 1) * Depth
    BY Zenon DEF TypeOK, Ringless, Needed
  <1>2. Legs[t] - 1 \in Nat /\ j \in 1 .. Legs[t] - 1 /\ Slot(c) \in Slots
    BY SlotFacts, PipelineConstants
  <1>3. Place(j, Slot(c)) \in 1 .. (Legs[t] - 1) * Depth
    BY <1>2, PlaceFacts, Zenon
  <1>4. Place(j, Slot(c)) \in DOMAIN bufs[t] /\ bufs[t][Place(j, Slot(c))] \in Buffers
    BY <1>1, <1>3
  <1> QED BY <1>4, Zenon DEF BufferAt, Range

\* What a buffer more makes of a sequence, and the sequences of the pool.
LEMMA AppendFacts ==
  ASSUME NEW s \in Seq(Buffers), NEW b \in Buffers
  PROVE  /\ Append(s, b) \in Seq(Buffers)
         /\ Range(Append(s, b)) = Range(s) \cup {b}
         /\ Distinct(s) /\ b \notin Range(s) => Distinct(Append(s, b))
  <1>1. /\ Append(s, b) \in Seq(Buffers) /\ Len(s) \in Nat
        /\ DOMAIN s = 1 .. Len(s) /\ DOMAIN Append(s, b) = 1 .. Len(s) + 1
        /\ \A i \in 1 .. Len(s) : Append(s, b)[i] = s[i]
        /\ Append(s, b)[Len(s) + 1] = b
    OBVIOUS
  <1>2. 1 .. Len(s) + 1 = (1 .. Len(s)) \cup {Len(s) + 1}
    BY <1>1
  <1>3. Range(Append(s, b)) = Range(s) \cup {b}
    BY <1>1, <1>2, ZenonT(20) DEF Range
  <1>4. ASSUME Distinct(s), b \notin Range(s) PROVE Distinct(Append(s, b))
    <2>1. \A i \in 1 .. Len(s) : s[i] # b
      BY <1>1, <1>4, Zenon DEF Range
    <2>2. \A i \in 1 .. Len(s) : i \in DOMAIN s
      BY <1>1, Zenon
    <2>3. \A i, k \in 1 .. Len(s) : s[i] = s[k] => i = k
      BY <1>4, <2>2, Zenon DEF Distinct
    <2>4. \A i, k \in 1 .. Len(s) + 1 : Append(s, b)[i] = Append(s, b)[k] => i = k
      BY <1>1, <1>2, <2>1, <2>3, ZenonT(20)
    <2> QED BY <1>1, <2>4, Zenon DEF Distinct
  <1> QED BY <1>1, <1>3, <1>4, Zenon

\* What a chunk brings.
LEMMA CarriedFacts ==
  ASSUME PrivateEndpoints, NEW t \in Transfers, NEW c \in Nat
  PROVE  /\ Carried(t, c) \in Value
         /\ c < Chunks[t] => /\ SrcOff[t] + c \in 0 .. Cells[Source[t]] - 1
                            /\ DstOff[t] + c \in 0 .. Cells[Dest[t]] - 1
  <1>1. /\ Source[t] \in Endpoints /\ Dest[t] \in Endpoints
        /\ SrcOff[t] \in Nat /\ DstOff[t] \in Nat /\ Chunks[t] \in Nat
        /\ Cells[Source[t]] \in Nat /\ Cells[Dest[t]] \in Nat
        /\ SrcOff[t] + Chunks[t] <= Cells[Source[t]]
        /\ DstOff[t] + Chunks[t] <= Cells[Dest[t]]
    BY PipelineConstants, Zenon DEF PrivateEndpoints
  <1>2. Carried(t, c) \in Value
    BY <1>1 DEF Carried, Value, Initially
  <1> QED BY <1>1, <1>2
-----------------------------------------------------------------------------
(* A step of one transfer leaves the others alone.                         *)

Same(t) ==
  /\ pc'[t] = pc[t] /\ ci'[t] = ci[t] /\ li'[t] = li[t] /\ bufs'[t] = bufs[t]
  /\ async'[t] = async[t] /\ inflight'[t] = inflight[t] /\ broken'[t] = broken[t]
  /\ result'[t] = result[t] /\ tmp'[t] = tmp[t] /\ digest'[t] = digest[t]
  /\ shared \subseteq shared'
  /\ data'[Dest[t]] = data[Dest[t]]
  /\ t \notin shared' => \A b \in Buffers : Owns(t, b) => mem'[b] = mem[b]
  /\ Kind[Source[t]] = "file" => pos'[Source[t]] = pos[Source[t]]
  /\ Kind[Dest[t]] = "file" => pos'[Dest[t]] = pos[Dest[t]]

\* A transfer with queued copies that has not failed is in the loop, and its
\* route has a ring in front of the last leg.
LEMMA QueuedFacts ==
  ASSUME TypeOK, NEW t \in Transfers, Streams(t), NEW c \in inflight[t]
  PROVE  /\ result[t] = "ok" => pc[t] \in Working
         /\ pc[t] \in Owning \cup {"destroy"}
         /\ async[t] /\ Streamed(t)
         /\ Legs[t] - 1 \in Nat /\ Legs[t] - 1 > 0 /\ Legs[t] - 1 < Legs[t]
         /\ c \in Nat /\ c < ci[t] /\ ci[t] \in Nat /\ ci[t] <= Chunks[t]
  <1>1. inflight[t] # {}
    BY Zenon
  <1>2. async[t] /\ Streamed(t)
    BY <1>1, Zenon DEF Streams
  <1>3. /\ result[t] = "ok" => pc[t] \in Working
        /\ pc[t] \in Owning \cup {"destroy"}
    BY <1>1, Zenon DEF Streams
  <1>4. c \in Nat /\ ci[t] \in Nat /\ ci[t] <= Chunks[t] /\ c < ci[t]
    BY Zenon DEF TypeOK, Streams
  <1>5. Legs[t] \in Nat /\ Legs[t] >= 2
    BY <1>2, PipelineConstants, Zenon DEF Streamed
  <1> QED BY <1>2, <1>3, <1>4, <1>5

\* What has buffers: a worker in the loop.
LEMMA WorkingFacts ==
  ASSUME NEW l, l \in Owning
  PROVE  l \in Holding /\ l \notin Ringless
  BY Zenon DEF Owning, Working, Holding, Ringless

LEMMA FrameLocal ==
  ASSUME TypeOK, NEW t \in Transfers, Local(t), Same(t)
  PROVE  Local(t)'
  <1>1. Streams(t)'
    BY Zenon DEF Local, Streams, Same, Streamed
  <1>2. (FromFile(t) <=> FromFile(t)') /\ (ToFile(t) <=> ToFile(t)')
    BY Zenon DEF FromFile, ToFile, LastLeg, Same
  <1>3. Current(t)'
    <2>1. FromFile(t) => Kind[Source[t]] = "file"
      BY Zenon DEF FromFile
    <2>2. ToFile(t) => Kind[Dest[t]] = "file"
      BY Zenon DEF ToFile
    <2> QED BY <1>2, <2>1, <2>2, Zenon DEF Local, Current, Same
  <1>5. t \notin shared' => t \notin shared
    BY Zenon DEF Same
  <1>6. AtHand(t)'
    <2>1. ASSUME t \notin shared', pc[t] \in Copying, li[t] > 0
          PROVE  mem'[BufferAt(t, li[t], ci[t])] = Carried(t, ci[t])
      <3>1. /\ pc[t] \in Owning /\ pc[t] \in Holding /\ pc[t] \notin Ringless
            /\ li[t] \in Nat /\ li[t] < Legs[t] /\ ci[t] \in Nat
        BY <2>1, WorkingFacts, Zenon DEF TypeOK, Copying, Owning, Working
      <3>2. /\ BufferAt(t, li[t], ci[t]) \in Buffers
            /\ BufferAt(t, li[t], ci[t]) \in Range(bufs[t])
        BY <2>1, <3>1, RingFacts, Zenon
      <3>3. mem'[BufferAt(t, li[t], ci[t])] = mem[BufferAt(t, li[t], ci[t])]
        BY <2>1, <3>1, <3>2, Zenon DEF Same, Owns
      <3> QED BY <1>5, <2>1, <3>3, Zenon DEF Local, AtHand
    <2>2. BufferAt(t, li[t], ci[t])' = BufferAt(t, li[t], ci[t])
      BY Zenon DEF BufferAt, Same
    <2>3. Carried(t, ci[t])' = Carried(t, ci[t])
      BY Zenon DEF Carried, Same
    <2> QED BY <1>2, <1>5, <2>1, <2>2, <2>3, Zenon DEF Local, AtHand, Same
  <1>7. Earlier(t)'
    <2>1. ASSUME t \notin shared', result[t] = "ok", NEW c \in inflight[t]
          PROVE  mem'[BufferAt(t, Legs[t] - 1, c)] = Carried(t, c)
      <3>1. /\ pc[t] \in Working /\ c \in Nat
            /\ Legs[t] - 1 \in Nat /\ Legs[t] - 1 > 0 /\ Legs[t] - 1 < Legs[t]
        BY <2>1, QueuedFacts, Zenon DEF Local
      <3>2. pc[t] \notin Ringless /\ pc[t] \in Holding
        BY <3>1, WorkingFacts, Zenon DEF Owning
      <3>3. /\ BufferAt(t, Legs[t] - 1, c) \in Buffers
            /\ BufferAt(t, Legs[t] - 1, c) \in Range(bufs[t])
        BY <3>1, <3>2, RingFacts, Zenon
      <3>4. mem[BufferAt(t, Legs[t] - 1, c)] = Carried(t, c)
        BY <1>5, <2>1, Zenon DEF Local, Earlier
      <3> QED BY <2>1, <3>2, <3>3, <3>4, Zenon DEF Same, Owns
    <2>2. \A c : Arrived(t, c)' <=> Arrived(t, c)
      BY Zenon DEF Arrived, Same, Carried
    <2>3. \A c : BufferAt(t, Legs[t] - 1, c)' = BufferAt(t, Legs[t] - 1, c)
      BY Zenon DEF BufferAt, Same
    <2> QED BY <1>5, <2>1, <2>2, <2>3, Zenon DEF Local, Earlier, Same
  <1>8. Checked(t)'
    <2>1. \A c : InPlace(t, c)' <=> InPlace(t, c)
      BY Zenon DEF InPlace, Same
    <2>2. Settled(t)' <=> Settled(t)
      BY Zenon DEF Settled, Same
    <2> QED BY <2>1, <2>2, Zenon DEF Local, Checked, Same
  <1> QED BY <1>1, <1>3, <1>6, <1>7, <1>8, Zenon DEF Local

\* It is enough to look at the transfer that makes the step.
LEMMA StepInv ==
  ASSUME IInv, NEW u \in Transfers, TypeOK', Exclusive', SourcesIntact', Local(u)',
         \A t \in Transfers : t # u => Same(t)
  PROVE  IInv'
  BY FrameLocal, Zenon DEF IInv

\* The owners of the buffers are those from before.
LEMMA ExclusiveKept ==
  ASSUME Exclusive, shared' = shared,
         \A t \in Transfers : pc'[t] \in Holding => pc[t] \in Holding /\ bufs'[t] = bufs[t]
  PROVE  Exclusive'
  <1>1. \A t \in Transfers, b \in Buffers : Owns(t, b)' => Owns(t, b)
    BY Zenon DEF Owns
  <1> QED BY <1>1, Zenon DEF Exclusive, Distinct

LEMMA ExclusiveStep ==
  ASSUME TypeOK, Exclusive, NEW u \in Transfers, NEW l, pc' = [pc EXCEPT ![u] = l],
         l \in Holding => pc[u] \in Holding, UNCHANGED <<bufs, shared>>
  PROVE  Exclusive'
  <1>1. \A t \in Transfers : pc'[t] \in Holding => pc[t] \in Holding
    BY Zenon DEF TypeOK
  <1> QED BY <1>1, ExclusiveKept, Zenon

LEMMA SourcesKept ==
  ASSUME SourcesIntact, \A t \in Transfers : data'[Source[t]] = data[Source[t]]
  PROVE  SourcesIntact'
  BY Zenon DEF SourcesIntact

Result == {"ok", "cancellation", "backend_failure", "integrity_failure",
           "resource_exhausted"}

\* A step that moves no data: only the place of the worker, its leg, its result,
\* its digest and the position of a file change.
LEMMA ControlStep ==
  ASSUME PrivateEndpoints, IInv, NEW u \in Transfers, NEW l \in Label,
         pc[u] \notin Ringless, l \in Holding => pc[u] \in Holding,
         l \in {"sync", "leg", "read", "seek", "write"} => ci[u] < Chunks[u],
         pc' = [pc EXCEPT ![u] = l],
         li' \in [Transfers -> Nat], li'[u] < Legs[u],
         result' \in [Transfers -> Result],
         pos' \in [Endpoints -> Nat], DOMAIN digest' = Transfers,
         \A t \in Transfers : t # u =>
           li'[t] = li[t] /\ result'[t] = result[t] /\ digest'[t] = digest[t],
         \A e \in Endpoints : pos'[e] # pos[e] =>
           Kind[e] = "file" /\ e \in {Source[u], Dest[u]},
         UNCHANGED <<ci, async, tmp, inflight, broken, mem, data, bufs, free, fresh, shared, cancel>>,
         Local(u)'
  PROVE  IInv'
  <1>1. TypeOK'
    BY Zenon DEF IInv, TypeOK, Result, Ringless
  <1>2. Exclusive'
    BY ExclusiveStep, Zenon DEF IInv
  <1>3. SourcesIntact'
    BY SourcesKept, Zenon DEF IInv
  <1>4. ASSUME NEW t \in Transfers, t # u PROVE Same(t)
    <2>1. /\ Source[t] \in Endpoints /\ Dest[t] \in Endpoints
          /\ Kind[Source[t]] = "file" => Source[t] \notin {Source[u], Dest[u]}
          /\ Dest[t] \notin {Source[u], Dest[u]}
      BY <1>4, PipelineConstants DEF PrivateEndpoints
    <2>2. /\ Kind[Source[t]] = "file" => pos'[Source[t]] = pos[Source[t]]
          /\ pos'[Dest[t]] = pos[Dest[t]]
      BY <2>1, Zenon
    <2>3. pc'[t] = pc[t]
      BY <1>4, Zenon DEF IInv, TypeOK
    <2> QED BY <1>4, <2>2, <2>3, Zenon DEF Same
  <1> QED BY <1>1, <1>2, <1>3, <1>4, StepInv, Zenon

\* Until the streams are destroyed nothing is verified; outside a leg no chunk
\* is at hand.
LEMMA OutsideLeg ==
  ASSUME NEW u \in Transfers, pc'[u] \in Owning \cup {"destroy"}
  PROVE  /\ Checked(u)'
         /\ pc'[u] \notin Copying => Current(u)' /\ AtHand(u)'
  <1>1. Checked(u)'
    BY Zenon DEF Checked, Settled, Owning, Working
  <1>2. pc'[u] \notin Copying => Current(u)' /\ AtHand(u)'
    BY Zenon DEF Current, AtHand, Copying
  <1> QED BY <1>1, <1>2, Zenon

\* After a failure nothing is promised but that queued copies are waited for.
LEMMA FailedLocal ==
  ASSUME NEW u \in Transfers, Local(u), pc'[u] = "release", result'[u] # "ok",
         pc[u] \in Working,
         ci'[u] = ci[u], async'[u] = async[u],
         inflight'[u] = inflight[u], broken'[u] = broken[u]
  PROVE  Local(u)'
  <1>1. Streams(u)'
    BY Zenon DEF Local, Streams, Streamed, Working, Owning, Verifying, Before
  <1>2. Current(u)' /\ AtHand(u)' /\ Checked(u)'
    BY OutsideLeg, Zenon DEF Copying, Owning
  <1>3. Earlier(u)'
    BY Zenon DEF Earlier, Working
  <1> QED BY <1>1, <1>2, <1>3, Zenon DEF Local
-----------------------------------------------------------------------------
(* The steps that move no data.                                            *)

\* A cancellation or a failed leg ends the loop.
LEMMA FailInv ==
  ASSUME PrivateEndpoints, IInv, NEW u \in Transfers, CancelSeen(u) \/ LegFails(u)
  PROVE  IInv'
  <1>1. /\ pc[u] \in Working
        /\ pc' = [pc EXCEPT ![u] = "release"]
        /\ \E r \in Result \ {"ok"} : result' = [result EXCEPT ![u] = r]
        /\ UNCHANGED <<ci, li, async, tmp, digest, inflight, broken, mem, data, pos, bufs, free, fresh, shared, cancel>>
    BY Zenon DEF CancelSeen, LegFails, Fail, Goto, gpu, store, pool, Working, Result
  <1>2. TypeOK /\ Local(u) /\ pc \in [Transfers -> Label] /\ result \in [Transfers -> Result]
    BY Zenon DEF IInv, TypeOK, Result
  <1>3. pc'[u] = "release" /\ result'[u] # "ok"
    BY <1>1, <1>2, Zenon
  <1>4. Local(u)'
    BY <1>1, <1>2, <1>3, FailedLocal, Zenon
  <1>5. /\ result' \in [Transfers -> Result]
        /\ \A t \in Transfers : t # u => result'[t] = result[t]
    BY <1>1, <1>2, Zenon
  <1>6. /\ li' \in [Transfers -> Nat] /\ li'[u] < Legs[u] /\ pos' \in [Endpoints -> Nat]
        /\ DOMAIN digest' = Transfers
    BY <1>1, Zenon DEF IInv, TypeOK
  <1>7. "release" \in Label /\ pc[u] \in Holding /\ pc[u] \notin Ringless
    BY <1>1, WorkingFacts, Zenon DEF Label, Owning
  <1> QED BY <1>1, <1>4, <1>5, <1>6, <1>7, ControlStep, Zenon

\* The flag is not set: on to the wait for the slot.
LEMMA NextChunkInv ==
  ASSUME PrivateEndpoints, IInv, NEW u \in Transfers, NextChunk(u)
  PROVE  IInv'
  <1>1. /\ pc[u] = "head" /\ ci[u] < Chunks[u]
        /\ pc' = [pc EXCEPT ![u] = "sync"]
        /\ UNCHANGED <<ci, li, async, result, tmp, digest, inflight, broken, mem, data, pos, bufs, free, fresh, shared, cancel>>
    BY Zenon DEF NextChunk, Goto, gpu, store, pool
  <1>2. TypeOK /\ Local(u) /\ pc \in [Transfers -> Label]
    BY Zenon DEF IInv, TypeOK
  <1>3. pc'[u] = "sync"
    BY <1>1, <1>2, Zenon
  <1>4. Local(u)'
    <2>1. Streams(u)'
      BY <1>1, <1>2, <1>3, Zenon DEF Local, Streams, Streamed, Working, Owning, Verifying, Before
    <2>2. Current(u)' /\ AtHand(u)' /\ Checked(u)'
      BY <1>3, OutsideLeg, Zenon DEF Copying, Owning, Working
    <2>3. Earlier(u)'
      BY <1>1, <1>2, <1>3, Zenon DEF Local, Earlier, Working, Arrived, BufferAt
    <2> QED BY <2>1, <2>2, <2>3, Zenon DEF Local
  <1>5. /\ li' \in [Transfers -> Nat] /\ li'[u] < Legs[u] /\ pos' \in [Endpoints -> Nat]
        /\ result' \in [Transfers -> Result] /\ DOMAIN digest' = Transfers
    BY <1>1, Zenon DEF IInv, TypeOK, Result
  <1>6. "sync" \in Label /\ pc[u] \in Holding /\ pc[u] \notin Ringless
    BY <1>1, Zenon DEF Label, Holding, Ringless
  <1> QED BY <1>1, <1>4, <1>5, <1>6, ControlStep, Zenon

\* After the wait no stream reads the slot of the chunk.
LEMMA SyncSlotInv ==
  ASSUME PrivateEndpoints, IInv, NEW u \in Transfers, SyncSlot(u)
  PROVE  IInv'
  <1>1. /\ pc[u] = "sync"
        /\ async[u] /\ ci[u] >= Depth => StreamIdle(u, Slot(ci[u]))
        /\ pc' = [pc EXCEPT ![u] = "leg"]
        /\ li' = [li EXCEPT ![u] = 0]
        /\ UNCHANGED <<ci, async, result, tmp, digest, inflight, broken, mem, data, pos, bufs, free, fresh, shared, cancel>>
    BY Zenon DEF SyncSlot, Goto, gpu, store, pool
  <1>2. /\ TypeOK /\ Local(u) /\ pc \in [Transfers -> Label] /\ li \in [Transfers -> Nat]
        /\ ci[u] \in Nat /\ ci[u] < Chunks[u] /\ Legs[u] \in Nat \ {0} /\ Depth \in Nat
    BY <1>1, PipelineConstants, Zenon DEF IInv, TypeOK
  <1>3. pc'[u] = "leg" /\ li'[u] = 0
    BY <1>1, <1>2, Zenon
  <1>4. ASSUME NEW c \in inflight[u] PROVE Slot(c) # Slot(ci[u])
    <2>1. c \in Nat /\ c < ci[u] /\ async[u]
      BY <1>2, QueuedFacts, Zenon DEF Local
    <2>2. CASE ci[u] >= Depth
      BY <1>1, <2>1, <2>2, Zenon DEF StreamIdle
    <2>3. CASE ci[u] < Depth
      <3>1. Slot(c) = c /\ Slot(ci[u]) = ci[u]
        BY <1>2, <2>1, <2>3, SlotFacts
      <3> QED BY <1>2, <2>1, <3>1
    <2> QED BY <1>2, <2>2, <2>3
  <1>5. Local(u)'
    <2>1. Streams(u)'
      BY <1>1, <1>2, <1>3, Zenon DEF Local, Streams, Streamed, Working, Owning, Verifying, Before
    <2>2. Current(u)'
      BY <1>1, <1>3, <1>4, Zenon DEF Current, Copying
    <2>4. AtHand(u)'
      BY <1>3 DEF AtHand
    <2>5. Checked(u)'
      BY <1>3, OutsideLeg, Zenon DEF Owning, Working
    <2>3. Earlier(u)'
      BY <1>1, <1>2, <1>3, Zenon DEF Local, Earlier, Working, Arrived, BufferAt
    <2> QED BY <2>1, <2>2, <2>3, <2>4, <2>5, Zenon DEF Local
  <1>6. /\ li' \in [Transfers -> Nat] /\ li'[u] < Legs[u]
        /\ \A t \in Transfers : t # u => li'[t] = li[t]
    BY <1>1, <1>2
  <1>7. /\ pos' \in [Endpoints -> Nat] /\ result' \in [Transfers -> Result]
        /\ DOMAIN digest' = Transfers
    BY <1>1, Zenon DEF IInv, TypeOK, Result
  <1>8. "leg" \in Label /\ pc[u] \in Holding /\ pc[u] \notin Ringless
    BY <1>1, Zenon DEF Label, Holding, Ringless
  <1> QED BY <1>1, <1>2, <1>5, <1>6, <1>7, <1>8, ControlStep, Zenon

\* A worker that stays in the loop and moves nothing keeps what was done.
LEMMA WorkingLocal ==
  ASSUME NEW u \in Transfers, Local(u), pc[u] \in Working, pc'[u] \in Working,
         UNCHANGED <<ci, async, result, inflight, broken, mem, data, bufs, shared>>
  PROVE  Streams(u)' /\ Earlier(u)' /\ Checked(u)'
  <1>1. Streams(u)'
    BY Zenon DEF Local, Streams, Streamed, Working, Owning, Verifying, Before
  <1>2. Earlier(u)'
    BY Zenon DEF Local, Earlier, Working, Arrived, BufferAt
  <1>3. Checked(u)'
    BY OutsideLeg, Zenon DEF Owning
  <1> QED BY <1>1, <1>2, <1>3, Zenon

\* The position of the source is set for the read that follows.
LEMMA SeekSourceInv ==
  ASSUME PrivateEndpoints, IInv, NEW u \in Transfers, SeekSource(u)
  PROVE  IInv'
  <1>1. /\ pc[u] = "leg" /\ FromFile(u)
        /\ pos' = [pos EXCEPT ![Source[u]] = SrcOff[u] + ci[u]]
        /\ pc' = [pc EXCEPT ![u] = "read"]
        /\ UNCHANGED <<ci, li, async, result, tmp, digest, inflight, broken, mem, data, bufs, free, fresh, shared, cancel>>
    BY Zenon DEF SeekSource, SetPosition, Goto, gpu, pool
  <1>2. /\ Local(u) /\ pc \in [Transfers -> Label] /\ pos \in [Endpoints -> Nat]
        /\ ci[u] \in Nat /\ ci[u] < Chunks[u]
    BY <1>1, Zenon DEF IInv, TypeOK
  <1>3. Source[u] \in Endpoints /\ SrcOff[u] + ci[u] \in Nat
    BY <1>2, PipelineConstants, SMTT(30)
  <1>4. pc'[u] = "read" /\ pos'[Source[u]] = SrcOff[u] + ci[u] /\ pos' \in [Endpoints -> Nat]
    BY <1>1, <1>2, <1>3, Zenon
  <1>5. Local(u)'
    <2>1. Streams(u)' /\ Earlier(u)' /\ Checked(u)'
      BY <1>1, <1>2, <1>4, WorkingLocal, Zenon DEF Working
    <2>2. Current(u)'
      BY <1>1, <1>2, <1>4, Zenon DEF Local, Current, Copying, FromFile
    <2>3. AtHand(u)'
      BY <1>1, <1>2, <1>4, Zenon DEF Local, AtHand, Copying, BufferAt
    <2> QED BY <2>1, <2>2, <2>3, Zenon DEF Local
  <1>6. \A e \in Endpoints : pos'[e] # pos[e] => Kind[e] = "file" /\ e \in {Source[u], Dest[u]}
    BY <1>1, <1>2, Zenon DEF FromFile
  <1>7. /\ li' \in [Transfers -> Nat] /\ li'[u] < Legs[u]
        /\ result' \in [Transfers -> Result] /\ DOMAIN digest' = Transfers
    BY <1>1, Zenon DEF IInv, TypeOK, Result
  <1>8. "read" \in Label /\ pc[u] \in Holding /\ pc[u] \notin Ringless
    BY <1>1, Zenon DEF Label, Holding, Ringless
  <1> QED BY <1>1, <1>2, <1>4, <1>5, <1>6, <1>7, <1>8, ControlStep, Zenon

\* The position of the destination is set for the write that follows.
LEMMA SeekDestInv ==
  ASSUME PrivateEndpoints, IInv, NEW u \in Transfers, SeekDest(u)
  PROVE  IInv'
  <1>1. /\ ToFile(u) /\ pc[u] \in {"leg", "seek"}
        /\ FromFile(u) => pc[u] = "seek"
        /\ pos' = [pos EXCEPT ![Dest[u]] = DstOff[u] + ci[u]]
        /\ pc' = [pc EXCEPT ![u] = "write"]
        /\ UNCHANGED <<ci, li, async, result, tmp, digest, inflight, broken, mem, data, bufs, free, fresh, shared, cancel>>
    BY Zenon DEF SeekDest, SetPosition, Goto, gpu, pool
  <1>2. /\ Local(u) /\ pc \in [Transfers -> Label] /\ pos \in [Endpoints -> Nat]
        /\ ci[u] \in Nat /\ ci[u] < Chunks[u]
    BY <1>1, Zenon DEF IInv, TypeOK
  <1>3. Dest[u] \in Endpoints /\ DstOff[u] + ci[u] \in Nat
    BY <1>2, PipelineConstants, SMTT(30)
  <1>4. pc'[u] = "write" /\ pos'[Dest[u]] = DstOff[u] + ci[u] /\ pos' \in [Endpoints -> Nat]
    BY <1>1, <1>2, <1>3, Zenon
  <1>5. Local(u)'
    <2>1. Streams(u)' /\ Earlier(u)' /\ Checked(u)'
      BY <1>1, <1>2, <1>4, WorkingLocal, Zenon DEF Working
    <2>2. (FromFile(u)' <=> FromFile(u)) /\ (ToFile(u)' <=> ToFile(u))
      BY <1>1, Zenon DEF FromFile, ToFile, LastLeg
    <2>3. Current(u)'
      BY <1>1, <1>2, <1>4, <2>2, Zenon DEF Local, Current, Copying
    <2>4. AtHand(u)'
      BY <1>1, <1>2, <1>4, <2>2, Zenon DEF Local, AtHand, Copying, BufferAt
    <2> QED BY <2>1, <2>3, <2>4, Zenon DEF Local
  <1>6. \A e \in Endpoints : pos'[e] # pos[e] => Kind[e] = "file" /\ e \in {Source[u], Dest[u]}
    BY <1>1, <1>2, Zenon DEF ToFile
  <1>7. /\ li' \in [Transfers -> Nat] /\ li'[u] < Legs[u]
        /\ result' \in [Transfers -> Result] /\ DOMAIN digest' = Transfers
    BY <1>1, Zenon DEF IInv, TypeOK, Result
  <1>8. "write" \in Label /\ pc[u] \in Holding /\ pc[u] \notin Ringless
    BY <1>1, Zenon DEF Label, Holding, Ringless
  <1> QED BY <1>1, <1>2, <1>4, <1>5, <1>6, <1>7, <1>8, ControlStep, Zenon

\* All streams are idle and none is broken, or the transfer fails.
LEMMA DrainInv ==
  ASSUME PrivateEndpoints, IInv, NEW u \in Transfers, Drain(u)
  PROVE  IInv'
  <1>1. /\ pc[u] = "head" /\ ci[u] = Chunks[u]
        /\ pc' = [pc EXCEPT ![u] = "release"]
        /\ \/ (async[u] => inflight[u] = {} /\ broken[u] = {}) /\ result' = result
           \/ result' = [result EXCEPT ![u] = "backend_failure"]
        /\ UNCHANGED <<ci, li, async, tmp, digest, inflight, broken, mem, data, pos, bufs, free, fresh, shared, cancel>>
    BY Zenon DEF Drain, Fail, Goto, gpu, store, pool
  <1>2. /\ Local(u) /\ pc \in [Transfers -> Label] /\ result \in [Transfers -> Result]
        /\ pc[u] \in Working /\ pc[u] \notin Ringless /\ pc[u] \in Holding
    BY <1>1, Zenon DEF IInv, TypeOK, Result, Working, Ringless, Holding
  <1>3. pc'[u] = "release"
    BY <1>1, <1>2, Zenon
  <1>4. Local(u)'
    <2>1. CASE (async[u] => inflight[u] = {} /\ broken[u] = {}) /\ result' = result
      <3>1. inflight[u] = {} /\ broken[u] = {}
        BY <1>2, <2>1, Zenon DEF Local, Streams
      <3>2. u \notin shared => \A c \in 0 .. Chunks[u] - 1 : Arrived(u, c)
        BY <1>1, <1>2, <3>1, Zenon DEF Local, Earlier
      <3>3. Streams(u)'
        BY <1>1, <1>2, <1>3, <2>1, <3>1, Zenon
           DEF Local, Streams, Streamed, Working, Owning, Verifying, Before
      <3>4. Current(u)' /\ AtHand(u)' /\ Checked(u)'
        BY <1>3, OutsideLeg, Zenon DEF Copying, Owning
      <3>5. Earlier(u)'
        BY <1>1, <1>3, <3>1, <3>2, Zenon DEF Earlier, Arrived, Working
      <3> QED BY <3>3, <3>4, <3>5, Zenon DEF Local
    <2>2. CASE result' = [result EXCEPT ![u] = "backend_failure"]
      <3>1. result'[u] # "ok"
        BY <1>2, <2>2, Zenon
      <3> QED BY <1>1, <1>2, <1>3, <3>1, FailedLocal, Zenon
    <2> QED BY <1>1, <2>1, <2>2, Zenon
  <1>5. /\ result' \in [Transfers -> Result]
        /\ \A t \in Transfers : t # u => result'[t] = result[t]
    BY <1>1, <1>2, Zenon DEF Result
  <1>6. /\ li' \in [Transfers -> Nat] /\ li'[u] < Legs[u] /\ pos' \in [Endpoints -> Nat]
        /\ DOMAIN digest' = Transfers
    BY <1>1, Zenon DEF IInv, TypeOK
  <1>7. "release" \in Label
    BY Zenon DEF Label
  <1> QED BY <1>1, <1>2, <1>4, <1>5, <1>6, <1>7, ControlStep, Zenon

\* Behind the loop the result only gets worse and the data stays.
LEMMA AfterLocal ==
  ASSUME NEW u \in Transfers, Local(u), inflight[u] = {},
         pc[u] \in {"destroy"} \cup Verifying, pc'[u] \in Verifying \cup {"returned"},
         pc'[u] \in Verifying \/ result'[u] = "ok" => result[u] = "ok",
         pc'[u] \in Verifying => result'[u] = "ok", Checked(u)',
         UNCHANGED <<ci, async, inflight, broken, data, shared>>
  PROVE  Local(u)'
  <1>1. Streams(u)'
    BY Zenon DEF Local, Streams, Streamed, Working, Owning, Verifying, Before
  <1>2. Current(u)' /\ AtHand(u)'
    BY Zenon DEF Current, AtHand, Copying, Verifying
  <1>3. Earlier(u)'
    BY Zenon DEF Local, Earlier, Arrived, Working, Verifying, Before
  <1> QED BY <1>1, <1>2, <1>3, Zenon DEF Local

\* A step behind the loop, to place l.
LEMMA AfterStep ==
  ASSUME PrivateEndpoints, IInv, NEW u \in Transfers,
         NEW l \in Verifying \cup {"returned"},
         pc[u] \in {"destroy"} \cup Verifying, inflight[u] = {},
         pc' = [pc EXCEPT ![u] = l],
         l \in Verifying => result[u] = "ok" /\ result' = result,
         l = "returned" => \/ result' = result
                           \/ /\ result[u] = "ok"
                              /\ \E r \in Result : result' = [result EXCEPT ![u] = r],
         NEW e \in {Source[u], Dest[u]}, NEW n \in Nat,
         pos' = pos \/ (Kind[e] = "file" /\ pos' = [pos EXCEPT ![e] = n]),
         digest' = digest \/ \E h : digest' = [digest EXCEPT ![u] = h],
         Checked(u)',
         UNCHANGED <<ci, li, async, tmp, inflight, broken, mem, data, bufs, free, fresh, shared, cancel>>
  PROVE  IInv'
  <1>1. /\ Local(u) /\ pc \in [Transfers -> Label] /\ result \in [Transfers -> Result]
        /\ pos \in [Endpoints -> Nat] /\ DOMAIN digest = Transfers
    BY Zenon DEF IInv, TypeOK, Result
  <1>2. pc'[u] = l
    BY <1>1, Zenon
  <1>3. l \in Label /\ l \notin Holding /\ pc[u] \notin Ringless
    BY Zenon DEF Label, Verifying, Holding, Ringless
  <1>4. /\ l \in Verifying \/ result'[u] = "ok" => result[u] = "ok"
        /\ l \in Verifying => result'[u] = "ok"
    BY Zenon DEF Verifying
  <1>5. Local(u)'
    BY <1>1, <1>2, <1>4, AfterLocal, Zenon
  <1>6. /\ result' \in [Transfers -> Result]
        /\ \A t \in Transfers : t # u => result'[t] = result[t]
    BY <1>1, Zenon DEF Verifying
  <1>7. e \in Endpoints
    BY PipelineConstants
  <1>8. /\ pos' \in [Endpoints -> Nat]
        /\ \A x \in Endpoints : pos'[x] # pos[x] => Kind[x] = "file" /\ x \in {Source[u], Dest[u]}
    BY <1>1, <1>7, Zenon
  <1>9. li' \in [Transfers -> Nat] /\ li'[u] < Legs[u]
    BY Zenon DEF IInv, TypeOK
  <1>10. l \notin {"sync", "leg", "read", "seek", "write"}
    BY <1>3, Zenon DEF Holding
  <1>11. DOMAIN digest' = Transfers /\ \A t \in Transfers : t # u => digest'[t] = digest[t]
    BY <1>1, Zenon
  <1> QED BY <1>3, <1>5, <1>6, <1>8, <1>9, <1>10, <1>11, ControlStep, Zenon

LEMMA DestroyStreamsInv ==
  ASSUME PrivateEndpoints, IInv, NEW u \in Transfers, DestroyStreams(u)
  PROVE  IInv'
  <1> DEFINE l == IF result[u] = "ok" /\ Verified[u] THEN "hash" ELSE "returned"
  <1>1. /\ pc[u] = "destroy" /\ inflight[u] = {}
        /\ pc' = [pc EXCEPT ![u] = l] /\ result' = result /\ pos' = pos
        /\ UNCHANGED <<ci, li, async, tmp, digest, inflight, broken, mem, data, bufs, free, fresh, shared, cancel>>
    BY Zenon DEF DestroyStreams, Goto, gpu, store, pool
  <1>2. l \in Verifying \cup {"returned"} /\ (l \in Verifying => result[u] = "ok")
    BY Zenon DEF Verifying
  <1>3. Source[u] \in {Source[u], Dest[u]} /\ 0 \in Nat
    BY Zenon
  <1>4. pc'[u] = l
    BY <1>1, Zenon DEF IInv, TypeOK
  <1>5. Checked(u)'
    <2>1. CASE result[u] = "ok" /\ Verified[u]
      BY <1>4, <2>1, Zenon DEF Checked, Settled
    <2>2. CASE ~(result[u] = "ok" /\ Verified[u])
      <3>1. pc'[u] = "returned"
        BY <1>4, <2>2, Zenon
      <3> QED BY <1>1, <2>2, <3>1, Zenon DEF Checked
    <2> QED BY <2>1, <2>2, Zenon
  <1> HIDE DEF l
  <1> QED BY <1>1, <1>2, <1>3, <1>5, AfterStep, Zenon
-----------------------------------------------------------------------------
(* The verification.                                                       *)

\* The cells of a region that can be hashed are cells of the resource.
LEMMA RegionCells ==
  ASSUME PrivateEndpoints, NEW u \in Transfers, NEW e \in Endpoints, NEW off \in Nat,
         off + Chunks[u] <= Cells[e], TypeOK, HashedAsAsked(e),
         Kind[e] = "file" => pos[e] = Start[e] + off /\ pos[e] + Chunks[u] <= Cells[e],
         NEW k \in 0 .. Chunks[u] - 1
  PROVE  /\ (IF Kind[e] = "file" THEN pos[e] ELSE off) + k = CellAt(e, off + k)
         /\ CellAt(e, off + k) \in 0 .. Cells[e] - 1
  <1>1. Chunks[u] \in Nat /\ Cells[e] \in Nat /\ Start[e] \in Nat /\ pos[e] \in Nat
    BY PipelineConstants DEF TypeOK
  <1>2. Kind[e] = "file" \/ Start[e] = 0
    BY Zenon DEF HashedAsAsked
  <1> QED BY <1>1, <1>2 DEF CellAt

\* A region has a cell, hence is not what stands for a digest that failed.
LEMMA NotNothing ==
  ASSUME NEW u \in Transfers, NEW e, NEW i
  PROVE  Region(e, i, Chunks[u]) # Nothing
  <1>1. 0 \in 0 .. Chunks[u] - 1
    BY PipelineConstants
  <1>2. 0 \in DOMAIN Region(e, i, Chunks[u])
    BY <1>1, Zenon DEF Region
  <1>3. DOMAIN Nothing = {}
    BY DEF Nothing
  <1> QED BY <1>2, <1>3, Zenon

\* The digest of the source is that of the region that was asked for.
LEMMA SourceDigest ==
  ASSUME PrivateEndpoints, IInv, NEW u \in Transfers, BothHashed(u), HashSource(u)
  PROVE  digest' = [digest EXCEPT ![u] = Expected(u)]
  <1> DEFINE S == Source[u]
             p == IF Kind[S] = "file" THEN pos[S] ELSE SrcOff[u]
  <1>0. HashedAsAsked(S) /\ Kind[S] # "device"
    BY DEF BothHashed, HashedAsAsked
  <1>1. /\ S \in Endpoints /\ SrcOff[u] \in Nat /\ SrcOff[u] + Chunks[u] <= Cells[S]
        /\ TypeOK /\ SourcesIntact /\ Checked(u)
    BY PipelineConstants, Zenon DEF PrivateEndpoints, IInv, Local
  <1>2. Kind[S] = "file" => pos[S] = Start[S] + SrcOff[u] /\ pos[S] + Chunks[u] <= Cells[S]
    BY <1>1, Zenon DEF HashSource, CanHash, Checked
  <1>3. digest' = [digest EXCEPT ![u] = Region(S, p, Chunks[u])]
    BY <1>0, Zenon DEF HashSource, Hashed
  <1>4. \A k \in 0 .. Chunks[u] - 1 : p + k = CellAt(S, SrcOff[u] + k) /\ p + k \in 0 .. Cells[S] - 1
    BY <1>0, <1>1, <1>2, RegionCells, ZenonT(40)
  <1> HIDE DEF p
  <1>5. \A k \in 0 .. Chunks[u] - 1 : data[S][p + k] = Initially(S, CellAt(S, SrcOff[u] + k))
    BY <1>1, <1>4, Zenon DEF SourcesIntact
  <1>6. Region(S, p, Chunks[u]) = Expected(u)
    BY <1>5, Zenon DEF Region, Expected
  <1> QED BY <1>3, <1>6, Zenon

\* Equal digests: the destination has the region.
LEMMA DestDigest ==
  ASSUME PrivateEndpoints, IInv, NEW u \in Transfers, BothHashed(u), HashDest(u),
         result'[u] = "ok", NEW c \in 0 .. Chunks[u] - 1
  PROVE  InPlace(u, c)
  <1> DEFINE D == Dest[u]
             p == IF Kind[D] = "file" THEN pos[D] ELSE DstOff[u]
  <1>0. HashedAsAsked(D) /\ Kind[D] # "device"
    BY DEF BothHashed, HashedAsAsked
  <1>1. /\ D \in Endpoints /\ DstOff[u] \in Nat /\ DstOff[u] + Chunks[u] <= Cells[D]
        /\ TypeOK /\ Checked(u) /\ result \in [Transfers -> Result]
    BY PipelineConstants, Zenon DEF PrivateEndpoints, IInv, Local, TypeOK, Result
  <1>2. Kind[D] = "file" => pos[D] = Start[D] + DstOff[u] /\ pos[D] + Chunks[u] <= Cells[D]
    BY <1>1, Zenon DEF HashDest, CanHash, Checked
  <1>3. result' = [result EXCEPT ![u] = IF Region(D, p, Chunks[u]) = digest[u]
                                        THEN "ok" ELSE "integrity_failure"]
    BY <1>0, Zenon DEF HashDest, Hashed
  <1>4. Region(D, p, Chunks[u]) = digest[u]
    BY <1>1, <1>3, Zenon
  <1>5. digest[u] \in {Nothing, Expected(u)}
    <2>1. pc[u] \in {"compare", "compare_read"}
      BY Zenon DEF HashDest, CanHash
    <2> QED BY <1>1, <2>1, Zenon DEF Checked
  <1>6. Region(D, p, Chunks[u]) = Expected(u)
    BY <1>4, <1>5, NotNothing, Zenon
  <1>7. p + c = CellAt(D, DstOff[u] + c)
    BY <1>0, <1>1, <1>2, RegionCells, ZenonT(40)
  <1> HIDE DEF p
  <1>8. data[D][p + c] = Initially(Source[u], CellAt(Source[u], SrcOff[u] + c))
    BY <1>6, Zenon DEF Region, Expected
  <1> QED BY <1>7, <1>8, Zenon DEF InPlace

\* Each step of the verification keeps what is known of it.
LEMMA VerifyChecked ==
  ASSUME PrivateEndpoints, IInv, NEW u \in Transfers,
         \/ SeekHash(u, Source[u], SrcOff[u], "hash", "hash_read")
         \/ SeekHash(u, Dest[u], DstOff[u], "compare", "compare_read")
         \/ HashSource(u) \/ HashSourceFails(u) \/ HashDest(u) \/ HashDestFails(u)
  PROVE  Checked(u)'
  <1>1. /\ pc \in [Transfers -> Label] /\ DOMAIN digest = Transfers /\ pos \in [Endpoints -> Nat]
        /\ Source[u] \in Endpoints /\ Dest[u] \in Endpoints /\ Checked(u)
        /\ result \in [Transfers -> Result]
    BY PipelineConstants, Zenon DEF IInv, TypeOK, Local, Result
  <1>2. CASE SeekHash(u, Source[u], SrcOff[u], "hash", "hash_read")
    <2>1. /\ Kind[Source[u]] = "file" /\ pc' = [pc EXCEPT ![u] = "hash_read"]
          /\ pos' = [pos EXCEPT ![Source[u]] = Start[Source[u]] + SrcOff[u]]
      BY <1>2, Zenon DEF SeekHash, SetPosition, Goto
    <2>2. pc'[u] = "hash_read" /\ pos'[Source[u]] = Start[Source[u]] + SrcOff[u]
      BY <1>1, <2>1, Zenon
    <2> QED BY <2>1, <2>2, Zenon DEF Checked, Settled
  <1>3. CASE SeekHash(u, Dest[u], DstOff[u], "compare", "compare_read")
    <2>1. /\ Kind[Dest[u]] = "file" /\ pc' = [pc EXCEPT ![u] = "compare_read"]
          /\ pos' = [pos EXCEPT ![Dest[u]] = Start[Dest[u]] + DstOff[u]]
          /\ pc[u] = "compare" /\ digest' = digest
      BY <1>3, Zenon DEF SeekHash, SetPosition, Goto
    <2>2. pc'[u] = "compare_read" /\ pos'[Dest[u]] = Start[Dest[u]] + DstOff[u]
      BY <1>1, <2>1, Zenon
    <2> QED BY <1>1, <2>1, <2>2, Zenon DEF Checked, Settled
  <1>4. CASE HashSource(u) \/ HashSourceFails(u)
    <2>1. pc' = [pc EXCEPT ![u] = "compare"]
      BY <1>4, Zenon DEF HashSource, HashSourceFails, Goto
    <2>2. pc'[u] = "compare"
      BY <1>1, <2>1, Zenon
    <2>3. BothHashed(u) => digest'[u] \in {Nothing, Expected(u)}
      <3>1. CASE HashSource(u)
        BY <1>1, <3>1, SourceDigest, Zenon
      <3>2. CASE HashSourceFails(u)
        BY <1>1, <3>2, Zenon DEF HashSourceFails
      <3> QED BY <1>4, <3>1, <3>2, Zenon
    <2> QED BY <2>2, <2>3, Zenon DEF Checked, Settled
  <1>5. CASE HashDest(u) \/ HashDestFails(u)
    <2>1. pc' = [pc EXCEPT ![u] = "returned"] /\ data' = data
      BY <1>5, Zenon DEF HashDest, HashDestFails, Goto, Fail, store
    <2>2. pc'[u] = "returned"
      BY <1>1, <2>1, Zenon
    <2>3. ASSUME result'[u] = "ok", BothHashed(u), NEW c \in 0 .. Chunks[u] - 1
          PROVE  InPlace(u, c)'
      <3>1. HashDest(u)
        BY <1>1, <1>5, <2>3, Zenon DEF HashDestFails, Fail
      <3>2. InPlace(u, c)
        BY <2>3, <3>1, DestDigest, Zenon
      <3> QED BY <2>1, <3>2, Zenon DEF InPlace
    <2> QED BY <2>2, <2>3, Zenon DEF Checked
  <1> QED BY <1>2, <1>3, <1>4, <1>5, Zenon

\* The steps of the verification read; otherwise they change positions, digests
\* and results.
LEMMA VerifyInv ==
  ASSUME PrivateEndpoints, IInv, NEW u \in Transfers,
         \/ SeekHash(u, Source[u], SrcOff[u], "hash", "hash_read")
         \/ SeekHash(u, Dest[u], DstOff[u], "compare", "compare_read")
         \/ HashSource(u) \/ HashSourceFails(u) \/ HashDest(u) \/ HashDestFails(u)
  PROVE  IInv'
  <1>1. pc[u] \in Verifying
    BY Zenon DEF SeekHash, HashSource, HashSourceFails, HashDest, HashDestFails, CanHash, Verifying
  <1>2. /\ inflight[u] = {} /\ result[u] = "ok" /\ pos \in [Endpoints -> Nat]
        /\ result \in [Transfers -> Result]
    <2>1. pc[u] \notin Owning \cup {"destroy"}
      BY <1>1, Zenon DEF Verifying, Owning, Working
    <2>2. Streams(u) /\ pos \in [Endpoints -> Nat] /\ result \in [Transfers -> Result]
      BY Zenon DEF IInv, TypeOK, Local, Result
    <2> QED BY <1>1, <2>1, <2>2, Zenon DEF Streams
  <1>3. /\ SrcOff[u] \in Nat /\ DstOff[u] \in Nat /\ Chunks[u] \in Nat
        /\ Source[u] \in Endpoints /\ Dest[u] \in Endpoints
        /\ Start[Source[u]] \in Nat /\ Start[Dest[u]] \in Nat
    BY PipelineConstants, Zenon
  <1>4. /\ Start[Source[u]] + SrcOff[u] \in Nat /\ Start[Dest[u]] + DstOff[u] \in Nat
        /\ pos[Source[u]] + Chunks[u] \in Nat /\ pos[Dest[u]] + Chunks[u] \in Nat
    BY <1>2, <1>3
  <1>5. UNCHANGED <<ci, li, async, tmp, inflight, broken, mem, data, bufs, free, fresh, shared, cancel>>
    BY Zenon DEF SeekHash, HashSource, HashSourceFails, HashDest, HashDestFails, gpu, store, pool
  <1>6. digest' = digest \/ \E h : digest' = [digest EXCEPT ![u] = h]
    BY Zenon DEF SeekHash, HashSource, HashSourceFails, HashDest, HashDestFails
  <1>7. PICK l \in Verifying \cup {"returned"} :
             /\ pc' = [pc EXCEPT ![u] = l]
             /\ l \in Verifying => result' = result
             /\ l = "returned" => \E r \in Result : result' = [result EXCEPT ![u] = r]
    BY ZenonT(40) DEF SeekHash, HashSource, HashSourceFails, HashDest, HashDestFails, Fail, Goto,
           Verifying, Result
  <1>8. PICK e \in {Source[u], Dest[u]}, n \in Nat :
          pos' = pos \/ (Kind[e] = "file" /\ pos' = [pos EXCEPT ![e] = n])
    BY <1>4, Zenon DEF SeekHash, HashSource, HashSourceFails, HashDest, HashDestFails, Advance,
                SetPosition, store
  <1>9. /\ l \in Verifying => result[u] = "ok" /\ result' = result
        /\ l = "returned" => \/ result' = result
                             \/ /\ result[u] = "ok"
                                /\ \E r \in Result : result' = [result EXCEPT ![u] = r]
        /\ pc[u] \in {"destroy"} \cup Verifying
        /\ pc' = [pc EXCEPT ![u] = l] /\ inflight[u] = {}
    BY <1>1, <1>2, <1>7, Zenon
  <1>10. Checked(u)'
    BY VerifyChecked, Zenon
  <1> QED BY <1>5, <1>6, <1>8, <1>9, <1>10, AfterStep, Zenon

\* The flag, and steps that change nothing.
LEMMA CancelInv ==
  ASSUME IInv, (\E u \in Transfers : Cancel(u)) \/ UNCHANGED vars
  PROVE  IInv'
  <1>1. /\ cancel' \in [Transfers -> BOOLEAN]
        /\ UNCHANGED <<pc, ci, li, async, result, tmp, digest, inflight, broken, mem, data, pos, bufs, free, fresh, shared>>
    <2>1. cancel \in [Transfers -> BOOLEAN]
      BY Zenon DEF IInv, TypeOK
    <2>2. CASE \E u \in Transfers : Cancel(u)
      BY <2>1, <2>2, Zenon DEF Cancel, control, gpu, store, pool
    <2>3. CASE UNCHANGED vars
      BY <2>1, <2>3, Zenon DEF vars, control, gpu, store, pool
    <2> QED BY <2>2, <2>3, Zenon
  <1>2. TypeOK'
    BY <1>1, Zenon DEF IInv, TypeOK
  <1>3. Exclusive' /\ SourcesIntact'
    BY <1>1, ExclusiveKept, SourcesKept, Zenon DEF IInv
  <1>4. ASSUME NEW t \in Transfers PROVE Local(t)'
    BY <1>1, FrameLocal, Zenon DEF IInv, Same
  <1> QED BY <1>2, <1>3, <1>4, Zenon DEF IInv
-----------------------------------------------------------------------------
(* The steps that move data.                                               *)

\* Only positions of the files of u change.
OwnPositions(u) ==
  /\ pos' \in [Endpoints -> Nat]
  /\ \A e \in Endpoints : pos'[e] # pos[e] => Kind[e] = "file" /\ e \in {Source[u], Dest[u]}

LEMMA PositionsKept ==
  ASSUME PrivateEndpoints, NEW u \in Transfers, NEW t \in Transfers, t # u, OwnPositions(u)
  PROVE  /\ Kind[Source[t]] = "file" => pos'[Source[t]] = pos[Source[t]]
         /\ pos'[Dest[t]] = pos[Dest[t]]
  <1>1. /\ Source[t] \in Endpoints /\ Dest[t] \in Endpoints
        /\ Kind[Source[t]] = "file" => Source[t] \notin {Source[u], Dest[u]}
        /\ Dest[t] \notin {Source[u], Dest[u]}
    BY PipelineConstants, Zenon DEF PrivateEndpoints
  <1> QED BY <1>1, Zenon DEF OwnPositions

\* A leg to a ring: the chunk is now in the slot of the next node.
LEMMA StoreMem ==
  ASSUME PrivateEndpoints, IInv, NEW u \in Transfers,
         pc[u] \in {"leg", "read"}, ~LastLeg(u), OwnPositions(u),
         NEW v \in Value, u \notin shared => v = Carried(u, ci[u]),
         mem' = [mem EXCEPT ![BufferAt(u, li[u] + 1, ci[u])] = v],
         li' = [li EXCEPT ![u] = @ + 1],
         pc' = [pc EXCEPT ![u] = "leg"],
         UNCHANGED <<ci, async, result, tmp, digest, inflight, broken, data, bufs, free, fresh, shared, cancel>>
  PROVE  IInv'
  <1> DEFINE b == BufferAt(u, li[u] + 1, ci[u])
  <1>1. /\ TypeOK /\ Exclusive /\ Local(u) /\ pc \in [Transfers -> Label]
        /\ li \in [Transfers -> Nat] /\ ci[u] \in Nat /\ ci[u] < Chunks[u]
        /\ li[u] \in Nat /\ li[u] < Legs[u] /\ mem \in [Buffers -> Value]
    BY Zenon DEF IInv, TypeOK
  <1>2. Legs[u] \in Nat /\ li[u] + 1 \in Nat /\ li[u] + 1 > 0 /\ li[u] + 1 < Legs[u]
    <2>1. Legs[u] \in Nat
      BY PipelineConstants, ZenonT(30)
    <2> QED BY <1>1, <2>1 DEF LastLeg
  <1>3. /\ pc[u] \notin Ringless /\ pc[u] \in Working /\ pc[u] \in Holding /\ pc[u] \in Copying
        /\ pc'[u] = "leg"
    BY <1>1, Zenon DEF Working, Holding, Copying, Ringless
  <1>4. /\ Place(li[u] + 1, Slot(ci[u])) \in DOMAIN bufs[u]
        /\ b \in Buffers /\ b \in Range(bufs[u])
    BY <1>1, <1>2, <1>3, RingFacts, Zenon
  <1> HIDE DEF b
  <1>6. /\ mem' \in [Buffers -> Value] /\ mem'[b] = v
        /\ \A x \in Buffers : x # b => mem'[x] = mem[x]
    BY <1>1, <1>4, Zenon DEF b
  <1>7. li' \in [Transfers -> Nat] /\ li'[u] = li[u] + 1 /\ li'[u] < Legs[u]
    BY <1>1, <1>2, Zenon
  <1>8. TypeOK'
    <2>1. pc' \in [Transfers -> Label]
      BY <1>1, Zenon DEF Label
    <2>2. \A t \in Transfers :
            /\ ci'[t] <= Chunks[t] /\ li'[t] < Legs[t]
            /\ pc'[t] \in {"sync", "leg", "read", "seek", "write"} => ci'[t] < Chunks[t]
            /\ pc'[t] \notin Ringless => Len(bufs'[t]) = Needed(t)
      BY <1>1, <1>3, <1>7, Zenon DEF TypeOK, Ringless
    <2> QED BY <1>1, <1>6, <1>7, <2>1, <2>2, Zenon DEF TypeOK, OwnPositions, Ringless
  <1>9. Exclusive'
    BY <1>1, <1>3, ExclusiveStep, Zenon
  <1>10. SourcesIntact'
    BY SourcesKept, Zenon DEF IInv
  <1>11. ASSUME NEW t \in Transfers, t # u PROVE Same(t)
    <2>1. Owns(u, b)
      BY <1>3, <1>4, Zenon DEF Owns
    <2>2. t \notin shared => \A x \in Buffers : Owns(t, x) => x # b
      BY <1>1, <1>4, <1>11, <2>1, Zenon DEF Exclusive
    <2>3. t \notin shared' => \A x \in Buffers : Owns(t, x) => mem'[x] = mem[x]
      BY <1>6, <2>2, Zenon
    <2>4. pc'[t] = pc[t] /\ li'[t] = li[t]
      BY <1>1, <1>11, Zenon
    <2> QED BY <1>11, <2>3, <2>4, PositionsKept, Zenon DEF Same
  <1>12. Local(u)'
    <2>1. Streams(u)'
      BY <1>1, <1>3, Zenon DEF Local, Streams, Streamed, Working, Owning, Verifying, Before
    <2>2. Current(u)'
      BY <1>1, <1>3, Zenon DEF Local, Current, Copying
    <2>3. AtHand(u)'
      <3>1. BufferAt(u, li[u], ci[u])' = b
        BY <1>7, Zenon DEF BufferAt, b
      <3> QED BY <1>3, <1>6, <3>1, Zenon DEF AtHand
    <2>4. Checked(u)'
      BY <1>3, OutsideLeg, Zenon DEF Owning, Working
    <2>5. ASSUME u \notin shared, result[u] = "ok", NEW c \in inflight[u]
          PROVE  mem'[BufferAt(u, Legs[u] - 1, c)] = Carried(u, c)
      <3>1. /\ c \in Nat /\ Legs[u] - 1 \in Nat /\ Legs[u] - 1 > 0 /\ Legs[u] - 1 < Legs[u]
        BY <1>1, QueuedFacts, Zenon DEF Local
      <3>2. /\ Place(Legs[u] - 1, Slot(c)) \in DOMAIN bufs[u]
            /\ BufferAt(u, Legs[u] - 1, c) \in Buffers
        BY <1>1, <1>3, <3>1, RingFacts, Zenon
      <3>3. Slot(c) # Slot(ci[u]) /\ Slot(c) \in Slots /\ Slot(ci[u]) \in Slots
        BY <1>1, <1>3, <3>1, SlotFacts, Zenon DEF Local, Current
      <3>4. BufferAt(u, Legs[u] - 1, c) # b
        <4>1. Distinct(bufs[u])
          BY <1>1, <1>3, <2>5, Zenon DEF Exclusive
        <4>2. Legs[u] - 1 \in 1 .. Legs[u] - 1 /\ li[u] + 1 \in 1 .. Legs[u] - 1
          BY <1>1, <1>2, <3>1
        <4>3. Place(Legs[u] - 1, Slot(c)) # Place(li[u] + 1, Slot(ci[u]))
          <5>1. \A k \in 1 .. Legs[u] - 1, r \in Slots :
                  Place(Legs[u] - 1, Slot(c)) = Place(k, r) => Slot(c) = r
            <6> DEFINE n == Legs[u] - 1
            <6>1. n \in Nat /\ n \in 1 .. n
              BY <3>1, <4>2, Zenon
            <6> HIDE DEF n
            <6>2. \A k \in 1 .. n, r \in Slots : Place(n, Slot(c)) = Place(k, r) => Slot(c) = r
              BY <3>3, <6>1, PlaceFacts, Zenon
            <6> QED BY <6>2, Zenon DEF n
          <5> QED BY <3>3, <4>2, <5>1, Zenon
        <4> QED BY <1>4, <3>2, <4>1, <4>3, Zenon DEF Distinct, BufferAt, b
      <3>5. mem[BufferAt(u, Legs[u] - 1, c)] = Carried(u, c)
        BY <1>1, <2>5, Zenon DEF Local, Earlier
      <3> QED BY <1>6, <3>2, <3>4, <3>5, Zenon
    <2>6. Earlier(u)'
      BY <1>1, <1>3, <2>5, Zenon DEF Local, Earlier, Arrived, Working, BufferAt
    <2> QED BY <2>1, <2>2, <2>3, <2>4, <2>6, Zenon DEF Local
  <1> QED BY <1>8, <1>9, <1>10, <1>11, <1>12, StepInv, Zenon

\* What a write of v for chunk c changes, and what it does not.
Wrote(u, c, v) ==
  /\ DOMAIN data' = Endpoints
  /\ \A e \in Endpoints : data'[e] \in [0 .. Cells[e] - 1 -> Value]
  /\ SourcesIntact'
  /\ \A t \in Transfers : t # u => data'[Dest[t]] = data[Dest[t]]
  /\ data'[Dest[u]][DstOff[u] + c] = v
  /\ \A k \in Nat : k < Chunks[u] /\ k # c =>
       data'[Dest[u]][DstOff[u] + k] = data[Dest[u]][DstOff[u] + k]

LEMMA WriteCell ==
  ASSUME PrivateEndpoints, IInv, NEW u \in Transfers, NEW v \in Value,
         NEW c \in Nat, c < Chunks[u],
         data' = [data EXCEPT ![Dest[u]][DstOff[u] + c] = v]
  PROVE  Wrote(u, c, v)
  <1> DEFINE D == Dest[u]
  <1>1. /\ D \in Endpoints /\ DstOff[u] \in Nat
        /\ \A t \in Transfers : Source[t] \in Endpoints /\ Dest[t] \in Endpoints
    BY PipelineConstants, Zenon
  <1>2. \A k \in Nat : k < Chunks[u] => DstOff[u] + k \in 0 .. Cells[D] - 1
    BY CarriedFacts, Zenon
  <1>3. /\ DOMAIN data = Endpoints
        /\ \A e \in Endpoints : data[e] \in [0 .. Cells[e] - 1 -> Value]
    BY Zenon DEF IInv, TypeOK
  <1>4. /\ DOMAIN data' = Endpoints
        /\ data'[D] = [data[D] EXCEPT ![DstOff[u] + c] = v]
        /\ \A e \in Endpoints : e # D => data'[e] = data[e]
    BY <1>1, <1>3, Zenon
  <1>5. \A t \in Transfers : Source[t] # D /\ (t # u => Dest[t] # D)
    BY Zenon DEF PrivateEndpoints
  <1>6. SourcesIntact'
    BY <1>1, <1>4, <1>5, SourcesKept, Zenon DEF IInv
  <1>7. \A e \in Endpoints : data'[e] \in [0 .. Cells[e] - 1 -> Value]
    BY <1>1, <1>2, <1>3, <1>4, Zenon
  <1>8. /\ data'[D][DstOff[u] + c] = v
        /\ \A k \in Nat : k < Chunks[u] /\ k # c =>
             data'[D][DstOff[u] + k] = data[D][DstOff[u] + k]
    <2>1. DOMAIN data[D] = 0 .. Cells[D] - 1 /\ DstOff[u] + c \in 0 .. Cells[D] - 1
      BY <1>1, <1>2, <1>3, Zenon
    <2>2. data'[D][DstOff[u] + c] = v
      <3> DEFINE f == data[D]
                 i == DstOff[u] + c
      <3>1. i \in DOMAIN f /\ data'[D] = [f EXCEPT ![i] = v]
        BY <1>4, <2>1, Zenon
      <3> HIDE DEF f, i
      <3>2. data'[D][i] = v
        BY <3>1, Zenon
      <3> QED BY <3>2, Zenon DEF i
    <2>3. \A i \in DOMAIN data[D] : i # DstOff[u] + c => data'[D][i] = data[D][i]
      BY <1>4, Zenon
    <2>4. \A k \in Nat : k # c => DstOff[u] + k # DstOff[u] + c
      BY <1>1
    <2> QED BY <1>2, <2>1, <2>2, <2>3, <2>4, Zenon
  <1> QED BY <1>1, <1>4, <1>5, <1>6, <1>7, <1>8, Zenon DEF Wrote

\* A last leg that is done at once: the chunk has arrived.
LEMMA StoreData ==
  ASSUME PrivateEndpoints, IInv, NEW u \in Transfers,
         pc[u] \in {"leg", "read", "write"}, LastLeg(u), OwnPositions(u),
         NEW v \in Value, u \notin shared => v = Carried(u, ci[u]),
         data' = [data EXCEPT ![Dest[u]][DstOff[u] + ci[u]] = v],
         ci' = [ci EXCEPT ![u] = @ + 1],
         pc' = [pc EXCEPT ![u] = "head"],
         UNCHANGED <<li, async, result, tmp, digest, inflight, broken, mem, bufs, free, fresh, shared, cancel>>
  PROVE  IInv'
  <1>1. /\ TypeOK /\ Exclusive /\ Local(u) /\ pc \in [Transfers -> Label]
        /\ ci \in [Transfers -> Nat] /\ ci[u] \in Nat /\ ci[u] < Chunks[u]
    BY Zenon DEF IInv, TypeOK
  <1>2. Chunks[u] \in Nat
    BY PipelineConstants, Zenon
  <1>3. /\ pc[u] \notin Ringless /\ pc[u] \in Working /\ pc[u] \in Holding
        /\ pc'[u] = "head" /\ pc' \in [Transfers -> Label]
    BY <1>1, Zenon DEF Working, Holding, Ringless, Label
  <1>4. /\ ci' \in [Transfers -> Nat] /\ ci'[u] = ci[u] + 1
        /\ \A t \in Transfers : t # u => ci'[t] = ci[t] /\ pc'[t] = pc[t]
    BY <1>1
  <1>5. Wrote(u, ci[u], v)
    BY <1>1, <1>2, WriteCell, Zenon
  <1>6. TypeOK'
    <2>1. \A t \in Transfers :
            /\ ci'[t] <= Chunks[t] /\ li'[t] < Legs[t]
            /\ pc'[t] \in {"sync", "leg", "read", "seek", "write"} => ci'[t] < Chunks[t]
            /\ pc'[t] \notin Ringless => Len(bufs'[t]) = Needed(t)
      BY <1>1, <1>2, <1>3, <1>4 DEF TypeOK, Ringless
    <2> QED BY <1>1, <1>3, <1>4, <1>5, <2>1, Zenon DEF TypeOK, OwnPositions, Wrote, Ringless
  <1>7. Exclusive'
    BY <1>1, <1>3, ExclusiveStep, Zenon
  <1>8. ASSUME NEW t \in Transfers, t # u PROVE Same(t)
    BY <1>4, <1>5, <1>8, PositionsKept, Zenon DEF Same, Wrote
  <1>9. Local(u)'
    <2>1. Streams(u)'
      <3>1. \A c \in inflight[u] : c \in Nat /\ c < ci[u]
        BY <1>1, SMTT(20) DEF TypeOK, Local, Streams
      <3> QED BY <1>1, <1>3, <1>4, <3>1, SMTT(30) DEF Local, Streams, Streamed, Working, Owning, Verifying, Before
    <2>2. Current(u)' /\ AtHand(u)' /\ Checked(u)'
      BY <1>3, OutsideLeg, Zenon DEF Copying, Owning, Working
    <2>3. ASSUME u \notin shared, NEW c \in 0 .. ci[u]
          PROVE  c \in inflight[u] \/ Slot(c) \in broken[u] \/ Arrived(u, c)'
      <3>1. CASE c = ci[u]
        BY <1>5, <2>3, <3>1, Zenon DEF Arrived, Carried, Wrote
      <3>2. CASE c # ci[u]
        <4>1. c \in 0 .. ci[u] - 1 /\ c \in Nat /\ c < Chunks[u]
          BY <1>1, <1>2, <3>2
        <4>2. data'[Dest[u]][DstOff[u] + c] = data[Dest[u]][DstOff[u] + c]
          BY <1>5, <3>2, <4>1, Zenon DEF Wrote
        <4> QED BY <1>1, <1>3, <2>3, <4>1, <4>2, Zenon DEF Local, Earlier, Arrived, Carried
      <3> QED BY <3>1, <3>2
    <2>4. Earlier(u)'
      <3>1. 0 .. ci'[u] - 1 = 0 .. ci[u]
        BY <1>1, <1>4
      <3> QED BY <1>1, <1>3, <2>3, <3>1, Zenon DEF Local, Earlier, Working, BufferAt
    <2> QED BY <2>1, <2>2, <2>4, Zenon DEF Local
  <1> QED BY <1>5, <1>6, <1>7, <1>8, <1>9, StepInv, Zenon DEF Wrote

\* What the worker finds at the source of the leg: the chunk, unless another
\* transfer has the buffer.
LEMMA FoundAtSource ==
  ASSUME PrivateEndpoints, IInv, NEW u \in Transfers, pc[u] \in Copying
  PROVE  /\ ci[u] \in Nat /\ ci[u] < Chunks[u] /\ Carried(u, ci[u]) \in Value
         /\ data[Source[u]][SrcOff[u] + ci[u]] = Carried(u, ci[u])
         /\ SourceValue(u) \in Value
         /\ u \notin shared => SourceValue(u) = Carried(u, ci[u])
  <1>1. /\ ci[u] \in Nat /\ ci[u] < Chunks[u] /\ li[u] \in Nat /\ li[u] < Legs[u] /\ AtHand(u)
        /\ SourcesIntact /\ TypeOK /\ mem \in [Buffers -> Value]
    BY Zenon DEF IInv, TypeOK, Local, Copying
  <1>2. /\ SrcOff[u] + ci[u] \in 0 .. Cells[Source[u]] - 1
        /\ Carried(u, ci[u]) \in Value
    BY <1>1, CarriedFacts, Zenon
  <1>3. data[Source[u]][SrcOff[u] + ci[u]] = Carried(u, ci[u])
    BY <1>1, <1>2, Zenon DEF SourcesIntact, Carried
  <1>4. CASE li[u] = 0
    BY <1>1, <1>2, <1>3, <1>4, Zenon DEF SourceValue
  <1>5. CASE li[u] # 0
    <2>1. li[u] > 0
      BY <1>1, <1>5
    <2>2. pc[u] \notin Ringless
      BY Zenon DEF Copying, Ringless
    <2>3. BufferAt(u, li[u], ci[u]) \in Buffers
      BY <1>1, <2>1, <2>2, RingFacts, Zenon
    <2>4. u \notin shared => mem[BufferAt(u, li[u], ci[u])] = Carried(u, ci[u])
      BY <1>1, <2>1, Zenon DEF AtHand
    <2> QED BY <1>1, <1>2, <1>3, <1>5, <2>3, <2>4, Zenon DEF SourceValue
  <1> QED BY <1>4, <1>5, Zenon

\* A synchronous leg between memories.
LEMMA CopyMemoryInv ==
  ASSUME PrivateEndpoints, IInv, NEW u \in Transfers, CopyMemory(u)
  PROVE  IInv'
  <1>1. pc[u] = "leg" /\ pc[u] \in Copying
    BY Zenon DEF CopyMemory, Copying
  <1>2. SourceValue(u) \in Value /\ (u \notin shared => SourceValue(u) = Carried(u, ci[u]))
    BY <1>1, FoundAtSource, Zenon
  <1>3. OwnPositions(u)
    BY Zenon DEF CopyMemory, OwnPositions, IInv, TypeOK
  <1>4. CASE LastLeg(u)
    <2>1. /\ data' = [data EXCEPT ![Dest[u]][DstOff[u] + ci[u]] = SourceValue(u)]
          /\ ci' = [ci EXCEPT ![u] = @ + 1]
          /\ pc' = [pc EXCEPT ![u] = "head"]
          /\ UNCHANGED <<li, async, result, tmp, digest, inflight, broken, mem, bufs, free, fresh, shared, cancel>>
      BY <1>2, <1>4, Zenon DEF CopyMemory, Store, EndLeg, Goto, gpu, pool
    <2> QED BY <1>1, <1>2, <1>3, <1>4, <2>1, StoreData, Zenon
  <1>5. CASE ~LastLeg(u)
    <2>1. /\ mem' = [mem EXCEPT ![BufferAt(u, li[u] + 1, ci[u])] = SourceValue(u)]
          /\ li' = [li EXCEPT ![u] = @ + 1]
          /\ pc' = [pc EXCEPT ![u] = "leg"]
          /\ UNCHANGED <<ci, async, result, tmp, digest, inflight, broken, data, bufs, free, fresh, shared, cancel>>
      BY <1>2, <1>5, Zenon DEF CopyMemory, Store, EndLeg, Goto, gpu, pool
    <2> QED BY <1>1, <1>2, <1>3, <1>5, <2>1, StoreMem, Zenon
  <1> QED BY <1>4, <1>5, Zenon

\* The read finds the position where the worker has set it.
LEMMA ReadSourceInv ==
  ASSUME PrivateEndpoints, IInv, NEW u \in Transfers, ReadSource(u)
  PROVE  IInv'
  <1>1. pc[u] = "read" /\ pc[u] \in Copying /\ pos' = [pos EXCEPT ![Source[u]] = @ + 1]
    BY Zenon DEF ReadSource, Copying
  <1>2. /\ pos \in [Endpoints -> Nat] /\ Source[u] \in Endpoints /\ Local(u) /\ TypeOK
        /\ FromFile(u) /\ pos[Source[u]] = SrcOff[u] + ci[u]
    BY <1>1, PipelineConstants, Zenon DEF IInv, TypeOK, Local, Current
  <1>3. /\ data[Source[u]][pos[Source[u]]] = Carried(u, ci[u])
        /\ Carried(u, ci[u]) \in Value /\ ci[u] \in Nat /\ ci[u] < Chunks[u]
    BY <1>1, <1>2, FoundAtSource, Zenon
  <1>4. OwnPositions(u)
    BY <1>1, <1>2 DEF OwnPositions, FromFile
  <1>5. CASE ~ToFile(u) /\ LastLeg(u)
    <2>1. /\ data' = [data EXCEPT ![Dest[u]][DstOff[u] + ci[u]] = Carried(u, ci[u])]
          /\ ci' = [ci EXCEPT ![u] = @ + 1]
          /\ pc' = [pc EXCEPT ![u] = "head"]
          /\ UNCHANGED <<li, async, result, tmp, digest, inflight, broken, mem, bufs, free, fresh, shared, cancel>>
      BY <1>3, <1>5, Zenon DEF ReadSource, Store, EndLeg, Goto, gpu, pool
    <2> QED BY <1>1, <1>3, <1>4, <1>5, <2>1, StoreData, Zenon
  <1>6. CASE ~ToFile(u) /\ ~LastLeg(u)
    <2>1. /\ mem' = [mem EXCEPT ![BufferAt(u, li[u] + 1, ci[u])] = Carried(u, ci[u])]
          /\ li' = [li EXCEPT ![u] = @ + 1]
          /\ pc' = [pc EXCEPT ![u] = "leg"]
          /\ UNCHANGED <<ci, async, result, tmp, digest, inflight, broken, data, bufs, free, fresh, shared, cancel>>
      BY <1>3, <1>6, Zenon DEF ReadSource, Store, EndLeg, Goto, gpu, pool
    <2> QED BY <1>1, <1>3, <1>4, <1>6, <2>1, StoreMem, Zenon
  <1>7. CASE ToFile(u)
    <2>1. /\ tmp' = [tmp EXCEPT ![u] = Carried(u, ci[u])]
          /\ pc' = [pc EXCEPT ![u] = "seek"]
          /\ UNCHANGED <<ci, li, async, result, digest, inflight, broken, mem, data, bufs, free, fresh, shared, cancel>>
      BY <1>3, <1>7, Zenon DEF ReadSource, Goto, gpu, pool
    <2>2. /\ pc[u] \notin Ringless /\ pc[u] \in Working /\ pc[u] \in Holding
          /\ pc'[u] = "seek" /\ tmp'[u] = Carried(u, ci[u])
          /\ \A t \in Transfers : t # u => pc'[t] = pc[t] /\ tmp'[t] = tmp[t]
          /\ pc' \in [Transfers -> Label] /\ tmp' \in [Transfers -> Value]
      BY <1>1, <1>2, <1>3, <2>1, Zenon DEF Working, Holding, Ringless, TypeOK, Label
    <2>3. TypeOK'
      <3>1. \A t \in Transfers :
              /\ ci'[t] <= Chunks[t] /\ li'[t] < Legs[t]
              /\ pc'[t] \in {"sync", "leg", "read", "seek", "write"} => ci'[t] < Chunks[t]
              /\ pc'[t] \notin Ringless => Len(bufs'[t]) = Needed(t)
        BY <1>2, <1>3, <2>1, <2>2, Zenon DEF TypeOK, Ringless
      <3> QED BY <1>2, <1>4, <2>1, <2>2, <3>1, Zenon DEF TypeOK, OwnPositions, Ringless
    <2>4. Exclusive'
      BY <2>1, <2>2, <1>2, ExclusiveStep, Zenon DEF IInv
    <2>5. SourcesIntact'
      BY <2>1, SourcesKept, Zenon DEF IInv
    <2>6. ASSUME NEW t \in Transfers, t # u PROVE Same(t)
      BY <1>4, <2>1, <2>2, <2>6, PositionsKept, Zenon DEF Same
    <2>7. Streams(u)' /\ Earlier(u)' /\ Checked(u)'
      BY <1>2, <2>1, <2>2, WorkingLocal, Zenon DEF Working
    <2>8. (FromFile(u)' <=> FromFile(u)) /\ (ToFile(u)' <=> ToFile(u))
      BY <2>1, Zenon DEF FromFile, ToFile, LastLeg
    <2>9. Current(u)'
      BY <1>1, <1>2, <1>7, <2>1, <2>2, <2>8, Zenon DEF Local, Current, Copying
    <2>10. AtHand(u)'
      BY <1>1, <1>2, <2>1, <2>2, Zenon DEF Local, AtHand, Copying, BufferAt
    <2> QED BY <2>3, <2>4, <2>5, <2>6, <2>7, <2>9, <2>10, StepInv, Zenon DEF Local
  <1> QED BY <1>5, <1>6, <1>7, Zenon

\* So does the write.
LEMMA WriteDestInv ==
  ASSUME PrivateEndpoints, IInv, NEW u \in Transfers, WriteDest(u)
  PROVE  IInv'
  <1> DEFINE v == IF FromFile(u) THEN tmp[u] ELSE SourceValue(u)
  <1>1. pc[u] = "write" /\ pc[u] \in Copying /\ pos' = [pos EXCEPT ![Dest[u]] = @ + 1]
    BY Zenon DEF WriteDest, Copying
  <1>2. /\ pos \in [Endpoints -> Nat] /\ Dest[u] \in Endpoints /\ Current(u) /\ AtHand(u)
        /\ Cells[Dest[u]] \in Nat /\ tmp[u] \in Value
    BY PipelineConstants, Zenon DEF IInv, TypeOK, Local
  <1>3. ToFile(u) /\ LastLeg(u) /\ pos[Dest[u]] = DstOff[u] + ci[u]
    BY <1>1, <1>2, Zenon DEF Current, ToFile
  <1>4. /\ ci[u] \in Nat /\ ci[u] < Chunks[u] /\ SourceValue(u) \in Value
        /\ u \notin shared => SourceValue(u) = Carried(u, ci[u])
    BY <1>1, FoundAtSource, Zenon
  <1>5. v \in Value /\ (u \notin shared => v = Carried(u, ci[u]))
    BY <1>1, <1>2, <1>4, Zenon DEF AtHand
  <1>6. pos[Dest[u]] < Cells[Dest[u]]
    BY <1>2, <1>3, <1>4, CarriedFacts
  <1>7. OwnPositions(u)
    BY <1>1, <1>2, <1>3 DEF OwnPositions, ToFile
  <1>8. /\ data' = [data EXCEPT ![Dest[u]][DstOff[u] + ci[u]] = v]
        /\ ci' = [ci EXCEPT ![u] = @ + 1]
        /\ pc' = [pc EXCEPT ![u] = "head"]
        /\ UNCHANGED <<li, async, result, tmp, digest, inflight, broken, mem, bufs, free, fresh, shared, cancel>>
    BY <1>3, <1>6, Zenon DEF WriteDest, EndLeg, Goto, gpu, pool
  <1> HIDE DEF v
  <1> QED BY <1>1, <1>3, <1>5, <1>7, <1>8, StoreData, Zenon

\* The chunk is queued on a stream on which nothing else uses its slots.
LEMMA QueueCopyInv ==
  ASSUME PrivateEndpoints, IInv, NEW u \in Transfers, QueueCopy(u)
  PROVE  IInv'
  <1>1. /\ pc[u] = "leg" /\ async[u] /\ LastLeg(u)
        /\ inflight' = [inflight EXCEPT ![u] = @ \cup {ci[u]}]
        /\ ci' = [ci EXCEPT ![u] = @ + 1]
        /\ pc' = [pc EXCEPT ![u] = "head"]
        /\ UNCHANGED <<li, async, result, tmp, digest, broken, mem, data, pos, bufs, free, fresh, shared, cancel>>
    BY Zenon DEF QueueCopy, EndLeg, Goto, store, pool
  <1>2. /\ TypeOK /\ Exclusive /\ Local(u) /\ pc \in [Transfers -> Label]
        /\ ci \in [Transfers -> Nat] /\ ci[u] \in Nat /\ ci[u] < Chunks[u]
        /\ inflight \in [Transfers -> SUBSET Nat]
    BY <1>1, Zenon DEF IInv, TypeOK
  <1>3. Chunks[u] \in Nat /\ Legs[u] \in Nat /\ li[u] = Legs[u] - 1
    BY <1>1, PipelineConstants, Zenon DEF LastLeg
  <1>4. /\ pc[u] \notin Ringless /\ pc[u] \in Working /\ pc[u] \in Holding /\ pc[u] \in Copying
        /\ pc'[u] = "head" /\ pc' \in [Transfers -> Label]
    BY <1>1, <1>2, Zenon DEF Working, Holding, Ringless, Copying, Label
  <1>5. /\ ci' \in [Transfers -> Nat] /\ ci'[u] = ci[u] + 1
        /\ inflight' \in [Transfers -> SUBSET Nat] /\ inflight'[u] = inflight[u] \cup {ci[u]}
        /\ \A t \in Transfers : t # u =>
             ci'[t] = ci[t] /\ pc'[t] = pc[t] /\ inflight'[t] = inflight[t]
    BY <1>1, <1>2
  <1>6. TypeOK'
    <2>1. \A t \in Transfers :
            /\ ci'[t] <= Chunks[t] /\ li'[t] < Legs[t]
            /\ pc'[t] \in {"sync", "leg", "read", "seek", "write"} => ci'[t] < Chunks[t]
            /\ pc'[t] \notin Ringless => Len(bufs'[t]) = Needed(t)
      BY <1>1, <1>2, <1>3, <1>4, <1>5, SMTT(30) DEF TypeOK, Ringless
    <2> QED BY <1>1, <1>2, <1>4, <1>5, <2>1, Zenon DEF TypeOK, Ringless
  <1>7. Exclusive'
    BY <1>1, <1>2, <1>4, ExclusiveStep, Zenon
  <1>8. SourcesIntact'
    BY <1>1, SourcesKept, Zenon DEF IInv
  <1>9. ASSUME NEW t \in Transfers, t # u PROVE Same(t)
    BY <1>1, <1>5, <1>9, Zenon DEF Same
  <1>10. Local(u)'
    <2>1. Streamed(u) /\ Legs[u] >= 2
      BY <1>1, <1>2, Zenon DEF Local, Streams, Streamed
    <2>2. u \notin shared => mem[BufferAt(u, Legs[u] - 1, ci[u])] = Carried(u, ci[u])
      BY <1>2, <1>3, <1>4, <2>1 DEF Local, AtHand
    <2>3. Streams(u)'
      <3>1. \A c \in inflight'[u] : c \in Nat /\ c < ci'[u]
        BY <1>2, <1>5, SMTT(20) DEF Local, Streams
      <3> QED BY <1>1, <1>2, <1>4, <2>1, <3>1, Zenon
         DEF Local, Streams, Streamed, Working, Owning, Verifying, Before
    <2>4. Current(u)' /\ AtHand(u)' /\ Checked(u)'
      BY <1>4, OutsideLeg, Zenon DEF Copying, Owning, Working
    <2>5. Earlier(u)'
      <3>1. u \notin shared /\ result'[u] = "ok" =>
              \A c \in inflight'[u] : mem'[BufferAt(u, Legs[u] - 1, c)'] = Carried(u, c)
        BY <1>1, <1>2, <1>5, <2>2, Zenon DEF Local, Earlier, BufferAt
      <3>2. u \notin shared => \A c \in 0 .. ci'[u] - 1 :
              c \in inflight'[u] \/ Slot(c) \in broken'[u] \/ Arrived(u, c)'
        BY <1>1, <1>2, <1>4, <1>5 DEF Local, Earlier, Arrived
      <3> QED BY <1>1, <1>4, <3>1, <3>2, Zenon DEF Earlier, Working
    <2> QED BY <2>3, <2>4, <2>5, Zenon DEF Local
  <1> QED BY <1>6, <1>7, <1>8, <1>9, <1>10, StepInv, Zenon

\* A stream carries a copy out.  While nothing has failed it finds the chunk;
\* after a failure it may find anything.
LEMMA StreamCopiesInv ==
  ASSUME PrivateEndpoints, IInv, NEW u \in Transfers, NEW c \in inflight[u], StreamCopies(u, c)
  PROVE  IInv'
  <1> DEFINE v == mem[BufferAt(u, Legs[u] - 1, c)]
  <1>1. /\ inflight' = [inflight EXCEPT ![u] = @ \ {c}]
        /\ data' = [data EXCEPT ![Dest[u]][DstOff[u] + c] = v]
        /\ UNCHANGED <<pc, ci, li, async, result, tmp, digest, broken, mem, pos, bufs, free, fresh, shared, cancel>>
    BY Zenon DEF StreamCopies, control, pool
  <1>2. /\ TypeOK /\ Local(u) /\ inflight \in [Transfers -> SUBSET Nat]
        /\ mem \in [Buffers -> Value]
    BY Zenon DEF IInv, TypeOK
  <1>3. /\ result[u] = "ok" => pc[u] \in Working
        /\ pc[u] \in Owning \cup {"destroy"}
        /\ async[u]
        /\ Legs[u] - 1 \in Nat /\ Legs[u] - 1 > 0 /\ Legs[u] - 1 < Legs[u]
        /\ c \in Nat /\ c < ci[u] /\ ci[u] \in Nat /\ ci[u] <= Chunks[u]
    BY <1>2, QueuedFacts, Zenon DEF Local
  <1>4. pc[u] \notin Ringless /\ c < Chunks[u]
    <2>1. pc[u] \notin Ringless
      BY <1>3, Zenon DEF Owning, Working, Ringless
    <2> QED BY <1>3, <2>1, PipelineConstants, SMTT(30)
  <1>5. v \in Value
    <2>1. BufferAt(u, Legs[u] - 1, c) \in Buffers
      BY <1>2, <1>3, <1>4, RingFacts, Zenon
    <2> QED BY <1>2, <2>1, Zenon
  <1>6. u \notin shared /\ result[u] = "ok" => v = Carried(u, c)
    BY <1>2, Zenon DEF Local, Earlier
  <1> HIDE DEF v
  <1>7. Wrote(u, c, v)
    BY <1>1, <1>3, <1>4, <1>5, WriteCell, Zenon
  <1>8. /\ inflight' \in [Transfers -> SUBSET Nat] /\ inflight'[u] = inflight[u] \ {c}
        /\ \A t \in Transfers : t # u => inflight'[t] = inflight[t]
    BY <1>1, <1>2, Zenon
  <1>9. TypeOK'
    BY <1>1, <1>2, <1>7, <1>8, Zenon DEF TypeOK, Wrote
  <1>10. Exclusive'
    BY <1>1, ExclusiveKept, Zenon DEF IInv
  <1>11. ASSUME NEW t \in Transfers, t # u PROVE Same(t)
    BY <1>1, <1>7, <1>8, <1>11, Zenon DEF Same, Wrote
  <1>12. Local(u)'
    <2>1. Streams(u)'
      BY <1>1, <1>2, <1>3, <1>8, Zenon DEF Local, Streams, Streamed
    <2>2. (FromFile(u)' <=> FromFile(u)) /\ (ToFile(u)' <=> ToFile(u))
      BY <1>1, Zenon DEF FromFile, ToFile, LastLeg
    <2>3. Current(u)'
      BY <1>1, <1>2, <1>8, <2>2, Zenon DEF Local, Current
    <2>7. AtHand(u)'
      BY <1>1, <1>2, <2>2, Zenon DEF Local, AtHand, BufferAt
    <2>8. Checked(u)'
      BY <1>1, <1>3, OutsideLeg, Zenon
    <2>4. ASSUME u \notin shared, pc[u] \in Working, NEW k \in 0 .. ci[u] - 1
          PROVE  k \in inflight'[u] \/ Slot(k) \in broken[u] \/ Arrived(u, k)'
      <3>1. CASE k = c
        <4>1. result[u] = "ok"
          BY <1>2, <2>4, Zenon DEF Local, Streams
        <4> QED BY <1>6, <1>7, <2>4, <3>1, <4>1, Zenon DEF Arrived, Carried, Wrote
      <3>2. CASE k # c
        <4>1. k \in Nat /\ k < Chunks[u]
          BY <1>3, PipelineConstants, SMTT(30)
        <4>2. data'[Dest[u]][DstOff[u] + k] = data[Dest[u]][DstOff[u] + k]
          BY <1>7, <3>2, <4>1, Zenon DEF Wrote
        <4> QED BY <1>2, <1>8, <2>4, <3>2, <4>2, Zenon DEF Local, Earlier, Arrived
      <3> QED BY <3>1, <3>2, Zenon
    <2>5. ASSUME u \notin shared, result[u] = "ok", NEW k \in inflight'[u]
          PROVE  mem[BufferAt(u, Legs[u] - 1, k)] = Carried(u, k)
      BY <1>2, <1>8, <2>5, Zenon DEF Local, Earlier
    <2>6. Earlier(u)'
      BY <1>1, <1>3, <2>4, <2>5, Zenon DEF Earlier, BufferAt, Owning, Working, Before
    <2> QED BY <2>1, <2>3, <2>6, <2>7, <2>8, Zenon DEF Local
  <1> QED BY <1>7, <1>9, <1>10, <1>11, <1>12, StepInv, Zenon DEF Wrote

\* A copy fails: its stream is broken.
LEMMA StreamFailsInv ==
  ASSUME PrivateEndpoints, IInv, NEW u \in Transfers, NEW c \in inflight[u], StreamFails(u, c)
  PROVE  IInv'
  <1>1. /\ inflight' = [inflight EXCEPT ![u] = @ \ {c}]
        /\ broken' = [broken EXCEPT ![u] = @ \cup {Slot(c)}]
        /\ UNCHANGED <<pc, ci, li, async, result, tmp, digest, mem, data, pos, bufs, free, fresh, shared, cancel>>
    BY Zenon DEF StreamFails, control, store, pool
  <1>2. /\ TypeOK /\ Local(u) /\ inflight \in [Transfers -> SUBSET Nat]
        /\ broken \in [Transfers -> SUBSET Slots]
    BY Zenon DEF IInv, TypeOK
  <1>3. /\ result[u] = "ok" => pc[u] \in Working
        /\ pc[u] \in Owning \cup {"destroy"} /\ async[u] /\ c \in Nat
    BY <1>2, QueuedFacts, Zenon DEF Local
  <1>4. /\ inflight' \in [Transfers -> SUBSET Nat] /\ inflight'[u] = inflight[u] \ {c}
        /\ broken' \in [Transfers -> SUBSET Slots] /\ broken'[u] = broken[u] \cup {Slot(c)}
        /\ \A t \in Transfers : t # u => inflight'[t] = inflight[t] /\ broken'[t] = broken[t]
    BY <1>1, <1>2, <1>3, SlotFacts, Zenon
  <1>5. TypeOK'
    BY <1>1, <1>2, <1>4, Zenon DEF TypeOK
  <1>6. Exclusive' /\ SourcesIntact'
    BY <1>1, ExclusiveKept, SourcesKept, Zenon DEF IInv
  <1>7. ASSUME NEW t \in Transfers, t # u PROVE Same(t)
    BY <1>1, <1>4, <1>7, Zenon DEF Same
  <1>8. Local(u)'
    <2>1. Streams(u)'
      BY <1>1, <1>2, <1>3, <1>4, Zenon DEF Local, Streams, Streamed
    <2>2. (FromFile(u)' <=> FromFile(u)) /\ (ToFile(u)' <=> ToFile(u))
      BY <1>1, Zenon DEF FromFile, ToFile, LastLeg
    <2>3. Current(u)'
      BY <1>1, <1>2, <1>4, <2>2, Zenon DEF Local, Current
    <2>4. Earlier(u)'
      BY <1>1, <1>2, <1>3, <1>4, Zenon DEF Local, Earlier, Arrived, BufferAt
    <2>5. AtHand(u)'
      BY <1>1, <1>2, <2>2, Zenon DEF Local, AtHand, BufferAt
    <2>6. Checked(u)'
      BY <1>1, <1>3, OutsideLeg, Zenon
    <2> QED BY <2>1, <2>3, <2>4, <2>5, <2>6, Zenon DEF Local
  <1> QED BY <1>5, <1>6, <1>7, <1>8, StepInv, Zenon
-----------------------------------------------------------------------------
(* The steps that change the owners of buffers.                            *)

\* A transfer that begins has no buffer yet.
LEMMA SubmitInv ==
  ASSUME PrivateEndpoints, IInv, NEW u \in Transfers, Submit(u)
  PROVE  IInv'
  <1>1. /\ pc[u] = "idle" /\ pc' = [pc EXCEPT ![u] = "reserve"]
        /\ UNCHANGED <<ci, li, async, result, tmp, digest, inflight, broken, mem, data, pos, bufs, free, fresh, shared, cancel>>
    BY Zenon DEF Submit, Goto, gpu, store, pool
  <1>2. TypeOK /\ Exclusive /\ Local(u) /\ pc \in [Transfers -> Label]
    BY Zenon DEF IInv, TypeOK
  <1>3. /\ pc'[u] = "reserve" /\ pc' \in [Transfers -> Label]
        /\ \A t \in Transfers : t # u => pc'[t] = pc[t]
    BY <1>1, <1>2, Zenon DEF Label
  <1>4. TypeOK'
    <2>1. \A t \in Transfers :
            /\ pc'[t] \in {"sync", "leg", "read", "seek", "write"} => ci'[t] < Chunks[t]
            /\ pc'[t] \notin Ringless => Len(bufs'[t]) = Needed(t)
      BY <1>1, <1>2, <1>3, Zenon DEF TypeOK, Ringless
    <2> QED BY <1>1, <1>2, <1>3, <2>1, Zenon DEF TypeOK, Ringless
  <1>5. Exclusive'
    <2>1. bufs[u] = <<>>
      BY <1>1, <1>2, Zenon DEF Local, Streams
    <2>2. DOMAIN bufs[u] = {}
      BY <2>1
    <2>3. Distinct(bufs[u]) /\ Range(bufs[u]) = {}
      BY <2>2, Zenon DEF Distinct, Range
    <2>4. \A t \in Transfers, b \in Buffers : Owns(t, b)' => t # u /\ Owns(t, b)
      BY <1>1, <1>3, <2>3, Zenon DEF Owns
    <2>5. \A t \in Transfers \ shared : pc'[t] \in Holding => Distinct(bufs[t])
      BY <1>2, <1>3, <2>3, Zenon DEF Exclusive
    <2> QED BY <1>1, <1>2, <2>4, <2>5, Zenon DEF Exclusive
  <1>6. SourcesIntact'
    BY <1>1, SourcesKept, Zenon DEF IInv
  <1>7. ASSUME NEW t \in Transfers, t # u PROVE Same(t)
    BY <1>1, <1>3, <1>7, Zenon DEF Same
  <1>8. Local(u)'
    <2>1. Streams(u)'
      BY <1>1, <1>2, <1>3, Zenon DEF Local, Streams, Streamed, Working, Owning, Verifying, Before
    <2>2. Current(u)' /\ AtHand(u)' /\ Checked(u)'
      BY <1>3, Zenon DEF Current, AtHand, Checked, Settled, Copying
    <2>3. Earlier(u)'
      <3>1. inflight[u] = {}
        BY <1>1, <1>2, Zenon DEF Local, Streams, Owning, Working
      <3> QED BY <1>1, <1>3, <3>1, Zenon DEF Earlier, Working, Before
    <2> QED BY <2>1, <2>2, <2>3, Zenon DEF Local
  <1> QED BY <1>4, <1>5, <1>6, <1>7, <1>8, StepInv, Zenon

\* The pool gives a buffer away.  If somebody has it, that is recorded.
LEMMA TakeInv ==
  ASSUME PrivateEndpoints, IInv, NEW u \in Transfers, pc[u] = "reserve", NEW b \in Buffers,
         Take(u, b), free' \in Seq(Buffers), fresh' \subseteq Buffers,
         UNCHANGED <<pc, ci, li, async, result, tmp, digest, inflight, broken, mem, data, pos, cancel>>
  PROVE  IInv'
  <1>1. /\ TypeOK /\ Exclusive /\ Local(u) /\ bufs \in [Transfers -> Seq(Buffers)]
        /\ shared \subseteq Transfers /\ pc[u] \in Holding
    BY Zenon DEF IInv, TypeOK, Holding
  <1>2. /\ bufs'[u] = Append(bufs[u], b) /\ DOMAIN bufs' = Transfers
        /\ \A t \in Transfers : t # u => bufs'[t] = bufs[t]
    BY <1>1, Zenon DEF Take
  <1>3. /\ bufs'[u] \in Seq(Buffers) /\ Range(bufs'[u]) = Range(bufs[u]) \cup {b}
        /\ Distinct(bufs[u]) /\ b \notin Range(bufs[u]) => Distinct(bufs'[u])
    <2>1. bufs[u] \in Seq(Buffers)
      BY <1>1, Zenon
    <2> QED BY <1>2, <2>1, AppendFacts, Zenon
  <1>4. bufs' \in [Transfers -> Seq(Buffers)]
    BY <1>1, <1>3, Zenon DEF Take
  <1>5. shared \subseteq shared' /\ shared' \subseteq Transfers
    BY <1>1, Zenon DEF Take, Holders
  <1>6. TypeOK'
    <2>1. \A t \in Transfers : pc'[t] \notin Ringless => Len(bufs'[t]) = Needed(t)
      BY <1>1, <1>2, Zenon DEF TypeOK, Ringless
    <2> QED BY <1>1, <1>4, <1>5, <2>1, Zenon DEF TypeOK, Ringless
  <1>7. \A t \in Transfers, x \in Buffers : Owns(t, x)' => Owns(t, x) \/ (t = u /\ x = b)
    BY <1>2, <1>3, Zenon DEF Owns
  <1>8. Exclusive'
    <2>1. CASE Holders(b) = {}
      <3>1. shared' = shared /\ \A t \in Transfers : ~Owns(t, b)
        BY <2>1, Zenon DEF Take, Holders, Owns
      <3>2. \A t \in Transfers \ shared : pc'[t] \in Holding => Distinct(bufs'[t])
        BY <1>1, <1>2, <1>3, <3>1, Zenon DEF Exclusive, Owns
      <3>3. \A t \in Transfers \ shared, w \in Transfers, x \in Buffers :
              Owns(t, x)' /\ Owns(w, x)' => t = w
        BY <1>1, <1>7, <3>1, ZenonT(40) DEF Exclusive
      <3> QED BY <3>1, <3>2, <3>3, Zenon DEF Exclusive
    <2>2. CASE Holders(b) # {}
      <3>1. \A t \in Transfers \ shared' : t # u /\ t \notin shared /\ ~Owns(t, b)
        BY <2>2, Zenon DEF Take, Holders, Owns
      <3>2. \A t \in Transfers \ shared' : pc'[t] \in Holding => Distinct(bufs'[t])
        BY <1>1, <1>2, <3>1, Zenon DEF Exclusive
      <3>3. \A t \in Transfers \ shared', w \in Transfers, x \in Buffers :
              Owns(t, x)' /\ Owns(w, x)' => t = w
        BY <1>1, <1>7, <3>1, Zenon DEF Exclusive
      <3> QED BY <3>2, <3>3, Zenon DEF Exclusive
    <2> QED BY <2>1, <2>2, Zenon
  <1>9. SourcesIntact'
    BY SourcesKept, Zenon DEF IInv
  <1>10. ASSUME NEW t \in Transfers, t # u PROVE Same(t)
    BY <1>2, <1>5, <1>10, Zenon DEF Same
  <1>11. Local(u)'
    <2>1. Streams(u)'
      BY <1>1, Zenon DEF Local, Streams, Streamed
    <2>2. Current(u)' /\ AtHand(u)' /\ Checked(u)'
      BY Zenon DEF Current, AtHand, Checked, Settled, Copying
    <2>3. Earlier(u)'
      <3>1. inflight[u] = {}
        BY <1>1, Zenon DEF Local, Streams, Owning, Working
      <3> QED BY <3>1, Zenon DEF Earlier, Working, Before
    <2> QED BY <2>1, <2>2, <2>3, Zenon DEF Local
  <1> QED BY <1>6, <1>8, <1>9, <1>10, <1>11, StepInv, Zenon

LEMMA ReserveInv ==
  ASSUME PrivateEndpoints, IInv, NEW u \in Transfers, Reserve(u)
  PROVE  IInv'
  <1>1. /\ pc[u] = "reserve" /\ free \in Seq(Buffers) /\ fresh \subseteq Buffers
        /\ UNCHANGED <<pc, ci, li, async, result, tmp, digest, inflight, broken, mem, data, pos, cancel>>
    BY Zenon DEF Reserve, IInv, TypeOK, control, gpu, store
  <1>2. CASE free # <<>> /\ Take(u, Head(free)) /\ free' = Tail(free) /\ fresh' = fresh
    <2>1. Head(free) \in Buffers /\ Tail(free) \in Seq(Buffers)
      BY <1>1, <1>2
    <2> QED BY <1>1, <1>2, <2>1, TakeInv, Zenon
  <1>3. CASE fresh # {} /\ free' = free /\
             Take(u, CHOOSE b \in fresh : TRUE) /\ fresh' = fresh \ {CHOOSE b \in fresh : TRUE}
    <2>1. (CHOOSE b \in fresh : TRUE) \in Buffers
      BY <1>1, <1>3, Zenon
    <2>2. fresh' \subseteq Buffers /\ free' \in Seq(Buffers)
      BY <1>1, <1>3, Zenon
    <2> QED BY <1>1, <1>3, <2>1, <2>2, TakeInv, Zenon
  <1> QED BY <1>2, <1>3, Zenon DEF Reserve

\* The worker begins with the buffers that were reserved.
LEMMA BeginInv ==
  ASSUME PrivateEndpoints, IInv, NEW u \in Transfers, Begin(u)
  PROVE  IInv'
  <1>1. /\ pc[u] = "reserve" /\ pc' = [pc EXCEPT ![u] = "head"] /\ Len(bufs[u]) = Needed(u)
        /\ UNCHANGED <<ci, li, result, tmp, digest, inflight, broken, mem, data, pos, bufs, free, fresh, shared, cancel>>
    BY Zenon DEF Begin, Goto, gpu, store, pool
  <1>2. PICK a \in BOOLEAN : async' = [async EXCEPT ![u] = a] /\ (a => Streamed(u))
    BY Zenon DEF Begin
  <1>3. /\ TypeOK /\ Exclusive /\ Local(u) /\ pc \in [Transfers -> Label]
        /\ async \in [Transfers -> BOOLEAN]
    BY Zenon DEF IInv, TypeOK
  <1>4. /\ pc'[u] = "head" /\ (async'[u] => Streamed(u))
        /\ \A t \in Transfers : t # u => pc'[t] = pc[t] /\ async'[t] = async[t]
        /\ async' \in [Transfers -> BOOLEAN] /\ pc' \in [Transfers -> Label]
    BY <1>1, <1>2, <1>3, Zenon DEF Label
  <1>5. TypeOK'
    <2>1. \A t \in Transfers :
            /\ pc'[t] \in {"sync", "leg", "read", "seek", "write"} => ci'[t] < Chunks[t]
            /\ pc'[t] \notin Ringless => Len(bufs'[t]) = Needed(t)
      BY <1>1, <1>3, <1>4, Zenon DEF TypeOK, Ringless
    <2> QED BY <1>1, <1>3, <1>4, <2>1, Zenon DEF TypeOK, Ringless
  <1>6. Exclusive'
    BY <1>1, <1>3, ExclusiveStep, Zenon DEF Holding
  <1>7. SourcesIntact'
    BY <1>1, SourcesKept, Zenon DEF IInv
  <1>8. ASSUME NEW t \in Transfers, t # u PROVE Same(t)
    BY <1>1, <1>4, <1>8, Zenon DEF Same
  <1>9. Local(u)'
    <2>1. ci[u] = 0 /\ inflight[u] = {} /\ broken[u] = {} /\ result[u] = "ok"
      BY <1>1, <1>3, Zenon DEF Local, Streams, Before
    <2>2. Streams(u)'
      BY <1>1, <1>4, <2>1, Zenon DEF Streams, Streamed, Working, Owning, Verifying, Before
    <2>3. Current(u)' /\ AtHand(u)' /\ Checked(u)'
      BY <1>4, OutsideLeg, Zenon DEF Copying, Owning, Working
    <2>4. Earlier(u)'
      BY <1>1, <1>4, <2>1 DEF Earlier, Working
    <2> QED BY <2>2, <2>3, <2>4, Zenon DEF Local
  <1> QED BY <1>5, <1>6, <1>7, <1>8, <1>9, StepInv, Zenon

\* The sequences of the pool put together.
LEMMA ReleaseFacts ==
  ASSUME TypeOK, NEW u \in Transfers
  PROVE  free \o bufs[u] \in Seq(Buffers)
  <1>1. free \in Seq(Buffers) /\ bufs[u] \in Seq(Buffers)
    BY Zenon DEF TypeOK
  <1> QED BY <1>1

\* The worker has no use for its buffers any more; copies that are still
\* queued after a failure have.
LEMMA ReleaseRingsInv ==
  ASSUME PrivateEndpoints, IInv, NEW u \in Transfers, ReleaseRings(u)
  PROVE  IInv'
  <1>1. /\ pc[u] = "release" /\ pc' = [pc EXCEPT ![u] = "destroy"]
        /\ free' = free \o bufs[u]
        /\ UNCHANGED <<ci, li, async, result, tmp, digest, inflight, broken, mem, data, pos, bufs, fresh, shared, cancel>>
    BY Zenon DEF ReleaseRings, Goto, gpu, store
  <1>2. /\ TypeOK /\ Exclusive /\ Local(u) /\ pc \in [Transfers -> Label]
        /\ free \o bufs[u] \in Seq(Buffers)
    BY ReleaseFacts, Zenon DEF IInv, TypeOK
  <1>3. /\ pc'[u] = "destroy" /\ pc' \in [Transfers -> Label]
        /\ \A t \in Transfers : t # u => pc'[t] = pc[t]
    BY <1>1, <1>2, Zenon DEF Label
  <1>4. TypeOK'
    <2>1. \A t \in Transfers :
            /\ pc'[t] \in {"sync", "leg", "read", "seek", "write"} => ci'[t] < Chunks[t]
            /\ pc'[t] \notin Ringless => Len(bufs'[t]) = Needed(t)
      BY <1>1, <1>2, <1>3, Zenon DEF TypeOK, Ringless
    <2> QED BY <1>1, <1>2, <1>3, <2>1, Zenon DEF TypeOK, Ringless
  <1>5. Exclusive'
    BY <1>1, <1>2, ExclusiveStep, Zenon DEF Holding
  <1>6. SourcesIntact'
    BY <1>1, SourcesKept, Zenon DEF IInv
  <1>7. ASSUME NEW t \in Transfers, t # u PROVE Same(t)
    BY <1>1, <1>3, <1>7, Zenon DEF Same
  <1>8. Local(u)'
    <2>1. Streams(u)'
      BY <1>1, <1>2, <1>3, Zenon DEF Local, Streams, Streamed, Working, Owning, Verifying, Before
    <2>2. Current(u)' /\ AtHand(u)' /\ Checked(u)'
      BY <1>3, OutsideLeg, Zenon DEF Copying
    <2>3. Earlier(u)'
      BY <1>1, <1>2, <1>3, Zenon DEF Local, Earlier, Working, Arrived, BufferAt, Before
    <2> QED BY <2>1, <2>2, <2>3, Zenon DEF Local
  <1> QED BY <1>4, <1>5, <1>6, <1>7, <1>8, StepInv, Zenon

\* The reservation is given up: the transfer has failed.
LEMMA GiveUpInv ==
  ASSUME PrivateEndpoints, IInv, NEW u \in Transfers, GiveUp(u)
  PROVE  IInv'
  <1>1. /\ pc[u] = "reserve" /\ pc' = [pc EXCEPT ![u] = "over"]
        /\ free' = free \o bufs[u] /\ bufs' = [bufs EXCEPT ![u] = <<>>]
        /\ result' = [result EXCEPT ![u] = "resource_exhausted"]
        /\ UNCHANGED <<ci, li, async, tmp, digest, inflight, broken, mem, data, pos, fresh, shared, cancel>>
    BY Zenon DEF GiveUp, Fail, Goto, gpu, store
  <1>2. /\ TypeOK /\ Exclusive /\ Local(u) /\ pc \in [Transfers -> Label]
        /\ free \o bufs[u] \in Seq(Buffers) /\ bufs \in [Transfers -> Seq(Buffers)]
        /\ result \in [Transfers -> Result]
    BY ReleaseFacts, Zenon DEF IInv, TypeOK, Result
  <1>3. <<>> \in Seq(Buffers)
    OBVIOUS
  <1>4. /\ pc'[u] = "over" /\ pc' \in [Transfers -> Label] /\ bufs' \in [Transfers -> Seq(Buffers)]
        /\ result'[u] # "ok" /\ result' \in [Transfers -> Result]
        /\ \A t \in Transfers : t # u =>
             pc'[t] = pc[t] /\ bufs'[t] = bufs[t] /\ result'[t] = result[t]
    BY <1>1, <1>2, <1>3, Zenon DEF Label, Result
  <1>5. TypeOK'
    <2>1. \A t \in Transfers :
            /\ pc'[t] \in {"sync", "leg", "read", "seek", "write"} => ci'[t] < Chunks[t]
            /\ pc'[t] \notin Ringless => Len(bufs'[t]) = Needed(t)
      BY <1>1, <1>2, <1>4, Zenon DEF TypeOK, Ringless
    <2> QED BY <1>1, <1>2, <1>4, <2>1, Zenon DEF TypeOK, Ringless, Result
  <1>6. Exclusive'
    BY <1>1, <1>2, <1>4, ExclusiveKept, Zenon DEF Holding
  <1>7. SourcesIntact'
    BY <1>1, SourcesKept, Zenon DEF IInv
  <1>8. ASSUME NEW t \in Transfers, t # u PROVE Same(t)
    BY <1>1, <1>4, <1>8, Zenon DEF Same
  <1>9. Local(u)'
    <2>1. inflight[u] = {} /\ broken[u] = {} /\ ~async[u]
      BY <1>1, <1>2, Zenon DEF Local, Streams, Before
    <2>2. Streams(u)'
      BY <1>1, <1>4, <2>1, Zenon DEF Streams, Working, Owning, Verifying, Before
    <2>3. Current(u)' /\ AtHand(u)' /\ Checked(u)'
      BY <1>4, Zenon DEF Current, AtHand, Checked, Copying
    <2>4. Earlier(u)'
      BY <1>4, Zenon DEF Earlier, Working
    <2> QED BY <2>2, <2>3, <2>4, Zenon DEF Local
  <1> QED BY <1>5, <1>6, <1>7, <1>8, <1>9, StepInv, Zenon

\* The second release: others may have the buffers by now, the data is there.
LEMMA ReleaseAgainInv ==
  ASSUME PrivateEndpoints, IInv, NEW u \in Transfers, ReleaseAgain(u)
  PROVE  IInv'
  <1>1. /\ pc[u] = "returned" /\ pc' = [pc EXCEPT ![u] = "over"]
        /\ free' = free \o bufs[u] /\ bufs' = [bufs EXCEPT ![u] = <<>>]
        /\ ci' = [ci EXCEPT ![u] = 0] /\ li' = [li EXCEPT ![u] = 0]
        /\ async' = [async EXCEPT ![u] = FALSE] /\ broken' = [broken EXCEPT ![u] = {}]
        /\ tmp' = [tmp EXCEPT ![u] = Nothing] /\ digest' = [digest EXCEPT ![u] = Nothing]
        /\ UNCHANGED <<result, inflight, mem, data, pos, fresh, shared, cancel>>
    BY Zenon DEF ReleaseAgain, Goto, store
  <1>2. /\ TypeOK /\ Exclusive /\ Local(u) /\ pc \in [Transfers -> Label]
        /\ free \o bufs[u] \in Seq(Buffers) /\ bufs \in [Transfers -> Seq(Buffers)]
        /\ ci \in [Transfers -> Nat] /\ li \in [Transfers -> Nat]
        /\ async \in [Transfers -> BOOLEAN] /\ broken \in [Transfers -> SUBSET Slots]
        /\ tmp \in [Transfers -> Value] /\ DOMAIN digest = Transfers
    BY ReleaseFacts, Zenon DEF IInv, TypeOK
  <1>3. <<>> \in Seq(Buffers) /\ 0 \in Nat /\ 0 <= Chunks[u] /\ 0 < Legs[u] /\ Nothing \in Value
    BY PipelineConstants DEF Value
  <1>4. /\ pc'[u] = "over" /\ ci'[u] = 0 /\ li'[u] = 0 /\ ~async'[u] /\ broken'[u] = {}
        /\ \A t \in Transfers : t # u =>
             /\ pc'[t] = pc[t] /\ bufs'[t] = bufs[t] /\ ci'[t] = ci[t] /\ li'[t] = li[t]
             /\ async'[t] = async[t] /\ broken'[t] = broken[t] /\ tmp'[t] = tmp[t]
             /\ digest'[t] = digest[t]
    BY <1>1, <1>2, Zenon
  <1>5. /\ pc' \in [Transfers -> Label] /\ bufs' \in [Transfers -> Seq(Buffers)]
        /\ ci' \in [Transfers -> Nat] /\ li' \in [Transfers -> Nat]
        /\ async' \in [Transfers -> BOOLEAN] /\ broken' \in [Transfers -> SUBSET Slots]
        /\ tmp' \in [Transfers -> Value] /\ DOMAIN digest' = Transfers
    BY <1>1, <1>2, <1>3, Zenon DEF Label
  <1>6. TypeOK'
    <2>1. \A t \in Transfers :
            /\ ci'[t] <= Chunks[t] /\ li'[t] < Legs[t]
            /\ pc'[t] \in {"sync", "leg", "read", "seek", "write"} => ci'[t] < Chunks[t]
            /\ pc'[t] \notin Ringless => Len(bufs'[t]) = Needed(t)
      BY <1>2, <1>3, <1>4, ZenonT(40) DEF TypeOK, Ringless
    <2> QED BY <1>1, <1>2, <1>5, <2>1, Zenon DEF TypeOK, Ringless
  <1>7. Exclusive'
    BY <1>1, <1>2, <1>4, ExclusiveKept, Zenon DEF Holding
  <1>8. SourcesIntact'
    BY <1>1, SourcesKept, Zenon DEF IInv
  <1>9. ASSUME NEW t \in Transfers, t # u PROVE Same(t)
    BY <1>1, <1>4, <1>9, Zenon DEF Same
  <1>10. Local(u)'
    <2>1. inflight[u] = {}
      BY <1>1, <1>2, Zenon DEF Local, Streams, Owning, Working
    <2>2. Streams(u)'
      BY <1>1, <1>4, <2>1, Zenon DEF Streams, Working, Owning, Verifying, Before
    <2>3. Current(u)' /\ AtHand(u)'
      BY <1>4, Zenon DEF Current, AtHand, Copying
    <2>4. Earlier(u)'
      BY <1>1, <1>2, <1>4, <2>1, Zenon DEF Local, Earlier, Arrived, Working, Before
    <2>5. Checked(u)'
      BY <1>1, <1>2, <1>4, Zenon DEF Local, Checked, Settled, InPlace
    <2> QED BY <2>2, <2>3, <2>4, <2>5, Zenon DEF Local
  <1> QED BY <1>6, <1>7, <1>8, <1>9, <1>10, StepInv, Zenon
-----------------------------------------------------------------------------
(* The invariant holds, and what follows from it.                          *)

LEMMA InitInv ==
  ASSUME Init
  PROVE  IInv
  <1>1. TypeOK
    <2>1. \A t \in Transfers : 0 <= Chunks[t] /\ 0 < Legs[t]
      BY PipelineConstants
    <2>2. \A e \in Endpoints : data[e] \in [0 .. Cells[e] - 1 -> Value]
      BY PipelineConstants DEF Init, Initially, Value
    <2>3. <<>> \in Seq(Buffers) /\ free \in Seq(Buffers)
      <3>1. Recycled \in Seq(Buffers) /\ free \in {<<>>, Recycled}
        BY PipelineConstants, Zenon DEF Init
      <3>2. <<>> \in Seq(Buffers)
        OBVIOUS
      <3> QED BY <3>1, <3>2, Zenon
    <2> QED BY <2>1, <2>2, <2>3, Zenon DEF Init, TypeOK, Label, Value
  <1>2. Exclusive
    BY Zenon DEF Init, Exclusive, Owns, Holding
  <1>3. SourcesIntact
    BY PipelineConstants, Zenon DEF Init, SourcesIntact
  <1>4. ASSUME NEW t \in Transfers PROVE Local(t)
    BY Zenon DEF Init, Local, Streams, Current, AtHand, Earlier, Checked, Settled, Working, Copying, Before
  <1> QED BY <1>1, <1>2, <1>3, <1>4, Zenon DEF IInv

LEMMA NextInv ==
  ASSUME PrivateEndpoints, IInv, [Next]_vars
  PROVE  IInv'
  <1>1. CASE UNCHANGED vars \/ AllReturned
    BY <1>1, CancelInv, Zenon DEF AllReturned
  <1>2. ASSUME NEW u \in Transfers,
               Submit(u) \/ Reserve(u) \/ GiveUp(u) \/ Begin(u) \/ Cancel(u)
        PROVE  IInv'
    BY <1>2, SubmitInv, ReserveInv, GiveUpInv, BeginInv, CancelInv, Zenon
  <1>3. ASSUME NEW u \in Transfers, DeviceStep(u) PROVE IInv'
    BY <1>3, StreamCopiesInv, StreamFailsInv, Zenon DEF DeviceStep
  <1>4. ASSUME NEW u \in Transfers, WorkerStep(u) PROVE IInv'
    <2>1. CASE CancelSeen(u) \/ LegFails(u) \/ NextChunk(u) \/ SyncSlot(u)
      BY <2>1, FailInv, NextChunkInv, SyncSlotInv, Zenon
    <2>2. CASE CopyMemory(u) \/ QueueCopy(u)
      BY <2>2, CopyMemoryInv, QueueCopyInv, Zenon
    <2>3. CASE SeekSource(u) \/ ReadSource(u) \/ SeekDest(u) \/ WriteDest(u)
      BY <2>3, SeekSourceInv, ReadSourceInv, SeekDestInv, WriteDestInv, Zenon
    <2>4. CASE Drain(u) \/ ReleaseRings(u) \/ DestroyStreams(u) \/ ReleaseAgain(u)
      BY <2>4, DrainInv, ReleaseRingsInv, DestroyStreamsInv, ReleaseAgainInv, Zenon
    <2>5. CASE \/ SeekHash(u, Source[u], SrcOff[u], "hash", "hash_read")
               \/ SeekHash(u, Dest[u], DstOff[u], "compare", "compare_read")
               \/ HashSource(u) \/ HashSourceFails(u) \/ HashDest(u) \/ HashDestFails(u)
      BY <2>5, VerifyInv, Zenon
    <2> QED BY <1>4, <2>1, <2>2, <2>3, <2>4, <2>5, Zenon DEF WorkerStep
  <1> QED BY <1>1, <1>2, <1>3, <1>4, Zenon DEF Next

LEMMA Invariance == ASSUME PrivateEndpoints PROVE Spec => []IInv
  BY InitInv, NextInv, PTL DEF Spec

\* run_transfer() keeps its state well formed: indices inside the plan and the
\* route, as many buffers as the rings have slots, a free list of buffers, cells
\* and buffers with contents.
THEOREM TypeCorrect == ASSUME PrivateEndpoints PROVE Spec => []TypeOK
  <1>1. IInv => TypeOK
    BY Zenon DEF IInv
  <1> QED BY <1>1, Invariance, PTL

\* StagedDataIntact: sync_stream() before a slot is used again keeps a chunk in
\* its slot until the stream has copied it, whatever the free list has twice, as
\* long as the pool gives the buffers of this transfer to no other one.
THEOREM StagedDataIntactAlways == ASSUME PrivateEndpoints PROVE Spec => []StagedDataIntact
  <1>1. IInv => StagedDataIntact
    BY Zenon DEF IInv, Local, Earlier, StagedDataIntact
  <1> QED BY <1>1, Invariance, PTL

\* UnsharedMeansCopied: when run_transfer() returns success and no other transfer
\* was given one of its buffers, every chunk is where the plan writes it, whatever
\* the streams and the other transfers did.
THEOREM UnsharedMeansCopiedAlways == ASSUME PrivateEndpoints PROVE Spec => []UnsharedMeansCopied
  <1>1. ASSUME IInv, NEW t \in Transfers \ shared, Settled(t), result[t] = "ok",
               NEW c \in 0 .. Chunks[t] - 1
        PROVE  data[Dest[t]][DstOff[t] + c] = Carried(t, c)
    <2>1. pc[t] \notin Working \cup Before
      BY <1>1, Zenon DEF Settled, Working, Before
    <2> QED BY <1>1, <2>1, Zenon DEF IInv, Local, Earlier, Arrived
  <1>2. IInv => UnsharedMeansCopied
    BY <1>1, Zenon DEF UnsharedMeansCopied
  <1> QED BY <1>2, Invariance, PTL

\* VerifiedMeansCopied: a success of a verified transfer between files or memories
\* is never false, also when other transfers had its buffers and when desc.offset
\* is not 0: the digests are taken of the regions themselves after the copies.
THEOREM VerifiedMeansCopiedAlways == ASSUME PrivateEndpoints PROVE Spec => []VerifiedMeansCopied
  <1>1. IInv => VerifiedMeansCopied
    BY Zenon DEF IInv, Local, Checked, BothHashed, VerifiedMeansCopied
  <1> QED BY <1>1, Invariance, PTL

\* A step writes to one destination at most, that of a transfer still running.
LEMMA OneDestination ==
  ASSUME IInv, [Next]_vars
  PROVE  \/ data' = data
         \/ \E u \in Transfers : /\ ~Settled(u)
                                 /\ \A e \in Endpoints : e # Dest[u] => data'[e] = data[e]
  <1>1. DOMAIN data = Endpoints
    BY Zenon DEF IInv, TypeOK
  <1>2. ASSUME NEW u \in Transfers, CopyMemory(u) \/ ReadSource(u) \/ WriteDest(u)
        PROVE  ~Settled(u) /\ \A e \in Endpoints : e # Dest[u] => data'[e] = data[e]
    BY <1>1, <1>2, Zenon DEF CopyMemory, ReadSource, WriteDest, Store, Settled
  <1>3. ASSUME NEW u \in Transfers, NEW c \in inflight[u], StreamCopies(u, c)
        PROVE  ~Settled(u) /\ \A e \in Endpoints : e # Dest[u] => data'[e] = data[e]
    <2>1. ~Settled(u)
      BY QueuedFacts, Zenon DEF IInv, Local, Owning, Working, Settled
    <2>2. \A e \in Endpoints : e # Dest[u] => data'[e] = data[e]
      BY <1>1, <1>3, Zenon DEF StreamCopies
    <2> QED BY <2>1, <2>2, Zenon
  <1>4. ASSUME NEW u \in Transfers,
               \/ Submit(u) \/ Reserve(u) \/ GiveUp(u) \/ ReleaseAgain(u)
               \/ Begin(u) \/ Cancel(u) \/ CancelSeen(u) \/ NextChunk(u) \/ SyncSlot(u)
               \/ QueueCopy(u) \/ SeekSource(u) \/ SeekDest(u) \/ LegFails(u) \/ Drain(u)
               \/ ReleaseRings(u) \/ DestroyStreams(u)
               \/ SeekHash(u, Source[u], SrcOff[u], "hash", "hash_read")
               \/ SeekHash(u, Dest[u], DstOff[u], "compare", "compare_read")
               \/ HashSource(u) \/ HashSourceFails(u) \/ HashDest(u) \/ HashDestFails(u)
               \/ \E c \in inflight[u] : StreamFails(u, c)
        PROVE  data' = data
    BY <1>4, Zenon DEF Submit, Reserve, GiveUp, ReleaseAgain, Begin, Cancel, CancelSeen, NextChunk, SyncSlot, QueueCopy, SeekSource,
       SeekDest, LegFails, Drain, ReleaseRings, DestroyStreams, SeekHash, HashSource,
       HashSourceFails, HashDest, HashDestFails, StreamFails, store
  <1>5. CASE UNCHANGED vars \/ AllReturned
    BY <1>5, Zenon DEF AllReturned, vars, store
  <1> QED BY <1>2, <1>3, <1>4, <1>5, Zenon DEF Next, WorkerStep, DeviceStep

\* UntouchedAfterReturn: destroy_stream() waits, so that no stream of a transfer
\* that was reported as over writes to its destination, after a failure either.
THEOREM UntouchedAfterReturnAlways == ASSUME PrivateEndpoints PROVE Spec => UntouchedAfterReturn
  <1>1. ASSUME IInv, [Next]_vars
        PROVE  \A t \in Transfers : Settled(t) => data'[Dest[t]] = data[Dest[t]]
    <2> SUFFICES ASSUME NEW t \in Transfers, Settled(t)
                 PROVE  data'[Dest[t]] = data[Dest[t]]
      BY Zenon
    <2>1. Dest[t] \in Endpoints
      BY PipelineConstants, Zenon
    <2>2. \A u \in Transfers : u # t => Dest[u] # Dest[t]
      BY Zenon DEF PrivateEndpoints
    <2> QED BY <1>1, <2>1, <2>2, OneDestination, Zenon
  <1>2. IInv /\ [Next]_vars =>
          [\A t \in Transfers : Settled(t) => data'[Dest[t]] = data[Dest[t]]]_vars
    BY <1>1, Zenon
  <1> QED BY <1>2, Invariance, PTL DEF Spec, UntouchedAfterReturn
=============================================================================
