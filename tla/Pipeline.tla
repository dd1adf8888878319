------------------------------ MODULE Pipeline ------------------------------
(***************************************************************************)
(* The data path of src/src/runtime/executor.cpp: run_transfer() on several*)
(* workers at once, over the file backend, the streams of the CUDA backend *)
(* and buffers of the staging pool, from reserve_staging() to the second   *)
(* release of the buffers in finalize() (src/src/runtime/runtime.cpp).     *)
(*                                                                         *)
(* A chunk is one cell.  Chunk c of a transfer passes from the source cell *)
(* through slot c % Depth of each ring to the destination cell.  The last  *)
(* leg to a device is only queued on stream c % Depth, which carries it    *)
(* out later; inflight[t] has the chunks that are still to be copied so.   *)
(* A file has one position, shared by all transfers that use the endpoint: *)
(* setting it and reading or writing there are separate steps.             *)
(*                                                                         *)
(* One of the two pools is modelled, with buffers of one size.  It keeps   *)
(* those that were released in its free list and takes the first; a buffer *)
(* may be in the list twice, and in the list while a transfer uses it.     *)
(***************************************************************************)
EXTENDS Naturals, Sequences, FiniteSets, Functions

CONSTANTS Transfers,     \* the run_transfer() calls
          Endpoints,     \* the endpoint records
          Kind,          \* Kind[e]: "memory", "file" or "device"
          Cells,         \* Cells[e], the size of the resource
          Start,         \* Start[e], desc.offset, where the region begins
          Source, Dest,  \* the two endpoints of each transfer
          SrcOff, DstOff,\* chunk_plan.source_offset() and dest_offset()
          Chunks,        \* Chunks[t], chunk_plan.chunk_count()
          Legs,          \* Legs[t], the number of legs of the route
          Verified,      \* Verified[t], the verification mode is not none
          MaxCalls,      \* bound: how many of the calls are made
          Depth,         \* pipeline_depth
          Buffers,       \* the buffers the staging pool has room for
          Recycled       \* the free list that earlier transfers have left

ASSUME PipelineConstants ==
  /\ Kind \in [Endpoints -> {"memory", "file", "device"}]
  /\ Cells \in [Endpoints -> Nat] /\ Start \in [Endpoints -> Nat]
  /\ Source \in [Transfers -> Endpoints] /\ Dest \in [Transfers -> Endpoints]
  /\ SrcOff \in [Transfers -> Nat] /\ DstOff \in [Transfers -> Nat]
  /\ Chunks \in [Transfers -> Nat \ {0}]
  /\ Legs \in [Transfers -> Nat \ {0}]
  /\ Verified \in [Transfers -> BOOLEAN]
  /\ MaxCalls \in Nat
  /\ Depth \in Nat \ {0}
  /\ Recycled \in Seq(Buffers)

VARIABLES pc,        \* where each worker is in run_transfer()
          ci,        \* the chunk it is at
          li,        \* the leg it is at, 0 for the first
          bufs,      \* staging_bufs, slot by slot and node by node
          async,     \* use_async
          inflight,  \* the chunks queued on a stream and not yet copied
          broken,    \* the streams on which a copy failed
          result,    \* what run_transfer() will return
          tmp,       \* the heap buffer of a file-to-file copy
          digest,    \* sd, the digest of the source
          cancel,    \* the cancellation flag of the record
          free,      \* the free list of the pool
          fresh,     \* the buffers the pool has not allocated yet
          shared,    \* history: the transfers that had a buffer together
                     \* with another one, or twice
          mem,       \* the content of each buffer
          data,      \* the content of each endpoint's resource
          pos        \* the file position of each endpoint

control == <<pc, ci, li, async, result, tmp, digest>>
gpu     == <<inflight, broken>>
store   == <<mem, data, pos>>
pool    == <<bufs, free, fresh, shared>>
vars    == <<control, gpu, store, pool, cancel>>

Slots == 0 .. Depth - 1
Slot(c) == c % Depth

\* A transfer has a ring of Depth slots for each node between source and
\* destination; slot s of node j holds the buffer at this place of bufs[t].
Needed(t) == (Legs[t] - 1) * Depth
Place(j, s) == (j - 1) * Depth + s + 1
BufferAt(t, j, c) == bufs[t][Place(j, Slot(c))]

\* What is in a cell before any transfer: something found nowhere else.
Initially(e, i) == <<e, i>>
Nothing == <<>>

Init ==
  /\ pc = [t \in Transfers |-> "idle"]
  /\ ci = [t \in Transfers |-> 0]
  /\ li = [t \in Transfers |-> 0]
  /\ bufs = [t \in Transfers |-> <<>>]
  /\ async = [t \in Transfers |-> FALSE]
  /\ inflight = [t \in Transfers |-> {}]
  /\ broken = [t \in Transfers |-> {}]
  /\ result = [t \in Transfers |-> "ok"]
  /\ tmp = [t \in Transfers |-> Nothing]
  /\ digest = [t \in Transfers |-> Nothing]
  /\ cancel = [t \in Transfers |-> FALSE]
  /\ free \in {<<>>, Recycled}
  /\ fresh = Buffers \ Range(free)
  /\ shared = {}
  /\ mem = [b \in Buffers |-> Nothing]
  /\ data = [e \in Endpoints |-> [i \in 0 .. Cells[e] - 1 |-> Initially(e, i)]]
  /\ pos = [e \in Endpoints |-> 0]

Goto(t, l) == pc' = [pc EXCEPT ![t] = l]

Fail(t, r, l) == result' = [result EXCEPT ![t] = r] /\ Goto(t, l)
-----------------------------------------------------------------------------
(* Before the loop: queue_transfer() reserves the buffers, one call of     *)
(* allocate() after the other, and the transfer waits for a worker.        *)

Submit(t) ==
  /\ pc[t] = "idle"
  /\ Cardinality({u \in Transfers : pc[u] # "idle"}) < MaxCalls
  /\ Goto(t, "reserve")
  /\ UNCHANGED <<ci, li, async, result, tmp, digest, gpu, store, pool, cancel>>

\* Between its reservation and its first release a transfer counts on its
\* buffers.
Holding == {"reserve", "head", "sync", "leg", "read", "seek", "write", "release"}

Holders(b) == {u \in Transfers : pc[u] \in Holding /\ b \in Range(bufs[u])}

\* Transfer t gets buffer b.  The pool does not know who has it already.
Take(t, b) ==
  /\ bufs' = [bufs EXCEPT ![t] = Append(@, b)]
  /\ shared' = IF Holders(b) = {} THEN shared ELSE shared \cup Holders(b) \cup {t}

\* The first entry of the free list, otherwise a new buffer; which, makes no
\* difference.
Reserve(t) ==
  /\ pc[t] = "reserve"
  /\ Len(bufs[t]) < Needed(t)
  /\ \/ /\ free # <<>>
        /\ Take(t, Head(free))
        /\ free' = Tail(free)
        /\ UNCHANGED fresh
     \/ /\ free = <<>>
        /\ fresh # {}
        /\ LET b == CHOOSE b \in fresh : TRUE
           IN Take(t, b) /\ fresh' = fresh \ {b}
        /\ UNCHANGED free
  /\ UNCHANGED <<control, gpu, store, cancel>>

\* A buffer cannot be had, or the scheduler refuses the task: what was taken
\* is released, here once only, and the transfer has failed.  (The code releases
\* the last node first; the routes of plan() have one at most.)
GiveUp(t) ==
  /\ pc[t] = "reserve"
  /\ free = <<>> \/ Len(bufs[t]) = Needed(t)
  /\ free' = free \o bufs[t]
  /\ bufs' = [bufs EXCEPT ![t] = <<>>]
  /\ Fail(t, "resource_exhausted", "over")
  /\ UNCHANGED <<ci, li, async, tmp, digest, gpu, store, fresh, shared, cancel>>

\* The last leg starts in host memory, and the CUDA backend copies it.
Streamed(t) == Legs[t] >= 2 /\ Kind[Dest[t]] = "device"

\* A worker begins with run_transfer(): the rings have the buffers that were
\* reserved.  When a stream cannot be created those made before it are
\* destroyed and the copies are synchronous.
Begin(t) ==
  /\ pc[t] = "reserve"
  /\ Len(bufs[t]) = Needed(t)
  /\ \E a \in IF Streamed(t) THEN BOOLEAN ELSE {FALSE} :
       async' = [async EXCEPT ![t] = a]
  /\ Goto(t, "head")
  /\ UNCHANGED <<ci, li, result, tmp, digest, gpu, store, pool, cancel>>
-----------------------------------------------------------------------------
(* The chunk loop.                                                         *)

\* Mutant of CancelSeen: the turn is begun again.
CancelAgain(t) ==
  /\ pc[t] = "head"
  /\ ci[t] < Chunks[t]
  /\ cancel[t]
  /\ UNCHANGED vars

\* The head of a turn: the flag is read, before the wait for the slot.
CancelSeen(t) ==
  /\ pc[t] = "head"
  /\ ci[t] < Chunks[t]
  /\ cancel[t]
  /\ Fail(t, "cancellation", "release")
  /\ UNCHANGED <<ci, li, async, tmp, digest, gpu, store, pool, cancel>>

NextChunk(t) ==
  /\ pc[t] = "head"
  /\ ci[t] < Chunks[t]
  /\ ~cancel[t]
  /\ Goto(t, "sync")
  /\ UNCHANGED <<ci, li, async, result, tmp, digest, gpu, store, pool, cancel>>

\* A stream is idle when everything queued on it has been carried out.
StreamIdle(t, s) == \A c \in inflight[t] : Slot(c) # s

\* Mutant of SyncSlot: the first reuse of a slot does not wait.
SyncSlotLate(t) ==
  /\ pc[t] = "sync"
  /\ async[t] /\ ci[t] > Depth => StreamIdle(t, Slot(ci[t]))
  /\ li' = [li EXCEPT ![t] = 0]
  /\ Goto(t, "leg")
  /\ UNCHANGED <<ci, async, result, tmp, digest, gpu, store, pool, cancel>>

\* Before the slots are filled again their stream is waited for.  An error it
\* reports is ignored here.
SyncSlot(t) ==
  /\ pc[t] = "sync"
  /\ async[t] /\ ci[t] >= Depth => StreamIdle(t, Slot(ci[t]))
  /\ li' = [li EXCEPT ![t] = 0]
  /\ Goto(t, "leg")
  /\ UNCHANGED <<ci, async, result, tmp, digest, gpu, store, pool, cancel>>

LastLeg(t) == li[t] = Legs[t] - 1
FromFile(t) == li[t] = 0 /\ Kind[Source[t]] = "file"
ToFile(t) == LastLeg(t) /\ Kind[Dest[t]] = "file"

\* What loc_at() finds at the source of the leg, unless that is a file.
SourceValue(t) ==
  IF li[t] = 0 THEN data[Source[t]][SrcOff[t] + ci[t]]
               ELSE mem[BufferAt(t, li[t], ci[t])]

\* The leg's destination, unless that is a file, becomes v.
Store(t, v) ==
  IF LastLeg(t)
    THEN /\ data' = [data EXCEPT ![Dest[t]][DstOff[t] + ci[t]] = v]
         /\ UNCHANGED mem
    ELSE /\ mem' = [mem EXCEPT ![BufferAt(t, li[t] + 1, ci[t])] = v]
         /\ UNCHANGED data

\* The next leg, or the progress of the transfer and the next chunk.
EndLeg(t) ==
  IF LastLeg(t) THEN /\ ci' = [ci EXCEPT ![t] = @ + 1]
                     /\ Goto(t, "head")
                     /\ UNCHANGED li
                ELSE /\ li' = [li EXCEPT ![t] = @ + 1]
                     /\ Goto(t, "leg")
                     /\ UNCHANGED ci

\* A leg between memories, host or device, on the worker.
CopyMemory(t) ==
  /\ pc[t] = "leg"
  /\ ~FromFile(t) /\ ~ToFile(t)
  /\ ~(async[t] /\ LastLeg(t))
  /\ Store(t, SourceValue(t))
  /\ EndLeg(t)
  /\ UNCHANGED <<async, result, tmp, digest, gpu, pos, pool, cancel>>

\* The last leg is queued on the stream of the slot.
QueueCopy(t) ==
  /\ pc[t] = "leg"
  /\ async[t] /\ LastLeg(t)
  /\ inflight' = [inflight EXCEPT ![t] = @ \cup {ci[t]}]
  /\ EndLeg(t)
  /\ UNCHANGED <<async, result, tmp, digest, broken, store, pool, cancel>>
-----------------------------------------------------------------------------
(* The file backend: the position of the handle is set, then the data is   *)
(* read or written where the position is by then.                          *)

SetPosition(e, i) == pos' = [pos EXCEPT ![e] = i]

\* The offsets of the plan are used as they are, without desc.offset.
SeekSource(t) ==
  /\ pc[t] = "leg"
  /\ FromFile(t)
  /\ SetPosition(Source[t], SrcOff[t] + ci[t])
  /\ Goto(t, "read")
  /\ UNCHANGED <<ci, li, async, result, tmp, digest, gpu, mem, data, pool, cancel>>

\* read_at() ends well only if the file has the data.
ReadSource(t) ==
  LET e == Source[t]
  IN /\ pc[t] = "read"
     /\ pos[e] < Cells[e]
     /\ pos' = [pos EXCEPT ![e] = @ + 1]
     /\ IF ToFile(t)
          THEN /\ tmp' = [tmp EXCEPT ![t] = data[e][pos[e]]]
               /\ Goto(t, "seek")
               /\ UNCHANGED <<ci, li, mem, data>>
          ELSE /\ Store(t, data[e][pos[e]])
               /\ EndLeg(t)
               /\ UNCHANGED tmp
     /\ UNCHANGED <<async, result, digest, gpu, pool, cancel>>

SeekDest(t) ==
  /\ ToFile(t)
  /\ pc[t] = IF FromFile(t) THEN "seek" ELSE "leg"
  /\ SetPosition(Dest[t], DstOff[t] + ci[t])
  /\ Goto(t, "write")
  /\ UNCHANGED <<ci, li, async, result, tmp, digest, gpu, mem, data, pool, cancel>>

\* write_at(); behind the end the file grows, which no property looks at.
WriteDest(t) ==
  LET e == Dest[t]
      v == IF FromFile(t) THEN tmp[t] ELSE SourceValue(t)
  IN /\ pc[t] = "write"
     /\ pos' = [pos EXCEPT ![e] = @ + 1]
     /\ data' = IF pos[e] < Cells[e] THEN [data EXCEPT ![e][pos[e]] = v] ELSE data
     /\ EndLeg(t)
     /\ UNCHANGED <<async, result, tmp, digest, gpu, mem, pool, cancel>>

\* A leg fails: a read or a write of a file, or a copy from or to a device.
LegFails(t) ==
  /\ \/ pc[t] \in {"read", "write"}
     \/ pc[t] = "leg" /\ LastLeg(t) /\ Kind[Dest[t]] = "device"
     \/ pc[t] = "leg" /\ li[t] = 0 /\ Kind[Source[t]] = "device"
  /\ Fail(t, "backend_failure", "release")
  /\ UNCHANGED <<ci, li, async, tmp, digest, gpu, store, pool, cancel>>
-----------------------------------------------------------------------------
(* The device carries out, in any order of the streams, what was queued.   *)

StreamCopies(t, c) ==
  /\ c \in inflight[t]
  /\ inflight' = [inflight EXCEPT ![t] = @ \ {c}]
  /\ data' = [data EXCEPT ![Dest[t]][DstOff[t] + c] = mem[BufferAt(t, Legs[t] - 1, c)]]
  /\ UNCHANGED <<control, broken, mem, pos, pool, cancel>>

\* The error stays with the stream.
StreamFails(t, c) ==
  /\ c \in inflight[t]
  /\ inflight' = [inflight EXCEPT ![t] = @ \ {c}]
  /\ broken' = [broken EXCEPT ![t] = @ \cup {Slot(c)}]
  /\ UNCHANGED <<control, store, pool, cancel>>
-----------------------------------------------------------------------------
(* The end: the streams are waited for, if nothing failed so far; the      *)
(* buffers are released; the streams are destroyed; the data is verified.  *)

\* Mutant of Drain: the errors of the streams are not asked for.
DrainSilently(t) ==
  /\ pc[t] = "head"
  /\ ci[t] = Chunks[t]
  /\ async[t] => inflight[t] = {}
  /\ Goto(t, "release")
  /\ UNCHANGED <<ci, li, async, result, tmp, digest, gpu, store, pool, cancel>>

\* The loop over the streams ends at the first error; the later ones are then
\* not waited for.
Drain(t) ==
  /\ pc[t] = "head"
  /\ ci[t] = Chunks[t]
  /\ \/ /\ async[t] => inflight[t] = {} /\ broken[t] = {}
        /\ Goto(t, "release")
        /\ UNCHANGED result
     \/ /\ async[t]
        /\ \E s \in broken[t] : \A k \in 0 .. s :
             StreamIdle(t, k) /\ (k < s => k \notin broken[t])
        /\ Fail(t, "backend_failure", "release")
  /\ UNCHANGED <<ci, li, async, tmp, digest, gpu, store, pool, cancel>>

\* The buffers are appended to the free list of the pool, one after the other.
ReleaseRings(t) ==
  /\ pc[t] = "release"
  /\ free' = free \o bufs[t]
  /\ Goto(t, "destroy")
  /\ UNCHANGED <<ci, li, async, result, tmp, digest, gpu, store, bufs, fresh, shared, cancel>>

\* Mutant of DestroyStreams: a stream is destroyed as it is.
DestroyAtOnce(t) ==
  /\ pc[t] = "destroy"
  /\ Goto(t, IF result[t] = "ok" /\ Verified[t] THEN "hash" ELSE "returned")
  /\ UNCHANGED <<ci, li, async, result, tmp, digest, gpu, store, pool, cancel>>

\* destroy_stream() waits for its stream.
DestroyStreams(t) ==
  /\ pc[t] = "destroy"
  /\ inflight[t] = {}
  /\ Goto(t, IF result[t] = "ok" /\ Verified[t] THEN "hash" ELSE "returned")
  /\ UNCHANGED <<ci, li, async, result, tmp, digest, gpu, store, pool, cancel>>

\* hash_endpoint_region() on n cells from i, one piece of a file at a time;
\* digests agree exactly when the cells do.
Region(e, i, n) == [k \in 0 .. n - 1 |-> data[e][i + k]]

\* Only here is the region of a file taken to begin at desc.offset.
SeekHash(t, e, off, at, next) ==
  /\ pc[t] = at
  /\ Kind[e] = "file"
  /\ SetPosition(e, Start[e] + off)
  /\ Goto(t, next)
  /\ UNCHANGED <<ci, li, async, result, tmp, digest, gpu, mem, data, pool, cancel>>

\* The cells that the digest is computed from, and how the position moves.
CanHash(t, e, at, read) ==
  IF Kind[e] = "file" THEN pc[t] = read /\ pos[e] + Chunks[t] <= Cells[e]
                      ELSE pc[t] = at

\* A device is read back to the host first; when that fails, which nobody
\* asks, the digest is that of an untouched buffer.
Hashed(t, e, off) ==
  {Region(e, IF Kind[e] = "file" THEN pos[e] ELSE off, Chunks[t])} \cup
  IF Kind[e] = "device" THEN {[k \in 0 .. Chunks[t] - 1 |-> Nothing]} ELSE {}

Advance(t, e) ==
  pos' = IF Kind[e] = "file" THEN [pos EXCEPT ![e] = @ + Chunks[t]] ELSE pos

HashSource(t) ==
  /\ CanHash(t, Source[t], "hash", "hash_read")
  /\ \E h \in Hashed(t, Source[t], SrcOff[t]) : digest' = [digest EXCEPT ![t] = h]
  /\ Advance(t, Source[t])
  /\ Goto(t, "compare")
  /\ UNCHANGED <<ci, li, async, result, tmp, gpu, mem, data, pool, cancel>>

\* Mutant of HashDest: a source that could not be read counts as verified.
HashDestLenient(t) ==
  /\ CanHash(t, Dest[t], "compare", "compare_read")
  /\ \E h \in Hashed(t, Dest[t], DstOff[t]) :
       result' = [result EXCEPT ![t] = IF digest[t] \in {h, Nothing} THEN "ok"
                                       ELSE "integrity_failure"]
  /\ Advance(t, Dest[t])
  /\ Goto(t, "returned")
  /\ UNCHANGED <<ci, li, async, tmp, digest, gpu, mem, data, pool, cancel>>

HashDest(t) ==
  /\ CanHash(t, Dest[t], "compare", "compare_read")
  /\ \E h \in Hashed(t, Dest[t], DstOff[t]) :
       result' = [result EXCEPT ![t] = IF h = digest[t] THEN "ok" ELSE "integrity_failure"]
  /\ Advance(t, Dest[t])
  /\ Goto(t, "returned")
  /\ UNCHANGED <<ci, li, async, tmp, digest, gpu, mem, data, pool, cancel>>

\* A read of the source fails or is short.  The destination is hashed all the
\* same, but its digest no longer matters.
HashSourceFails(t) ==
  /\ pc[t] = "hash_read"
  /\ digest' = [digest EXCEPT ![t] = Nothing]
  /\ Goto(t, "compare")
  /\ UNCHANGED <<ci, li, async, result, tmp, gpu, store, pool, cancel>>

HashDestFails(t) ==
  /\ pc[t] = "compare_read"
  /\ Fail(t, "integrity_failure", "returned")
  /\ UNCHANGED <<ci, li, async, tmp, digest, gpu, store, pool, cancel>>

\* finalize() has reported the result; release_staging() releases the buffers of
\* the record, which the worker has released before and others may have by now.
\* The locals of run_transfer() are gone.
ReleaseAgain(t) ==
  /\ pc[t] = "returned"
  /\ free' = free \o bufs[t]
  /\ bufs' = [bufs EXCEPT ![t] = <<>>]
  /\ Goto(t, "over")
  /\ ci' = [ci EXCEPT ![t] = 0]
  /\ li' = [li EXCEPT ![t] = 0]
  /\ async' = [async EXCEPT ![t] = FALSE]
  /\ broken' = [broken EXCEPT ![t] = {}]
  /\ tmp' = [tmp EXCEPT ![t] = Nothing]
  /\ digest' = [digest EXCEPT ![t] = Nothing]
  /\ UNCHANGED <<result, inflight, store, fresh, shared, cancel>>
-----------------------------------------------------------------------------
\* The head of a turn reads the flag, also one that was set before the loop;
\* behind the loop nobody does.
Cancel(t) ==
  /\ ~cancel[t]
  /\ pc[t] \in Holding \ {"reserve", "release"}
  /\ cancel' = [cancel EXCEPT ![t] = TRUE]
  /\ UNCHANGED <<control, gpu, store, pool>>

WorkerStep(t) ==
  \/ CancelSeen(t) \/ NextChunk(t) \/ SyncSlot(t)
  \/ CopyMemory(t) \/ QueueCopy(t)
  \/ SeekSource(t) \/ ReadSource(t) \/ SeekDest(t) \/ WriteDest(t)
  \/ LegFails(t) \/ Drain(t) \/ ReleaseRings(t) \/ DestroyStreams(t)
  \/ SeekHash(t, Source[t], SrcOff[t], "hash", "hash_read")
  \/ SeekHash(t, Dest[t], DstOff[t], "compare", "compare_read")
  \/ HashSource(t) \/ HashSourceFails(t) \/ HashDest(t) \/ HashDestFails(t)
  \/ ReleaseAgain(t)

DeviceStep(t) == \E c \in inflight[t] : StreamCopies(t, c) \/ StreamFails(t, c)

\* Nothing is running.
AllReturned ==
  /\ \A t \in Transfers : pc[t] \in {"idle", "over"}
  /\ UNCHANGED vars

Next ==
  \/ \E t \in Transfers :
       \/ Submit(t) \/ Reserve(t) \/ GiveUp(t) \/ Begin(t)
       \/ WorkerStep(t) \/ DeviceStep(t) \/ Cancel(t)
  \/ AllReturned

\* A worker that can go on does, and the device carries out what is queued.
Fairness ==
  \A t \in Transfers : WF_vars(WorkerStep(t)) /\ WF_vars(DeviceStep(t))

Spec == Init /\ [][Next]_vars /\ Fairness
-----------------------------------------------------------------------------
Label == {"idle", "reserve", "head", "sync", "leg", "read", "seek", "write", "release",
          "destroy", "hash", "hash_read", "compare", "compare_read", "returned",
          "over"}

\* What buffers and cells can hold.
Value == {Nothing} \cup (Endpoints \X Nat)

\* The places of the workers, the buffers of the rings and of the pool, the
\* chunks on the streams; a worker that copies is at a chunk and a leg.
TypeOK ==
  /\ pc \in [Transfers -> Label]
  /\ ci \in [Transfers -> Nat] /\ li \in [Transfers -> Nat]
  /\ \A t \in Transfers :
       /\ ci[t] <= Chunks[t] /\ li[t] < Legs[t]
       /\ pc[t] \in {"sync", "leg", "read", "seek", "write"} => ci[t] < Chunks[t]
       /\ pc[t] \notin {"idle", "reserve", "over"} => Len(bufs[t]) = Needed(t)
  /\ bufs \in [Transfers -> Seq(Buffers)]
  /\ inflight \in [Transfers -> SUBSET Nat]
  /\ broken \in [Transfers -> SUBSET Slots]
  /\ async \in [Transfers -> BOOLEAN] /\ cancel \in [Transfers -> BOOLEAN]
  /\ result \in [Transfers -> {"ok", "cancellation", "backend_failure",
                               "integrity_failure", "resource_exhausted"}]
  /\ tmp \in [Transfers -> Value] /\ DOMAIN digest = Transfers
  /\ free \in Seq(Buffers) /\ fresh \subseteq Buffers /\ shared \subseteq Transfers
  /\ mem \in [Buffers -> Value]
  /\ DOMAIN data = Endpoints
  /\ \A e \in Endpoints : data[e] \in [0 .. Cells[e] - 1 -> Value]
  /\ pos \in [Endpoints -> Nat]

\* The endpoints of a transfer are its own: no transfer writes where another
\* one reads or writes, no two use one file, and ranges lie inside the resources.
PrivateEndpoints ==
  /\ \A t \in Transfers :
       /\ SrcOff[t] + Chunks[t] <= Cells[Source[t]]
       /\ DstOff[t] + Chunks[t] <= Cells[Dest[t]]
  /\ \A t, u \in Transfers :
       /\ Dest[t] # Source[u]
       /\ t # u => /\ Dest[t] # Dest[u]
                   /\ Kind[Source[t]] = "file" => Source[t] # Source[u]

\* The cell of the resource that offset i of an endpoint stands for.
CellAt(e, i) == Start[e] + i

\* The region of e is what is hashed.  A device may be read back without success,
\* and of mapped files and shared memory the hash reads the start of the view.
HashedAsAsked(e) == Kind[e] = "file" \/ (Kind[e] = "memory" /\ Start[e] = 0)

\* The result has been reported.
Settled(t) == pc[t] \in {"returned", "over"}

\* Chunk c of the region that was asked for is in its place.
InPlace(t, c) ==
  data[Dest[t]][CellAt(Dest[t], DstOff[t] + c)] =
    Initially(Source[t], CellAt(Source[t], SrcOff[t] + c))

\* What chunk c of transfer t carries: the copies know the offsets of the plan
\* and not desc.offset.
Carried(t, c) == Initially(Source[t], SrcOff[t] + c)

\* DESIGN.md: no false success.  When run_transfer() has reported success every
\* chunk of the region is in its place.
CompletedMeansCopied ==
  \A t \in Transfers : Settled(t) /\ result[t] = "ok" =>
    \A c \in 0 .. Chunks[t] - 1 : InPlace(t, c)

\* INTEGRITY.md: success is never reported after a failed verification.  A
\* verified transfer that succeeds has every chunk in its place, whoever else
\* had its buffers and wherever the regions of its files begin: what went wrong
\* before shows in the digests, if those are of the regions.
VerifiedMeansCopied ==
  \A t \in Transfers :
    /\ Settled(t) /\ result[t] = "ok" /\ Verified[t]
    /\ HashedAsAsked(Source[t]) /\ HashedAsAsked(Dest[t])
    => \A c \in 0 .. Chunks[t] - 1 : InPlace(t, c)

\* A transfer that reports success, verified or not, and had its buffers for
\* itself has moved every chunk from where the plan reads to where it writes,
\* whatever happened to streams whose errors the loop ignored, to slots that
\* were used again and to the buffers of other transfers.
UnsharedMeansCopied ==
  \A t \in Transfers \ shared : Settled(t) /\ result[t] = "ok" =>
    \A c \in 0 .. Chunks[t] - 1 : data[Dest[t]][DstOff[t] + c] = Carried(t, c)

\* backend.hpp: wait before reusing or freeing any resource that a copy refers
\* to.  A copy on a stream finds in its slot the chunk it was queued for, as
\* long as the transfer has not failed and no other one was given the buffer;
\* after a failure or a cancellation the buffers are released under the copies
\* that are still queued.
StagedDataIntact ==
  \A t \in Transfers \ shared : result[t] = "ok" =>
    \A c \in inflight[t] : mem[BufferAt(t, Legs[t] - 1, c)] = Carried(t, c)

\* Whoever was told that the transfer is over may use the destination: no
\* stream of the transfer writes to it any more, also after a failure.
UntouchedAfterReturn ==
  [][\A t \in Transfers :
       Settled(t) => data'[Dest[t]] = data[Dest[t]]]_vars

\* run_transfer() comes to an end, with streams that are slow or fail: in the
\* end none of the calls is running.
TransfersReturn ==
  <>[](\A t \in Transfers : pc[t] \in {"idle", "reserve"} \/ Settled(t))
=============================================================================
