# Transfer Fabric in TLA+

Transfer Fabric moves byte ranges between memory domains (pageable and pinned
host memory, GPU memory, files, shared memory) and between machines. This
directory holds TLA+ models of it, the TLC instances that check them and TLAPS
proofs of their central invariants. Every definition is translated from the C++
code; `PROJECT.json` maps each one to its lines.

## The system

| Part | Code | State | Operations | Module |
|---|---|---|---|---|
| Scheduler | `runtime/scheduler.cpp` | ten FIFO bands, `queue_depth_`, `max_band_`, shutdown flag, workers | submit, worker loop, pop, shutdown | `Scheduler`, abstractly `PriorityExecutor` |
| Staging pools | `runtime/staging.cpp` | free list, `allocated_bytes_`, `in_use_`, `high_water_` | allocate, allocate_blocking, release, drain | `StagingBuffers`, `StagingPool` |
| Lifecycle | `status.cpp` | the state of a transfer | the transition table | `Lifecycle` |
| Runtime | `runtime/runtime.cpp` | transfer records, shutdown flag, telemetry | submit, run_driver, finalize, cancel, shutdown | `Runtime` |
| Executor | `runtime/executor.cpp` | rings, chunk and leg index, streams, result | run_transfer | `Pipeline`; from outside `Runtime` |
| Backends | `backends/*.cpp`, `platform/cuda_backend.cu` | file positions, streams | copies, stream copy, synchronise, destroy | `Pipeline`; `can_copy` in `Planner` |
| Verification | `runtime/executor.cpp`, `integrity.cpp` | digests | hash_endpoint_region, CRC32C, SHA-256 | `Integrity`, `Pipeline` |
| Chunk planning | `chunking.cpp`, `runtime/runtime.cpp` | the plan | resolve_ranges, build, chunk_at | `ChunkPlan` |
| Endpoint registry | `runtime/registry.cpp` | slots with generations, free slots | allocate, get, remove, clear | `EndpointRegistry` |
| Endpoint records | `runtime/runtime.cpp`, `runtime/registry.cpp`, `transfer_id.cpp` | open objects, references, map of transfers | register_endpoint, ~EndpointRecord, insert | `EndpointLifetime` |
| Planner | `planner/planner.cpp` | none | plan | `Planner` |
| TCP transport | `transports/tcp_transport.cpp`, `transports/frame.cpp` | sockets, decoder buffers, files | serve_once, transfer | `TcpChunk` |

How they interact. `submit()` runs on a client thread. It plans a route, cuts the
range into chunks, waits for the transfer's dependencies, reserves ring buffers
from the two pools and hands a task to the scheduler. A worker runs the driver:
it copies the chunks leg by leg, verifies, and finalizes (terminal state,
counters, release of staging). `cancel()` sets a flag the executor reads between
chunks. `shutdown()` stops the scheduler, drains the pools and clears the
endpoints. The TCP transport stands beside the runtime: it uses the chunk plan
and the frame codec only.

What makes this hard: client threads, workers, cancellation and shutdown
interleave; waiters wake at one point of `finalize()`, counters and staging follow
later; reservations fail half way; handles are reused; byte counts are unsigned
and wrap; streams copy later from buffers that are used again; transfers share a
file position; a connection breaks between any two frames. `PROJECT.json` lists the
hazards at their lines and the properties that address them.

## Modules

**PriorityExecutor** is what the scheduler promises: a bounded sequence `pending`
of accepted tasks in order of arrival, of which the next to start is the oldest of
the highest band; at most as many running as there are workers; no acceptance
after `closed`; `drained` only when nothing is pending or running.

**Scheduler** is the implementation. One action is one critical section of `mu_`.
`wpc` is the place of a worker; sleeping on `cv_` is explicit, so that a lost
wakeup would show, and spurious wakeups happen. `task` and `order` (the queued tasks
in order of arrival) are history variables. Several callers race in `shutdown()`.

**StagingBuffers** has the operations of a pool as operators on a record: the
allocator's live addresses (`heap`), the free list as a multiset, and the counters
modulo `ByteWrap`. **StagingPool** wraps them in clients that allocate, block,
cancel and release what they hold exactly once.

**Runtime** composes transfers with the executor promise (`INSTANCE
PriorityExecutor`) and two pools. `pc[t]` is the place of the one thread that works
on transfer `t`; `canceller` and `spc` are the places of `cancel()` and
`shutdown()`. A reservation takes one buffer per step; the release of several
buffers is one step, as is the update of the outcome counters. Starting a task
merges popping it, the state change and its counters. What happens inside the copy
is in `Pipeline`.

**Pipeline** is `run_transfer()` on several workers at once, with the content of
files, memory and buffers, from `reserve_staging()` to the second release in
`finalize()`. A chunk is one cell. It passes through slot `c % Depth` of each ring; the
last leg to a device is queued on a stream, and `StreamCopies` or `StreamFails` happens
later (`inflight`, `broken`). The sync before a slot is used again, whose result the code
drops, the final sync, the release of the rings before the streams are destroyed, and
verification are actions. Setting the position of a file and reading or writing there
are two steps, because all transfers on an endpoint share one handle. The pool is one of
the two, with buffers of one size: `free` is its free list in order, `fresh` what it may
still allocate. A transfer reserves buffer by buffer; `ReleaseRings` and `ReleaseAgain`
put the same buffers on the list twice, so that a buffer may be free and in use, or
with two transfers. `shared` remembers to whom that happened. Copies ignore
`desc.offset` and hashing of files adds it; `Start` is that offset. A CUDA stream on
which a copy failed reports the error at every later sync (external). Verification
compares the content itself; `Integrity` shows that digests of equal content are equal.

**ChunkPlan** is `resolve_ranges()`, `ChunkPlan::build()`, `chunk_at()` and the
loop over the chunks, in arithmetic modulo `ByteWrap`; `moved` is the set of byte
pairs copied. **Integrity** extends it with `hash_endpoint_region()`: the CRC over bits
with its table, and the buffer, padding and length of SHA-256, for regions that are
cut into pieces of different sizes at the two endpoints and that begin, in a file, at
`desc.offset` (`Starts`), where the copies do not look. A byte is a function to its bits,
`Content` is what the source holds and `Before` what the destination held, and each loop
of the code is `Through`, a recursive function over what the loop runs over. The
compression function of SHA-256 is taken to be free of collisions, so the state of a hash
is its sequence of blocks.

**EndpointRegistry** has registrations (the shutdown test and the allocation are
separate steps), removals, shutdown with `clear()`, and transfers that hold on to a
record. **EndpointLifetime** refines it with what registration opens, one object per
step, failures in between, the references that keep a record alive (slot, thread,
transfer records, and the map of `TransferRegistry`, where an equal id replaces a
record) and the destructor that closes.

**Planner** is `plan()` as a function of its input: all simple paths of the domain
graph, the staging filter, the costs and their order. Costs are integers in units
of 10 microseconds under the default weights, sizes are in 10^9 bytes, chunk sizes and
capacities in a unit of their own. `can_copy` is what the backends answer, so that the
planner is compared with the code that later executes its route. The tests for readable
and writable domains are left out, because `caps_for_kind()` makes every endpoint both.
Endpoint kinds follow their domains; the `unknown` domain is left out. A non-empty list of
backends contains the host's, which the constructor of `Runtime` registers first.

**TcpChunk** is one `serve_once()` and one `transfer()` over two byte streams. A
frame is `Parts` pieces, each `recv()` delivers one or more of them, and the
decoder gives out at most one frame for each `feed()`. Files may fail to open,
read or write. The connection may break at any time and what is on its way is lost.
Chunks are one unit long. The model follows the Windows code; elsewhere the calls
return an error.

MC modules only give values to constants.

## Runs

| Run | Instance | What it shows |
|---|---|---|
| `scheduler` | 2 workers, 4 tasks in 3 bands (two share one, two have priorities outside the bands), queue of 2, 2 shutdown callers | `queue_depth_` is the number of queued tasks and `max_band_` hides none (`DepthIsWork`); strict priority; when the joining shutdown returns all is drained; accepted tasks run; shutdown terminates; the scheduler implements `PriorityExecutor` |
| `staging_pool` | 2 clients, sizes 2 and 3, capacity 6, 3 addresses, 3 requests each | no buffer has two owners; counters are exact; the bound holds; a cancelled `allocate_blocking()` returns |
| `runtime` | 2 transfers of 2 chunks, one through both pools, one verified, 3 units of staging each, queue of 1, 2 workers | completed means every chunk moved and cancelled that one was not; counters close; no staging is lost and the pools are bounded; states follow the table |
| `runtime_deps` | 2 transfers depend on a third, one moves nothing, queue of 1, 1 worker | nothing starts before its dependencies have completed; submit, queued transfers and shutdown come to an end |
| `chunk_plan` | ranges around the ends of endpoints of 0, 6 and 7 bytes, file regions from 0 and 3, 3-bit counts, chunk parameters on both sides of each comparison; bytes of 2 bits, blocks of 4, hash buffers of 3 and 5 | exactly the requested bytes are copied, inside both endpoints, in disjoint non-empty chunks; digests are those of the standard, wherever a region begins, and source and destination have the same one when they are hashed where they were copied (`VerificationExact`) |
| `endpoint_registry` | 3 registrations, of a mapped file, a file and shared memory; 2 transfers, 2 ids | until `clear()` a handle finds its own endpoint or nothing; a transfer finds its endpoint open although it was removed or the registry cleared (`OpenWhileUsed`); nothing stays open that nobody refers to (`NoOrphans`) |
| `planner` | every pair of domains and every policy, pools with room for two nodes, one node, or a little less | a route is found exactly when one exists; no longer route is preferred; the route can be executed |
| `tcp_chunk` | up to 3 chunks, frames in 3 pieces, offsets 0 and 1 | no frame is stranded in a decoder; success means copied; the server agrees with a successful client; both ends return |
| `pipeline` | device to device in 3 chunks over streams and, verified, file to file, both through the pool, and a verified copy of a file region that begins at 1; `MaxCalls` = 2 of the 3 calls are made; 2 slots, 3 buffers, a fresh pool or one whose list has two buffers twice | a verified success means every chunk is in its place, whoever shared the buffers; any success without shared buffers that every chunk went from where the plan reads to where it writes; a queued copy finds its chunk in its slot; nothing is written to a destination after the return; every call returns |

The bounds are the smallest at which the interesting cases happen: a full queue and
overtaking need more tasks than places; a half-failed reservation needs two nodes
and less room than two transfers want; slot reuse needs more registrations than
slots; wrapping needs sums above 7; reuse of a ring slot needs more chunks than slots,
and a buffer that two transfers hold two of them after a third, whose traces are `Recycled`
(`pipeline_reuse` has all three). `endpoint_registry` may stop, when all registrations
have been made and removed, and does not check for deadlock. In the other modules the end
of all work is an explicit stuttering step or the system never stops. Addresses are
symmetric in `runtime`, which checks safety only.

### Where documentation or tests and code differ

Three runs end in a violation, each of `CompletedMeansCopied`, that a transfer which
reports success has put every chunk of the region that was asked for in its place.
`docs/DESIGN.md:9` says "no false success".

- `pipeline_reuse`. `run_transfer()` releases the ring buffers and `finalize()` releases
  the same buffers again. The free list then has each buffer twice, two later
  transfers are given the same memory, and one reports success with the data of the
  other.
- `pipeline_shared`. Two transfers read different parts of one file endpoint. One sets
  the file position between the seek and the read of the other, which then reports
  success with the wrong bytes, also with verification, whose reads race the same way.
  `include/transfer_fabric/backends/backend.hpp:53-54` says a backend is thread-safe.
- `pipeline_region`. The copies of a file use the offsets of the plan without
  `desc.offset`, so a transfer from `file_region(path, offset, size)`
  (`include/transfer_fabric/endpoint.hpp:76`) moves the bytes at the start of the file and
  succeeds. With verification, which adds the offset for files, it fails unless the bytes
  happen to agree. Mapped files and shared memory are mapped from 0
  (`runtime.cpp:374, 386`), so there the copies and the hash both leave the offset out.

The passing run `pipeline` has the same double release and a region that begins behind
the start of its file, and shows what is left: between files and host memory that is not
mapped, verification reports both (`VerifiedMeansCopied`), and a transfer whose buffers
nobody else had moves its chunks as planned (`UnsharedMeansCopied`).

Met while reading, without a run:

- The double release also makes `in_use_` wrap below zero; `docs/TESTING.md:10` says
  accounting returns to zero. `AccountingExact` is about clients that release once.
- The TCP client rejects the answer to a request with an offset above 0, because the
  server's frames carry offsets from 0 (`tcp_transport.cpp:188, 212, 326`);
  `include/transfer_fabric/transports/tcp.hpp:54` promises the range. `SuccessMeansCopied`
  covers these requests, which never succeed.
- `include/transfer_fabric/planner.hpp:22-23` says routes are rejected that need more
  staging than is available. The estimate of `plan()` and what `reserve_staging()` takes
  differ: the planner counts four chunks of the preferred size for a node, whatever
  `pipeline_depth` is, also when that size is 0 or smaller than the chunks that will be
  used, and nothing for a required node between the two host domains. When it counts
  too little the reservation fails later, with an error.
- `hash_endpoint_region()` ignores the result of reading a device back
  (`executor.cpp:89`); `VerifiedMeansCopied` is about the other endpoints.
- `finalize()` wakes `wait()` before it updates the counters;
  `tests/test_concurrency.cpp:32` expects them updated.
- A transfer with an unknown dependency stays `planned` for ever;
  `include/transfer_fabric/errors.hpp:12` says that it ends.
- A transfer of no bytes goes from `active` to `completed`, which the table of
  `status.cpp` lacks (`LegalLifecycle` is checked and proved for transfers with chunks).
- `docs/SCHEDULING.md:7` calls the default submit synchronous, but the code queues.
- `remove()` does not ask whether a transfer uses the endpoint, as `internal.hpp:81`
  says. `OpenWhileUsed` shows that the references are enough.
- Nothing calls `TransferRegistry::erase()`: records of finished transfers, and with
  them their endpoints, stay until the runtime goes, contrary to `internal.hpp:26-27`.
  `~EndpointRecord()` leaves the view of a mapping mapped (`NoOrphans` is about files and
  mappings).
- `docs/CUDA.md` says the runtime never frees staging the GPU still references. After a
  failure or a cancellation the rings go back to the pool before the streams have been
  waited for, and a later transfer may fill a buffer that a queued copy still reads.
  `StagedDataIntact` therefore holds only until a transfer fails, and for buffers that
  were not shared. `UntouchedAfterReturn` shows that the destination of the failed
  transfer is left alone once it has returned.
- A `submit()` that passed its shutdown test may reserve while the pools drain, after
  which the counters are off (`BoundedStaging` is stated until then).

`BestExecutable` leaves out remote endpoints, for which the runtime has no backend.

## Fairness

Threads that can run do run: weak fairness of each worker, of each thread in
`submit()`, of the driver and of `shutdown()`. Mutexes are held briefly and `join()`
waits for threads that are fair themselves. Task bodies return. The poll loop of
`allocate_blocking()` wakes every millisecond, which justifies fairness of leaving
it, and clients give back what they hold. Both ends of a TCP connection run, and
the caller of `transfer()` closes the connection afterwards; without the close the
server would stay in `recv()`. In `Pipeline` a worker that can go on does, and the device
carries out or fails what is queued on it; a stream that hangs for ever would hang
`run_transfer()` in the code too. Nobody has to submit, cancel, shut down or connect.

## Proofs

The theorems hold for all values of the constants that satisfy the named
assumptions in the modules (finite sets of tasks, workers and addresses, at least one
band and one worker, positive buffer sizes below the word size, and so on). Each has an
inductive invariant, `IInv` unless named otherwise. Two theorems about byte counters have
the hypothesis `CountersFit`, that the capacity of a pool and one more buffer do not wrap,
which 64-bit counts justify and the instances satisfy.

- `SchedulerProofs`: `TypeOK`, `DepthIsWork`, `JoinedMeansDrained`,
  `StrictPriority`. `DepthIsWork` is not inductive: the invariant adds that the bands
  hold exactly the queued tasks, each once and in its own band, that workers hold
  exactly the running tasks, and that a worker has left only after a shutdown began
  and with nothing queued. `ImplementsExecutorSteps` is the safety half of
  `ImplementsExecutor`, one lemma for each step of the executor: a successful `pop()` takes
  the earliest pending task of the highest band (`TopIsForemost`), and a worker outside a
  task body means a free slot (`SlotFree`, an injection of the running tasks into the
  other workers). It needs the order of arrival to agree with the order in each band
  (`OrderFits`). `NoLostWakeup`, on the same invariant: no worker sleeps while a task is
  queued or a shutdown has begun, and a queued task has a worker on its way to the queue.
- `StagingBuffersProofs`: no theorem of its own but what each operation of a pool does to
  its counters and to sums over buffers, for `StagingProofs` and `RuntimeProofs`. A sum
  is a fold over a finite set, and its laws are proved by induction: a set of numbers or of
  subsets that has the base and is closed under the step is all of them (`NatClosed`,
  `SubsetsClosed`, from the well-foundedness of the order on the naturals).
- `StagingProofs`, on `StagingPool`: `TypeOK`, `ExclusiveBuffers`, `WithinCapacity`, which
  are inductive together, and from them `NoLeak` (live memory is on the free list or with
  a client) and, with `CountersFit`, `AccountingExact`: the counters are the sums of the
  sizes at the addresses that are live and that clients hold. Exclusivity is a promise to
  clients that release once, which the runtime does not keep (`pipeline_reuse`). On
  `Planner`: `FoundIffRoutable`, `ShortestWins` and `BestExecutable`, for
  every size, hop limit, allowlist, capacity and set of backends. The invariant
  (`RouteInv`) is that the input is one of the inputs and the answer right for it, so the
  work is in the lemmas about the search. Every edge of the domain graph has a host end,
  so a simple path has at most five domains (`PathBound`). A candidate of three legs or
  more can be cut short at one of its host domains to a candidate of two (`Detour`,
  `Shortcut`) that costs less, as its legs are fewer and no slower together (`LongCost`,
  `CheapestShort`); a direct candidate costs less than any of two (`DirectCheaper`).
  Between the two host domains, where staging can be required, a route through a mapping
  is cheaper than one through storage (`StorageDearer`), which no backend could copy.
- `IntegrityProofs`, on `ChunkPlan`: `TypeOK`, `ExactCopy`, `WithinEndpoints`,
  `ChunksDisjoint`. The invariant says that what has been moved is the prefix of the range
  before the next chunk. The lemmas show that no product or sum in `build()` and
  `chunk_at()` wraps once the ranges were accepted, and that chunks tile the range. On
  `Integrity`: `VerificationExact`, for every content, region, size of the hash buffers,
  width of bytes and of the CRC, polynomial, and start of a file region. That the digests
  of the two endpoints agree has the condition that files are hashed where they were
  copied, from `desc.offset` 0. The invariant gives that each byte of the destination's
  range is the one copied there (`CopiedBytes`), so the regions agree (`RegionsAgree`); the
  rest is about loops. A loop over data that is cut into pieces is the loop over the whole
  (`Nested`, `PiecesJoin`), so the sizes of the buffers do not matter. For the CRC, dividing by the polynomial is
  linear (`DivideXor`), so looking up the table for a byte is as many steps of
  the division as the byte has bits (`ByteStep`). For SHA-256 a state stands for the bytes
  it was given: they are its blocks followed by its buffer, which is never full
  (`Absorbed`), and `update()` keeps that in each of its cases (`Absorb`). The
  padding loop stops at the number of zeros the standard asks for, also when the length
  needs one more block (`PadExact`).
- `EndpointLifetimeProofs`, on the registry: `TypeOK`, `HandlesExact`. The invariant adds
  that free slots are unused, that a registered handle has the generation of its slot and
  that a removed one has an older one. On the composition: `EndpointLifetime` implements
  `EndpointRegistry` (`LifetimeImplementsRegistry`, every step is a step of the registry or leaves it
  alone), so `HandlesExact` carries over; `OpenWhileUsed`, `NoOrphans`. The invariant says
  that a record whose registration is over and which is still referred to has everything
  opened, that nothing else is open, and that a transfer which holds a record refers to it.
- `RuntimeProofs`: `OutcomeHonest`, `DependenciesFirst`, and `LegalLifecycle` if every
  transfer has a chunk, for any transfers, dependencies, workers and queue length. The
  invariant fixes the state of the record for each place of its thread (`StateFits`),
  ties the result so far to the chunks moved and the cancellation flag
  (`ResultFits`), says that the dependencies seen have completed and that nothing is
  reserved before all were seen (`DepsFit`, `DepsDone`), and that the scheduler's list
  holds each waiting transfer once. On it rest four more. `CountersClose`: each counter is
  the number of transfers past the step that counts them, whatever their places, so that
  the gauges are zero when all are at rest. `StagingReachable`: every live address is on
  a free list or named by a record, which survives the double release because a release
  only adds to the free list, and `drain()` frees what it empties. `BoundedStaging` under
  `CountersFit`: a release changes no live memory and the wrapping `in_use_` guards nothing.
  `TypeOK`: every field of records, pools and counters.
- `PipelineProofs`: `TypeOK`, `StagedDataIntact`, `UnsharedMeansCopied`,
  `VerifiedMeansCopied`, `UntouchedAfterReturn`, for any free list to begin with, each under
  the hypothesis `PrivateEndpoints` (no transfer writes where another reads or writes, none
  share a file, ranges fit); `pipeline_shared` shows that it is needed. The invariant:
  the buffers of a transfer outside `shared` have no other holder and differ (`Exclusive`);
  sources are as they were (`SourcesIntact`); and for each transfer, which streams may still
  have work (`Streams`), that no queued copy uses the slot of the chunk under way
  (`Current`), and, outside `shared`, that this chunk is in the ring of the last leg done
  (`AtHand`) and that, unless the transfer has failed, queued copies find their chunk and
  every earlier chunk is at the destination, queued, or on a broken stream (`Earlier`),
  which the final sync reports. `Checked` is the part for verification, which asks nothing
  about buffers: the digest kept is that of the source's region, and when the two were
  found equal the destination's region is the source's.
- `TcpChunkProofs`: `NoStrandedFrame`, `SuccessMeansCopied`, `ServerAgrees`, for every offset
  and length and any number of pieces to a frame. The invariant is the alternation of the
  protocol: towards each end that still reads, the decoder's buffer and the wire hold
  pieces of one frame at most, and the places of the two ends say which frame it is
  (`ServerFits`, `ClientFits`); what has been written is a prefix of the range (`FileFits`).
  `TypeOK` adds what the pieces under way belong to (`Streams`) and that the plan of each end
  stays the one it began with (`Planned`). `NoMutualWait`: while the connection stands the
  two ends are never both in `recv()` without the rest of a frame on its way to one of them.
  It adds that nothing of the frame an end waits for is missing (`OnItsWay`).

Only model-checked: all liveness, as fairness and `ENABLED` are out of the prover's reach,
and with it the fairness part of `ImplementsExecutor`. `NoLostWakeup` and `NoMutualWait` are
what of `AcceptedTasksRun`, `ShutdownTerminates` and `BothReturn` can be said without
fairness. The rest of what the passing runs check is proved.

## Not modelled

The compression function of SHA-256 and the text of digests, the byte layout of frames,
device detection and allocation, JSON output, the command line, and batches, which
nothing reads. `execute_sync()`, `wait_idle()`, `async_copy()` with `wait()`, `estimate()`
and `erase()` have no caller, and `resolve_dependents()` returns at once because nothing
is ever put into `dep_waiters`. Memory-mapped endpoints are memory to the copies and to
the hashing, and to `Pipeline`. Ids are members of a set: that concurrent calls may draw the same one, from an unprotected counter, is in `EndpointLifetime`, their
bytes are not. `endpoints.clear()` is in `EndpointRegistry` and not in `Runtime`. After the
double release `drain()` would free memory twice; the model frees it once. `Runtime` has
the reservations, releases and counters of both pools, `Pipeline` the content of the
buffers of one; they are not composed.

## Plan

1. The byte layout of frames as an encoder and a decoder over small fields.
