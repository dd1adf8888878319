--------------------------- MODULE StagingBuffers ---------------------------
(***************************************************************************)
(* A staging pool as a value (src/src/runtime/staging.cpp), and what each  *)
(* critical section of its mutex does to it.  A pool is a record:          *)
(*   heap       what the allocator has live: the size behind each address, *)
(*              0 where nothing is allocated;                              *)
(*   free       the free list, as the number of times each entry occurs:   *)
(*              the code takes the first entry of the exact size, here any *)
(*              entry of that size;                                        *)
(*   allocated  allocated_bytes_;                                          *)
(*   in_use     in_use_, unsigned, so it wraps;                            *)
(*   high_water high_water_.                                               *)
(* A StagingBuffer and a free-list entry are both an address and a size.   *)
(***************************************************************************)
EXTENDS Integers, FiniteSets, Folds

CONSTANTS Addresses,  \* what do_allocate() may return
          Sizes,      \* the buffer sizes asked for
          ByteWrap    \* one more than the largest byte_count

ASSUME StagingConstants ==
  /\ ByteWrap \in Nat \ {0}
  /\ Sizes \subseteq 1 .. ByteWrap - 1
  /\ IsFiniteSet(Addresses)

Buffer == [data : Addresses, size : Sizes]

Pool == [heap : [Addresses -> Sizes \cup {0}], free : [Buffer -> Nat],
         allocated : 0 .. ByteWrap - 1, in_use : 0 .. ByteWrap - 1,
         high_water : 0 .. ByteWrap - 1]

EmptyPool ==
  [heap |-> [a \in Addresses |-> 0], free |-> [b \in Buffer |-> 0],
   allocated |-> 0, in_use |-> 0, high_water |-> 0]

\* The free-list entries an allocation of n bytes may reuse.
Reusable(p, n) == {b \in Buffer : b.size = n /\ p.free[b] > 0}

\* Mutants of Reuse: the entry stays on the list; in_use_ is not raised.
ReuseKeepsEntry(p, b) == [p EXCEPT !.in_use = (@ + b.size) % ByteWrap]

ReuseUncounted(p, b) == [p EXCEPT !.free[b] = @ - 1]

\* An entry of the free list is handed out again.
Reuse(p, b) ==
  [p EXCEPT !.free[b] = @ - 1,
            !.in_use  = (@ + b.size) % ByteWrap]

\* Mutant of HasRoom: the bound is tested before the request is added.
HasRoomBefore(p, capacity, n) == Reusable(p, n) = {} /\ p.allocated <= capacity

\* No entry of the exact size, and the bound leaves room for a new buffer.
HasRoom(p, capacity, n) ==
  /\ Reusable(p, n) = {}
  /\ (p.allocated + n) % ByteWrap <= capacity

Exhausted(p, capacity, n) ==
  /\ Reusable(p, n) = {}
  /\ (p.allocated + n) % ByteWrap > capacity

\* The buffers do_allocate(n) may return: n bytes at an address not in use.
Fresh(p, n) == {b \in Buffer : b.size = n /\ p.heap[b.data] = 0}

\* Mutant of AddFresh: allocated_bytes_ is not raised.
AddFreshUncounted(p, b) ==
  [p EXCEPT !.heap[b.data] = b.size,
            !.in_use       = (@ + b.size) % ByteWrap]

\* do_allocate() has succeeded: both counters and the high-water mark.
AddFresh(p, b) ==
  LET total == (p.allocated + b.size) % ByteWrap
  IN [p EXCEPT !.heap[b.data] = b.size,
               !.allocated    = total,
               !.high_water   = IF total > @ THEN total ELSE @,
               !.in_use       = (@ + b.size) % ByteWrap]

\* release() does not look at what it is given: it subtracts and appends.
Release(p, b) ==
  [p EXCEPT !.free[b] = @ + 1,
            !.in_use  = (@ - b.size) % ByteWrap]

\* The buffers of a list at the positions I go back to their pools; the loops
\* differ in their order, which makes no difference.
ReleaseAt(ps, bufs, I) ==
  MapThenFoldSet(LAMBDA e, qs : [qs EXCEPT ![e.pool] = Release(@, e.buf)], ps,
                 LAMBDA i : bufs[i], LAMBDA J : CHOOSE i \in J : TRUE, I)

\* drain() frees what the free list names and resets the counters.
Drain(p) ==
  [p EXCEPT !.heap = [a \in Addresses |->
                        IF \E b \in Buffer : b.data = a /\ p.free[b] > 0
                        THEN 0 ELSE p.heap[a]],
            !.free = [b \in Buffer |-> 0],
            !.allocated = 0,
            !.in_use = 0]

\* The bytes an allocator has live at some addresses.
BytesAt(heap, S) ==
  MapThenFoldSet(LAMBDA m, n : m + n, 0, LAMBDA a : heap[a],
                 LAMBDA A : CHOOSE a \in A : TRUE, S)
=============================================================================
