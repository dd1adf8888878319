---------------------------- MODULE StagingPool -----------------------------
(***************************************************************************)
(* One staging pool used by threads that keep to its contract: they        *)
(* release what they hold, once, and drain() runs when nothing is in use.  *)
(* One action is one critical section of the pool's mutex.                 *)
(***************************************************************************)
EXTENDS StagingBuffers

CONSTANTS Clients,      \* the threads that use the pool
          Capacity,     \* capacity_bytes_
          MaxRequests   \* bound: allocations each client attempts

ASSUME PoolConstants ==
  /\ Capacity \in 0 .. ByteWrap - 1
  /\ MaxRequests \in Nat

\* A request that fits the bound does not make the byte counters wrap.
CountersFit == \A n \in Sizes : Capacity + n < ByteWrap

VARIABLES pool,      \* the pool
          held,      \* the buffers each client holds
          blocked,   \* the size a client in allocate_blocking() asks for, or 0
          cancel,    \* the cancellation flag that client passed
          requests   \* allocations each client has attempted

vars == <<pool, held, blocked, cancel, requests>>

Init ==
  /\ pool = EmptyPool
  /\ held = [c \in Clients |-> {}]
  /\ blocked = [c \in Clients |-> 0]
  /\ cancel = [c \in Clients |-> FALSE]
  /\ requests = [c \in Clients |-> 0]

\* The pool hands buffer b to client c: an entry of the free list, or new.
HandOut(c, n) ==
  \/ \E b \in Reusable(pool, n) :
       /\ pool' = Reuse(pool, b)
       /\ held' = [held EXCEPT ![c] = @ \cup {b}]
  \/ /\ HasRoom(pool, Capacity, n)
     /\ \E b \in Fresh(pool, n) :
          /\ pool' = AddFresh(pool, b)
          /\ held' = [held EXCEPT ![c] = @ \cup {b}]

\* Within the bound, but the allocator returns a null pointer.
AllocatorFails(n) ==
  /\ HasRoom(pool, Capacity, n)
  /\ UNCHANGED <<pool, held>>

MayRequest(c) ==
  /\ blocked[c] = 0
  /\ requests[c] < MaxRequests

Allocate(c, n) ==
  /\ MayRequest(c)
  /\ requests' = [requests EXCEPT ![c] = @ + 1]
  /\ \/ HandOut(c, n)
     \/ AllocatorFails(n)
     \/ Exhausted(pool, Capacity, n) /\ UNCHANGED <<pool, held>>
  /\ UNCHANGED <<blocked, cancel>>

\* allocate_blocking() is entered with a cancellation flag that is not set,
\* by a client that holds nothing (hold-and-wait would be its own deadlock).
EnterBlocking(c, n) ==
  /\ MayRequest(c)
  /\ held[c] = {}
  /\ requests' = [requests EXCEPT ![c] = @ + 1]
  /\ blocked' = [blocked EXCEPT ![c] = n]
  /\ cancel' = [cancel EXCEPT ![c] = FALSE]
  /\ UNCHANGED <<pool, held>>

Cancel(c) ==
  /\ blocked[c] # 0
  /\ ~cancel[c]
  /\ cancel' = [cancel EXCEPT ![c] = TRUE]
  /\ UNCHANGED <<pool, held, blocked, requests>>

\* Mutant: the cancellation flag is only looked at when there is room.
LeaveBlockingDeaf(c) ==
  /\ blocked[c] # 0
  /\ HandOut(c, blocked[c]) \/ AllocatorFails(blocked[c])
  /\ blocked' = [blocked EXCEPT ![c] = 0]
  /\ UNCHANGED <<cancel, requests>>

\* One turn of the loop of allocate_blocking() that returns; the other turns
\* only wait a millisecond.
LeaveBlocking(c) ==
  /\ blocked[c] # 0
  /\ IF cancel[c]
     THEN UNCHANGED <<pool, held>>
     ELSE HandOut(c, blocked[c]) \/ AllocatorFails(blocked[c])
  /\ blocked' = [blocked EXCEPT ![c] = 0]
  /\ UNCHANGED <<cancel, requests>>

ReleaseHeld(c) ==
  /\ blocked[c] = 0
  /\ \E b \in held[c] :
       /\ pool' = Release(pool, b)
       /\ held' = [held EXCEPT ![c] = @ \ {b}]
  /\ UNCHANGED <<blocked, cancel, requests>>

DrainIdle ==
  /\ \A c \in Clients : held[c] = {}
  /\ pool' = Drain(pool)
  /\ UNCHANGED <<held, blocked, cancel, requests>>

Next ==
  \/ \E c \in Clients, n \in Sizes : Allocate(c, n) \/ EnterBlocking(c, n)
  \/ \E c \in Clients : Cancel(c) \/ LeaveBlocking(c) \/ ReleaseHeld(c)
  \/ DrainIdle

\* Clients give back what they hold; a blocked client is polled every
\* millisecond.  Nobody has to drain, to cancel or to ask for more.
Fairness ==
  \A c \in Clients : WF_vars(ReleaseHeld(c)) /\ WF_vars(LeaveBlocking(c))

Spec == Init /\ [][Next]_vars /\ Fairness
-----------------------------------------------------------------------------
\* The pool, what its clients hold and what they wait for.
TypeOK ==
  /\ pool \in Pool
  /\ held \in [Clients -> SUBSET Buffer]
  /\ blocked \in [Clients -> Sizes \cup {0}]
  /\ cancel \in [Clients -> BOOLEAN]
  /\ requests \in [Clients -> 0 .. MaxRequests]

\* A buffer is with at most one client, or on the free list once, and is
\* memory the allocator has live: reuse never hands memory out twice and
\* drain() never frees an address twice or one still in use.
ExclusiveBuffers ==
  /\ \A b \in Buffer : pool.free[b] > 0 =>
        pool.free[b] = 1 /\ pool.heap[b.data] = b.size
  /\ \A c \in Clients : \A b \in held[c] :
        /\ pool.heap[b.data] = b.size
        /\ pool.free[b] = 0
        /\ \A d \in Clients \ {c} : b \notin held[d]

\* The addresses of the buffers clients hold.
HeldData == {b.data : b \in UNION {held[c] : c \in Clients}}

\* The counters are the truth: allocated_bytes_ is what the allocator has
\* live and in_use_ what clients hold, whichever way buffers were obtained.
AccountingExact ==
  /\ pool.allocated = BytesAt(pool.heap, Addresses)
  /\ pool.in_use = BytesAt(pool.heap, HeldData)

\* Nothing leaks: live memory is on the free list or with a client, which is
\* why drain() may reset the counters to zero.
NoLeak ==
  \A a \in Addresses : pool.heap[a] # 0 =>
    \E b \in Buffer : /\ b.data = a
                      /\ pool.free[b] > 0 \/ \E c \in Clients : b \in held[c]

\* STAGING.md: the pools are bounded.  Neither the total nor its high-water
\* mark ever passes the capacity, across reuse, failed allocations and drains.
WithinCapacity ==
  /\ pool.allocated <= pool.high_water
  /\ pool.high_water <= Capacity

\* staging.hpp: "waits until capacity frees up (or cancellation)".  Idle buffers
\* of another size can hold the capacity for ever, but a cancelled caller of
\* allocate_blocking() gets out whatever the pool looks like.
CancelledAllocationReturns ==
  \A c \in Clients : blocked[c] # 0 /\ cancel[c] ~> blocked[c] = 0
=============================================================================
