--------------------------- MODULE StagingProofs ----------------------------
(***************************************************************************)
(* Proofs about what submit() settles before anything moves: the buffers   *)
(* for staging (module StagingPool), for every number of clients and every *)
(* capacity, and the route that needs them (module Planner), for every     *)
(* input.                                                                  *)
(***************************************************************************)
EXTENDS StagingPool, Planner, StagingBuffersProofs

\* The inductive invariant: exclusivity needs the types, and the bound on the
\* high-water mark needs that the total never passes it.
IInv == TypeOK /\ ExclusiveBuffers /\ WithinCapacity
-----------------------------------------------------------------------------
\* The empty pool satisfies the inductive invariant.
LEMMA InitInv == Init => IInv
  <1> SUFFICES ASSUME Init PROVE IInv
    OBVIOUS
  <1>1. 0 \in 0 .. ByteWrap - 1 /\ ByteWrap \in Nat
    BY StagingConstants
  <1>2. EmptyPool \in Pool
    BY <1>1 DEF EmptyPool, Pool
  <1>3. TypeOK
    BY <1>2, PoolConstants DEF Init, TypeOK
  <1>4. ExclusiveBuffers
    BY DEF Init, EmptyPool, ExclusiveBuffers
  <1>5. WithinCapacity
    BY PoolConstants, <1>1 DEF Init, EmptyPool, WithinCapacity
  <1> QED BY <1>3, <1>4, <1>5 DEF IInv

\* Memory handed out is nobody else's, whether reused or new.
LEMMA HandOutInv ==
  ASSUME IInv, NEW c \in Clients, NEW n \in Sizes, HandOut(c, n)
  PROVE  /\ pool' \in Pool
         /\ held' \in [Clients -> SUBSET Buffer]
         /\ ExclusiveBuffers'
         /\ WithinCapacity'
  <1>1. pool \in Pool /\ held \in [Clients -> SUBSET Buffer]
    BY DEF IInv, TypeOK
  <1>2. CASE \E b \in Reusable(pool, n) : /\ pool' = Reuse(pool, b)
                                          /\ held' = [held EXCEPT ![c] = @ \cup {b}]
    <2>1. PICK b \in Reusable(pool, n) : /\ pool' = Reuse(pool, b)
                                         /\ held' = [held EXCEPT ![c] = @ \cup {b}]
      BY <1>2, Zenon
    <2>2. b \in Buffer /\ pool.free[b] > 0 /\ pool.free[b] = 1
      BY DEF Reusable, IInv, ExclusiveBuffers
    <2>3. /\ pool' \in Pool
          /\ pool'.heap = pool.heap
          /\ pool'.free = [pool.free EXCEPT ![b] = @ - 1]
          /\ pool'.allocated = pool.allocated
          /\ pool'.high_water = pool.high_water
      BY <1>1, <2>1, ReuseFields
    <2>4. /\ pool'.free[b] = 0
          /\ \A a \in Buffer \ {b} : pool'.free[a] = pool.free[a]
      BY <1>1, <2>2, <2>3, PoolFields
    <2>5. \A d \in Clients : b \notin held[d]
      BY <2>2 DEF IInv, ExclusiveBuffers
    <2>6. pool.heap[b.data] = b.size
      BY <2>2 DEF IInv, ExclusiveBuffers
    <2>7. ExclusiveBuffers'
      BY <1>1, <2>1, <2>2, <2>3, <2>4, <2>5, <2>6 DEF IInv, ExclusiveBuffers
    <2>8. WithinCapacity'
      BY <2>3 DEF IInv, WithinCapacity
    <2> QED BY <1>1, <2>1, <2>2, <2>3, <2>7, <2>8
  <1>3. CASE /\ HasRoom(pool, Capacity, n)
             /\ \E b \in Fresh(pool, n) : /\ pool' = AddFresh(pool, b)
                                          /\ held' = [held EXCEPT ![c] = @ \cup {b}]
    <2>1. PICK b \in Fresh(pool, n) : /\ pool' = AddFresh(pool, b)
                                      /\ held' = [held EXCEPT ![c] = @ \cup {b}]
      BY <1>3, Zenon
    <2>2. b \in Buffer /\ b.size = n /\ pool.heap[b.data] = 0
      BY DEF Fresh
    <2> DEFINE total == (pool.allocated + n) % ByteWrap
    <2>3. /\ pool' \in Pool
          /\ pool'.heap = [pool.heap EXCEPT ![b.data] = b.size]
          /\ pool'.free = pool.free
          /\ pool'.allocated = total
          /\ pool'.high_water = IF total > pool.high_water THEN total ELSE pool.high_water
      BY <1>1, <2>1, AddFreshFields
    <2>4. /\ pool'.heap[b.data] = b.size
          /\ \A a \in Addresses \ {b.data} : pool'.heap[a] = pool.heap[a]
      BY <1>1, <2>2, <2>3, PoolFields, BufferFields
    <2>5. \A a \in Buffer : pool.free[a] > 0 => a.data # b.data
      BY <2>2, BufferFields, SizeRange DEF IInv, ExclusiveBuffers
    <2>6. \A d \in Clients : \A a \in held[d] : a.data # b.data
      BY <1>1, <2>2, BufferFields, SizeRange DEF IInv, ExclusiveBuffers
    <2>7. pool.free[b] = 0
      BY <1>1, <2>2, <2>5, PoolFields
    <2>8. ExclusiveBuffers'
      <3>1. \A a \in Buffer : pool'.free[a] > 0 =>
              pool'.free[a] = 1 /\ pool'.heap[a.data] = a.size
        BY <2>3, <2>4, <2>5, BufferFields DEF IInv, ExclusiveBuffers
      <3>2. \A d \in Clients : held'[d] = IF d = c THEN held[d] \cup {b} ELSE held[d]
        BY <1>1, <2>1, SMTT(20)
      <3>3. ASSUME NEW d \in Clients, NEW a \in held'[d]
            PROVE  /\ pool'.heap[a.data] = a.size
                   /\ pool'.free[a] = 0
                   /\ \A e \in Clients \ {d} : a \notin held'[e]
        <4>1. CASE a = b
          BY <4>1, <3>2, <3>3, <2>3, <2>4, <2>6, <2>7, Zenon
        <4>2. CASE a # b
          <5>1. a \in held[d] /\ a \in Buffer /\ a.data # b.data
            BY <4>2, <3>2, <3>3, <2>6, <1>1, Zenon
          <5>2. /\ pool.heap[a.data] = a.size
                /\ pool.free[a] = 0
                /\ \A e \in Clients \ {d} : a \notin held[e]
            BY <5>1 DEF IInv, ExclusiveBuffers
          <5>3. pool'.heap[a.data] = a.size
            BY <5>1, <5>2, <2>4, BufferFields
          <5>4. \A e \in Clients \ {d} : a \notin held'[e]
            BY <4>2, <5>2, <3>2, Zenon
          <5> QED BY <5>2, <5>3, <5>4, <2>3
        <4> QED BY <4>1, <4>2
      <3> QED BY <3>1, <3>3 DEF ExclusiveBuffers
    <2>9. WithinCapacity'
      <3>1. total <= Capacity
        BY <1>3 DEF HasRoom
      <3>2. total \in Int /\ Capacity \in Int
        BY <2>3, PoolFields, PoolConstants, StagingConstants
      <3>3. pool.high_water \in Int /\ pool.high_water <= Capacity
        BY <1>1, PoolFields, StagingConstants DEF IInv, WithinCapacity
      <3> HIDE DEF total
      <3> QED BY <3>1, <3>2, <3>3, <2>3 DEF WithinCapacity
    <2> QED BY <1>1, <2>1, <2>2, <2>3, <2>8, <2>9
  <1> QED BY <1>2, <1>3 DEF HandOut

\* release() of a buffer the client holds keeps the invariant.
LEMMA ReleaseHeldInv ==
  ASSUME IInv, NEW c \in Clients, ReleaseHeld(c)
  PROVE  IInv'
  <1>1. PICK b \in held[c] : /\ pool' = Release(pool, b)
                             /\ held' = [held EXCEPT ![c] = @ \ {b}]
    BY Zenon DEF ReleaseHeld
  <1>2. pool \in Pool /\ held \in [Clients -> SUBSET Buffer] /\ b \in Buffer
    BY DEF IInv, TypeOK
  <1>3. /\ pool' \in Pool
        /\ pool'.heap = pool.heap
        /\ pool'.free = [pool.free EXCEPT ![b] = @ + 1]
        /\ pool'.allocated = pool.allocated
        /\ pool'.high_water = pool.high_water
    BY <1>1, <1>2, ReleaseFields
  <1>4. /\ pool'.free[b] = 1
        /\ \A a \in Buffer \ {b} : pool'.free[a] = pool.free[a]
    <2>1. pool.free[b] = 0
      BY DEF IInv, ExclusiveBuffers
    <2> QED BY <2>1, <1>2, <1>3, PoolFields
  <1>5. TypeOK'
    BY <1>1, <1>2, <1>3 DEF IInv, TypeOK, ReleaseHeld
  <1>6. ExclusiveBuffers'
    <2>1. \A d \in Clients : held'[d] = held[d] \ {b}
      BY <1>1, <1>2 DEF IInv, ExclusiveBuffers
    <2> QED BY <2>1, <1>2, <1>3, <1>4 DEF IInv, ExclusiveBuffers
  <1>7. WithinCapacity'
    BY <1>3 DEF IInv, WithinCapacity
  <1> QED BY <1>5, <1>6, <1>7 DEF IInv

\* drain() of an idle pool keeps the invariant.
LEMMA DrainIdleInv ==
  ASSUME IInv, DrainIdle
  PROVE  IInv'
  <1>1. pool \in Pool /\ ByteWrap \in Nat /\ 0 \in 0 .. ByteWrap - 1
    BY StagingConstants DEF IInv, TypeOK
  <1> DEFINE heap == [a \in Addresses |->
                        IF \E b \in Buffer : b.data = a /\ pool.free[b] > 0
                        THEN 0 ELSE pool.heap[a]]
             free == [b \in Buffer |-> 0]
  <1>2. heap \in [Addresses -> Sizes \cup {0}] /\ free \in [Buffer -> Nat]
    BY <1>1, PoolFields
  <1> HIDE DEF heap
  <1>3. pool' = [pool EXCEPT !.heap = heap, !.free = free, !.allocated = 0, !.in_use = 0]
    BY DEF DrainIdle, Drain, heap
  <1>4. pool' \in Pool
    BY <1>1, <1>2, <1>3, Zenon DEF Pool
  <1>5. pool'.free = free /\ pool'.allocated = 0 /\ pool'.high_water = pool.high_water
    BY <1>1, <1>3 DEF Pool
  <1>6. TypeOK'
    BY <1>4 DEF IInv, TypeOK, DrainIdle
  <1>7. ExclusiveBuffers'
    BY <1>5 DEF DrainIdle, ExclusiveBuffers
  <1>8. WithinCapacity'
    BY <1>1, <1>5, PoolFields DEF IInv, WithinCapacity
  <1> QED BY <1>6, <1>7, <1>8 DEF IInv

\* A step that neither hands out nor takes back.
LEMMA SamePoolInv ==
  ASSUME IInv, UNCHANGED <<pool, held>>
  PROVE  ExclusiveBuffers' /\ WithinCapacity' /\ pool' \in Pool /\ held' \in [Clients -> SUBSET Buffer]
  BY DEF IInv, TypeOK, ExclusiveBuffers, WithinCapacity

\* Every critical section of the pool keeps the invariant.
LEMMA NextInv == IInv /\ [Next]_vars => IInv'
  <1> SUFFICES ASSUME IInv, [Next]_vars PROVE IInv'
    OBVIOUS
  <1>1. ASSUME NEW c \in Clients, NEW n \in Sizes, Allocate(c, n) PROVE IInv'
    <2>1. HandOut(c, n) \/ UNCHANGED <<pool, held>>
      BY <1>1 DEF Allocate, AllocatorFails
    <2>2. /\ pool' \in Pool
          /\ held' \in [Clients -> SUBSET Buffer]
          /\ ExclusiveBuffers'
          /\ WithinCapacity'
      BY <2>1, HandOutInv, SamePoolInv
    <2>3. requests' \in [Clients -> 0 .. MaxRequests]
      BY <1>1, PoolConstants DEF Allocate, MayRequest, IInv, TypeOK
    <2> QED BY <1>1, <2>2, <2>3 DEF Allocate, IInv, TypeOK
  <1>2. ASSUME NEW c \in Clients, NEW n \in Sizes, EnterBlocking(c, n) PROVE IInv'
    <2>1. requests' \in [Clients -> 0 .. MaxRequests]
      BY <1>2, PoolConstants DEF EnterBlocking, MayRequest, IInv, TypeOK
    <2>2. blocked' \in [Clients -> Sizes \cup {0}] /\ cancel' \in [Clients -> BOOLEAN]
      BY <1>2 DEF EnterBlocking, IInv, TypeOK
    <2> QED BY <1>2, <2>1, <2>2, SamePoolInv DEF EnterBlocking, IInv, TypeOK
  <1>3. ASSUME NEW c \in Clients, Cancel(c) PROVE IInv'
    <2>1. cancel' \in [Clients -> BOOLEAN]
      BY <1>3 DEF Cancel, IInv, TypeOK
    <2> QED BY <1>3, <2>1, SamePoolInv DEF Cancel, IInv, TypeOK
  <1>4. ASSUME NEW c \in Clients, LeaveBlocking(c) PROVE IInv'
    <2>1. blocked[c] \in Sizes
      BY <1>4 DEF LeaveBlocking, IInv, TypeOK
    <2>2. HandOut(c, blocked[c]) \/ UNCHANGED <<pool, held>>
      BY <1>4 DEF LeaveBlocking, AllocatorFails
    <2>3. /\ pool' \in Pool
          /\ held' \in [Clients -> SUBSET Buffer]
          /\ ExclusiveBuffers'
          /\ WithinCapacity'
      BY <2>1, <2>2, HandOutInv, SamePoolInv
    <2> QED BY <1>4, <2>3, Zenon DEF LeaveBlocking, IInv, TypeOK
  <1>5. ASSUME NEW c \in Clients, ReleaseHeld(c) PROVE IInv'
    BY <1>5, ReleaseHeldInv
  <1>6. CASE DrainIdle
    BY <1>6, DrainIdleInv
  <1>7. CASE UNCHANGED vars
    BY <1>7, SamePoolInv DEF vars, IInv, TypeOK
  <1> QED
    BY <1>1, <1>2, <1>3, <1>4, <1>5, <1>6, <1>7 DEF Next
-----------------------------------------------------------------------------
\* Nothing leaks at first.
LEMMA InitNoLeak == Init => NoLeak
  BY DEF Init, EmptyPool, NoLeak

\* No critical section loses track of live memory.
LEMMA NextNoLeak == IInv /\ NoLeak /\ [Next]_vars => NoLeak'
  <1> SUFFICES ASSUME IInv, NoLeak, [Next]_vars PROVE NoLeak'
    OBVIOUS
  <1>1. pool \in Pool /\ held \in [Clients -> SUBSET Buffer]
    BY DEF IInv, TypeOK
  <1>2. ASSUME UNCHANGED <<pool, held>> PROVE NoLeak'
    BY <1>2 DEF NoLeak
  <1>3. ASSUME NEW c \in Clients, NEW b, held' = [held EXCEPT ![c] = @ \cup {b}]
        PROVE  b \in held'[c] /\ \A d \in Clients : held[d] \subseteq held'[d]
    BY <1>1, <1>3
  <1>4. ASSUME NEW c \in Clients, NEW n \in Sizes, NEW b \in Reusable(pool, n),
               pool' = Reuse(pool, b), held' = [held EXCEPT ![c] = @ \cup {b}]
        PROVE  NoLeak'
    <2>1. /\ Reuse(pool, b).heap = pool.heap
          /\ Reuse(pool, b).free = [pool.free EXCEPT ![b] = @ - 1]
      BY <1>1, <1>4, ReuseFields
    <2>2. \A x \in Buffer : x # b => pool'.free[x] = pool.free[x]
      BY <1>1, <1>4, <2>1, PoolFields
    <2>3. b \in held'[c] /\ \A d \in Clients : held[d] \subseteq held'[d]
      BY <1>3, <1>4, Zenon
    <2> QED BY <1>4, <2>1, <2>2, <2>3 DEF NoLeak
  <1>5. ASSUME NEW c \in Clients, NEW n \in Sizes, NEW b \in Fresh(pool, n),
               pool' = AddFresh(pool, b), held' = [held EXCEPT ![c] = @ \cup {b}]
        PROVE  NoLeak'
    <2>1. /\ pool'.heap = [pool.heap EXCEPT ![b.data] = b.size]
          /\ pool'.free = pool.free
      BY <1>1, <1>5, AddFreshFields
    <2>2. b \in Buffer /\ \A a \in Addresses : a # b.data => pool'.heap[a] = pool.heap[a]
      BY <1>1, <2>1, PoolFields DEF Fresh
    <2>3. b \in held'[c] /\ \A d \in Clients : held[d] \subseteq held'[d]
      BY <1>3, <1>5, Zenon
    <2> QED BY <2>1, <2>2, <2>3 DEF NoLeak
  <1>6. ASSUME NEW c \in Clients, NEW n \in Sizes, HandOut(c, n) PROVE NoLeak'
    BY <1>4, <1>5, <1>6, Zenon DEF HandOut
  <1>7. ASSUME NEW c \in Clients, NEW n \in Sizes, Allocate(c, n) PROVE NoLeak'
    BY <1>2, <1>6, <1>7, Zenon DEF Allocate, AllocatorFails
  <1>8. ASSUME NEW c \in Clients, LeaveBlocking(c) PROVE NoLeak'
    <2>1. blocked[c] \in Sizes
      BY <1>8 DEF LeaveBlocking, IInv, TypeOK
    <2>2. HandOut(c, blocked[c]) \/ UNCHANGED <<pool, held>>
      BY <1>8 DEF LeaveBlocking, AllocatorFails
    <2> QED BY <1>2, <1>6, <2>1, <2>2, Zenon
  <1>9. ASSUME NEW c \in Clients, NEW b \in held[c],
               pool' = Release(pool, b), held' = [held EXCEPT ![c] = @ \ {b}]
        PROVE  NoLeak'
    <2>1. b \in Buffer /\ pool'.heap = pool.heap /\ pool'.free = [pool.free EXCEPT ![b] = @ + 1]
      BY <1>1, <1>9, ReleaseFields
    <2>2. pool'.free[b] > 0 /\ \A x \in Buffer : x # b => pool'.free[x] = pool.free[x]
      BY <1>1, <2>1, PoolFields
    <2>3. \A d \in Clients : held[d] \ {b} \subseteq held'[d]
      BY <1>1, <1>9
    <2> QED BY <2>1, <2>2, <2>3 DEF NoLeak
  <1>10. ASSUME NEW c \in Clients, ReleaseHeld(c) PROVE NoLeak'
    BY <1>9, <1>10, Zenon DEF ReleaseHeld
  <1>11. CASE DrainIdle
    <2>1. pool'.heap = [a \in Addresses |->
                          IF \E b \in Buffer : b.data = a /\ pool.free[b] > 0
                          THEN 0 ELSE pool.heap[a]]
      BY <1>1, <1>11 DEF DrainIdle, Drain, Pool
    <2> QED BY <1>11, <2>1 DEF DrainIdle, NoLeak
  <1>12. ASSUME NEW c \in Clients, Cancel(c) PROVE NoLeak'
    BY <1>2, <1>12 DEF Cancel
  <1>13. ASSUME NEW c \in Clients, NEW n \in Sizes, EnterBlocking(c, n) PROVE NoLeak'
    BY <1>2, <1>13 DEF EnterBlocking
  <1>14. CASE UNCHANGED vars
    BY <1>2, <1>14 DEF vars
  <1> QED
    BY <1>7, <1>8, <1>10, <1>11, <1>12, <1>13, <1>14, Zenon DEF Next

\* The counters.  What makes them exact takes two facts more: nothing leaks,
\* and a request within the bound does not make them wrap.
AInv == IInv /\ NoLeak /\ AccountingExact

\* Held memory is a set of addresses at which something is live, and held
\* buffers are told apart by their address.
LEMMA HeldFacts ==
  ASSUME IInv
  PROVE  /\ HeldData \subseteq Addresses
         /\ \A a \in Addresses : pool.heap[a] \in Nat
         /\ \A b \in Buffer : pool.free[b] > 0 => b.data \notin HeldData
         /\ \A c, d \in Clients : \A x \in held[c] : \A y \in held[d] :
              x.data = y.data => x = y /\ c = d
  <1>1. pool \in Pool /\ held \in [Clients -> SUBSET Buffer]
    BY DEF IInv, TypeOK
  <1>2. \A c \in Clients : \A b \in held[c] : b \in Buffer
    BY <1>1
  <1>3. HeldData \subseteq Addresses
    BY <1>2, BufferFields DEF HeldData
  <1>4. \A a \in Addresses : pool.heap[a] \in Nat
    BY <1>1, PoolFields, SizeRange
  <1>5. \A x, y \in Buffer : x.data = y.data /\ x.size = y.size => x = y
    BY DEF Buffer
  <1>6. \A c, d \in Clients : \A x \in held[c] : \A y \in held[d] :
          x.data = y.data => x = y /\ c = d
    BY <1>2, <1>5 DEF IInv, ExclusiveBuffers
  <1>7. ASSUME NEW b \in Buffer, pool.free[b] > 0, b.data \in HeldData PROVE FALSE
    <2>1. PICK c \in Clients, x \in UNION {held[d] : d \in Clients} : x \in held[c] /\ x.data = b.data
      BY <1>7 DEF HeldData
    <2>2. x = b
      BY <1>2, <1>5, <1>7, <2>1 DEF IInv, ExclusiveBuffers
    <2> QED BY <1>7, <2>2 DEF IInv, ExclusiveBuffers
  <1> QED BY <1>3, <1>4, <1>6, <1>7

\* What is held is part of what is live, and both fit the counters.
LEMMA UseWithinTotal ==
  ASSUME IInv, AccountingExact
  PROVE  /\ pool.in_use \in Nat /\ pool.allocated \in Nat
         /\ pool.in_use <= pool.allocated
         /\ pool.allocated <= Capacity /\ Capacity \in Nat
  <1>1. pool \in Pool
    BY DEF IInv, TypeOK
  <1>2. BytesAt(pool.heap, HeldData) <= BytesAt(pool.heap, Addresses)
    BY HeldFacts, BytesMonotonic, StagingConstants
  <1>3. /\ pool.in_use \in Nat
        /\ pool.allocated \in Nat
        /\ pool.high_water \in Nat
        /\ Capacity \in Nat
    BY <1>1, PoolFields, StagingConstants, PoolConstants
  <1> QED BY <1>2, <1>3 DEF AccountingExact, IInv, WithinCapacity

\* A number below the wrap is left alone by it.
LEMMA NoWrapping == \A x \in Nat : x < ByteWrap => x % ByteWrap = x
  BY StagingConstants

\* A buffer joins what is held.
LEMMA HeldGrows ==
  ASSUME NEW c \in Clients, NEW b, held \in [Clients -> SUBSET Buffer],
         held' = [held EXCEPT ![c] = @ \cup {b}]
  PROVE  HeldData' = HeldData \cup {b.data}
  <1>1. \A d \in Clients : held'[d] = IF d = c THEN held[d] \cup {b} ELSE held[d]
    BY SMTT(20)
  <1>2. HeldData \cup {b.data} \subseteq HeldData'
    BY <1>1 DEF HeldData
  <1>3. HeldData' \subseteq HeldData \cup {b.data}
    BY <1>1 DEF HeldData
  <1> QED BY <1>2, <1>3

\* Reused memory: it was live and nobody's, and is now counted as in use.
LEMMA ReuseExact ==
  ASSUME AInv, NEW c \in Clients, NEW n \in Sizes, NEW b \in Reusable(pool, n),
         pool' = Reuse(pool, b), held' = [held EXCEPT ![c] = @ \cup {b}]
  PROVE  AccountingExact'
  <1>1. pool \in Pool /\ held \in [Clients -> SUBSET Buffer] /\ IInv /\ AccountingExact
    BY DEF AInv, IInv, TypeOK
  <1>2. b \in Buffer /\ b.size = n /\ pool.free[b] > 0 /\ b.data \in Addresses
    BY BufferFields DEF Reusable
  <1>3. /\ pool'.heap = pool.heap
        /\ pool'.free = [pool.free EXCEPT ![b] = @ - 1]
        /\ pool'.allocated = pool.allocated
        /\ pool'.in_use = (pool.in_use + n) % ByteWrap
    <2>1. /\ Reuse(pool, b).heap = pool.heap
          /\ Reuse(pool, b).free = [pool.free EXCEPT ![b] = @ - 1]
          /\ Reuse(pool, b).allocated = pool.allocated
          /\ Reuse(pool, b).in_use = (pool.in_use + b.size) % ByteWrap
      BY <1>1, ReuseFields
    <2> QED BY <1>2, <2>1, Zenon
  <1>4. HeldData' = HeldData \cup {b.data}
    BY <1>1, HeldGrows, Zenon
  <1>5. b.data \notin HeldData
    BY <1>1, <1>2, HeldFacts
  <1>6. pool.heap[b.data] = n
    BY <1>1, <1>2 DEF IInv, ExclusiveBuffers
  <1> DEFINE H == HeldData \cup {b.data}
  <1>7. H \subseteq Addresses /\ IsFiniteSet(H) /\ b.data \in H /\ H \ {b.data} = HeldData
    BY <1>1, <1>2, <1>5, HeldFacts, StagingConstants, FS_Subset, SMTT(30)
  <1>8. \A a \in Addresses : pool.heap[a] \in Nat
    BY <1>1, HeldFacts
  <1>9. BytesAt(pool.heap, H) = n + BytesAt(pool.heap, HeldData)
    <2>1. \A a \in H : pool.heap[a] \in Nat
      BY <1>7, <1>8
    <2> HIDE DEF H
    <2>2. BytesAt(pool.heap, H) = pool.heap[b.data] + BytesAt(pool.heap, H \ {b.data})
      BY <1>7, <2>1, BytesSplit
    <2> QED BY <1>6, <1>7, <2>2
  <1>10. BytesAt(pool.heap, H) <= BytesAt(pool.heap, Addresses)
    <2> HIDE DEF H
    <2> QED BY <1>7, <1>8, BytesMonotonic, StagingConstants
  <1>11. pool.in_use + n \in Nat /\ pool.in_use + n < ByteWrap
    <2>1. n \in Nat /\ ByteWrap \in Nat /\ Capacity \in Nat /\ Capacity < ByteWrap
      BY SizeRange, StagingConstants, PoolConstants
    <2>2. pool.in_use \in Nat /\ pool.allocated \in Nat /\ pool.allocated <= Capacity
      BY <1>1, UseWithinTotal
    <2>3. n + pool.in_use <= pool.allocated
      BY <1>1, <1>9, <1>10 DEF AccountingExact
    <2> QED BY <2>1, <2>2, <2>3
  <1>12. pool'.in_use = pool.in_use + n
    BY <1>3, <1>11, NoWrapping
  <1>13. pool'.in_use = BytesAt(pool'.heap, HeldData')
    <2>1. pool.in_use \in Nat /\ n \in Nat
      BY <1>1, UseWithinTotal, SizeRange
    <2>2. pool.in_use + n = n + pool.in_use
      BY <2>1
    <2> QED BY <1>1, <1>3, <1>4, <1>9, <1>12, <2>2, Zenon DEF AccountingExact
  <1>14. AccountingExact'
    BY <1>1, <1>3, <1>13 DEF AccountingExact
  <1> QED BY <1>14

\* New memory: the total and what is in use grow by its size.
LEMMA AddFreshExact ==
  ASSUME CountersFit, AInv, NEW c \in Clients, NEW n \in Sizes, NEW b \in Fresh(pool, n),
         pool' = AddFresh(pool, b), held' = [held EXCEPT ![c] = @ \cup {b}]
  PROVE  AccountingExact'
  <1>1. pool \in Pool /\ held \in [Clients -> SUBSET Buffer] /\ IInv /\ AccountingExact
    BY DEF AInv, IInv, TypeOK
  <1>2. b \in Buffer /\ b.size = n /\ pool.heap[b.data] = 0 /\ b.data \in Addresses
    BY BufferFields DEF Fresh
  <1>3. /\ pool'.heap = [pool.heap EXCEPT ![b.data] = n]
        /\ pool'.free = pool.free
        /\ pool'.allocated = (pool.allocated + n) % ByteWrap
        /\ pool'.in_use = (pool.in_use + n) % ByteWrap
    BY <1>1, <1>2, AddFreshFields
  <1>4. HeldData' = HeldData \cup {b.data}
    BY <1>1, HeldGrows, Zenon
  <1>5. n \in Nat /\ n > 0 /\ ByteWrap \in Nat /\ Capacity + n < ByteWrap
    BY SizeRange, StagingConstants DEF CountersFit
  <1>6. b.data \notin HeldData
    <2>1. \A d \in Clients : \A x \in held[d] : x \in Buffer /\ pool.heap[x.data] = x.size
      BY <1>1 DEF IInv, ExclusiveBuffers
    <2>2. \A x \in Buffer : x.size # 0
      BY BufferFields, SizeRange, SMTT(30)
    <2> QED BY <1>2, <2>1, <2>2, SMTT(30) DEF HeldData
  <1>7. /\ pool'.heap[b.data] = n
        /\ \A a \in Addresses : a # b.data => pool'.heap[a] = pool.heap[a]
        /\ \A a \in Addresses : pool.heap[a] \in Nat /\ pool'.heap[a] \in Nat
    BY <1>1, <1>2, <1>3, <1>5, HeldFacts, PoolFields, SMTT(30)
  <1>8. ASSUME NEW H \in SUBSET Addresses, b.data \in H
        PROVE  BytesAt(pool'.heap, H) = n + BytesAt(pool.heap, H \ {b.data})
    <2>1. IsFiniteSet(H) /\ IsFiniteSet(H \ {b.data})
      BY StagingConstants, FS_Subset, SMTT(30)
    <2>2. BytesAt(pool'.heap, H) = pool'.heap[b.data] + BytesAt(pool'.heap, H \ {b.data})
      BY <1>7, <1>8, <2>1, BytesSplit, SMTT(30)
    <2>3. BytesAt(pool'.heap, H \ {b.data}) = BytesAt(pool.heap, H \ {b.data})
      BY <1>7, <2>1, BytesSame
    <2> QED BY <1>7, <2>2, <2>3
  <1>9. BytesAt(pool'.heap, Addresses) = n + BytesAt(pool.heap, Addresses)
    <2>1. BytesAt(pool.heap, Addresses) =
            pool.heap[b.data] + BytesAt(pool.heap, Addresses \ {b.data})
      BY <1>2, <1>7, StagingConstants, BytesSplit, SMTT(30)
    <2>2. BytesAt(pool.heap, Addresses \ {b.data}) \in Nat
      BY <1>7, StagingConstants, FS_Subset, BytesNat
    <2> QED BY <1>2, <1>8, <2>1, <2>2, SMTT(30)
  <1>10. BytesAt(pool'.heap, HeldData \cup {b.data}) = n + BytesAt(pool.heap, HeldData)
    <2>1. HeldData \cup {b.data} \in SUBSET Addresses
      BY <1>1, <1>2, HeldFacts
    <2>2. (HeldData \cup {b.data}) \ {b.data} = HeldData
      BY <1>6
    <2> QED BY <1>8, <2>1, <2>2, SMTT(30)
  <1>11. pool'.allocated = pool.allocated + n /\ pool'.in_use = pool.in_use + n
    <2>1. /\ pool.allocated + n \in Nat /\ pool.allocated + n < ByteWrap
          /\ pool.in_use + n \in Nat /\ pool.in_use + n < ByteWrap
      BY <1>1, <1>5, UseWithinTotal
    <2> QED BY <1>3, <2>1, NoWrapping
  <1>12. pool.allocated \in Nat /\ pool.in_use \in Nat
    BY <1>1, UseWithinTotal, SMTT(30)
  <1>13. pool'.allocated = BytesAt(pool'.heap, Addresses)
    BY <1>1, <1>5, <1>9, <1>11, <1>12, SMTT(30) DEF AccountingExact
  <1>14. pool'.in_use = BytesAt(pool'.heap, HeldData')
    BY <1>1, <1>4, <1>5, <1>10, <1>11, <1>12, SMTT(30) DEF AccountingExact
  <1>15. AccountingExact'
    BY <1>13, <1>14 DEF AccountingExact
  <1> QED BY <1>15

\* release(): what was in use no longer is, and stays live on the free list.
LEMMA ReleaseExact ==
  ASSUME AInv, NEW c \in Clients, NEW b \in held[c],
         pool' = Release(pool, b), held' = [held EXCEPT ![c] = @ \ {b}]
  PROVE  AccountingExact'
  <1>1. /\ pool \in Pool /\ held \in [Clients -> SUBSET Buffer] /\ b \in Buffer
        /\ IInv /\ AccountingExact
    BY DEF AInv, IInv, TypeOK
  <1>2. /\ pool'.heap = pool.heap
        /\ pool'.free = [pool.free EXCEPT ![b] = @ + 1]
        /\ pool'.allocated = pool.allocated
        /\ pool'.in_use = (pool.in_use - b.size) % ByteWrap
    BY <1>1, ReleaseFields, SMTT(30)
  <1>3. b.data \in HeldData /\ pool.heap[b.data] = b.size /\ b.size \in Nat
    BY <1>1, BufferFields, SizeRange, SMTT(30) DEF HeldData, IInv, ExclusiveBuffers
  <1>4. \A d \in Clients : held'[d] = held[d] \ {b}
    BY <1>1 DEF IInv, ExclusiveBuffers
  <1>5. HeldData' = HeldData \ {b.data}
    <2>1. \A d \in Clients : \A x \in held[d] : x.data = b.data => x = b
      BY <1>1, HeldFacts
    <2> QED BY <1>4, <2>1 DEF HeldData
  <1>6. BytesAt(pool.heap, HeldData) = b.size + BytesAt(pool.heap, HeldData \ {b.data})
    <2>1. HeldData \subseteq Addresses /\ \A a \in HeldData : pool.heap[a] \in Nat
      BY <1>1, HeldFacts
    <2>2. IsFiniteSet(HeldData)
      BY <2>1, StagingConstants, FS_Subset
    <2>3. BytesAt(pool.heap, HeldData) = pool.heap[b.data] + BytesAt(pool.heap, HeldData \ {b.data})
      BY <1>3, <2>1, <2>2, BytesSplit
    <2> QED BY <1>3, <2>3, Zenon
  <1>7. BytesAt(pool.heap, HeldData \ {b.data}) \in Nat
    <2>1. /\ HeldData \ {b.data} \subseteq Addresses
          /\ \A a \in HeldData \ {b.data} : pool.heap[a] \in Nat
      BY <1>1, HeldFacts
    <2>2. IsFiniteSet(HeldData \ {b.data})
      BY <2>1, StagingConstants, FS_Subset
    <2> QED BY <2>1, <2>2, BytesNat, Zenon
  <1>8. pool'.in_use = BytesAt(pool.heap, HeldData \ {b.data})
    <2> DEFINE rest == BytesAt(pool.heap, HeldData \ {b.data})
    <2>1. pool.in_use = b.size + rest
      BY <1>1, <1>6 DEF AccountingExact
    <2>2. pool.in_use < ByteWrap /\ ByteWrap \in Nat
      BY <1>1, PoolFields, StagingConstants
    <2>3. rest \in Nat
      BY <1>7
    <2> HIDE DEF rest
    <2>4. pool.in_use - b.size = rest /\ rest < ByteWrap
      BY <1>3, <2>1, <2>2, <2>3
    <2> QED BY <1>2, <2>3, <2>4, NoWrapping, SMTT(30) DEF rest
  <1>9. AccountingExact'
    <2>1. pool'.in_use = BytesAt(pool'.heap, HeldData')
      BY <1>2, <1>5, <1>8, Zenon
    <2> QED BY <1>1, <1>2, <2>1, Zenon DEF AccountingExact
  <1> QED BY <1>9

\* drain(): what is live is all on the free list, so nothing is left.
LEMMA DrainExact ==
  ASSUME AInv, DrainIdle
  PROVE  AccountingExact'
  <1>1. pool \in Pool /\ IInv
    BY DEF AInv, IInv, TypeOK
  <1>2. pool' = Drain(pool) /\ held' = held /\ \A c \in Clients : held[c] = {}
    BY DEF DrainIdle
  <1>3. /\ pool'.heap = [a \in Addresses |->
                          IF \E b \in Buffer : b.data = a /\ pool.free[b] > 0
                          THEN 0 ELSE pool.heap[a]]
        /\ pool'.allocated = 0
        /\ pool'.in_use = 0
    BY <1>1, <1>2 DEF Drain, Pool
  <1>4. \A a \in Addresses : pool'.heap[a] = 0
    <2>1. \A a \in Addresses : pool.heap[a] # 0 =>
            \E b \in Buffer : b.data = a /\ pool.free[b] > 0
      BY <1>2 DEF AInv, NoLeak
    <2> QED BY <1>3, <2>1
  <1>5. HeldData' = {}
    BY <1>2 DEF HeldData
  <1>6. BytesAt(pool'.heap, Addresses) = 0
    BY <1>4, StagingConstants, BytesZero
  <1>7. BytesAt(pool'.heap, HeldData') = 0
    BY <1>5, BytesEmpty
  <1> QED BY <1>3, <1>6, <1>7 DEF AccountingExact

\* The counters start exact.
LEMMA InitExact == Init => AInv
  <1> SUFFICES ASSUME Init PROVE AccountingExact
    BY InitInv, InitNoLeak DEF AInv
  <1>1. /\ pool.heap = [a \in Addresses |-> 0]
        /\ pool.allocated = 0
        /\ pool.in_use = 0
        /\ HeldData = {}
    BY DEF Init, EmptyPool, HeldData
  <1>2. \A a \in Addresses : pool.heap[a] = 0
    BY <1>1
  <1>3. BytesAt(pool.heap, Addresses) = 0
    BY <1>2, StagingConstants, BytesZero
  <1>4. BytesAt(pool.heap, HeldData) = 0
    BY <1>1, BytesEmpty
  <1> QED BY <1>1, <1>3, <1>4 DEF AccountingExact

\* Every critical section keeps the counters exact.
LEMMA NextExact == ASSUME CountersFit PROVE AInv /\ [Next]_vars => AInv'
  <1> SUFFICES ASSUME AInv, [Next]_vars PROVE AccountingExact'
    BY NextInv, NextNoLeak DEF AInv
  <1>1. ASSUME UNCHANGED <<pool, held>> PROVE AccountingExact'
    BY <1>1 DEF AInv, AccountingExact, HeldData
  <1>2. ASSUME NEW c \in Clients, NEW n \in Sizes, HandOut(c, n)
        PROVE  AccountingExact'
    BY <1>2, ReuseExact, AddFreshExact, Zenon DEF HandOut
  <1>3. ASSUME NEW c \in Clients, NEW n \in Sizes, Allocate(c, n)
        PROVE  AccountingExact'
    BY <1>1, <1>2, <1>3, Zenon DEF Allocate, AllocatorFails
  <1>4. ASSUME NEW c \in Clients, LeaveBlocking(c) PROVE AccountingExact'
    <2>1. blocked[c] \in Sizes
      BY <1>4 DEF LeaveBlocking, AInv, IInv, TypeOK
    <2>2. HandOut(c, blocked[c]) \/ UNCHANGED <<pool, held>>
      BY <1>4 DEF LeaveBlocking, AllocatorFails
    <2> QED BY <1>1, <1>2, <2>1, <2>2, Zenon
  <1>5. ASSUME NEW c \in Clients, ReleaseHeld(c) PROVE AccountingExact'
    BY <1>5, ReleaseExact, Zenon DEF ReleaseHeld
  <1>6. ASSUME NEW c \in Clients, Cancel(c) PROVE AccountingExact'
    BY <1>1, <1>6 DEF Cancel
  <1>7. ASSUME NEW c \in Clients, NEW n \in Sizes, EnterBlocking(c, n)
        PROVE  AccountingExact'
    BY <1>1, <1>7 DEF EnterBlocking
  <1>8. CASE UNCHANGED vars
    BY <1>1, <1>8 DEF vars
  <1> QED
    BY <1>3, <1>4, <1>5, <1>6, <1>7, <1>8, DrainExact, Zenon DEF Next
-----------------------------------------------------------------------------
\* The inductive invariant of the pool holds in every reachable state.
THEOREM Invariance == Spec => []IInv
  BY InitInv, NextInv, PTL DEF Spec

\* Every variable keeps its type: the free list never gives away an entry it
\* does not have and the counters stay in the range of byte_count.
THEOREM TypeCorrect == Spec => []TypeOK
  <1>1. IInv => TypeOK
    BY DEF IInv
  <1> QED BY <1>1, Invariance, PTL

\* As long as clients release what they hold once, allocate() and
\* allocate_blocking() never hand the same memory to two holders and drain()
\* frees each address once.
THEOREM ExclusiveBuffersAlways == Spec => []ExclusiveBuffers
  <1>1. IInv => ExclusiveBuffers
    BY DEF IInv
  <1> QED BY <1>1, Invariance, PTL

\* allocated_bytes_ and its high-water mark stay within the capacity.
THEOREM WithinCapacityAlways == Spec => []WithinCapacity
  <1>1. IInv => WithinCapacity
    BY DEF IInv
  <1> QED BY <1>1, Invariance, PTL

\* When no request within the bound makes the counters wrap, they are the
\* truth: allocated_bytes_ is what the allocator has live, in_use_ what clients
\* hold, through reuse, failed and cancelled allocations, releases and drains.
THEOREM AccountingExactAlways == CountersFit => (Spec => []AccountingExact)
  <1> SUFFICES ASSUME CountersFit PROVE Spec => []AccountingExact
    OBVIOUS
  <1>1. AInv /\ [Next]_vars => AInv'
    BY NextExact
  <1>2. AInv => AccountingExact
    BY DEF AInv
  <1> QED BY <1>1, <1>2, InitExact, PTL DEF Spec

\* Nothing leaks, whether the counters wrap or not: what the allocator has
\* live is on the free list, where drain() finds it, or with a client.
THEOREM NoLeakAlways == Spec => []NoLeak
  BY InitNoLeak, NextNoLeak, Invariance, PTL DEF Spec
-----------------------------------------------------------------------------
(* The graph of the domains.                                               *)

\* The backend of the edge between a and b.
BackendFor(a, b) ==
  IF "device" \in {a, b} THEN "cuda" ELSE IF "storage" \in {a, b} THEN "file"
  ELSE IF "shared" \in {a, b} THEN "shm" ELSE IF "remote" \in {a, b} THEN "tcp" ELSE "host"

\* Its time for 10^9 bytes.
TimeFor(a, b) ==
  IF "device" \in {a, b} THEN (IF "host_pinned" \in {a, b} THEN 4545 ELSE 16667)
  ELSE IF "storage" \in {a, b} THEN 50000 ELSE IF "shared" \in {a, b} THEN 10000
  ELSE IF "remote" \in {a, b} THEN 100000 ELSE 12500

\* Two pairs with the same members are the same pair, one way round or the other.
LEMMA SamePair ==
  ASSUME NEW a, NEW b, NEW c, NEW d, {a, b} = {c, d}
  PROVE  (a = c /\ b = d) \/ (a = d /\ b = c)
  <1>1. a \in {c, d} /\ b \in {c, d} /\ c \in {a, b} /\ d \in {a, b}
    BY Zenon
  <1> QED BY <1>1, Zenon

\* The edges.
PageablePinned == EdgeDef("host_pageable", "host_pinned", "host", 12500, 2)
PageableDevice == EdgeDef("host_pageable", "device", "cuda", 16667, 5)
PinnedDevice == EdgeDef("host_pinned", "device", "cuda", 4545, 3)
HostStorage(h) == EdgeDef(h, "storage", "file", 50000, 5)
HostShared(h) == EdgeDef(h, "shared", "shm", 10000, 3)
HostMmap(h) == EdgeDef(h, "mmap", "host", 12500, 3)
HostRemote(h) == EdgeDef(h, "remote", "tcp", 100000, 15)

\* The edges, by their host end.
LEMMA EdgeList ==
  ASSUME NEW e
  PROVE  e \in edges <=>
           \/ e \in {PageablePinned, PageableDevice, PinnedDevice}
           \/ \E h \in {"host_pageable", "host_pinned"} :
                e \in {HostStorage(h), HostShared(h), HostMmap(h), HostRemote(h)}
  <1>1. edges = {PageablePinned, PageableDevice, PinnedDevice}
                \cup UNION {{HostStorage(h), HostShared(h), HostMmap(h), HostRemote(h)}
                            : h \in {"host_pageable", "host_pinned"}}
    BY SMT DEF edges, PageablePinned, PageableDevice, PinnedDevice, HostStorage, HostShared,
           HostMmap, HostRemote
  <1> QED BY <1>1, Zenon

\* What the edge e between the host domain x and y must be.
FromTable(e, x, y) ==
  /\ is_staging_domain(x) /\ x # y /\ e.ends = {x, y}
  /\ e.backend = BackendFor(x, y) /\ e.time = TimeFor(x, y) /\ e.setup \in 0 .. 15

\* An edge joins a host domain x with another one, and its backend and time
\* are those of the table.
LEMMA EdgeEnds ==
  ASSUME NEW e \in edges
  PROVE  \E x, y \in Domain : FromTable(e, x, y)
  <1>1. FromTable(PageablePinned, "host_pageable", "host_pinned")
    BY SMT DEF FromTable, PageablePinned, EdgeDef, is_staging_domain, BackendFor, TimeFor
  <1>2. FromTable(PageableDevice, "host_pageable", "device")
    BY SMT DEF FromTable, PageableDevice, EdgeDef, is_staging_domain, BackendFor, TimeFor
  <1>3. FromTable(PinnedDevice, "host_pinned", "device")
    BY SMT DEF FromTable, PinnedDevice, EdgeDef, is_staging_domain, BackendFor, TimeFor
  <1>4. ASSUME NEW h \in {"host_pageable", "host_pinned"}
        PROVE  FromTable(HostStorage(h), h, "storage")
    BY SMT DEF FromTable, HostStorage, EdgeDef, is_staging_domain, BackendFor, TimeFor
  <1>5. ASSUME NEW h \in {"host_pageable", "host_pinned"}
        PROVE  FromTable(HostShared(h), h, "shared")
    BY SMT DEF FromTable, HostShared, EdgeDef, is_staging_domain, BackendFor, TimeFor
  <1>6. ASSUME NEW h \in {"host_pageable", "host_pinned"}
        PROVE  FromTable(HostMmap(h), h, "mmap")
    BY SMT DEF FromTable, HostMmap, EdgeDef, is_staging_domain, BackendFor, TimeFor
  <1>7. ASSUME NEW h \in {"host_pageable", "host_pinned"}
        PROVE  FromTable(HostRemote(h), h, "remote")
    BY SMT DEF FromTable, HostRemote, EdgeDef, is_staging_domain, BackendFor, TimeFor
  <1>8. {"host_pageable", "host_pinned", "device", "storage", "shared", "mmap", "remote"}
        \subseteq Domain
    BY Zenon DEF Domain
  <1> QED BY <1>1, <1>2, <1>3, <1>4, <1>5, <1>6, <1>7, <1>8, EdgeList, SMTT(30)

\* Every edge between a and b touches a host domain, joins different domains,
\* and its backend and time are those of the table.
LEMMA EdgeFacts ==
  ASSUME NEW e \in edges, NEW a, NEW b, e.ends = {a, b}
  PROVE  /\ a \in Domain /\ b \in Domain /\ a # b
         /\ is_staging_domain(a) \/ is_staging_domain(b)
         /\ e.backend = BackendFor(a, b) /\ e.time = TimeFor(a, b) /\ e.setup \in 0 .. 15
  <1>1. PICK x, y \in Domain : FromTable(e, x, y)
    BY EdgeEnds, Zenon
  <1>2. {a, b} = {x, y}
    BY <1>1, SMT DEF FromTable
  <1>3. (a = x /\ b = y) \/ (a = y /\ b = x)
    BY <1>2, SamePair, SMTT(30)
  <1>4. BackendFor(a, b) = BackendFor(x, y) /\ TimeFor(a, b) = TimeFor(x, y)
    BY <1>2 DEF BackendFor, TimeFor
  <1> QED BY <1>1, <1>3, <1>4 DEF FromTable

\* The edge plan() finds between joined domains.
LEMMA EdgeIs ==
  ASSUME NEW a, NEW b, Joined(a, b)
  PROVE  /\ a \in Domain /\ b \in Domain /\ a # b
         /\ is_staging_domain(a) \/ is_staging_domain(b)
         /\ Edge(a, b).backend = BackendFor(a, b)
         /\ Edge(a, b).time = TimeFor(a, b) /\ Edge(a, b).setup \in 0 .. 15
  <1>1. Edge(a, b) \in edges /\ Edge(a, b).ends = {a, b}
    BY Zenon DEF Joined, Edge
  <1> QED BY <1>1, EdgeFacts, Zenon

\* A host domain is joined with every other domain.
LEMMA HostJoined ==
  ASSUME NEW h, is_staging_domain(h), NEW d \in Domain, d # h
  PROVE  Joined(h, d) /\ Joined(d, h)
  <1>1. h \in {"host_pageable", "host_pinned"}
    BY DEF is_staging_domain
  <1>2. SUFFICES \E e \in edges : e.ends = {h, d}
    <2>1. {h, d} = {d, h}
      BY Zenon
    <2> QED BY <1>2, <2>1, Zenon DEF Joined
  <1>3. CASE is_staging_domain(d)
    <2>1. PageablePinned \in edges
      BY EdgeList, Zenon
    <2>2. PageablePinned.ends = {h, d}
      BY <1>1, <1>3, SMT DEF PageablePinned, EdgeDef, is_staging_domain
    <2> QED BY <2>1, <2>2, Zenon
  <1>4. CASE d = "device"
    <2>1. PageableDevice \in edges /\ PinnedDevice \in edges
      BY EdgeList, Zenon
    <2>2. PageableDevice.ends = {"host_pageable", "device"}
          /\ PinnedDevice.ends = {"host_pinned", "device"}
      BY SMT DEF PageableDevice, PinnedDevice, EdgeDef
    <2> QED BY <1>1, <1>4, <2>1, <2>2, Zenon
  <1>5. /\ HostStorage(h) \in edges /\ HostShared(h) \in edges
        /\ HostMmap(h) \in edges /\ HostRemote(h) \in edges
    BY <1>1, EdgeList, Zenon
  <1>6. /\ HostStorage(h).ends = {h, "storage"} /\ HostShared(h).ends = {h, "shared"}
        /\ HostMmap(h).ends = {h, "mmap"} /\ HostRemote(h).ends = {h, "remote"}
    BY SMT DEF HostStorage, HostShared, HostMmap, HostRemote, EdgeDef
  <1>7. CASE d \in {"storage", "shared", "mmap", "remote"}
    BY <1>5, <1>6, <1>7, SMTT(30)
  <1> QED BY <1>3, <1>4, <1>7 DEF Domain, is_staging_domain

\* Times obey the triangle inequality: a detour is never faster.
LEMMA Detour ==
  ASSUME NEW a \in Domain, NEW b \in Domain, NEW c \in Domain, Joined(a, b), Joined(b, c),
         a # c, is_staging_domain(a) \/ is_staging_domain(c)
  PROVE  TimeFor(a, c) <= TimeFor(a, b) + TimeFor(b, c)
  <1>1. a # b /\ b # c /\ (is_staging_domain(a) \/ is_staging_domain(b))
        /\ (is_staging_domain(b) \/ is_staging_domain(c))
    BY EdgeIs, Zenon
  <1>2. CASE is_staging_domain(a)
    BY <1>1, <1>2 DEF TimeFor, Domain, is_staging_domain
  <1>3. CASE is_staging_domain(c)
    BY <1>1, <1>3 DEF TimeFor, Domain, is_staging_domain
  <1> QED BY <1>2, <1>3, Zenon

\* The times are natural numbers.
LEMMA TimeType == \A a, b : TimeFor(a, b) \in Nat
  BY DEF TimeFor
-----------------------------------------------------------------------------
(* The paths of the graph.                                                 *)

\* The start paths of the search.
Starts == {<<d>> : d \in Domain}

\* Paths visits no domain twice and follows the edges.
IsPath(p) ==
  /\ p \in Seq(Domain)
  /\ Len(p) >= 1
  /\ \A i, j \in 1 .. Len(p) : p[i] = p[j] => i = j
  /\ \A k \in 1 .. Len(p) - 1 : Joined(p[k], p[k + 1])

\* The nodes of a path are domains.
LEMMA NodeType ==
  ASSUME NEW p \in Seq(Domain), NEW i \in 1 .. Len(p)
  PROVE  p[i] \in Domain
  OBVIOUS

\* What Grow() adds.
LEMMA GrowHas ==
  ASSUME NEW S, NEW p
  PROVE  p \in Grow(S) <=>
           \/ p \in S
           \/ \E q \in S : \E d \in Domain :
                d \notin Range(q) /\ Joined(q[Len(q)], d) /\ p = Append(q, d)
  <1> DEFINE More(q) == {x \in Domain : x \notin Range(q) /\ Joined(q[Len(q)], x)}
             Longer(q) == {Append(q, d) : d \in More(q)}
  <1>1. Grow(S) = S \cup UNION {Longer(q) : q \in S}
    BY Zenon DEF Grow
  <1>2. \A q : p \in Longer(q) <=> \E d \in Domain :
          d \notin Range(q) /\ Joined(q[Len(q)], d) /\ p = Append(q, d)
    BY Zenon
  <1> HIDE DEF Longer
  <1>3. p \in Grow(S) <=> p \in S \/ \E q \in S : p \in Longer(q)
    BY <1>1, SMT
  <1> QED BY <1>2, <1>3, Zenon

\* Grow() keeps what it has.
LEMMA GrowKeeps == \A S : S \subseteq Grow(S)
  BY GrowHas, Zenon

\* A path with one domain more is a path.
LEMMA GrowStep ==
  ASSUME NEW q, IsPath(q), NEW d \in Domain, d \notin Range(q), Joined(q[Len(q)], d)
  PROVE  IsPath(Append(q, d))
  <1> DEFINE p == Append(q, d)
  <1>1. q \in Seq(Domain) /\ Len(q) \in Nat /\ Len(q) >= 1
    BY DEF IsPath
  <1>2. /\ p \in Seq(Domain) /\ Len(p) = Len(q) + 1 /\ p[Len(q) + 1] = d
        /\ \A i \in 1 .. Len(q) : p[i] = q[i]
    BY <1>1
  <1>3. \A i \in 1 .. Len(q) : q[i] # d
    BY <1>1 DEF Range
  <1>5. \A i, j \in 1 .. Len(q) : q[i] = q[j] => i = j
    BY Zenon DEF IsPath
  <1>6. \A k \in 1 .. Len(q) - 1 : Joined(q[k], q[k + 1])
    BY Zenon DEF IsPath
  <1> HIDE DEF p
  <1>7. \A i, j \in 1 .. Len(p) : p[i] = p[j] => i = j
    BY <1>1, <1>2, <1>3, <1>5
  <1>8. \A k \in 1 .. Len(p) - 1 : Joined(p[k], p[k + 1])
    <2> SUFFICES ASSUME NEW k \in 1 .. Len(p) - 1 PROVE Joined(p[k], p[k + 1])
      BY Zenon
    <2>1. CASE k = Len(q)
      <3>1. p[k] = q[Len(q)] /\ p[k + 1] = d
        BY <1>1, <1>2, <2>1
      <3> QED BY <3>1, Zenon
    <2>2. CASE k # Len(q)
      <3>1. k \in 1 .. Len(q) - 1 /\ p[k] = q[k] /\ p[k + 1] = q[k + 1]
        BY <1>1, <1>2, <2>2
      <3> QED BY <1>6, <3>1, Zenon
    <2> QED BY <2>1, <2>2, Zenon
  <1>9. Len(p) >= 1
    BY <1>1, <1>2
  <1> QED BY <1>2, <1>7, <1>8, <1>9, Zenon DEF IsPath, p

\* Grow() makes paths from paths.
LEMMA GrowPaths ==
  ASSUME NEW S, \A p \in S : IsPath(p)
  PROVE  \A p \in Grow(S) : IsPath(p)
  <1> SUFFICES ASSUME NEW p \in Grow(S), p \notin S PROVE IsPath(p)
    BY Zenon
  <1>1. PICK q \in S : \E d \in Domain :
          d \notin Range(q) /\ Joined(q[Len(q)], d) /\ p = Append(q, d)
    BY GrowHas, Zenon
  <1>2. PICK d \in Domain : d \notin Range(q) /\ Joined(q[Len(q)], d) /\ p = Append(q, d)
    BY <1>1, Zenon
  <1>3. IsPath(Append(q, d))
    BY <1>2, GrowStep, Zenon
  <1> QED BY <1>2, <1>3, Zenon

\* Everything the search enumerates is a path.
LEMMA PathsArePaths == \A p \in Paths : IsPath(p)
  <1>1. \A p \in Starts : IsPath(p)
    <2> SUFFICES ASSUME NEW d \in Domain PROVE IsPath(<<d>>)
      BY Zenon DEF Starts
    <2> QED BY DEF IsPath
  <1>2. \A p \in Grow(Starts) : IsPath(p)
    BY <1>1, GrowPaths, Zenon
  <1>3. \A p \in Grow(Grow(Starts)) : IsPath(p)
    BY <1>2, GrowPaths, Zenon
  <1>4. \A p \in Grow(Grow(Grow(Starts))) : IsPath(p)
    BY <1>3, GrowPaths, Zenon
  <1>5. \A p \in Grow(Grow(Grow(Grow(Starts)))) : IsPath(p)
    BY <1>4, GrowPaths, Zenon
  <1>6. \A p \in Grow(Grow(Grow(Grow(Grow(Starts))))) : IsPath(p)
    BY <1>5, GrowPaths, Zenon
  <1>7. \A p \in Grow(Grow(Grow(Grow(Grow(Grow(Starts)))))) : IsPath(p)
    BY <1>6, GrowPaths, Zenon
  <1> QED BY <1>7, Zenon DEF Paths, Starts

\* Paths of one and of two legs are among them.
LEMMA ShortPaths ==
  /\ \A s, g \in Domain : s # g /\ Joined(s, g) => <<s, g>> \in Paths
  /\ \A s, d, g \in Domain :
       s # d /\ d # g /\ s # g /\ Joined(s, d) /\ Joined(d, g) => <<s, d, g>> \in Paths
  <1>1. ASSUME NEW s \in Domain, NEW g \in Domain, s # g, Joined(s, g)
        PROVE  <<s, g>> \in Grow(Starts)
    <2>1. /\ <<s>> \in Starts /\ g \notin Range(<<s>>) /\ <<s>>[Len(<<s>>)] = s
          /\ <<s, g>> = Append(<<s>>, g)
      BY <1>1 DEF Starts, Range
    <2> QED BY <1>1, <2>1, GrowHas, Zenon
  <1>2. ASSUME NEW s \in Domain, NEW d \in Domain, NEW g \in Domain, s # d, d # g, s # g,
               Joined(s, d), Joined(d, g)
        PROVE  <<s, d, g>> \in Grow(Grow(Starts))
    <2>1. <<s, d>> \in Grow(Starts)
      BY <1>1, <1>2, Zenon
    <2>2. /\ g \notin Range(<<s, d>>) /\ <<s, d>>[Len(<<s, d>>)] = d
          /\ <<s, d, g>> = Append(<<s, d>>, g)
      BY <1>2 DEF Range
    <2> QED BY <1>2, <2>1, <2>2, GrowHas, Zenon
  <1>3. Grow(Starts) \subseteq Grow(Grow(Starts))
    BY GrowKeeps, Zenon
  <1> DEFINE Two == Grow(Grow(Starts))
  <1>4. Two \subseteq Grow(Grow(Grow(Grow(Two))))
    BY GrowKeeps, Zenon
  <1>5. Two \subseteq Paths
    BY <1>4, Zenon DEF Paths, Starts
  <1> QED BY <1>1, <1>2, <1>3, <1>5, Zenon

\* No path has more than five nodes: of every two neighbours one is a host
\* domain, and there are two of them.
LEMMA PathBound ==
  ASSUME NEW p, IsPath(p)
  PROVE  Len(p) <= 5
  <1> SUFFICES ASSUME Len(p) >= 6 PROVE FALSE
    BY DEF IsPath
  <1>1. Len(p) \in Nat /\ \A k \in 1 .. Len(p) - 1 : Joined(p[k], p[k + 1])
    BY DEF IsPath
  <1>2. Joined(p[1], p[2]) /\ Joined(p[3], p[4]) /\ Joined(p[5], p[6])
    BY <1>1
  <1>3. PICK i \in {1, 2}, j \in {3, 4}, k \in {5, 6} :
          is_staging_domain(p[i]) /\ is_staging_domain(p[j]) /\ is_staging_domain(p[k])
    <2>1. /\ is_staging_domain(p[1]) \/ is_staging_domain(p[2])
          /\ is_staging_domain(p[3]) \/ is_staging_domain(p[4])
          /\ is_staging_domain(p[5]) \/ is_staging_domain(p[6])
      BY <1>2, EdgeIs, Zenon
    <2> QED BY <2>1
  <1>4. p[i] = p[j] \/ p[j] = p[k] \/ p[i] = p[k]
    BY <1>3 DEF is_staging_domain
  <1>5. \A x, y \in 1 .. Len(p) : p[x] = p[y] => x = y
    BY DEF IsPath
  <1> QED BY <1>1, <1>4, <1>5, SMTT(30)
-----------------------------------------------------------------------------
(* The cost of a route.                                                    *)

\* What the input is made of.
LEMMA InputFacts ==
  ASSUME in \in Input
  PROVE  /\ in.gb \in Nat /\ in.max_hops \in Nat /\ in.preferred \in Nat
         /\ in.host_capacity \in Nat /\ in.pinned_capacity \in Nat
         /\ in.src \in Domain /\ in.dst \in Domain
         /\ in.backends = {} \/ "host" \in in.backends
         /\ in.prefer_direct \in BOOLEAN /\ in.allow_staging \in BOOLEAN
         /\ in.require_staging \in BOOLEAN /\ in.remote_available \in BOOLEAN
  <1>1. GBs \subseteq Nat /\ HopLimits \subseteq Nat /\ PreferredSizes \subseteq Nat
        /\ Capacities \subseteq Nat /\ \A B \in BackendSets : B = {} \/ "host" \in B
    BY PlannerConstants, Zenon
  <1>2. /\ in.src \in Domain /\ in.dst \in Domain /\ in.gb \in GBs /\ in.max_hops \in HopLimits
        /\ in.preferred \in PreferredSizes /\ in.host_capacity \in Capacities
        /\ in.pinned_capacity \in Capacities /\ in.backends \in BackendSets
        /\ in.prefer_direct \in BOOLEAN /\ in.allow_staging \in BOOLEAN
        /\ in.require_staging \in BOOLEAN /\ in.remote_available \in BOOLEAN
    BY Zenon DEF Input
  <1> QED BY <1>1, <1>2, Zenon

\* The sums of the costs of the legs, leg by leg.
Adds(f, p) ==
  f = [k \in 0 .. Len(p) - 1 |-> IF k = 0 THEN 0 ELSE f[k - 1] + LegCost(p, k)]

LEMMA LegCostsIs ==
  ASSUME NEW p
  PROVE  LegCosts(p) = (CHOOSE f : Adds(f, p))[Len(p) - 1]
  BY DEF LegCosts, Adds

\* The costs of the legs of a path of at most four legs are added up.
LEMMA LegSums ==
  ASSUME NEW p, NEW n \in {2, 3, 4, 5}, Len(p) = n, \A k \in 1 .. n - 1 : LegCost(p, k) \in Nat
  PROVE  /\ n = 2 => LegCosts(p) = LegCost(p, 1)
         /\ n = 3 => LegCosts(p) = LegCost(p, 1) + LegCost(p, 2)
         /\ n = 4 => LegCosts(p) = LegCost(p, 1) + LegCost(p, 2) + LegCost(p, 3)
         /\ n = 5 => LegCosts(p) = LegCost(p, 1) + LegCost(p, 2) + LegCost(p, 3) + LegCost(p, 4)
  <1> DEFINE c(k) == LegCost(p, k)
             v(k) == IF k = 0 THEN 0 ELSE IF k = 1 THEN c(1) ELSE IF k = 2 THEN c(1) + c(2)
                     ELSE IF k = 3 THEN c(1) + c(2) + c(3) ELSE c(1) + c(2) + c(3) + c(4)
             g == [k \in 0 .. n - 1 |-> v(k)]
  <1>1. \A k \in 1 .. n - 1 : c(k) \in Nat
    BY Zenon
  <1> HIDE DEF c
  <1>2. Adds(g, p)
    <2>1. ASSUME NEW k \in 0 .. n - 1
          PROVE  v(k) = IF k = 0 THEN 0 ELSE g[k - 1] + c(k)
      <3>1. CASE k = 0
        BY <3>1, SMTT(30)
      <3>2. CASE k # 0
        <4>1. k \in {1, 2, 3, 4} /\ k <= n - 1 /\ k - 1 \in 0 .. n - 1
          BY <3>2, SMTT(30)
        <4>2. g[k - 1] = v(k - 1)
          BY <4>1, SMTT(30)
        <4>3. CASE k = 1
          BY <1>1, <3>2, <4>2, <4>3, SMTT(30)
        <4>4. CASE k = 2
          BY <1>1, <3>2, <4>1, <4>2, <4>4, SMTT(30)
        <4>5. CASE k = 3
          BY <1>1, <3>2, <4>1, <4>2, <4>5, SMTT(30)
        <4>6. CASE k = 4
          BY <1>1, <3>2, <4>1, <4>2, <4>6
        <4> QED BY <4>1, <4>3, <4>4, <4>5, <4>6, SMTT(30)
      <3> QED BY <3>1, <3>2, Zenon
    <2> HIDE DEF v
    <2>2. g = [k \in 0 .. n - 1 |-> IF k = 0 THEN 0 ELSE g[k - 1] + c(k)]
      BY <2>1, Zenon
    <2> QED BY <2>2, Zenon DEF Adds, c
  <1> DEFINE f == CHOOSE x : Adds(x, p)
  <1>3. Adds(f, p)
    BY <1>2, Zenon
  <1>4. LegCosts(p) = f[n - 1]
    BY LegCostsIs, Zenon
  <1> HIDE DEF f, g, v
  <1>5. \A k \in 0 .. n - 1 : f[k] = IF k = 0 THEN 0 ELSE f[k - 1] + c(k)
    BY <1>3, Zenon DEF Adds, c
  <1>6. f[0] = 0 /\ f[1] = f[0] + c(1) /\ (n >= 3 => f[2] = f[1] + c(2))
        /\ (n >= 4 => f[3] = f[2] + c(3)) /\ (n = 5 => f[4] = f[3] + c(4))
    BY <1>5, SMTT(30)
  <1>7. /\ n = 2 => LegCosts(p) = c(1)
        /\ n = 3 => LegCosts(p) = c(1) + c(2)
        /\ n = 4 => LegCosts(p) = c(1) + c(2) + c(3)
        /\ n = 5 => LegCosts(p) = c(1) + c(2) + c(3) + c(4)
    BY <1>1, <1>4, <1>6, SMTT(30)
  <1> QED BY <1>7, Zenon DEF c

\* The time of the transfer over the edge between a and b.
Time(a, b) == in.gb * TimeFor(a, b)

\* A leg costs a hop and its time, and a little more for its setup.
CostsAbout(c, time) ==
  c \in Nat /\ time \in Nat /\ time + 100000 <= c /\ c <= time + 100015

LEMMA LegCostBounds ==
  ASSUME in.gb \in Nat, NEW p, IsPath(p), NEW k \in 1 .. Len(p) - 1
  PROVE  CostsAbout(LegCost(p, k), Time(p[k], p[k + 1]))
  <1>1. Joined(p[k], p[k + 1])
    BY DEF IsPath
  <1>2. /\ Edge(p[k], p[k + 1]).time = TimeFor(p[k], p[k + 1])
        /\ Edge(p[k], p[k + 1]).setup \in 0 .. 15
    BY <1>1, EdgeIs, SMT
  <1>3. TimeFor(p[k], p[k + 1]) \in Nat
    BY TimeType, Zenon
  <1>4. Time(p[k], p[k + 1]) \in Nat
    BY <1>3, SMTT(30) DEF Time
  <1>5. LegCost(p, k) = Edge(p[k], p[k + 1]).setup + Time(p[k], p[k + 1]) + 100000
    BY <1>2, SMT DEF LegCost, Time
  <1>6. PICK u \in 0 .. 15 : u = Edge(p[k], p[k + 1]).setup
    BY <1>2, Zenon
  <1>7. LegCost(p, k) = u + Time(p[k], p[k + 1]) + 100000
    BY <1>5, <1>6, SMT
  <1> QED BY <1>4, <1>7, SMTT(30) DEF CostsAbout

\* The penalty for n staged legs.
Penalty(n) == (n * in.gb * 100000) \div (1 + in.gb)

StagedLegs(p) == Cardinality({k \in Legs(p) : LegStaged(p, k)})

RetryLegs(p) == Cardinality({k \in Legs(p) : Retries(p, k)})

\* Products and quotients are monotone.
LEMMA TimesMonotone ==
  ASSUME NEW a \in Nat, NEW b \in Nat, NEW c \in Nat, a <= b
  PROVE  c * a <= c * b
  OBVIOUS

LEMMA QuotientMonotone ==
  ASSUME NEW a \in Nat, NEW b \in Nat, NEW c \in Nat \ {0}, a <= b
  PROVE  a \div c \in Nat /\ a \div c <= b \div c
  OBVIOUS

LEMMA PenaltyMonotone ==
  ASSUME in.gb \in Nat, NEW m \in Nat, NEW n \in Nat, m <= n
  PROVE  Penalty(m) \in Nat /\ Penalty(m) <= Penalty(n)
  <1> DEFINE w == in.gb * 100000
  <1>1. w \in Nat
    OBVIOUS
  <1>2. m * in.gb * 100000 = w * m /\ n * in.gb * 100000 = w * n
    OBVIOUS
  <1> HIDE DEF w
  <1>3. w * m <= w * n /\ w * m \in Nat /\ w * n \in Nat
    BY <1>1, TimesMonotone
  <1>4. 1 + in.gb \in Nat \ {0}
    OBVIOUS
  <1> QED BY <1>2, <1>3, <1>4, QuotientMonotone DEF Penalty

LEMMA NoPenalty ==
  ASSUME in.gb \in Nat
  PROVE  Penalty(0) = 0
  BY DEF Penalty

\* At most as many legs are staged, or count for retries, as there are.
LEMMA LegCounts ==
  ASSUME NEW p, Len(p) \in Nat \ {0}
  PROVE  /\ StagedLegs(p) \in 0 .. Len(p) - 1 /\ RetryLegs(p) \in 0 .. Len(p) - 1
  <1>1. IsFiniteSet(Legs(p)) /\ Cardinality(Legs(p)) = Len(p) - 1
    <2>1. 1 \in Int /\ Len(p) - 1 \in Int
      OBVIOUS
    <2>2. IsFiniteSet(1 .. Len(p) - 1)
          /\ Cardinality(1 .. Len(p) - 1) = IF 1 > Len(p) - 1 THEN 0 ELSE Len(p) - 1 - 1 + 1
      BY <2>1, FS_Interval, Zenon
    <2> QED BY <2>2 DEF Legs
  <1>2. \A S : S \subseteq Legs(p) => Cardinality(S) \in 0 .. Len(p) - 1
    <2> SUFFICES ASSUME NEW S, S \subseteq Legs(p) PROVE Cardinality(S) \in 0 .. Len(p) - 1
      BY Zenon
    <2>1. IsFiniteSet(S) /\ Cardinality(S) <= Cardinality(Legs(p))
      BY <1>1, FS_Subset, Zenon
    <2>2. Cardinality(S) \in Nat
      BY <2>1, FS_CardinalityType, Zenon
    <2> QED BY <1>1, <2>1, <2>2
  <1> QED BY <1>2, Zenon DEF StagedLegs, RetryLegs

\* Two staged legs are at least two.
LEMMA TwoStaged ==
  ASSUME NEW p, Len(p) \in Nat \ {0}, NEW i \in Legs(p), NEW j \in Legs(p), i # j,
         LegStaged(p, i), LegStaged(p, j)
  PROVE  StagedLegs(p) >= 2
  <1> DEFINE S == {k \in Legs(p) : LegStaged(p, k)}
  <1>1. IsFiniteSet(S)
    <2>1. IsFiniteSet(Legs(p))
      <3>1. 1 \in Int /\ Len(p) - 1 \in Int
        OBVIOUS
      <3> QED BY <3>1, FS_Interval, Zenon DEF Legs
    <2> QED BY <2>1, FS_Subset, Zenon
  <1>2. {i, j} \subseteq S
    BY Zenon
  <1>3. Cardinality({i, j}) = 2
    <2>1. IsFiniteSet({i}) /\ Cardinality({i}) = 1
      BY FS_Singleton, Zenon
    <2>2. Cardinality({i} \cup {j}) = Cardinality({i}) + 1
      BY <2>1, FS_AddElement, Zenon
    <2>3. {i} \cup {j} = {i, j}
      BY Zenon
    <2>4. 1 + 1 = 2
      BY SMTT(30)
    <2> QED BY <2>1, <2>2, <2>3, <2>4, Zenon
  <1>4. Cardinality({i, j}) <= Cardinality(S)
    BY <1>1, <1>2, FS_Subset, Zenon
  <1>5. Cardinality(S) \in Nat
    BY <1>1, FS_CardinalityType, Zenon
  <1> QED BY <1>3, <1>4, <1>5 DEF StagedLegs

\* evaluate() in these terms.
LEMMA EvaluateIs ==
  ASSUME NEW p
  PROVE  evaluate(p) = LegCosts(p) + Penalty(StagedLegs(p)) + 5000 * RetryLegs(p)
  BY SMT DEF evaluate, Penalty, StagedLegs, RetryLegs

\* Over every edge a detour takes no less time.
LEMMA DetourTime ==
  ASSUME in.gb \in Nat, NEW a \in Domain, NEW b \in Domain, NEW c \in Domain,
         Joined(a, b), Joined(b, c), a # c, is_staging_domain(a) \/ is_staging_domain(c)
  PROVE  /\ Time(a, b) \in Nat /\ Time(b, c) \in Nat /\ Time(a, c) \in Nat
         /\ Time(a, c) <= Time(a, b) + Time(b, c)
  <1> DEFINE x == TimeFor(a, b)
             y == TimeFor(b, c)
             z == TimeFor(a, c)
  <1>1. x \in Nat /\ y \in Nat /\ z \in Nat
    BY TimeType, Zenon
  <1>2. z <= x + y
    BY Detour, Zenon
  <1> HIDE DEF x, y, z
  <1>3. in.gb * z <= in.gb * (x + y)
    BY <1>1, <1>2, TimesMonotone, SMTT(30)
  <1>4. in.gb * (x + y) = in.gb * x + in.gb * y
    BY <1>1
  <1>5. in.gb * x \in Nat /\ in.gb * y \in Nat /\ in.gb * z \in Nat
    BY <1>1
  <1> QED BY <1>3, <1>4, <1>5 DEF Time, x, y, z

\* A route of one leg: no staging, at most one leg that counts for retries.
LEMMA DirectCost ==
  ASSUME in.gb \in Nat, NEW s, NEW g, IsPath(<<s, g>>)
  PROVE  /\ Time(s, g) \in Nat /\ evaluate(<<s, g>>) \in Nat
         /\ evaluate(<<s, g>>) <= Time(s, g) + 105015
  <1> DEFINE p == <<s, g>>
  <1>1. Len(p) = 2 /\ p[1] = s /\ p[1 + 1] = g /\ 1 \in 1 .. Len(p) - 1
    OBVIOUS
  <1>2. {k \in Legs(p) : LegStaged(p, k)} = {}
    BY <1>1 DEF Legs, LegStaged
  <1>3. StagedLegs(p) = 0
    BY <1>2, FS_EmptySet, Zenon DEF StagedLegs
  <1> HIDE DEF p
  <1>4. PICK c : c = LegCost(p, 1) /\ CostsAbout(c, Time(s, g))
    <2>1. CostsAbout(LegCost(p, 1), Time(p[1], p[1 + 1]))
      BY <1>1, LegCostBounds, Zenon DEF p
    <2> QED BY <1>1, <2>1, Zenon
  <1>5. LegCosts(p) = c
    BY <1>1, <1>4, LegSums, SMTT(30) DEF CostsAbout
  <1>6. RetryLegs(p) \in 0 .. 1
    <2>1. Len(p) \in Nat \ {0}
      BY <1>1
    <2>2. RetryLegs(p) \in 0 .. Len(p) - 1
      BY <2>1, LegCounts, Zenon
    <2> QED BY <1>1, <2>2
  <1>7. evaluate(p) = c + 0 + 5000 * RetryLegs(p)
    BY <1>3, <1>5, EvaluateIs, NoPenalty, SMTT(30)
  <1> QED BY <1>4, <1>6, <1>7, SMTT(30) DEF p, CostsAbout

\* A route of two legs.
LEMMA StagedCost ==
  ASSUME in.gb \in Nat, NEW s, NEW d, NEW g, IsPath(<<s, d, g>>)
  PROVE  /\ Time(s, d) \in Nat /\ Time(d, g) \in Nat /\ evaluate(<<s, d, g>>) \in Nat
         /\ Time(s, d) + Time(d, g) + 200000 <= evaluate(<<s, d, g>>)
         /\ evaluate(<<s, d, g>>) <= Time(s, d) + Time(d, g) + 210030 + Penalty(2)
         /\ StagedLegs(<<s, d, g>>) = 0
              => evaluate(<<s, d, g>>) <= Time(s, d) + Time(d, g) + 210030
  <1> DEFINE p == <<s, d, g>>
  <1>1. /\ Len(p) = 3 /\ p[1] = s /\ p[1 + 1] = d /\ p[2] = d /\ p[2 + 1] = g
        /\ 1 \in 1 .. Len(p) - 1 /\ 2 \in 1 .. Len(p) - 1
    OBVIOUS
  <1>2. IsPath(p)
    BY Zenon
  <1> HIDE DEF p
  <1>3. PICK c : c = LegCost(p, 1) /\ CostsAbout(c, Time(s, d))
    <2>1. CostsAbout(LegCost(p, 1), Time(p[1], p[1 + 1]))
      BY <1>1, <1>2, LegCostBounds, Zenon
    <2> QED BY <1>1, <2>1, Zenon
  <1>4. PICK e : e = LegCost(p, 2) /\ CostsAbout(e, Time(d, g))
    <2>1. CostsAbout(LegCost(p, 2), Time(p[2], p[2 + 1]))
      BY <1>1, <1>2, LegCostBounds, ZenonT(40)
    <2> QED BY <1>1, <2>1, Zenon
  <1>5. LegCosts(p) = c + e
    <2>1. \A k \in 1 .. 3 - 1 : LegCost(p, k) \in Nat
      BY <1>3, <1>4, SMTT(30) DEF CostsAbout
    <2> QED BY <1>1, <1>3, <1>4, <2>1, LegSums, SMTT(30)
  <1>6. RetryLegs(p) \in 0 .. 2 /\ StagedLegs(p) \in 0 .. 2
    <2>1. Len(p) \in Nat \ {0}
      BY <1>1
    <2>2. RetryLegs(p) \in 0 .. Len(p) - 1 /\ StagedLegs(p) \in 0 .. Len(p) - 1
      BY <2>1, LegCounts, Zenon
    <2> QED BY <1>1, <2>2
  <1>7. PICK m \in 0 .. 2 : m = RetryLegs(p)
    BY <1>6, Zenon
  <1>8. PICK n \in 0 .. 2 : n = StagedLegs(p)
    BY <1>6, Zenon
  <1>9. Penalty(n) \in Nat /\ Penalty(2) \in Nat /\ Penalty(n) <= Penalty(2)
    BY PenaltyMonotone, SMT
  <1>10. evaluate(p) = c + e + Penalty(n) + 5000 * m
    BY <1>5, <1>7, <1>8, EvaluateIs, SMTT(30)
  <1>11. n = 0 => Penalty(n) = 0
    BY NoPenalty, ZenonT(40)
  <1> QED BY <1>3, <1>4, <1>8, <1>9, <1>10, <1>11, SMTT(30) DEF p, CostsAbout

\* A longer route has at least three legs, two of them staged.
LEMMA LongCost ==
  ASSUME in.gb \in Nat, NEW p, IsPath(p), Len(p) \in {4, 5},
         Len(p) = 4 => is_staging_domain(p[2]) \/ is_staging_domain(p[3])
  PROVE  /\ \A k \in 1 .. Len(p) - 1 : Time(p[k], p[k + 1]) \in Nat
         /\ evaluate(p) \in Nat
         /\ Len(p) = 4 => Time(p[1], p[2]) + Time(p[2], p[3]) + Time(p[3], p[4])
                          + 300000 + Penalty(2) <= evaluate(p)
         /\ Len(p) = 5 => Time(p[1], p[2]) + Time(p[2], p[3]) + Time(p[3], p[4])
                          + Time(p[4], p[5]) + 300000 + Penalty(2) <= evaluate(p)
  <1>0. PICK n \in {4, 5} : n = Len(p)
    BY Zenon
  <1>1. \A k \in 1 .. n - 1 : CostsAbout(LegCost(p, k), Time(p[k], p[k + 1]))
    BY <1>0, LegCostBounds, Zenon
  <1>2. Len(p) \in Nat \ {0} /\ Legs(p) = 1 .. n - 1
    BY <1>0 DEF Legs
  <1>3. RetryLegs(p) \in 0 .. Len(p) - 1 /\ StagedLegs(p) \in 0 .. Len(p) - 1
    BY <1>2, LegCounts, Zenon
  <1>4. PICK m \in Nat, w \in Nat : m = RetryLegs(p) /\ w = StagedLegs(p) /\ w >= 2
    <2>0. /\ 2 > 1 /\ 3 > 1 /\ 1 + 1 = 2
          /\ \A i \in {4, 5} : 2 + 1 < i /\ 1 + 1 < i /\ (i = 5 => 3 + 1 < i)
      OBVIOUS
    <2>1. /\ 2 > 1 /\ 3 > 1 /\ 2 + 1 < Len(p) /\ (n = 5 => 3 + 1 < Len(p))
          /\ 1 + 1 = 2 /\ 1 + 1 < Len(p)
      BY <1>0, <2>0, Zenon
    <2>2. LegStaged(p, 2)
      BY <2>1, Zenon DEF LegStaged
    <2>3. (n = 5 => LegStaged(p, 3)) /\ (n = 4 => LegStaged(p, 1) \/ LegStaged(p, 3))
      BY <1>0, <2>1, Zenon DEF LegStaged
    <2>4. PICK i \in {1, 3} : LegStaged(p, i)
      BY <2>3, Zenon
    <2>5. i \in Legs(p) /\ 2 \in Legs(p) /\ i # 2
      BY <1>2
    <2>6. StagedLegs(p) >= 2
      BY <1>2, <2>2, <2>4, <2>5, TwoStaged, Zenon
    <2>7. StagedLegs(p) \in Nat /\ RetryLegs(p) \in Nat
      BY <1>2, <1>3
    <2> QED BY <2>6, <2>7, Zenon
  <1>5. Penalty(w) \in Nat /\ Penalty(2) \in Nat /\ Penalty(2) <= Penalty(w)
    BY <1>4, PenaltyMonotone, SMTT(30)
  <1>6. evaluate(p) = LegCosts(p) + Penalty(w) + 5000 * m
    BY <1>4, EvaluateIs, SMTT(30)
  <1>7. \A k \in 1 .. n - 1 : LegCost(p, k) \in Nat
    BY <1>1, SMTT(30) DEF CostsAbout
  <1>8. PICK c1, c2, c3 :
          /\ c1 = LegCost(p, 1) /\ CostsAbout(c1, Time(p[1], p[2]))
          /\ c2 = LegCost(p, 2) /\ CostsAbout(c2, Time(p[2], p[3]))
          /\ c3 = LegCost(p, 3) /\ CostsAbout(c3, Time(p[3], p[4]))
    BY <1>1, SMTT(30)
  <1>9. CASE n = 4
    <2>1. LegCosts(p) = c1 + c2 + c3
      BY <1>0, <1>7, <1>8, <1>9, LegSums, ZenonT(40)
    <2> QED BY <1>0, <1>1, <1>5, <1>6, <1>8, <1>9, <2>1, SMTT(30) DEF CostsAbout
  <1>10. CASE n = 5
    <2>1. PICK c4 : c4 = LegCost(p, 4) /\ CostsAbout(c4, Time(p[4], p[5]))
      BY <1>1, <1>10, SMT
    <2>2. LegCosts(p) = c1 + c2 + c3 + c4
      BY <1>0, <1>7, <1>8, <1>10, <2>1, LegSums, Zenon
    <2> QED BY <1>0, <1>1, <1>5, <1>6, <1>8, <1>10, <2>1, <2>2, SMTT(30) DEF CostsAbout
  <1> QED BY <1>9, <1>10, SMT
-----------------------------------------------------------------------------
(* The candidates.                                                         *)

\* feasible_edge() in terms of the table.
LEMMA FeasibleIs ==
  ASSUME NEW a, NEW b
  PROVE  feasible_edge(a, b) <=>
           /\ Joined(a, b)
           /\ BackendFor(a, b) = "tcp" => in.remote_available
           /\ backend_known(BackendFor(a, b))
  <1>1. Joined(a, b) => Edge(a, b).backend = BackendFor(a, b)
    BY EdgeIs, Zenon
  <1> QED BY <1>1, Zenon DEF feasible_edge

\* A host domain is left over the same backend whichever it is.
LEMMA SameBackend ==
  ASSUME NEW a, NEW b, is_staging_domain(a), is_staging_domain(b)
  PROVE  /\ BackendFor(a, b) = "host"
         /\ BackendFor(a, "mmap") = "host" /\ BackendFor("mmap", a) = "host"
         /\ \A g : ~is_staging_domain(g) => BackendFor(a, g) = BackendFor(b, g)
  BY DEF BackendFor, is_staging_domain

\* The host backend is always there.
LEMMA HostKnown ==
  ASSUME in \in Input
  PROVE  backend_known("host")
  BY InputFacts, Zenon DEF backend_known

\* An edge over the host backend can always be used.
LEMMA HostFeasible ==
  ASSUME in \in Input, NEW a, NEW b, Joined(a, b), BackendFor(a, b) = "host"
  PROVE  feasible_edge(a, b)
  <1>1. "host" # "tcp"
    OBVIOUS
  <1> QED BY <1>1, FeasibleIs, HostKnown, Zenon

\* What one domain reaches, every host domain reaches.
LEMMA HostReaches ==
  ASSUME in \in Input, NEW h, is_staging_domain(h), NEW g, h # g, NEW x, feasible_edge(x, g)
  PROVE  feasible_edge(h, g)
  <1>1. Joined(x, g)
    BY FeasibleIs, Zenon
  <1>2. g \in Domain /\ (is_staging_domain(x) \/ is_staging_domain(g))
    BY <1>1, EdgeIs, Zenon
  <1>3. Joined(h, g)
    BY <1>2, HostJoined, Zenon
  <1>4. CASE is_staging_domain(g)
    BY <1>3, <1>4, SameBackend, HostFeasible, Zenon
  <1>5. CASE ~is_staging_domain(g)
    <2>0. is_staging_domain(x)
      BY <1>2, <1>5, Zenon
    <2>1. BackendFor(x, g) = BackendFor(h, g)
      BY <1>5, <2>0, SMTT(30) DEF BackendFor, is_staging_domain
    <2> QED BY <1>3, <2>1, FeasibleIs, Zenon
  <1> QED BY <1>4, <1>5, Zenon

\* The candidates are the paths from the source to the destination that pass.
LEMMA CandidateIs ==
  ASSUME in \in Input, NEW p
  PROVE  p \in Candidates <=>
           p \in Paths /\ p[1] = in.src /\ p[Len(p)] = in.dst /\ Candidate(p)
  <1>1. in.src \in Domain /\ in.dst \in Domain
    BY InputFacts, Zenon
  <1>2. SimplePaths[in.src][in.dst] = {q \in Paths : q[1] = in.src /\ q[Len(q)] = in.dst}
    BY <1>1, Zenon DEF SimplePaths
  <1> QED BY <1>2, Zenon DEF Candidates

\* What every candidate is.
LEMMA CandidateFacts ==
  ASSUME in \in Input, in.src # in.dst, NEW p \in Candidates
  PROVE  /\ p \in Paths /\ IsPath(p) /\ Len(p) \in {2, 3, 4, 5}
         /\ p[1] = in.src /\ p[Len(p)] = in.dst
         /\ \A k \in 1 .. Len(p) - 1 : feasible_edge(p[k], p[k + 1])
  <1>1. p \in Paths /\ p[1] = in.src /\ p[Len(p)] = in.dst /\ Candidate(p)
    BY CandidateIs, Zenon
  <1>2. IsPath(p)
    BY <1>1, PathsArePaths, Zenon
  <1>4. Len(p) <= 5
    BY <1>2, PathBound, Zenon
  <1>5. Len(p) \in Nat /\ Len(p) >= 1 /\ Len(p) # 1
    BY <1>1, <1>2 DEF IsPath
  <1>6. Len(p) \in {2, 3, 4, 5}
    <2>1. \A n \in Nat : n <= 5 /\ n >= 1 /\ n # 1 => n \in {2, 3, 4, 5}
      OBVIOUS
    <2> QED BY <1>4, <1>5, <2>1, Zenon
  <1>7. \A k \in 1 .. Len(p) - 1 : feasible_edge(p[k], p[k + 1])
    BY <1>1, Zenon DEF Candidate, Legs
  <1> QED BY <1>1, <1>2, <1>6, <1>7, Zenon

\* A route of one leg stages nothing.
LEMMA NeedDirect ==
  ASSUME in.preferred \in Nat, NEW s, NEW g, NEW x
  PROVE  Need(<<s, g>>, x) = 0
  <1> DEFINE p == <<s, g>>
  <1>1. {j \in Inner(p) : p[j] = x} = {}
    BY DEF Inner
  <1>2. Cardinality({j \in Inner(p) : p[j] = x}) = 0
    BY <1>1, FS_EmptySet, Zenon
  <1> QED BY <1>2 DEF Need

\* A route of two legs stages in the domain between.
LEMMA NeedStaged ==
  ASSUME in.preferred \in Nat, NEW s, NEW d, NEW g, NEW x
  PROVE  /\ d = x => Need(<<s, d, g>>, x) = 4 * in.preferred
         /\ d # x => Need(<<s, d, g>>, x) = 0
  <1> DEFINE p == <<s, d, g>>
             S == {j \in Inner(p) : p[j] = x}
  <1>1. Inner(p) = {2} /\ p[2] = d
    BY DEF Inner
  <1>2. CASE d = x
    <2>1. S = {2}
      BY <1>1, <1>2, Zenon
    <2>2. Cardinality(S) = 1
      BY <2>1, FS_Singleton, Zenon
    <2> QED BY <1>2, <2>2 DEF Need
  <1>3. CASE d # x
    <2>1. S = {}
      BY <1>1, <1>3, Zenon
    <2>2. Cardinality(S) = 0
      BY <2>1, FS_EmptySet, Zenon
    <2> QED BY <1>3, <2>2 DEF Need
  <1> QED BY <1>2, <1>3, Zenon

\* A route that stages in x somewhere needs room there.
LEMMA NeedSome ==
  ASSUME in.preferred \in Nat, NEW p, Len(p) \in Nat, NEW i \in Inner(p)
  PROVE  Need(p, p[i]) \in Nat /\ 4 * in.preferred <= Need(p, p[i])
  <1> DEFINE S == {j \in Inner(p) : p[j] = p[i]}
  <1>1. IsFiniteSet(Inner(p))
    <2>1. 2 \in Int /\ Len(p) - 1 \in Int
      OBVIOUS
    <2> QED BY <2>1, FS_Interval, Zenon DEF Inner
  <1>2. IsFiniteSet(S) /\ {i} \subseteq S
    BY <1>1, FS_Subset, Zenon
  <1>3. Cardinality({i}) <= Cardinality(S) /\ Cardinality({i}) = 1
    BY <1>2, FS_Subset, FS_Singleton, Zenon
  <1>4. Cardinality(S) \in Nat
    BY <1>2, FS_CardinalityType, Zenon
  <1>5. PICK n \in Nat : n = Cardinality(S) /\ 1 <= n
    BY <1>3, <1>4, Zenon
  <1>6. Need(p, p[i]) = 2 * in.preferred * 2 * n
    BY <1>5, Zenon DEF Need
  <1>7. 2 * in.preferred * 2 * n = (4 * in.preferred) * n
    OBVIOUS
  <1>8. (4 * in.preferred) * 1 <= (4 * in.preferred) * n
    BY <1>5, TimesMonotone
  <1> QED BY <1>6, <1>7, <1>8

\* The room four chunks need in the pool of d.
Room(d) ==
  /\ d = "host_pinned" => 4 * in.preferred <= in.pinned_capacity
  /\ d = "host_pageable" => 4 * in.preferred <= in.host_capacity

\* What passes the filters: the route of one leg ...
LEMMA DirectCandidate ==
  ASSUME in \in Input, in.src # in.dst
  PROVE  <<in.src, in.dst>> \in Candidates <=>
           ~in.require_staging /\ in.max_hops >= 1 /\ feasible_edge(in.src, in.dst)
  <1> DEFINE p == <<in.src, in.dst>>
  <1>1. Len(p) = 2 /\ p[1] = in.src /\ p[1 + 1] = in.dst /\ p[Len(p)] = in.dst /\ Legs(p) = {1}
    BY DEF Legs
  <1>2. FitsPools(p)
    <2>1. Need(p, "host_pinned") = 0 /\ Need(p, "host_pageable") = 0
      BY InputFacts, NeedDirect, Zenon
    <2>2. in.pinned_capacity \in Nat /\ in.host_capacity \in Nat
      BY InputFacts, Zenon
    <2> QED BY <2>1, <2>2 DEF FitsPools
  <1>3. feasible_edge(in.src, in.dst) => p \in Paths
    BY InputFacts, FeasibleIs, ShortPaths, Zenon
  <1>4. (\A k \in Legs(p) : feasible_edge(p[k], p[k + 1])) <=> feasible_edge(in.src, in.dst)
    BY <1>1, Zenon
  <1> HIDE DEF p
  <1>5. Len(p) - 1 <= in.max_hops <=> in.max_hops >= 1
    BY <1>1, InputFacts
  <1>6. ~(Len(p) > 2)
    BY <1>1
  <1>7. Candidate(p) <=> ~in.require_staging /\ in.max_hops >= 1 /\ feasible_edge(in.src, in.dst)
    BY <1>1, <1>2, <1>4, <1>5, <1>6, Zenon DEF Candidate
  <1> QED BY <1>1, <1>3, <1>7, CandidateIs, Zenon DEF p

\* ... and a route of two.
LEMMA StagedCandidate ==
  ASSUME in \in Input, in.src # in.dst, NEW d \in Domain \ {in.src, in.dst}
  PROVE  <<in.src, d, in.dst>> \in Candidates <=>
           /\ in.allow_staging /\ in.max_hops >= 2 /\ Room(d)
           /\ feasible_edge(in.src, d) /\ feasible_edge(d, in.dst)
  <1> DEFINE p == <<in.src, d, in.dst>>
  <1>1. /\ Len(p) = 3 /\ p[1] = in.src /\ p[1 + 1] = d /\ p[2] = d /\ p[2 + 1] = in.dst
        /\ p[Len(p)] = in.dst /\ Legs(p) = {1, 2}
    BY DEF Legs
  <1>2. FitsPools(p) <=> Room(d)
    <2>1. \A x : /\ d = x => Need(p, x) = 4 * in.preferred
                 /\ d # x => Need(p, x) = 0
      <3>1. in.preferred \in Nat
        BY InputFacts, Zenon
      <3> QED BY <3>1, NeedStaged, Zenon
    <2>2. in.pinned_capacity \in Nat /\ in.host_capacity \in Nat /\ in.preferred \in Nat
      BY InputFacts, Zenon
    <2> HIDE DEF p
    <2> QED BY <2>1, <2>2 DEF FitsPools, Room
  <1>3. feasible_edge(in.src, d) /\ feasible_edge(d, in.dst) => p \in Paths
    BY InputFacts, FeasibleIs, ShortPaths, Zenon
  <1>4. (\A k \in Legs(p) : feasible_edge(p[k], p[k + 1]))
        <=> feasible_edge(in.src, d) /\ feasible_edge(d, in.dst)
    BY <1>1, Zenon
  <1> HIDE DEF p
  <1>5. Len(p) - 1 <= in.max_hops <=> in.max_hops >= 2
    BY <1>1, InputFacts, SMTT(30)
  <1>6. Len(p) > 2 /\ Len(p) # 2
    BY <1>1
  <1>7. Candidate(p) <=> /\ in.allow_staging /\ in.max_hops >= 2 /\ Room(d)
                         /\ feasible_edge(in.src, d) /\ feasible_edge(d, in.dst)
    BY <1>2, <1>4, <1>5, <1>6, Zenon DEF Candidate
  <1> QED BY <1>1, <1>3, <1>7, CandidateIs, Zenon DEF p
-----------------------------------------------------------------------------
(* A route of three or more legs can be cut short.                         *)

\* What follows from its length n.
LEMMA FourOrFive ==
  ASSUME NEW n \in {4, 5}
  PROVE  /\ n \in Nat /\ n # 2 /\ 1 \in 1 .. n /\ n \in 1 .. n
         /\ \A i \in {2, 3} : i \in 1 .. n /\ i \in 2 .. n - 1 /\ i # 1 /\ i # n
         /\ \A m \in Nat : n - 1 <= m => m >= 2
  OBVIOUS

\* Where: at its second node, or at its third.
LEMMA ShortcutNode ==
  ASSUME NEW p, IsPath(p), Len(p) \in {4, 5}
  PROVE  \/ is_staging_domain(p[2])
         \/ Len(p) = 4 /\ is_staging_domain(p[1]) /\ is_staging_domain(p[3])
  <1> SUFFICES ASSUME ~is_staging_domain(p[2])
               PROVE  Len(p) = 4 /\ is_staging_domain(p[1]) /\ is_staging_domain(p[3])
    BY Zenon
  <1>1. /\ \A k \in 1 .. Len(p) - 1 : Joined(p[k], p[k + 1])
        /\ \A i, j \in 1 .. Len(p) : p[i] = p[j] => i = j
    BY Zenon DEF IsPath
  <1>2. Joined(p[1], p[2]) /\ Joined(p[2], p[3]) /\ (Len(p) = 5 => Joined(p[4], p[5]))
    BY <1>1, SMT
  <1>3. is_staging_domain(p[1]) /\ is_staging_domain(p[3])
    BY <1>2, EdgeIs, Zenon
  <1>4. ASSUME Len(p) = 5 PROVE FALSE
    <2>1. PICK k \in {4, 5} : is_staging_domain(p[k])
      BY <1>2, <1>4, EdgeIs, Zenon
    <2>2. p[1] = p[3] \/ p[1] = p[k] \/ p[3] = p[k]
      BY <1>3, <2>1, SMTT(30) DEF is_staging_domain
    <2>3. 1 \in 1 .. Len(p) /\ 3 \in 1 .. Len(p) /\ k \in 1 .. Len(p) /\ 1 # 3 /\ 1 # k /\ 3 # k
      BY <1>4, SMT
    <2> QED BY <1>1, <2>2, <2>3, Zenon
  <1> QED BY <1>3, <1>4, Zenon

\* The route through that node alone takes no more time.
LEMMA ShortcutTime ==
  ASSUME in.gb \in Nat, NEW p, IsPath(p), Len(p) \in {4, 5}
  PROVE  \E i \in {2, 3} :
           /\ is_staging_domain(p[i])
           /\ i = 2 \/ (is_staging_domain(p[1]) /\ Len(p) = 4)
           /\ Time(p[1], p[i]) \in Nat /\ Time(p[i], p[Len(p)]) \in Nat
           /\ Len(p) = 4 => Time(p[1], p[i]) + Time(p[i], p[4])
                              <= Time(p[1], p[2]) + Time(p[2], p[3]) + Time(p[3], p[4])
           /\ Len(p) = 5 => Time(p[1], p[i]) + Time(p[i], p[5])
                              <= Time(p[1], p[2]) + Time(p[2], p[3]) + Time(p[3], p[4])
                                 + Time(p[4], p[5])
  <1>1. /\ p \in Seq(Domain)
        /\ \A k \in 1 .. Len(p) - 1 : Joined(p[k], p[k + 1])
        /\ \A i, j \in 1 .. Len(p) : p[i] = p[j] => i = j
    BY Zenon DEF IsPath
  <1>2. PICK a, b, c, d : a = p[1] /\ b = p[2] /\ c = p[3] /\ d = p[4]
    BY Zenon
  <1>3. /\ a \in Domain /\ b \in Domain /\ c \in Domain /\ d \in Domain
        /\ Joined(a, b) /\ Joined(b, c) /\ Joined(c, d) /\ a # c /\ b # d
    BY <1>1, <1>2, SMTT(30)
  <1>4. CASE is_staging_domain(b) /\ Len(p) = 4
    <2>1. /\ Time(b, c) \in Nat /\ Time(c, d) \in Nat /\ Time(b, d) \in Nat
          /\ Time(b, d) <= Time(b, c) + Time(c, d)
      BY <1>3, <1>4, DetourTime, ZenonT(40)
    <2>2. Time(a, b) \in Nat
      BY <1>3, <1>4, DetourTime, SMTT(30) DEF Time, TimeFor
    <2>3. Time(a, b) + Time(b, d) <= Time(a, b) + Time(b, c) + Time(c, d)
      BY <2>1, <2>2
    <2>4. 2 \in {2, 3} /\ 4 # 5
      OBVIOUS
    <2> QED BY <1>2, <1>4, <2>1, <2>2, <2>3, <2>4, ZenonT(40)
  <1>5. CASE is_staging_domain(b) /\ Len(p) = 5
    <2>1. PICK e : e = p[5]
      BY Zenon
    <2>2. e \in Domain /\ Joined(d, e) /\ b # e
      <3>1. 5 \in 1 .. Len(p) /\ 2 \in 1 .. Len(p) /\ 4 \in 1 .. Len(p) - 1 /\ 4 + 1 = 5 /\ 2 # 5
        BY <1>5, SMTT(30)
      <3>2. p[5] \in Domain
        BY <1>1, <3>1, SMTT(30)
      <3> QED BY <1>1, <1>2, <2>1, <3>1, <3>2, Zenon
    <2>3. Joined(b, d)
      BY <1>3, <1>5, HostJoined, Zenon
    <2>4. /\ Time(b, c) \in Nat /\ Time(c, d) \in Nat /\ Time(b, d) \in Nat
          /\ Time(b, d) <= Time(b, c) + Time(c, d)
      BY <1>3, <1>5, DetourTime, Zenon
    <2>5. Time(d, e) \in Nat /\ Time(b, e) \in Nat /\ Time(b, e) <= Time(b, d) + Time(d, e)
      BY <1>3, <1>5, <2>2, <2>3, DetourTime, ZenonT(40)
    <2>6. Time(a, b) \in Nat
      BY <1>3, <1>5, DetourTime, SMTT(30) DEF Time, TimeFor
    <2>7. Time(a, b) + Time(b, e) <= Time(a, b) + Time(b, c) + Time(c, d) + Time(d, e)
      BY <2>4, <2>5, <2>6, SMTT(30)
    <2>8. 2 \in {2, 3} /\ 4 # 5
      OBVIOUS
    <2>9. /\ is_staging_domain(p[2]) /\ Time(p[1], p[2]) \in Nat /\ Time(p[2], p[5]) \in Nat
          /\ Time(p[1], p[2]) + Time(p[2], p[5])
               <= Time(p[1], p[2]) + Time(p[2], p[3]) + Time(p[3], p[4]) + Time(p[4], p[5])
      BY <1>2, <1>5, <2>1, <2>5, <2>6, <2>7, SMTT(30)
    <2> QED BY <1>5, <2>8, <2>9, Zenon
  <1>6. CASE Len(p) = 4 /\ is_staging_domain(a) /\ is_staging_domain(c)
    <2>1. /\ Time(a, b) \in Nat /\ Time(b, c) \in Nat /\ Time(a, c) \in Nat
          /\ Time(a, c) <= Time(a, b) + Time(b, c)
      BY <1>3, <1>6, DetourTime, ZenonT(40)
    <2>2. Time(c, d) \in Nat
      BY <1>3, <1>6, DetourTime, SMTT(30) DEF Time, TimeFor
    <2>3. Time(a, c) + Time(c, d) <= Time(a, b) + Time(b, c) + Time(c, d)
      BY <2>1, <2>2, SMTT(30)
    <2>4. 3 \in {2, 3} /\ 4 # 5
      OBVIOUS
    <2> QED BY <1>2, <1>6, <2>1, <2>2, <2>3, <2>4, ZenonT(40)
  <1>7. is_staging_domain(b) \/ (Len(p) = 4 /\ is_staging_domain(a) /\ is_staging_domain(c))
    <2>1. \/ is_staging_domain(p[2])
          \/ Len(p) = 4 /\ is_staging_domain(p[1]) /\ is_staging_domain(p[3])
      BY ShortcutNode, Zenon
    <2> QED BY <1>2, <2>1, SMTT(30)
  <1> QED BY <1>4, <1>5, <1>6, <1>7, Zenon

\* A candidate of three or more legs is never the only one: through one host
\* domain of it leads a candidate of two legs, and that one is cheaper.
LEMMA Shortcut ==
  ASSUME in \in Input, in.src # in.dst, NEW p \in Candidates, Len(p) \in {4, 5}
  PROVE  \E d \in Domain \ {in.src, in.dst} :
           /\ <<in.src, d, in.dst>> \in Candidates
           /\ evaluate(<<in.src, d, in.dst>>) \in Nat /\ evaluate(p) \in Nat
           /\ evaluate(<<in.src, d, in.dst>>) < evaluate(p)
  <1>0. in.gb \in Nat /\ in.preferred \in Nat /\ in.max_hops \in Nat
        /\ in.pinned_capacity \in Nat /\ in.host_capacity \in Nat
    BY InputFacts, Zenon
  <1>1. /\ IsPath(p) /\ p[1] = in.src /\ p[Len(p)] = in.dst
        /\ \A k \in 1 .. Len(p) - 1 : feasible_edge(p[k], p[k + 1])
    BY CandidateFacts, Zenon
  <1>2. PICK i \in {2, 3} :
           /\ is_staging_domain(p[i])
           /\ i = 2 \/ (is_staging_domain(p[1]) /\ Len(p) = 4)
           /\ Time(p[1], p[i]) \in Nat /\ Time(p[i], p[Len(p)]) \in Nat
           /\ Len(p) = 4 => Time(p[1], p[i]) + Time(p[i], p[4])
                              <= Time(p[1], p[2]) + Time(p[2], p[3]) + Time(p[3], p[4])
           /\ Len(p) = 5 => Time(p[1], p[i]) + Time(p[i], p[5])
                              <= Time(p[1], p[2]) + Time(p[2], p[3]) + Time(p[3], p[4])
                                 + Time(p[4], p[5])
    BY <1>0, <1>1, ShortcutTime, Zenon
  <1>3. PICK d : d = p[i]
    BY Zenon
  <1>4. d \in Domain \ {in.src, in.dst}
    <2>1. p \in Seq(Domain) /\ \A x, y \in 1 .. Len(p) : p[x] = p[y] => x = y
      BY <1>1, Zenon DEF IsPath
    <2>2. /\ i \in 1 .. Len(p) /\ 1 \in 1 .. Len(p) /\ Len(p) \in 1 .. Len(p)
          /\ i # 1 /\ i # Len(p)
      BY FourOrFive, Zenon
    <2>3. p[i] \in Domain
      BY <2>1, <2>2, SMTT(30)
    <2> QED BY <1>1, <1>3, <2>1, <2>2, <2>3, Zenon
  <1>5. Candidate(p)
    BY CandidateIs, Zenon
  <1>6. feasible_edge(in.src, d)
    <2>1. CASE i = 2
      <3>1. feasible_edge(p[1], p[2])
        BY <1>1, SMT
      <3> QED BY <1>1, <1>3, <2>1, <3>1, ZenonT(40)
    <2>2. CASE i # 2
      <3>1. is_staging_domain(in.src) /\ is_staging_domain(d) /\ in.src # d
        BY <1>1, <1>2, <1>3, <1>4, <2>2, Zenon
      <3>2. Joined(in.src, d)
        BY <1>4, <3>1, HostJoined, Zenon
      <3> QED BY <3>1, <3>2, SameBackend, HostFeasible, Zenon
    <2> QED BY <2>1, <2>2, Zenon
  <1>7. feasible_edge(d, in.dst)
    <2>1. PICK k \in 1 .. Len(p) - 1 : p[k + 1] = in.dst
      BY <1>1, SMT
    <2>2. feasible_edge(p[k], in.dst)
      BY <1>1, <2>1, Zenon
    <2> QED BY <1>2, <1>3, <1>4, <2>2, HostReaches, ZenonT(40)
  <1>8. Room(d)
    <2>1. Len(p) \in Nat /\ i \in Inner(p)
      BY FourOrFive, Zenon DEF Inner
    <2>2. Need(p, d) \in Nat /\ 4 * in.preferred <= Need(p, d)
      BY <1>0, <1>3, <2>1, NeedSome, Zenon
    <2>3. /\ Need(p, "host_pinned") <= in.pinned_capacity
          /\ Need(p, "host_pageable") <= in.host_capacity
      BY <1>5, Zenon DEF Candidate, FitsPools
    <2> QED BY <1>0, <2>2, <2>3, SMTT(30) DEF Room
  <1>9. in.allow_staging /\ in.max_hops >= 2
    <2>1. Len(p) - 1 <= in.max_hops /\ (in.allow_staging \/ Len(p) = 2)
      BY <1>5, Zenon DEF Candidate
    <2>2. Len(p) # 2
      BY FourOrFive, Zenon
    <2>3. in.max_hops >= 2
      BY <1>0, <2>1, FourOrFive, Zenon
    <2> QED BY <2>1, <2>2, <2>3, Zenon
  <1> DEFINE q == <<in.src, d, in.dst>>
  <1>10. q \in Candidates
    BY <1>4, <1>6, <1>7, <1>8, <1>9, StagedCandidate, ZenonT(40)
  <1>11. IsPath(q)
    BY <1>10, CandidateFacts, ZenonT(40)
  <1>12. /\ evaluate(q) \in Nat
         /\ evaluate(q) <= Time(in.src, d) + Time(d, in.dst) + 210030 + Penalty(2)
    BY <1>0, <1>11, StagedCost, SMTT(30)
  <1>13. Len(p) = 4 => is_staging_domain(p[2]) \/ is_staging_domain(p[3])
    BY <1>2, ZenonT(40)
  <1>14. /\ \A k \in 1 .. Len(p) - 1 : Time(p[k], p[k + 1]) \in Nat
         /\ evaluate(p) \in Nat
         /\ Len(p) = 4 => Time(p[1], p[2]) + Time(p[2], p[3]) + Time(p[3], p[4])
                          + 300000 + Penalty(2) <= evaluate(p)
         /\ Len(p) = 5 => Time(p[1], p[2]) + Time(p[2], p[3]) + Time(p[3], p[4])
                          + Time(p[4], p[5]) + 300000 + Penalty(2) <= evaluate(p)
    BY <1>0, <1>1, <1>13, LongCost, SMTT(30)
  <1>15. evaluate(q) \in Nat /\ evaluate(p) \in Nat
    BY <1>12, <1>14, SMTT(30)
  <1>16. Penalty(2) \in Nat
    BY <1>0, PenaltyMonotone, SMTT(30)
  <1> HIDE DEF q
  <1>17. CASE Len(p) = 4
    <2>1. Time(p[1], p[2]) \in Nat /\ Time(p[2], p[3]) \in Nat /\ Time(p[3], p[4]) \in Nat
      BY <1>14, <1>17, SMTT(30)
    <2>2. Time(in.src, d) + Time(d, in.dst)
            <= Time(p[1], p[2]) + Time(p[2], p[3]) + Time(p[3], p[4])
      BY <1>1, <1>2, <1>3, <1>17, Zenon
    <2>3. Time(p[1], p[2]) + Time(p[2], p[3]) + Time(p[3], p[4]) + 300000 + Penalty(2)
            <= evaluate(p)
      BY <1>14, <1>17, SMTT(30)
    <2>4. Time(in.src, d) \in Nat /\ Time(d, in.dst) \in Nat
      BY <1>1, <1>2, <1>3, Zenon
    <2>5. evaluate(q) < evaluate(p)
      BY <1>12, <1>15, <1>16, <2>1, <2>2, <2>3, <2>4, SMTT(30)
    <2> QED BY <1>4, <1>10, <1>15, <2>5, ZenonT(40) DEF q
  <1>18. CASE Len(p) = 5
    <2>1. Time(p[1], p[2]) \in Nat /\ Time(p[2], p[3]) \in Nat /\ Time(p[3], p[4]) \in Nat
          /\ Time(p[4], p[5]) \in Nat
      BY <1>14, <1>18, SMTT(30)
    <2>2. Time(in.src, d) + Time(d, in.dst)
            <= Time(p[1], p[2]) + Time(p[2], p[3]) + Time(p[3], p[4]) + Time(p[4], p[5])
      BY <1>1, <1>2, <1>3, <1>18, Zenon
    <2>3. Time(p[1], p[2]) + Time(p[2], p[3]) + Time(p[3], p[4]) + Time(p[4], p[5])
            + 300000 + Penalty(2) <= evaluate(p)
      BY <1>14, <1>18, SMTT(30)
    <2>4. Time(in.src, d) \in Nat /\ Time(d, in.dst) \in Nat
      BY <1>1, <1>2, <1>3, Zenon
    <2>5. evaluate(q) < evaluate(p)
      BY <1>12, <1>15, <1>16, <2>1, <2>2, <2>3, <2>4, SMTT(30)
    <2> QED BY <1>4, <1>10, <1>15, <2>5, ZenonT(40) DEF q
  <1> QED BY <1>17, <1>18, Zenon
-----------------------------------------------------------------------------
(* The ranking.                                                            *)

\* The candidate of one leg.
LEMMA DirectIs ==
  ASSUME in \in Input, in.src # in.dst, NEW p \in Candidates, Len(p) = 2
  PROVE  p = <<in.src, in.dst>>
  <1>1. IsPath(p) /\ p[1] = in.src /\ p[Len(p)] = in.dst
    BY CandidateFacts, Zenon
  <1>2. p \in Seq(Domain)
    BY <1>1, Zenon DEF IsPath
  <1> QED BY <1>1, <1>2, SMTT(30)

\* A candidate of two legs, and its legs.
LEMMA StagedIs ==
  ASSUME in \in Input, in.src # in.dst, NEW p \in Candidates, Len(p) = 3
  PROVE  /\ p = <<in.src, p[2], in.dst>> /\ p[2] \in Domain \ {in.src, in.dst}
         /\ feasible_edge(in.src, p[2]) /\ feasible_edge(p[2], in.dst)
         /\ Room(p[2]) /\ in.allow_staging /\ in.max_hops >= 2
  <1>1. IsPath(p) /\ p[1] = in.src /\ p[Len(p)] = in.dst
    BY CandidateFacts, Zenon
  <1>2. p \in Seq(Domain) /\ \A i, j \in 1 .. Len(p) : p[i] = p[j] => i = j
    BY <1>1, Zenon DEF IsPath
  <1>3. p = <<in.src, p[2], in.dst>>
    BY <1>1, <1>2, SMTT(30)
  <1>4. p[2] \in Domain /\ p[2] # p[1] /\ p[2] # p[3] /\ p[3] = in.dst
    <2>1. 1 \in 1 .. 3 /\ 2 \in 1 .. 3 /\ 3 \in 1 .. 3 /\ 1 # 2 /\ 2 # 3
      OBVIOUS
    <2>2. p[2] \in Domain
      BY <1>2, <2>1, NodeType, Zenon
    <2> QED BY <1>1, <1>2, <2>1, <2>2, Zenon
  <1>5. p[2] \in Domain \ {in.src, in.dst}
    BY <1>1, <1>4, Zenon
  <1>6. <<in.src, p[2], in.dst>> \in Candidates
    BY <1>3, Zenon
  <1> QED BY <1>3, <1>5, <1>6, StagedCandidate, Zenon

\* Between routes that are not direct, the penalty for those changes nothing.
LEMMA RankStaged ==
  ASSUME NEW p, NEW q, Len(p) # 2, Len(q) # 2, evaluate(p) \in Nat, evaluate(q) \in Nat,
         evaluate(q) < evaluate(p)
  PROVE  ~(Rank(p) <= Rank(q))
  <1>1. ~is_direct(p) /\ ~is_direct(q)
    BY Zenon DEF is_direct
  <1> DEFINE C == in.prefer_direct /\ \E x \in Candidates : is_direct(x)
  <1>2. Rank(p) = evaluate(p) + IF C THEN 50000 ELSE 0
    BY <1>1, SMTT(30) DEF Rank
  <1>3. Rank(q) = evaluate(q) + IF C THEN 50000 ELSE 0
    BY <1>1, SMT DEF Rank
  <1> HIDE DEF C
  <1> QED BY <1>2, <1>3, SMTT(30)

\* The cheapest routes have one leg or two.
LEMMA CheapestShort ==
  ASSUME in \in Input, in.src # in.dst, NEW p \in Cheapest
  PROVE  p \in Candidates /\ Len(p) \in {2, 3}
  <1>1. p \in Candidates /\ \A q \in Candidates : Rank(p) <= Rank(q)
    BY Zenon DEF Cheapest
  <1>2. Len(p) \in {2, 3, 4, 5}
    BY <1>1, CandidateFacts, Zenon
  <1>3. ASSUME Len(p) \in {4, 5} PROVE FALSE
    <2>1. PICK d \in Domain \ {in.src, in.dst} :
           /\ <<in.src, d, in.dst>> \in Candidates
           /\ evaluate(<<in.src, d, in.dst>>) \in Nat /\ evaluate(p) \in Nat
           /\ evaluate(<<in.src, d, in.dst>>) < evaluate(p)
      BY <1>1, <1>3, Shortcut, Zenon
    <2>2. Len(<<in.src, d, in.dst>>) # 2
      OBVIOUS
    <2>3. Len(p) # 2
      BY <1>3, FourOrFive, Zenon
    <2>4. ~(Rank(p) <= Rank(<<in.src, d, in.dst>>))
      BY <2>1, <2>2, <2>3, RankStaged, Zenon
    <2> QED BY <1>1, <2>1, <2>4, Zenon
  <1> QED BY <1>1, <1>2, <1>3, Zenon

\* The route of one leg is cheaper than those of two.
LEMMA DirectCheaper ==
  ASSUME in \in Input, in.src # in.dst, NEW p \in Candidates, Len(p) = 3,
         <<in.src, in.dst>> \in Candidates
  PROVE  ~(Rank(p) <= Rank(<<in.src, in.dst>>))
  <1> DEFINE q == <<in.src, in.dst>>
  <1>0. in.gb \in Nat /\ in.src \in Domain /\ in.dst \in Domain
    BY InputFacts, Zenon
  <1>1. /\ p = <<in.src, p[2], in.dst>> /\ p[2] \in Domain
        /\ feasible_edge(in.src, p[2]) /\ feasible_edge(p[2], in.dst)
    BY StagedIs, Zenon
  <1>2. PICK d \in Domain : d = p[2]
    BY <1>1, Zenon
  <1>3. p = <<in.src, d, in.dst>> /\ Joined(in.src, d) /\ Joined(d, in.dst)
    BY <1>1, <1>2, FeasibleIs, Zenon
  <1>4. IsPath(<<in.src, d, in.dst>>) /\ IsPath(q)
    BY <1>3, CandidateFacts, Zenon
  <1>5. Joined(in.src, in.dst)
    BY DirectCandidate, FeasibleIs, Zenon
  <1>6. is_staging_domain(in.src) \/ is_staging_domain(in.dst)
    BY <1>5, EdgeIs, Zenon
  <1>7. Time(in.src, in.dst) <= Time(in.src, d) + Time(d, in.dst)
    BY <1>0, <1>3, <1>6, DetourTime, ZenonT(40)
  <1>8. /\ Time(in.src, in.dst) \in Nat /\ evaluate(q) \in Nat
        /\ evaluate(q) <= Time(in.src, in.dst) + 105015
    BY <1>0, <1>4, DirectCost, SMTT(30)
  <1>9. /\ Time(in.src, d) \in Nat /\ Time(d, in.dst) \in Nat /\ evaluate(p) \in Nat
        /\ Time(in.src, d) + Time(d, in.dst) + 200000 <= evaluate(p)
    BY <1>0, <1>3, <1>4, StagedCost, SMTT(30)
  <1> HIDE DEF q
  <1>10. evaluate(q) < evaluate(p)
    BY <1>7, <1>8, <1>9, SMTT(30)
  <1>11. Rank(q) = evaluate(q)
    <2>1. ASSUME NEW x \in Candidates, is_direct(x) PROVE x = q
      BY <2>1, DirectIs, Zenon DEF is_direct, q
    <2>2. CASE is_direct(q)
      BY <1>8, <2>2, SMTT(30) DEF Rank
    <2>3. CASE ~is_direct(q)
      <3>1. ~\E x \in Candidates : is_direct(x)
        BY <2>1, <2>3, Zenon
      <3> QED BY <1>8, <3>1, SMTT(30) DEF Rank
    <2> QED BY <2>2, <2>3, Zenon
  <1>12. Rank(p) \in Nat /\ Rank(p) >= evaluate(p)
    BY <1>9, SMTT(30) DEF Rank
  <1>13. ~(Rank(p) <= Rank(q))
    BY <1>8, <1>9, <1>10, <1>11, <1>12, SMTT(30)
  <1> QED BY <1>13, Zenon DEF q

\* No candidate is shorter than a cheapest one.
LEMMA CheapestShortest ==
  ASSUME in \in Input, in.src # in.dst, NEW p \in Cheapest, NEW q \in Candidates
  PROVE  Len(p) <= Len(q)
  <1>1. p \in Candidates /\ Len(p) \in {2, 3} /\ Rank(p) <= Rank(q)
    BY CheapestShort, Zenon DEF Cheapest
  <1>2. Len(q) \in {2, 3, 4, 5}
    BY CandidateFacts, Zenon
  <1>3. ASSUME Len(p) = 3, Len(q) = 2 PROVE FALSE
    <2>1. q = <<in.src, in.dst>>
      BY <1>3, DirectIs, Zenon
    <2> QED BY <1>1, <1>3, <2>1, DirectCheaper, Zenon
  <1>4. \A m \in {2, 3}, n \in {2, 3, 4, 5} : ~(m = 3 /\ n = 2) => m <= n
    OBVIOUS
  <1> QED BY <1>1, <1>2, <1>3, <1>4, Zenon
-----------------------------------------------------------------------------
(* Every leg of the chosen route can be copied by its backend.             *)

\* Without a remote peer no usable edge touches the remote domain.
LEMMA NotRemote ==
  ASSUME NEW a, NEW b, feasible_edge(a, b), ~in.remote_available
  PROVE  a # "remote" /\ b # "remote"
  <1>1. Joined(a, b) /\ BackendFor(a, b) # "tcp"
    BY FeasibleIs, Zenon
  <1>2. a # b /\ (is_staging_domain(a) \/ is_staging_domain(b))
    BY <1>1, EdgeIs, Zenon
  <1> QED BY <1>1, <1>2, SMT DEF BackendFor, is_staging_domain

\* A node that is no host domain lies between two that are.
LEMMA BetweenHosts ==
  ASSUME NEW a, NEW b, NEW c, feasible_edge(a, b), feasible_edge(b, c), ~is_staging_domain(b)
  PROVE  is_staging_domain(a) /\ is_staging_domain(c)
  <1>1. Joined(a, b) /\ Joined(b, c)
    BY FeasibleIs, Zenon
  <1> QED BY <1>1, EdgeIs, Zenon

\* A leg whose storage end, if any, is an end of the route.
LEMMA LegCopies ==
  ASSUME NEW p, NEW k, Joined(p[k], p[k + 1]), p[k] # "remote", p[k + 1] # "remote",
         p[k] = "storage" => KindAt(p, k) = "file",
         p[k + 1] = "storage" => KindAt(p, k + 1) = "file"
  PROVE  can_copy(Edge(p[k], p[k + 1]).backend, p, k)
  <1>1. PICK a, b : a = p[k] /\ b = p[k + 1]
    BY Zenon
  <1>2. /\ a \in Domain /\ b \in Domain /\ a # b
        /\ is_staging_domain(a) \/ is_staging_domain(b)
        /\ Edge(p[k], p[k + 1]).backend = BackendFor(a, b)
    BY <1>1, EdgeIs, Zenon
  <1>3. CASE "device" \in {a, b}
    <2>1. BackendFor(a, b) = "cuda"
      BY <1>3, Zenon DEF BackendFor
    <2>2. CudaCanCopy(p, k)
      <3>1. ~is_staging_domain("device")
        BY SMT DEF is_staging_domain
      <3>2. \A d \in {a, b} : d = "device" \/ is_staging_domain(d)
        BY <1>2, <1>3, <3>1, Zenon
      <3> QED BY <1>1, <1>3, <3>2, Zenon DEF CudaCanCopy
    <2> QED BY <1>2, <2>1, <2>2, Zenon DEF can_copy
  <1>4. CASE "storage" \in {a, b}
    <2>1. "device" \notin {a, b} /\ BackendFor(a, b) = "file"
      BY <1>2, <1>4, SMTT(30) DEF BackendFor, is_staging_domain
    <2>2. \A j : is_staging_domain(p[j]) => KindAt(p, j) = "host"
      BY SMT DEF KindAt, kind_of_domain, is_staging_domain
    <2>3. {KindAt(p, k), KindAt(p, k + 1)} = {"file", "host"}
      <3>1. CASE a = "storage"
        <4>1. is_staging_domain(p[k + 1])
          BY <1>1, <1>2, <3>1, SMTT(30) DEF is_staging_domain
        <4> QED BY <1>1, <2>2, <3>1, <4>1, ZenonT(40)
      <3>2. CASE b = "storage"
        <4>1. is_staging_domain(p[k])
          BY <1>1, <1>2, <3>2, SMTT(30) DEF is_staging_domain
        <4> QED BY <1>1, <2>2, <3>2, <4>1, ZenonT(40)
      <3> QED BY <1>4, <3>1, <3>2, Zenon
    <2>4. FileCanCopy(p, k)
      <3>1. {"file", "host"} \cap {"file", "mmap"} # {} /\ "device" \notin {"file", "host"}
        BY SMT
      <3> QED BY <2>3, <3>1, Zenon DEF FileCanCopy
    <2> QED BY <1>2, <2>1, <2>4, Zenon DEF can_copy
  <1>5. CASE "shared" \in {a, b}
    <2>1. BackendFor(a, b) = "shm"
      BY <1>2, <1>5, SMTT(30) DEF BackendFor, is_staging_domain
    <2>2. {a, b} \subseteq Cpu \cup {"shared"}
      BY <1>2, <1>5, SMTT(30) DEF Cpu, is_staging_domain
    <2>3. ShmCanCopy(p, k)
      BY <1>1, <1>5, <2>2, Zenon DEF ShmCanCopy
    <2> QED BY <1>2, <2>1, <2>3, ZenonT(40) DEF can_copy
  <1>6. CASE {a, b} \subseteq Cpu
    <2>1. BackendFor(a, b) = "host"
      BY <1>6, SMT DEF BackendFor, Cpu
    <2>2. HostCanCopy(p, k)
      BY <1>1, <1>6, Zenon DEF HostCanCopy
    <2> QED BY <1>2, <2>1, <2>2, Zenon DEF can_copy
  <1>7. \/ "device" \in {a, b} \/ "storage" \in {a, b} \/ "shared" \in {a, b}
        \/ {a, b} \subseteq Cpu
    BY <1>1, <1>2, SMTT(30) DEF Domain, Cpu
  <1> QED BY <1>3, <1>4, <1>5, <1>6, <1>7, Zenon

\* Between the host domains a route through mapped memory is always there, and
\* is cheaper than one through storage, where the host buffer that stands for
\* the storage node could not be copied by the file backend.
LEMMA StorageDearer ==
  ASSUME in \in Input, in.gb > 0, in.src # in.dst,
         is_staging_domain(in.src), is_staging_domain(in.dst)
  PROVE  <<in.src, "storage", in.dst>> \notin Cheapest
  <1> DEFINE p == <<in.src, "storage", in.dst>>
             q == <<in.src, "mmap", in.dst>>
  <1> SUFFICES ASSUME p \in Cheapest PROVE FALSE
    BY Zenon
  <1>0. in.gb \in Nat
    BY InputFacts, Zenon
  <1>1. p \in Candidates /\ \A x \in Candidates : Rank(p) <= Rank(x)
    BY Zenon DEF Cheapest
  <1>2. Len(p) = 3 /\ Len(q) = 3 /\ Len(p) # 2 /\ Len(q) # 2
    OBVIOUS
  <1>3. "mmap" \in Domain /\ ~is_staging_domain("mmap") /\ ~is_staging_domain("storage")
        /\ "mmap" \notin {"host_pinned", "host_pageable"}
    BY SMT DEF Domain, is_staging_domain
  <1>4. "mmap" \in Domain \ {in.src, in.dst}
    BY <1>3, Zenon
  <1>5. in.allow_staging /\ in.max_hops >= 2
    BY <1>1, <1>2, StagedIs, Zenon
  <1>6. feasible_edge(in.src, "mmap") /\ feasible_edge("mmap", in.dst)
    <2>1. Joined(in.src, "mmap") /\ Joined("mmap", in.dst)
      BY <1>4, HostJoined, Zenon
    <2>2. BackendFor(in.src, "mmap") = "host" /\ BackendFor("mmap", in.dst) = "host"
      BY SameBackend, Zenon
    <2> QED BY <2>1, <2>2, HostFeasible, Zenon
  <1>7. Room("mmap")
    BY <1>3, Zenon DEF Room
  <1>8. q \in Candidates
    BY <1>4, <1>5, <1>6, <1>7, StagedCandidate, Zenon
  <1>9. IsPath(p) /\ IsPath(q)
    BY <1>1, <1>8, CandidateFacts, Zenon
  <1>10. StagedLegs(q) = 0
    <2>1. Legs(q) = {1, 2} /\ q[2] = "mmap" /\ q[1 + 1] = "mmap" /\ ~(1 > 1) /\ ~(2 + 1 < Len(q))
      BY DEF Legs
    <2>2. {k \in Legs(q) : LegStaged(q, k)} = {}
      BY <1>3, <2>1, ZenonT(40) DEF LegStaged
    <2> QED BY <2>2, FS_EmptySet, Zenon DEF StagedLegs
  <1>11. /\ evaluate(q) \in Nat
         /\ evaluate(q) <= Time(in.src, "mmap") + Time("mmap", in.dst) + 210030
    BY <1>0, <1>9, <1>10, StagedCost, SMTT(30)
  <1>12. /\ evaluate(p) \in Nat
         /\ Time(in.src, "storage") + Time("storage", in.dst) + 200000 <= evaluate(p)
    BY <1>0, <1>9, StagedCost, SMTT(30)
  <1>13. /\ TimeFor(in.src, "mmap") = 12500 /\ TimeFor("mmap", in.dst) = 12500
         /\ TimeFor(in.src, "storage") = 50000 /\ TimeFor("storage", in.dst) = 50000
    BY SMT DEF TimeFor, is_staging_domain
  <1> HIDE DEF p, q
  <1>14. evaluate(q) < evaluate(p)
    BY <1>0, <1>11, <1>12, <1>13, SMTT(30) DEF Time
  <1>15. ~(Rank(p) <= Rank(q))
    BY <1>2, <1>11, <1>12, <1>14, RankStaged, SMTT(30)
  <1> QED BY <1>1, <1>8, <1>15, Zenon

\* Every leg of a cheapest route.
LEMMA CheapestExecutable ==
  ASSUME in \in Input, in.gb > 0, in.src # in.dst, ~in.remote_available, NEW p \in Cheapest,
         NEW k \in Legs(p)
  PROVE  can_copy(Edge(p[k], p[k + 1]).backend, p, k)
  <1>1. p \in Candidates /\ Len(p) \in {2, 3}
    BY CheapestShort, Zenon
  <1>2. feasible_edge(p[k], p[k + 1])
    BY <1>1, CandidateFacts, Zenon DEF Legs
  <1>3. Joined(p[k], p[k + 1]) /\ p[k] # "remote" /\ p[k + 1] # "remote"
    BY <1>2, FeasibleIs, NotRemote, Zenon
  <1>4. \A j : j \notin Inner(p) /\ p[j] = "storage" => KindAt(p, j) = "file"
    BY SMT DEF KindAt, kind_of_domain, is_staging_domain
  <1>5. \A j \in Inner(p) : p[j] # "storage"
    <2>1. CASE Len(p) = 2
      BY <2>1, SMT DEF Inner
    <2>2. CASE Len(p) = 3
      <3>1. /\ p = <<in.src, p[2], in.dst>>
            /\ feasible_edge(in.src, p[2]) /\ feasible_edge(p[2], in.dst)
        BY <1>1, <2>2, StagedIs, Zenon
      <3>2. Inner(p) = {2}
        BY <2>2, SMT DEF Inner
      <3>3. ASSUME p[2] = "storage" PROVE FALSE
        <4>1. ~is_staging_domain("storage")
          BY SMT DEF is_staging_domain
        <4>2. is_staging_domain(in.src) /\ is_staging_domain(in.dst)
          BY <3>1, <3>3, <4>1, BetweenHosts, Zenon
        <4>3. p = <<in.src, "storage", in.dst>>
          BY <3>1, <3>3, Zenon
        <4> QED BY <4>2, <4>3, StorageDearer, Zenon
      <3> QED BY <3>2, <3>3, Zenon
    <2> QED BY <1>1, <2>1, <2>2, Zenon
  <1>6. /\ p[k] = "storage" => KindAt(p, k) = "file"
        /\ p[k + 1] = "storage" => KindAt(p, k + 1) = "file"
    BY <1>4, <1>5, Zenon
  <1> QED BY <1>3, <1>6, LegCopies, Zenon
-----------------------------------------------------------------------------
(* What plan() answers.                                                    *)

\* Routable in terms of the candidates.
LEMMA RoutableIs ==
  ASSUME in \in Input
  PROVE  Routable <=>
           /\ Permitted
           /\ \/ in.gb = 0
              \/ in.src = in.dst /\ backend_known(SameDomainBackend(in.src))
              \/ /\ in.src # in.dst
                 /\ \/ <<in.src, in.dst>> \in Candidates
                    \/ \E d \in Domain \ {in.src, in.dst} : <<in.src, d, in.dst>> \in Candidates
  <1> DEFINE room(d) ==
               CASE d = "host_pinned" -> 4 * in.preferred <= in.pinned_capacity
                 [] d = "host_pageable" -> 4 * in.preferred <= in.host_capacity
                 [] OTHER -> TRUE
             via(d) == /\ in.allow_staging /\ in.max_hops >= 2 /\ room(d)
                       /\ feasible_edge(in.src, d) /\ feasible_edge(d, in.dst)
             direct == ~in.require_staging /\ in.max_hops >= 1 /\ feasible_edge(in.src, in.dst)
  <1>1. ASSUME NEW d PROVE room(d) <=> Room(d)
    <2>1. CASE d = "host_pinned"
      BY <2>1, SMT DEF Room
    <2>2. CASE d = "host_pageable"
      BY <2>2, SMT DEF Room
    <2>3. CASE d \notin {"host_pinned", "host_pageable"}
      BY <2>3, SMT DEF Room
    <2> QED BY <2>1, <2>2, <2>3, Zenon
  <1>2. Routable <=>
          /\ Permitted
          /\ \/ in.gb = 0
             \/ in.src = in.dst /\ backend_known(SameDomainBackend(in.src))
             \/ in.src # in.dst /\ (direct \/ \E d \in Domain \ {in.src, in.dst} : via(d))
    BY Zenon DEF Routable
  <1> HIDE DEF room
  <1>3. in.src # in.dst => (direct <=> <<in.src, in.dst>> \in Candidates)
    BY DirectCandidate, Zenon
  <1>4. in.src # in.dst =>
          \A d \in Domain \ {in.src, in.dst} : via(d) <=> <<in.src, d, in.dst>> \in Candidates
    BY <1>1, StagedCandidate, Zenon
  <1> HIDE DEF via, direct
  <1> QED BY <1>2, <1>3, <1>4, Zenon

\* Two ends of one domain are copied by the backend of the domain.
LEMMA SameCopies ==
  ASSUME NEW d \in Domain, d # "remote"
  PROVE  can_copy(SameDomainBackend(d), <<d, d>>, 1)
  <1> DEFINE p == <<d, d>>
  <1>1. p[1] = d /\ p[1 + 1] = d /\ 1 \notin Inner(p) /\ 1 + 1 \notin Inner(p)
    BY SMT DEF Inner
  <1> HIDE DEF p
  <1>2. CASE d = "device"
    <2>1. CudaCanCopy(p, 1)
      BY <1>1, <1>2, Zenon DEF CudaCanCopy
    <2>2. SameDomainBackend(d) = "cuda"
      BY <1>2, SMT DEF SameDomainBackend
    <2> QED BY <2>1, <2>2, Zenon DEF can_copy, p
  <1>3. CASE d = "storage"
    <2>1. KindAt(p, 1) = "file" /\ KindAt(p, 1 + 1) = "file"
      BY <1>1, <1>3, SMTT(30) DEF KindAt, kind_of_domain, is_staging_domain
    <2>2. {"file", "file"} \cap {"file", "mmap"} # {} /\ "device" \notin {"file", "file"}
      BY SMT
    <2>3. FileCanCopy(p, 1)
      BY <2>1, <2>2, Zenon DEF FileCanCopy
    <2>4. SameDomainBackend(d) = "file"
      BY <1>3, SMT DEF SameDomainBackend
    <2> QED BY <2>3, <2>4, Zenon DEF can_copy, p
  <1>4. CASE d = "shared"
    <2>1. ShmCanCopy(p, 1)
      BY <1>1, <1>4, Zenon DEF ShmCanCopy
    <2>2. SameDomainBackend(d) = "shm"
      BY <1>4, SMT DEF SameDomainBackend
    <2> QED BY <2>1, <2>2, Zenon DEF can_copy, p
  <1>5. CASE d \in Cpu
    <2>1. HostCanCopy(p, 1)
      BY <1>1, <1>5, Zenon DEF HostCanCopy
    <2>2. SameDomainBackend(d) = "host"
      BY <1>5, SMT DEF SameDomainBackend, Cpu
    <2> QED BY <2>1, <2>2, Zenon DEF can_copy, p
  <1> QED BY <1>2, <1>3, <1>4, <1>5, SMTT(30) DEF Domain, Cpu

\* The shape of a route: one leg, or a candidate of two.
Shape(r) ==
  \/ r.path = <<in.src, in.dst>>
  \/ in.src # in.dst /\ in.gb > 0 /\ r.path \in Candidates /\ Len(r.path) = 3

\* What holds of every answer r to the input.
Good(r) ==
  /\ r.status = "found" => Routable /\ Shape(r)
  /\ r.status = "refused" => ~Routable
  /\ r.status = "found" /\ in.gb > 0 /\ in.src # in.dst =>
       \A q \in Candidates : Len(r.path) <= Len(q)
  /\ r.status = "found" /\ in.gb > 0 /\ ~in.remote_available /\ "remote" \notin {in.src, in.dst} =>
       /\ r.path[1] = in.src /\ r.path[Len(r.path)] = in.dst
       /\ \A k \in Legs(r.path) : can_copy(r.backends[k], r.path, k)

\* The answer of each branch of plan().
LEMMA GoodEmpty ==
  ASSUME in \in Input, Permitted, in.gb = 0, NEW r, r.status = "found",
         r.path = <<in.src, in.dst>>
  PROVE  Good(r)
  <1>1. Routable
    BY RoutableIs, Zenon
  <1>2. ~(in.gb > 0) /\ "found" # "refused"
    BY SMT
  <1> QED BY <1>1, <1>2, Zenon DEF Good, Shape

LEMMA GoodSame ==
  ASSUME in \in Input, Permitted, in.src = in.dst, backend_known(SameDomainBackend(in.src)),
         NEW r, r.status = "found", r.path = <<in.src, in.dst>>,
         r.backends = <<SameDomainBackend(in.src)>>
  PROVE  Good(r)
  <1>1. Routable
    BY RoutableIs, Zenon
  <1>2. /\ r.path[1] = in.src /\ r.path[Len(r.path)] = in.dst /\ Legs(r.path) = {1}
        /\ r.backends[1] = SameDomainBackend(in.src) /\ "found" # "refused"
    BY SMT DEF Legs
  <1>3. in.src \in Domain
    BY InputFacts, Zenon
  <1>4. "remote" \notin {in.src, in.dst} =>
          \A k \in Legs(r.path) : can_copy(r.backends[k], r.path, k)
    BY <1>2, <1>3, SameCopies, Zenon
  <1> QED BY <1>1, <1>2, <1>4, Zenon DEF Good, Shape

LEMMA GoodSearch ==
  ASSUME in \in Input, Permitted, in.gb > 0, in.src # in.dst, NEW p \in Cheapest,
         NEW r, r.status = "found", r.path = p,
         r.backends = [k \in Legs(p) |-> Edge(p[k], p[k + 1]).backend]
  PROVE  Good(r)
  <1>0. "found" # "refused"
    BY SMT
  <1>1. p \in Candidates /\ Len(p) \in {2, 3}
    BY CheapestShort, Zenon
  <1>2. Len(p) = 2 => p = <<in.src, in.dst>>
    BY <1>1, DirectIs, Zenon
  <1>3. Len(p) = 3 => p = <<in.src, p[2], in.dst>> /\ p[2] \in Domain \ {in.src, in.dst}
    BY <1>1, StagedIs, Zenon
  <1>4. Routable
    <2>1. CASE Len(p) = 2
      BY <1>1, <1>2, <2>1, RoutableIs, Zenon
    <2>2. CASE Len(p) = 3
      <3>1. p[2] \in Domain \ {in.src, in.dst} /\ <<in.src, p[2], in.dst>> \in Candidates
        BY <1>1, <1>3, <2>2, Zenon
      <3> QED BY <3>1, RoutableIs, Zenon
    <2> QED BY <1>1, <2>1, <2>2, Zenon
  <1>5. Shape(r)
    BY <1>1, <1>2, Zenon DEF Shape
  <1>6. \A q \in Candidates : Len(r.path) <= Len(q)
    BY CheapestShortest, Zenon
  <1>7. p[1] = in.src /\ p[Len(p)] = in.dst
    BY <1>1, CandidateIs, Zenon
  <1>8. ~in.remote_available => \A k \in Legs(p) : can_copy(r.backends[k], p, k)
    BY CheapestExecutable, Zenon
  <1> QED BY <1>0, <1>4, <1>5, <1>6, <1>7, <1>8, ZenonT(40) DEF Good

LEMMA GoodRefusal ==
  ASSUME in \in Input, NEW r, r.status = "refused",
         \/ ~Permitted
         \/ in.gb > 0 /\ in.src = in.dst /\ ~backend_known(SameDomainBackend(in.src))
         \/ in.gb > 0 /\ in.src # in.dst /\ Candidates = {}
  PROVE  Good(r)
  <1>1. in.gb > 0 => in.gb # 0
    BY InputFacts, SMTT(30)
  <1>2. ~Routable
    BY <1>1, RoutableIs, Zenon
  <1>3. "found" # "refused"
    BY SMT
  <1> QED BY <1>2, <1>3, Zenon DEF Good

\* The answer of plan(), whichever branch gives it.
LEMMA GoodAnswer ==
  ASSUME in \in Input, PlanRoute
  PROVE  Good(result')
  <1>1. PICK r : r = result'
    BY Zenon
  <1>2. CASE PlanEmpty
    <2>1. Permitted /\ in.gb = 0 /\ r.status = "found" /\ r.path = <<in.src, in.dst>>
      BY <1>1, <1>2, SMTT(30) DEF PlanEmpty, Found
    <2> QED BY <1>1, <2>1, GoodEmpty, ZenonT(40)
  <1>3. CASE PlanSameDomain
    <2>1. /\ Permitted /\ in.src = in.dst /\ backend_known(SameDomainBackend(in.src))
          /\ r.status = "found" /\ r.path = <<in.src, in.dst>>
          /\ r.backends = <<SameDomainBackend(in.src)>>
      BY <1>1, <1>3, SMTT(30) DEF PlanSameDomain, Found
    <2> QED BY <1>1, <2>1, GoodSame, ZenonT(40)
  <1>4. CASE PlanSearch
    <2>1. PICK p \in Cheapest : Found(p, [k \in Legs(p) |-> Edge(p[k], p[k + 1]).backend])
      BY <1>4, Zenon DEF PlanSearch
    <2>2. Permitted /\ in.gb > 0 /\ in.src # in.dst
      BY <1>4, Zenon DEF PlanSearch
    <2>3. /\ r.status = "found" /\ r.path = p
          /\ r.backends = [k \in Legs(p) |-> Edge(p[k], p[k + 1]).backend]
      BY <1>1, <2>1, SMTT(30) DEF Found
    <2> QED BY <1>1, <2>2, <2>3, GoodSearch, Zenon
  <1>5. CASE PlanFails
    <2>1. r.status = "refused"
      BY <1>1, <1>5, SMTT(30) DEF PlanFails, NoResult
    <2>2. \/ ~Permitted
          \/ in.gb > 0 /\ in.src = in.dst /\ ~backend_known(SameDomainBackend(in.src))
          \/ in.gb > 0 /\ in.src # in.dst /\ Candidates = {}
      BY <1>5, Zenon DEF PlanFails
    <2> QED BY <1>1, <2>1, <2>2, GoodRefusal, Zenon
  <1> QED BY <1>2, <1>3, <1>4, <1>5, Zenon DEF PlanRoute

\* The invariant of the planner: the input is one of the inputs, and the answer, if
\* it has been given, is right for it.
RouteInv == in \in Input /\ Good(result)

\* What is said of an input stays true of it.
LEMMA SameInput ==
  ASSUME in' = in
  PROVE  (Routable' <=> Routable) /\ Candidates' = Candidates
  <1>1. \A b : backend_known(b)' <=> backend_known(b)
    BY Zenon DEF backend_known
  <1>2. \A a, b : feasible_edge(a, b)' <=> feasible_edge(a, b)
    BY Zenon DEF feasible_edge, backend_known
  <1>3. \A p : Candidate(p)' <=> Candidate(p)
    BY Zenon DEF Candidate, feasible_edge, backend_known, FitsPools, Need
  <1>4. Candidates' = Candidates
    BY <1>3, Zenon DEF Candidates
  <1>5. Routable' <=> Routable
    BY Zenon DEF Routable, Permitted, domain_allowed, feasible_edge, backend_known
  <1> QED BY <1>4, <1>5, Zenon

LEMMA SameGood ==
  ASSUME in' = in, Good(result')
  PROVE  Good(result)'
  BY SameInput, Zenon DEF Good, Shape

\* Every step of plan() preserves it.
THEOREM RouteInvariant == RouteSpec => []RouteInv
  <1>1. RouteInit => RouteInv
    <2> SUFFICES ASSUME RouteInit PROVE RouteInv
      BY Zenon
    <2>1. in \in Input /\ result.status = "none"
      BY SMT DEF RouteInit, NoResult
    <2>2. "none" # "found" /\ "none" # "refused"
      BY SMT
    <2> QED BY <2>1, <2>2, Zenon DEF RouteInv, Good
  <1>2. RouteInv /\ [RouteNext]_route_vars => RouteInv'
    <2> SUFFICES ASSUME RouteInv, [RouteNext]_route_vars PROVE RouteInv'
      BY Zenon
    <2>1. in \in Input /\ Good(result)
      BY Zenon DEF RouteInv
    <2>2. CASE PlanRoute
      <3>1. in' = in
        BY <2>2, Zenon DEF PlanRoute
      <3>2. Good(result')
        BY <2>1, <2>2, GoodAnswer, Zenon
      <3>3. Good(result)'
        BY <3>1, <3>2, SameGood, Zenon
      <3> QED BY <2>1, <3>1, <3>3, Zenon DEF RouteInv, Input
    <2>3. CASE UNCHANGED route_vars
      <3>1. in' = in /\ result' = result
        BY <2>3, Zenon DEF route_vars
      <3>2. Good(result')
        BY <2>1, <3>1, Zenon
      <3>3. Good(result)'
        BY <3>1, <3>2, SameGood, ZenonT(40)
      <3> QED BY <2>1, <3>1, <3>3, Zenon DEF RouteInv, Input
    <2> QED BY <2>2, <2>3, Zenon DEF RouteNext, Answered
  <1> QED BY <1>1, <1>2, PTL DEF RouteSpec

\* plan() finds a route exactly when one of at most two legs will do, for all
\* inputs: the depth-first search never misses it, and no longer route is needed.
THEOREM FoundIffRoutableAlways == RouteSpec => []FoundIffRoutable
  <1>1. RouteInv => FoundIffRoutable
    BY Zenon DEF RouteInv, Good, FoundIffRoutable
  <1> QED BY <1>1, RouteInvariant, PTL

\* The ranking of plan() never puts a longer route before a shorter one, whatever
\* the number of bytes.
THEOREM ShortestWinsAlways == RouteSpec => []ShortestWins
  <1>1. RouteInv => ShortestWins
    BY Zenon DEF RouteInv, Good, ShortestWins, Planned
  <1> QED BY <1>1, RouteInvariant, PTL

\* run_leg() never meets a leg of the chosen route that its backend cannot copy.
THEOREM BestExecutableAlways == RouteSpec => []BestExecutable
  <1>1. RouteInv => BestExecutable
    BY Zenon DEF RouteInv, Good, BestExecutable, Planned
  <1> QED BY <1>1, RouteInvariant, PTL
=============================================================================
