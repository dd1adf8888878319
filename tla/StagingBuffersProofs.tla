------------------------ MODULE StagingBuffersProofs ------------------------
(***************************************************************************)
(* Facts about staging pools as values: the sum of the bytes live at a set *)
(* of addresses, and what each critical section does to the fields of a    *)
(* pool.  The proofs about StagingPool and Runtime rest on them.           *)
(***************************************************************************)
EXTENDS StagingBuffers, FiniteSetTheorems, WellFoundedInduction, TLAPS

-----------------------------------------------------------------------------
(* Induction, as a statement about sets.                                   *)

\* A set of numbers that is closed under successor holds them all.
LEMMA NatClosed ==
  ASSUME NEW T, 0 \in T, \A n \in Nat : n \in T => n + 1 \in T
  PROVE  Nat \subseteq T
<1>. DEFINE Bad == {n \in Nat : n \notin T}
<1>. SUFFICES ASSUME Bad # {} PROVE FALSE
  OBVIOUS
<1>1. PICK m \in Bad : \A k \in Bad : ~ (<<k, m>> \in OpToRel(<, Nat))
  <2>1. Bad \subseteq Nat
    OBVIOUS
  <2>. HIDE DEF Bad
  <2>. QED
    BY <2>1, NatLessThanWellFounded, WFMin, Zenon
<1>2. m \in Nat /\ m \notin T /\ m # 0
  OBVIOUS
<1>3. m - 1 \in Nat /\ m - 1 < m
  BY <1>2
<1>4. m - 1 \notin Bad
  <2>. HIDE DEF Bad
  <2>. QED
    BY <1>1, <1>2, <1>3, Zenon DEF OpToRel
<1>5. (m - 1) + 1 \in T
  BY <1>3, <1>4
<1>. QED
  BY <1>2, <1>5

\* What holds of a set when it holds of the set without any one of its
\* elements, holds of every finite set.
LEMMA SubsetsClosed ==
  ASSUME NEW S, IsFiniteSet(S), NEW Good,
         \A s \in SUBSET S : (\A x \in s : s \ {x} \in Good) => s \in Good
  PROVE  \A s \in SUBSET S : s \in Good
<1>. DEFINE Upto == {n \in Nat : \A s \in SUBSET S : Cardinality(s) = n => s \in Good}
<1>1. \A s \in SUBSET S : IsFiniteSet(s) /\ Cardinality(s) \in Nat
  BY FS_Subset, FS_CardinalityType
<1>2. 0 \in Upto
  <2>1. \A s \in SUBSET S : Cardinality(s) = 0 => s = {}
    BY <1>1, FS_EmptySet
  <2>. QED
    BY <2>1
<1>3. ASSUME NEW n \in Nat, n \in Upto PROVE n + 1 \in Upto
  <2>. SUFFICES ASSUME NEW s \in SUBSET S, Cardinality(s) = n + 1 PROVE s \in Good
    OBVIOUS
  <2>. SUFFICES ASSUME NEW x \in s PROVE s \ {x} \in Good
    OBVIOUS
  <2>1. Cardinality(s \ {x}) = n
    BY <1>1, FS_RemoveElement
  <2>. QED
    BY <2>1, <1>3
<1>4. Nat \subseteq Upto
  <2>. HIDE DEF Upto
  <2>. QED
    BY <1>2, <1>3, NatClosed
<1>. QED
  BY <1>1, <1>4
-----------------------------------------------------------------------------
(* The sum is well defined.                                                *)

Pick(s) == CHOOSE a \in s : TRUE

\* g satisfies the equation of the fold on the sets in D.
Unfolds(g, heap, D) ==
  g = [s \in D |-> IF s = {} THEN 0 ELSE heap[Pick(s)] + g[s \ {Pick(s)}]]

\* The sum unfolds a function that the fold chooses.
LEMMA BytesChosen ==
  ASSUME NEW heap, NEW S
  PROVE  BytesAt(heap, S) = (CHOOSE g : Unfolds(g, heap, SUBSET S))[S]
BY DEF BytesAt, MapThenFoldSet, Unfolds, Pick

\* The next address of the sum is one of the set.
LEMMA PickIn == \A s : s # {} => Pick(s) \in s
BY DEF Pick

\* A function that unfolds the sum exists.
LEMMA SomeUnfolds ==
  ASSUME NEW heap, NEW S, IsFiniteSet(S)
  PROVE  \E g : Unfolds(g, heap, SUBSET S)
<1>. DEFINE D(n) == {s \in SUBSET S : Cardinality(s) <= n}
            T == {n \in Nat : \E g : Unfolds(g, heap, D(n))}
<1>1. \A s \in SUBSET S : IsFiniteSet(s) /\ Cardinality(s) \in Nat
  BY FS_Subset, FS_CardinalityType
<1>2. 0 \in T
  <2>. DEFINE g == [s \in D(0) |-> 0]
  <2>1. \A s \in D(0) : s = {}
    BY <1>1, FS_EmptySet
  <2>2. Unfolds(g, heap, D(0))
    BY <2>1 DEF Unfolds
  <2>. QED
    BY <2>2, Zenon
<1>3. ASSUME NEW n \in Nat, n \in T PROVE n + 1 \in T
  <2>1. PICK g : Unfolds(g, heap, D(n))
    BY <1>3
  <2>. DEFINE h == [s \in D(n + 1) |-> IF s = {} THEN 0 ELSE heap[Pick(s)] + g[s \ {Pick(s)}]]
  <2>2. \A s \in D(n + 1) : s # {} => s \ {Pick(s)} \in D(n)
    BY <1>1, PickIn, FS_RemoveElement
  <2>3. D(n) \subseteq D(n + 1)
    BY <1>1
  <2>4. \A r \in D(n) : g[r] = IF r = {} THEN 0 ELSE heap[Pick(r)] + g[r \ {Pick(r)}]
    <3>. HIDE DEF D
    <3>. QED
      BY <2>1, Zenon DEF Unfolds
  <2>. HIDE DEF D
  <2>5. \A r \in D(n) : h[r] = g[r]
    BY <2>3, <2>4
  <2>6. Unfolds(h, heap, D(n + 1))
    BY <2>2, <2>5, Zenon DEF Unfolds
  <2>. HIDE DEF h
  <2>. QED
    BY <2>6
<1>4. Nat \subseteq T
  <2>. HIDE DEF T
  <2>. QED
    BY <1>2, <1>3, NatClosed
<1>5. Cardinality(S) \in T
  BY <1>1, <1>4, Zenon
<1>6. D(Cardinality(S)) = SUBSET S
  BY <1>1, FS_Subset
<1>. QED
  BY <1>5, <1>6, Zenon

-----------------------------------------------------------------------------
(* The sum.                                                                *)

\* No addresses hold no bytes.
LEMMA BytesEmpty == ASSUME NEW heap PROVE BytesAt(heap, {}) = 0
<1>1. PICK g : Unfolds(g, heap, SUBSET {})
  BY SomeUnfolds, FS_EmptySet, Zenon
<1>2. Unfolds((CHOOSE k : Unfolds(k, heap, SUBSET {})), heap, SUBSET {})
  BY <1>1, Zenon
<1>3. (CHOOSE k : Unfolds(k, heap, SUBSET {}))[{}] = 0
  BY <1>2, Zenon DEF Unfolds
<1>. QED
  BY <1>3, BytesChosen, Zenon

\* The sum takes out one address after the other.
LEMMA BytesPicked ==
  ASSUME NEW heap, NEW S, IsFiniteSet(S), S # {}
  PROVE  BytesAt(heap, S) = heap[Pick(S)] + BytesAt(heap, S \ {Pick(S)})
<1>. DEFINE R == S \ {Pick(S)}
            g == CHOOSE k : Unfolds(k, heap, SUBSET S)
            h == CHOOSE k : Unfolds(k, heap, SUBSET R)
<1>1. IsFiniteSet(R) /\ R \in SUBSET S
  BY FS_Subset
<1>2. Unfolds(g, heap, SUBSET S)
  BY SomeUnfolds, Zenon
<1>3. Unfolds(h, heap, SUBSET R)
  BY <1>1, SomeUnfolds, Zenon
<1>4. BytesAt(heap, S) = g[S] /\ BytesAt(heap, R) = h[R]
  BY BytesChosen, Zenon
<1>. HIDE DEF g, h
<1>5. g[S] = heap[Pick(S)] + g[R]
  BY <1>2, Zenon DEF Unfolds
<1>. HIDE DEF R
<1>. DEFINE Good == {s \in SUBSET R : g[s] = h[s]}
<1>6. ASSUME NEW s \in SUBSET R, \A x \in s : s \ {x} \in Good PROVE s \in Good
  <2>0. s \in SUBSET S
    BY <1>1
  <2>1. g[s] = IF s = {} THEN 0 ELSE heap[Pick(s)] + g[s \ {Pick(s)}]
    BY <1>2, <2>0, Zenon DEF Unfolds
  <2>2. h[s] = IF s = {} THEN 0 ELSE heap[Pick(s)] + h[s \ {Pick(s)}]
    BY <1>3, Zenon DEF Unfolds
  <2>3. s # {} => g[s \ {Pick(s)}] = h[s \ {Pick(s)}]
    BY <1>6, PickIn
  <2>. QED
    BY <2>1, <2>2, <2>3
<1>7. \A s \in SUBSET R : s \in Good
  <2>. HIDE DEF Good
  <2>. QED
    BY <1>1, <1>6, SubsetsClosed, Zenon
<1>8. g[R] = h[R]
  BY <1>7
<1>. QED
  BY <1>4, <1>5, <1>8 DEF R

\* It is a number.
LEMMA BytesNat ==
  ASSUME NEW heap, NEW S, IsFiniteSet(S), \A a \in S : heap[a] \in Nat
  PROVE  BytesAt(heap, S) \in Nat
<1>. DEFINE Good == {s \in SUBSET S : BytesAt(heap, s) \in Nat}
<1>1. ASSUME NEW s \in SUBSET S, \A x \in s : s \ {x} \in Good PROVE s \in Good
  <2>1. CASE s = {}
    BY <2>1, BytesEmpty
  <2>2. CASE s # {}
    <3>1. IsFiniteSet(s) /\ Pick(s) \in s
      BY <2>2, FS_Subset, PickIn
    <3>2. BytesAt(heap, s) = heap[Pick(s)] + BytesAt(heap, s \ {Pick(s)})
      BY <2>2, <3>1, BytesPicked
    <3>. QED
      BY <1>1, <3>1, <3>2
  <2>. QED
    BY <2>1, <2>2
<1>2. \A s \in SUBSET S : s \in Good
  <2>. HIDE DEF Good
  <2>. QED
    BY <1>1, SubsetsClosed, Zenon
<1>. QED
  BY <1>2

\* Any address may be counted first.
LEMMA BytesSplit ==
  ASSUME NEW heap, NEW S, IsFiniteSet(S), \A a \in S : heap[a] \in Nat, NEW y \in S
  PROVE  BytesAt(heap, S) = heap[y] + BytesAt(heap, S \ {y})
<1>. DEFINE Good == {s \in SUBSET S : \A x \in s :
                       BytesAt(heap, s) = heap[x] + BytesAt(heap, s \ {x})}
<1>1. ASSUME NEW s \in SUBSET S, \A x \in s : s \ {x} \in Good PROVE s \in Good
  <2>. SUFFICES ASSUME NEW x \in s
                PROVE  BytesAt(heap, s) = heap[x] + BytesAt(heap, s \ {x})
    OBVIOUS
  <2>. DEFINE p == Pick(s)
  <2>1. IsFiniteSet(s) /\ p \in s
    BY FS_Subset, PickIn
  <2>2. BytesAt(heap, s) = heap[p] + BytesAt(heap, s \ {p})
    BY <2>1, BytesPicked
  <2>. HIDE DEF p
  <2>3. CASE x = p
    BY <2>2, <2>3
  <2>4. CASE x # p
    <3>1. BytesAt(heap, s \ {p}) = heap[x] + BytesAt(heap, (s \ {p}) \ {x})
      BY <1>1, <2>1, <2>4
    <3>2. BytesAt(heap, s \ {x}) = heap[p] + BytesAt(heap, (s \ {x}) \ {p})
      BY <1>1, <2>1, <2>4
    <3>3. (s \ {p}) \ {x} = (s \ {x}) \ {p}
      OBVIOUS
    <3>4. BytesAt(heap, (s \ {p}) \ {x}) \in Nat
      <4>1. IsFiniteSet((s \ {p}) \ {x}) /\ (s \ {p}) \ {x} \subseteq S
        BY FS_Subset
      <4>. QED
        BY <4>1, BytesNat
    <3>5. heap[x] \in Nat /\ heap[p] \in Nat
      BY <2>1
    <3>. QED
      BY <2>2, <3>1, <3>2, <3>3, <3>4, <3>5
  <2>. QED
    BY <2>3, <2>4
<1>2. \A s \in SUBSET S : s \in Good
  <2>. HIDE DEF Good
  <2>. QED
    BY <1>1, SubsetsClosed, Zenon
<1>. QED
  BY <1>2

\* It depends on what is at the addresses only.
LEMMA BytesSame ==
  ASSUME NEW h, NEW k, NEW S, IsFiniteSet(S), \A a \in S : h[a] = k[a]
  PROVE  BytesAt(h, S) = BytesAt(k, S)
<1>. DEFINE Good == {s \in SUBSET S : BytesAt(h, s) = BytesAt(k, s)}
<1>1. ASSUME NEW s \in SUBSET S, \A x \in s : s \ {x} \in Good PROVE s \in Good
  <2>1. CASE s = {}
    BY <2>1, BytesEmpty
  <2>2. CASE s # {}
    <3>1. IsFiniteSet(s) /\ Pick(s) \in s
      BY <2>2, FS_Subset, PickIn
    <3>2. BytesAt(h, s) = h[Pick(s)] + BytesAt(h, s \ {Pick(s)})
      BY <2>2, <3>1, BytesPicked
    <3>3. BytesAt(k, s) = k[Pick(s)] + BytesAt(k, s \ {Pick(s)})
      BY <2>2, <3>1, BytesPicked
    <3>. QED
      BY <1>1, <3>1, <3>2, <3>3
  <2>. QED
    BY <2>1, <2>2
<1>2. \A s \in SUBSET S : s \in Good
  <2>. HIDE DEF Good
  <2>. QED
    BY <1>1, SubsetsClosed, Zenon
<1>. QED
  BY <1>2

\* More addresses have no fewer bytes.
LEMMA BytesMonotonic ==
  ASSUME NEW heap, NEW S, IsFiniteSet(S), \A a \in S : heap[a] \in Nat, NEW U \in SUBSET S
  PROVE  BytesAt(heap, U) <= BytesAt(heap, S)
<1>. DEFINE Good == {s \in SUBSET S : \A u \in SUBSET s : BytesAt(heap, u) <= BytesAt(heap, s)}
<1>1. ASSUME NEW s \in SUBSET S, \A x \in s : s \ {x} \in Good PROVE s \in Good
  <2>. SUFFICES ASSUME NEW u \in SUBSET s PROVE BytesAt(heap, u) <= BytesAt(heap, s)
    OBVIOUS
  <2>1. IsFiniteSet(s)
    BY FS_Subset
  <2>2. BytesAt(heap, s) \in Nat
    BY <2>1, BytesNat
  <2>3. CASE u = s
    BY <2>2, <2>3
  <2>4. CASE u # s
    <3>1. PICK x \in s : x \notin u
      BY <2>4
    <3>2. BytesAt(heap, u) <= BytesAt(heap, s \ {x})
      BY <1>1, <3>1
    <3>3. BytesAt(heap, s) = heap[x] + BytesAt(heap, s \ {x})
      BY <2>1, BytesSplit
    <3>4. IsFiniteSet(s \ {x}) /\ IsFiniteSet(u)
      BY <2>1, FS_Subset
    <3>5. BytesAt(heap, s \ {x}) \in Nat /\ BytesAt(heap, u) \in Nat /\ heap[x] \in Nat
      BY <3>4, BytesNat
    <3>. QED
      BY <3>2, <3>3, <3>5
  <2>. QED
    BY <2>3, <2>4
<1>2. \A s \in SUBSET S : s \in Good
  <2>. HIDE DEF Good
  <2>. QED
    BY <1>1, SubsetsClosed, Zenon
<1>. QED
  BY <1>2

\* Nothing live, no bytes.
LEMMA BytesZero ==
  ASSUME NEW heap, NEW S, IsFiniteSet(S), \A a \in S : heap[a] = 0
  PROVE  BytesAt(heap, S) = 0
<1>. DEFINE Good == {s \in SUBSET S : BytesAt(heap, s) = 0}
<1>1. ASSUME NEW s \in SUBSET S, \A x \in s : s \ {x} \in Good PROVE s \in Good
  <2>1. CASE s = {}
    BY <2>1, BytesEmpty
  <2>2. CASE s # {}
    <3>1. IsFiniteSet(s) /\ Pick(s) \in s
      BY <2>2, FS_Subset, PickIn
    <3>2. BytesAt(heap, s) = heap[Pick(s)] + BytesAt(heap, s \ {Pick(s)})
      BY <2>2, <3>1, BytesPicked
    <3>. QED
      BY <1>1, <3>1, <3>2
  <2>. QED
    BY <2>1, <2>2
<1>2. \A s \in SUBSET S : s \in Good
  <2>. HIDE DEF Good
  <2>. QED
    BY <1>1, SubsetsClosed, Zenon
<1>. QED
  BY <1>2
-----------------------------------------------------------------------------
\* Unsigned byte counters wrap into their range.
LEMMA WrapRange == \A x \in Int : x % ByteWrap \in 0 .. ByteWrap - 1
  BY StagingConstants

\* Buffers are not empty.
LEMMA SizeRange == \A n \in Sizes : n \in Nat /\ n > 0
  BY StagingConstants

\* The fields of a pool.
LEMMA PoolFields ==
  ASSUME NEW p \in Pool
  PROVE  /\ p.heap \in [Addresses -> Sizes \cup {0}]
         /\ p.free \in [Buffer -> Nat]
         /\ p.allocated \in 0 .. ByteWrap - 1
         /\ p.in_use \in 0 .. ByteWrap - 1
         /\ p.high_water \in 0 .. ByteWrap - 1
  BY DEF Pool

\* The fields of a buffer.
LEMMA BufferFields == \A b \in Buffer : b.data \in Addresses /\ b.size \in Sizes
  BY DEF Buffer

\* What each operation on the pool does, field by field.
LEMMA ReuseFields ==
  ASSUME NEW p \in Pool, NEW n, NEW b \in Reusable(p, n)
  PROVE  /\ Reuse(p, b) \in Pool
         /\ Reuse(p, b).in_use = (p.in_use + b.size) % ByteWrap
         /\ Reuse(p, b).heap = p.heap
         /\ Reuse(p, b).free = [p.free EXCEPT ![b] = @ - 1]
         /\ Reuse(p, b).allocated = p.allocated
         /\ Reuse(p, b).high_water = p.high_water
  <1>1. b \in Buffer /\ b.size \in Int /\ p.free[b] > 0
    BY BufferFields, SizeRange DEF Reusable
  <1>2. [p.free EXCEPT ![b] = @ - 1] \in [Buffer -> Nat]
    BY <1>1, PoolFields
  <1>3. (p.in_use + b.size) % ByteWrap \in 0 .. ByteWrap - 1
    BY <1>1, PoolFields, WrapRange, StagingConstants
  <1> QED BY <1>2, <1>3, Zenon DEF Reuse, Pool

\* A pop takes nothing from the free list but the buffer it hands out.
LEMMA ReuseOthers ==
  ASSUME NEW p \in Pool, NEW n, NEW b \in Reusable(p, n)
  PROVE  /\ Reuse(p, b) \in Pool /\ Reuse(p, b).heap = p.heap
         /\ Reuse(p, b).allocated = p.allocated
         /\ \A x \in Buffer : x # b => Reuse(p, b).free[x] = p.free[x]
  <1>1. /\ Reuse(p, b) \in Pool /\ Reuse(p, b).heap = p.heap
        /\ Reuse(p, b).allocated = p.allocated
        /\ Reuse(p, b).free = [p.free EXCEPT ![b] = @ - 1]
    BY ReuseFields
  <1>2. \A x \in Buffer : x # b => Reuse(p, b).free[x] = p.free[x]
    BY <1>1, PoolFields, SMTT(30)
  <1> QED BY <1>1, <1>2, Zenon

\* What the allocation of new memory does to the fields of the pool.
LEMMA AddFreshFields ==
  ASSUME NEW p \in Pool, NEW n \in Sizes, NEW b \in Fresh(p, n)
  PROVE  /\ AddFresh(p, b) \in Pool
         /\ AddFresh(p, b).in_use = (p.in_use + n) % ByteWrap
         /\ AddFresh(p, b).heap = [p.heap EXCEPT ![b.data] = b.size]
         /\ AddFresh(p, b).free = p.free
         /\ AddFresh(p, b).allocated = (p.allocated + n) % ByteWrap
         /\ AddFresh(p, b).high_water =
              IF (p.allocated + n) % ByteWrap > p.high_water
              THEN (p.allocated + n) % ByteWrap ELSE p.high_water
  <1> DEFINE total == (p.allocated + b.size) % ByteWrap
             used == (p.in_use + b.size) % ByteWrap
  <1>1. b \in Buffer /\ b.size = n /\ b.size \in Int /\ b.size \in Sizes
    BY SizeRange DEF Fresh
  <1>2. total \in 0 .. ByteWrap - 1 /\ used \in 0 .. ByteWrap - 1
    BY <1>1, PoolFields, WrapRange, StagingConstants
  <1>3. [p.heap EXCEPT ![b.data] = b.size] \in [Addresses -> Sizes \cup {0}]
    BY <1>1, PoolFields, Zenon
  <1> HIDE DEF total, used
  <1>4. AddFresh(p, b) = [p EXCEPT !.heap = [p.heap EXCEPT ![b.data] = b.size],
                                   !.allocated = total,
                                   !.high_water = IF total > p.high_water
                                                  THEN total ELSE p.high_water,
                                   !.in_use = used]
    BY DEF AddFresh, total, used, Pool
  <1>5. AddFresh(p, b) \in Pool
    BY <1>2, <1>3, <1>4, Zenon DEF Pool
  <1> QED BY <1>1, <1>4, <1>5 DEF Pool, total, used

\* New memory adds its size to what is live.
LEMMA AddFreshBytes ==
  ASSUME NEW p \in Pool, NEW n \in Sizes, NEW b \in Fresh(p, n)
  PROVE  /\ BytesAt(AddFresh(p, b).heap, Addresses) = n + BytesAt(p.heap, Addresses)
         /\ BytesAt(p.heap, Addresses) \in Nat
  <1>1. b \in Buffer /\ b.size = n /\ p.heap[b.data] = 0 /\ b.data \in Addresses
    BY BufferFields DEF Fresh
  <1>2. PICK heap : heap = AddFresh(p, b).heap
    BY Zenon
  <1>3. heap = [p.heap EXCEPT ![b.data] = n]
    BY <1>1, <1>2, AddFreshFields
  <1>4. /\ heap[b.data] = n
        /\ \A a \in Addresses : a # b.data => heap[a] = p.heap[a]
        /\ \A a \in Addresses : p.heap[a] \in Nat /\ heap[a] \in Nat
    BY <1>1, <1>3, PoolFields, SizeRange
  <1>5. IsFiniteSet(Addresses) /\ IsFiniteSet(Addresses \ {b.data})
    BY StagingConstants, FS_Subset
  <1>6. /\ BytesAt(heap, Addresses) = heap[b.data] + BytesAt(heap, Addresses \ {b.data})
        /\ BytesAt(p.heap, Addresses) = p.heap[b.data] + BytesAt(p.heap, Addresses \ {b.data})
    BY <1>1, <1>4, <1>5, BytesSplit
  <1>7. BytesAt(heap, Addresses \ {b.data}) = BytesAt(p.heap, Addresses \ {b.data})
    BY <1>4, <1>5, BytesSame
  <1>8. BytesAt(p.heap, Addresses \ {b.data}) \in Nat
    BY <1>4, <1>5, BytesNat
  <1>9. BytesAt(heap, Addresses) = n + BytesAt(p.heap, Addresses)
        /\ BytesAt(p.heap, Addresses) \in Nat
    BY <1>1, <1>4, <1>6, <1>7, <1>8
  <1> QED BY <1>2, <1>9, Zenon

\* What release() does to the fields of the pool.
LEMMA ReleaseFields ==
  ASSUME NEW p \in Pool, NEW b \in Buffer
  PROVE  /\ Release(p, b) \in Pool
         /\ Release(p, b).in_use = (p.in_use - b.size) % ByteWrap
         /\ Release(p, b).heap = p.heap
         /\ Release(p, b).free = [p.free EXCEPT ![b] = @ + 1]
         /\ Release(p, b).allocated = p.allocated
         /\ Release(p, b).high_water = p.high_water
  <1>1. b.size \in Int
    BY BufferFields, SizeRange
  <1>2. [p.free EXCEPT ![b] = @ + 1] \in [Buffer -> Nat]
    BY PoolFields
  <1>3. (p.in_use - b.size) % ByteWrap \in 0 .. ByteWrap - 1
    BY <1>1, PoolFields, WrapRange, StagingConstants
  <1> QED BY <1>2, <1>3, Zenon DEF Release, Pool

\* What drain() does to the fields of the pool.
LEMMA DrainFields ==
  ASSUME NEW p \in Pool
  PROVE  /\ Drain(p) \in Pool
         /\ \A a \in Addresses :
              Drain(p).heap[a] = IF \E b \in Buffer : b.data = a /\ p.free[b] > 0
                                 THEN 0 ELSE p.heap[a]
         /\ Drain(p).free = [b \in Buffer |-> 0]
         /\ Drain(p).allocated = 0
         /\ Drain(p).in_use = 0
         /\ Drain(p).high_water = p.high_water
  <1> DEFINE heap == [a \in Addresses |->
                        IF \E b \in Buffer : b.data = a /\ p.free[b] > 0
                        THEN 0 ELSE p.heap[a]]
             free == [b \in Buffer |-> 0]
  <1>1. heap \in [Addresses -> Sizes \cup {0}] /\ free \in [Buffer -> Nat]
    BY PoolFields
  <1>2. 0 \in 0 .. ByteWrap - 1
    BY StagingConstants
  <1>3. \A a \in Addresses : heap[a] = IF \E b \in Buffer : b.data = a /\ p.free[b] > 0
                                       THEN 0 ELSE p.heap[a]
    BY Zenon
  <1> HIDE DEF heap
  <1>4. Drain(p) = [p EXCEPT !.heap = heap, !.free = free, !.allocated = 0, !.in_use = 0]
    BY Zenon DEF Drain, heap
  <1>5. Drain(p) \in Pool
    BY <1>1, <1>2, <1>4, Zenon DEF Pool
  <1>6. /\ Drain(p).heap = heap /\ Drain(p).free = free
        /\ Drain(p).allocated = 0 /\ Drain(p).in_use = 0
        /\ Drain(p).high_water = p.high_water
    BY <1>4 DEF Pool
  <1> QED BY <1>3, <1>5, <1>6, Zenon

\* Nothing is live in a new pool.
LEMMA EmptyFields ==
  /\ EmptyPool \in Pool
  /\ EmptyPool.allocated = 0 /\ EmptyPool.in_use = 0 /\ EmptyPool.high_water = 0
  /\ \A a \in Addresses : EmptyPool.heap[a] = 0
  /\ \A b \in Buffer : EmptyPool.free[b] = 0
  <1>1. 0 \in 0 .. ByteWrap - 1
    BY StagingConstants
  <1>2. EmptyPool \in Pool
    BY <1>1 DEF EmptyPool, Pool
  <1> QED BY <1>2 DEF EmptyPool
-----------------------------------------------------------------------------
(* The loops that give a list of buffers back, unfolded the same way.      *)

\* The pools after one buffer has been given back.
Given(qs, e) == [qs EXCEPT ![e.pool] = Release(@, e.buf)]

Unwinds(g, ps, bufs, D) ==
  g = [s \in D |-> IF s = {} THEN ps ELSE Given(g[s \ {Pick(s)}], bufs[Pick(s)])]

\* The release loop unfolds a function that the fold chooses.
LEMMA ReleaseChosen ==
  ASSUME NEW ps, NEW bufs, NEW S
  PROVE  ReleaseAt(ps, bufs, S) = (CHOOSE g : Unwinds(g, ps, bufs, SUBSET S))[S]
BY DEF ReleaseAt, MapThenFoldSet, Unwinds, Pick, Given

\* A function that unfolds the release loop exists.
LEMMA SomeUnwinds ==
  ASSUME NEW ps, NEW bufs, NEW S, IsFiniteSet(S)
  PROVE  \E g : Unwinds(g, ps, bufs, SUBSET S)
<1>. DEFINE D(n) == {s \in SUBSET S : Cardinality(s) <= n}
            T == {n \in Nat : \E g : Unwinds(g, ps, bufs, D(n))}
<1>1. \A s \in SUBSET S : IsFiniteSet(s) /\ Cardinality(s) \in Nat
  BY FS_Subset, FS_CardinalityType
<1>2. 0 \in T
  <2>. DEFINE g == [s \in D(0) |-> ps]
  <2>1. \A s \in D(0) : s = {}
    BY <1>1, FS_EmptySet
  <2>2. Unwinds(g, ps, bufs, D(0))
    BY <2>1 DEF Unwinds
  <2>. QED
    BY <2>2, Zenon
<1>3. ASSUME NEW n \in Nat, n \in T PROVE n + 1 \in T
  <2>1. PICK g : Unwinds(g, ps, bufs, D(n))
    BY <1>3
  <2>. DEFINE h == [s \in D(n + 1) |-> IF s = {} THEN ps ELSE Given(g[s \ {Pick(s)}], bufs[Pick(s)])]
  <2>2. \A s \in D(n + 1) : s # {} => s \ {Pick(s)} \in D(n)
    BY <1>1, PickIn, FS_RemoveElement
  <2>3. D(n) \subseteq D(n + 1)
    BY <1>1
  <2>4. \A r \in D(n) : g[r] = IF r = {} THEN ps ELSE Given(g[r \ {Pick(r)}], bufs[Pick(r)])
    <3>. HIDE DEF D
    <3>. QED
      BY <2>1, Zenon DEF Unwinds
  <2>. HIDE DEF D
  <2>5. \A r \in D(n) : h[r] = g[r]
    BY <2>3, <2>4
  <2>6. Unwinds(h, ps, bufs, D(n + 1))
    BY <2>2, <2>5, Zenon DEF Unwinds
  <2>. HIDE DEF h
  <2>. QED
    BY <2>6
<1>4. Nat \subseteq T
  <2>. HIDE DEF T
  <2>. QED
    BY <1>2, <1>3, NatClosed
<1>5. Cardinality(S) \in T
  BY <1>1, <1>4, Zenon
<1>6. D(Cardinality(S)) = SUBSET S
  BY <1>1, FS_Subset
<1>. QED
  BY <1>5, <1>6, Zenon

\* Releasing nothing changes nothing.
LEMMA ReleaseNone == ASSUME NEW ps, NEW bufs PROVE ReleaseAt(ps, bufs, {}) = ps
<1>1. PICK g : Unwinds(g, ps, bufs, SUBSET {})
  BY SomeUnwinds, FS_EmptySet, Zenon
<1>2. Unwinds((CHOOSE k : Unwinds(k, ps, bufs, SUBSET {})), ps, bufs, SUBSET {})
  BY <1>1, Zenon
<1>3. (CHOOSE k : Unwinds(k, ps, bufs, SUBSET {}))[{}] = ps
  BY <1>2, Zenon DEF Unwinds
<1>. QED
  BY <1>3, ReleaseChosen, Zenon

\* The release loop gives back one buffer after the other.
LEMMA ReleasePicked ==
  ASSUME NEW ps, NEW bufs, NEW S, IsFiniteSet(S), S # {}
  PROVE  ReleaseAt(ps, bufs, S) = Given(ReleaseAt(ps, bufs, S \ {Pick(S)}), bufs[Pick(S)])
<1>. DEFINE R == S \ {Pick(S)}
            g == CHOOSE k : Unwinds(k, ps, bufs, SUBSET S)
            h == CHOOSE k : Unwinds(k, ps, bufs, SUBSET R)
<1>1. IsFiniteSet(R) /\ R \in SUBSET S
  BY FS_Subset
<1>2. Unwinds(g, ps, bufs, SUBSET S)
  BY SomeUnwinds, Zenon
<1>3. Unwinds(h, ps, bufs, SUBSET R)
  BY <1>1, SomeUnwinds, Zenon
<1>4. ReleaseAt(ps, bufs, S) = g[S] /\ ReleaseAt(ps, bufs, R) = h[R]
  BY ReleaseChosen, Zenon
<1>. HIDE DEF g, h
<1>5. g[S] = Given(g[R], bufs[Pick(S)])
  BY <1>2, Zenon DEF Unwinds
<1>. HIDE DEF R
<1>. DEFINE Good == {s \in SUBSET R : g[s] = h[s]}
<1>6. ASSUME NEW s \in SUBSET R, \A x \in s : s \ {x} \in Good PROVE s \in Good
  <2>0. s \in SUBSET S
    BY <1>1
  <2>1. g[s] = IF s = {} THEN ps ELSE Given(g[s \ {Pick(s)}], bufs[Pick(s)])
    BY <1>2, <2>0, Zenon DEF Unwinds
  <2>2. h[s] = IF s = {} THEN ps ELSE Given(h[s \ {Pick(s)}], bufs[Pick(s)])
    BY <1>3, Zenon DEF Unwinds
  <2>3. s # {} => g[s \ {Pick(s)}] = h[s \ {Pick(s)}]
    BY <1>6, PickIn
  <2>. QED
    BY <2>1, <2>2, <2>3
<1>7. \A s \in SUBSET R : s \in Good
  <2>. HIDE DEF Good
  <2>. QED
    BY <1>1, <1>6, SubsetsClosed, Zenon
<1>8. g[R] = h[R]
  BY <1>7
<1>. QED
  BY <1>4, <1>5, <1>8 DEF R


\* Giving back changes neither what is live nor what is allocated, takes nothing
\* off the free lists and puts every buffer given back on one.
GivesBack(qs, ps, K, bufs, S) ==
  /\ qs \in [K -> Pool]
  /\ \A k \in K :
       /\ qs[k].heap = ps[k].heap
       /\ qs[k].allocated = ps[k].allocated
       /\ \A b \in Buffer : qs[k].free[b] >= ps[k].free[b]
  /\ \A i \in S : qs[bufs[i].pool].free[bufs[i].buf] > 0

\* After the loop every buffer of the list is on the free list of its pool.
LEMMA ReleaseGivesBack ==
  ASSUME NEW K, NEW ps \in [K -> Pool], NEW bufs, NEW S, IsFiniteSet(S),
         \A i \in S : bufs[i].pool \in K /\ bufs[i].buf \in Buffer
  PROVE  GivesBack(ReleaseAt(ps, bufs, S), ps, K, bufs, S)
<1>. DEFINE Good == {s \in SUBSET S : GivesBack(ReleaseAt(ps, bufs, s), ps, K, bufs, s)}
<1>1. ASSUME NEW s \in SUBSET S, \A x \in s : s \ {x} \in Good PROVE s \in Good
  <2>1. CASE s = {}
    <3>1. \A k \in K : \A b \in Buffer : ps[k].free[b] \in Nat
      BY PoolFields
    <3>. QED
      BY <2>1, <3>1, ReleaseNone DEF GivesBack
  <2>2. CASE s # {}
    <3>1. IsFiniteSet(s) /\ Pick(s) \in s
      BY <2>2, FS_Subset, PickIn
    <3>2. PICK qs : qs = ReleaseAt(ps, bufs, s \ {Pick(s)})
      BY Zenon
    <3>3. PICK e : e = bufs[Pick(s)]
      BY Zenon
    <3>4. e.pool \in K /\ e.buf \in Buffer
      BY <3>1, <3>3
    <3>5. GivesBack(qs, ps, K, bufs, s \ {Pick(s)})
      BY <1>1, <3>1, <3>2, Zenon
    <3>6. ReleaseAt(ps, bufs, s) = Given(qs, e)
      <4>1. ReleaseAt(ps, bufs, s) = Given(ReleaseAt(ps, bufs, s \ {Pick(s)}), bufs[Pick(s)])
        BY <2>2, <3>1, ReleasePicked
      <4>. QED
        BY <4>1, <3>2, <3>3, Zenon
    <3>7. qs \in [K -> Pool] /\ qs[e.pool] \in Pool
      BY <3>4, <3>5 DEF GivesBack
    <3>8. PICK p : p = Release(qs[e.pool], e.buf)
      BY Zenon
    <3>9. /\ p \in Pool
          /\ p.heap = qs[e.pool].heap
          /\ p.free = [qs[e.pool].free EXCEPT ![e.buf] = @ + 1]
          /\ p.allocated = qs[e.pool].allocated
      BY <3>4, <3>7, <3>8, ReleaseFields, Zenon
    <3>10. \A b \in Buffer : /\ qs[e.pool].free[b] \in Nat
                             /\ p.free[b] \in Nat
                             /\ p.free[b] >= qs[e.pool].free[b]
      BY <3>7, <3>9, PoolFields
    <3>11. p.free[e.buf] > 0
      BY <3>4, <3>7, <3>9, PoolFields
    <3>12. PICK rs : rs = ReleaseAt(ps, bufs, s)
      BY Zenon
    <3>13. /\ rs \in [K -> Pool] /\ rs[e.pool] = p
           /\ \A k \in K : k # e.pool => rs[k] = qs[k]
      <4>1. rs = [qs EXCEPT ![e.pool] = p]
        BY <3>6, <3>8, <3>12, Zenon DEF Given
      <4>. QED
        BY <4>1, <3>4, <3>7, <3>9, Zenon
    <3>14. ASSUME NEW k \in K
           PROVE  /\ rs[k].heap = ps[k].heap
                  /\ rs[k].allocated = ps[k].allocated
                  /\ \A b \in Buffer : rs[k].free[b] >= ps[k].free[b]
      <4>1. CASE k # e.pool
        BY <4>1, <3>5, <3>13 DEF GivesBack
      <4>2. CASE k = e.pool
        <5>1. rs[k].heap = ps[k].heap /\ rs[k].allocated = ps[k].allocated
          BY <4>2, <3>5, <3>9, <3>13 DEF GivesBack
        <5>2. ASSUME NEW b \in Buffer PROVE rs[k].free[b] >= ps[k].free[b]
          <6>1. ps[k].free[b] \in Nat /\ qs[k].free[b] >= ps[k].free[b]
            BY <3>5, PoolFields DEF GivesBack
          <6>. QED
            BY <4>2, <6>1, <3>10, <3>13
        <5>. QED
          BY <5>1, <5>2
      <4>. QED
        BY <4>1, <4>2
    <3>15. ASSUME NEW i \in s PROVE rs[bufs[i].pool].free[bufs[i].buf] > 0
      <4>1. CASE i = Pick(s)
        BY <4>1, <3>3, <3>11, <3>13
      <4>2. CASE i # Pick(s)
        <5>1. /\ bufs[i].pool \in K /\ bufs[i].buf \in Buffer
              /\ qs[bufs[i].pool].free[bufs[i].buf] > 0
          BY <4>2, <3>5 DEF GivesBack
        <5>2. CASE bufs[i].pool = e.pool
          BY <5>1, <5>2, <3>10, <3>13
        <5>. QED
          BY <5>1, <5>2, <3>13
      <4>. QED
        BY <4>1, <4>2
    <3>. QED
      BY <3>12, <3>13, <3>14, <3>15, Zenon DEF GivesBack
  <2>. QED
    BY <2>1, <2>2
<1>2. \A s \in SUBSET S : s \in Good
  <2>. HIDE DEF Good
  <2>. QED
    BY <1>1, SubsetsClosed, Zenon
<1>. QED
  BY <1>2
=============================================================================
