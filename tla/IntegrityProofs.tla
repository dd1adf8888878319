-------------------------- MODULE IntegrityProofs ---------------------------
(***************************************************************************)
(* Proofs about the bytes of a transfer: which of them the chunks move     *)
(* (module ChunkPlan), for every request and every width of the byte       *)
(* counters, and what the digests say of them afterwards (module           *)
(* Integrity), for every content, polynomial and size of the buffers.      *)
(***************************************************************************)
EXTENDS Integrity, SequenceTheorems, WellFoundedInduction, TLAPS

\* Quotient and remainder, as build() uses them to count chunks.
LEMMA DivMod ==
  ASSUME NEW a \in Nat, NEW b \in Nat \ {0}
  PROVE  /\ a \div b \in Nat
         /\ a % b \in 0 .. b - 1
         /\ a = (a \div b) * b + (a % b)
  OBVIOUS

\* Products of byte counts are monotone.
LEMMA MulMonotone ==
  ASSUME NEW a \in Nat, NEW b \in Nat, NEW c \in Nat, a <= b
  PROVE  a * c <= b * c /\ a * c \in Nat
  OBVIOUS

\* A product that stays below the limit passes the overflow test.
LEMMA NoMulOverflow ==
  ASSUME NEW a \in Nat, NEW b \in Nat, a * b <= ByteWrap - 1
  PROVE  ~MulOverflows(a, b)
  <1> SUFFICES ASSUME a # 0, b > (ByteWrap - 1) \div a PROVE FALSE
    BY DEF MulOverflows
  <1> DEFINE m == ByteWrap - 1
             q == m \div a
  <1>1. m \in Nat /\ a \in Nat \ {0}
    BY ChunkConstants
  <1>2. q \in Nat /\ m % a \in 0 .. a - 1 /\ m = q * a + (m % a)
    BY <1>1, DivMod, Zenon
  <1> HIDE DEF m
  <1>3. m % a < a
    BY <1>1, <1>2
  <1> DEFINE x == m % a
  <1>4. x \in Nat /\ x < a /\ m = q * a + x /\ q < b
    BY <1>1, <1>2, <1>3 DEF m
  <1> HIDE DEF q, x
  <1>5. q \in Nat /\ a \in Nat
    BY <1>2 DEF q
  <1>6. (q + 1) * a <= b * a
    BY <1>4, <1>5, MulMonotone
  <1>7. (q + 1) * a = q * a + a /\ b * a = a * b /\ q * a \in Nat
    BY <1>5
  <1>8. a * b <= m
    BY DEF m
  <1>9. b * a \in Nat /\ m \in Nat
    BY <1>1
  <1> QED BY <1>4, <1>5, <1>6, <1>7, <1>8, <1>9

\* A byte count below the limit is not changed by the wrap-around.
LEMMA NoWrap == \A x \in Byte : x % ByteWrap = x
  BY ChunkConstants DEF Byte

\* The fields of a request and of the ranges it resolves to.
LEMMA Fields ==
  ASSUME NEW r \in Request
  PROVE  /\ SrcRange(r) \in ByteRange
         /\ DstRange(r) \in ByteRange
         /\ Bytes(r) \in Byte
         /\ r.min_chunk \in Nat /\ r.max_chunk \in Byte /\ r.preferred \in Byte
         /\ r.alignment \in Nat /\ r.srcsize \in Byte /\ r.dstsize \in Byte
         /\ SrcRange(r).offset \in Nat /\ DstRange(r).offset \in Nat /\ Bytes(r) \in Nat
  <1>1. 0 \in Byte /\ Byte \subseteq Nat
    BY ChunkConstants DEF Byte
  <1>2. SrcRange(r) \in ByteRange
    BY <1>1 DEF SrcRange, Request, ByteRange
  <1>3. Bytes(r) \in Byte
    BY <1>2 DEF Bytes, ByteRange
  <1>4. DstRange(r) \in ByteRange
    BY <1>1, <1>3 DEF DstRange, Request, ByteRange
  <1> QED BY <1>1, <1>2, <1>3, <1>4, Zenon DEF Request, ByteRange

\* The chunk size is a positive byte count.
LEMMA SizePositive ==
  ASSUME NEW r \in Request, Buildable(r)
  PROVE  ChunkSize(r) \in Byte /\ ChunkSize(r) > 0
  <1> DEFINE chunk == Clamp(IF r.preferred = 0 THEN r.min_chunk ELSE r.preferred,
                            r.min_chunk, r.max_chunk)
             base == (chunk \div r.alignment) * r.alignment
             x == IF base = 0 THEN r.alignment ELSE base
  <1>1. /\ r.min_chunk \in Nat /\ r.min_chunk > 0
        /\ r.max_chunk \in Byte /\ r.max_chunk \in Nat /\ r.min_chunk <= r.max_chunk
        /\ r.preferred \in Nat
        /\ r.alignment \in Nat \ {0}
    BY Fields, ChunkConstants DEF Buildable, Byte
  <1>2. chunk \in Nat
    BY <1>1 DEF Clamp
  <1> HIDE DEF chunk
  <1>3. base \in Nat
    BY <1>1, <1>2, DivMod
  <1> HIDE DEF base
  <1>4. x \in Nat
    BY <1>1, <1>3
  <1> HIDE DEF x
  <1>5. ChunkSize(r) = Clamp(x, r.min_chunk, r.max_chunk)
    BY DEF ChunkSize, x, base, chunk
  <1>6. ChunkSize(r) \in Nat /\ ChunkSize(r) > 0 /\ ChunkSize(r) <= r.max_chunk
    BY <1>1, <1>4, <1>5 DEF Clamp
  <1> QED BY <1>1, <1>6, ChunkConstants DEF Byte

\* Where chunk i starts; past the last chunk, where the transfer ends.
Off(p, i) == IF i = p.count THEN p.total ELSE i * p.chunk_size

\* What build() establishes: the full chunks and the tail add up.
LEMMA BuildSums ==
  ASSUME NEW r \in Request, RangesFit(r), Buildable(r), NEW p, p = build(r)
  PROVE  /\ p \in Plan
         /\ p.total = Bytes(r)
         /\ p.source_offset = SrcRange(r).offset
         /\ p.dest_offset = DstRange(r).offset
         /\ p.total = 0 => p.count = 0
         /\ p.total > 0 => \E full \in Nat :
              /\ p.chunk_size > 0
              /\ p.tail < p.chunk_size
              /\ p.total = full * p.chunk_size + p.tail
              /\ p.count = IF p.tail # 0 THEN full + 1 ELSE full
  <1> DEFINE total == Bytes(r)
             size == IF total > 0 THEN ChunkSize(r)
                     ELSE IF r.preferred = 0 THEN r.min_chunk ELSE r.preferred
             tail == IF total > 0 THEN total % size ELSE 0
             full == IF total > 0 THEN total \div size ELSE 0
             count == IF tail # 0 THEN full + 1 ELSE full
  <1>1. p = [total |-> total, source_offset |-> SrcRange(r).offset,
             dest_offset |-> DstRange(r).offset, chunk_size |-> size,
             tail |-> tail, count |-> count]
    BY DEF build
  <1>2. total \in Byte /\ total \in Nat /\ 0 \in Byte /\ Byte \subseteq Nat
    BY Fields, ChunkConstants DEF Byte
  <1>3. size \in Byte /\ (total > 0 => size > 0)
    <2>1. r.min_chunk \in Byte /\ r.preferred \in Byte
      BY DEF Request
    <2> QED BY <2>1, <1>2, SizePositive
  <1> HIDE DEF total, size
  <1>4. ASSUME total > 0
        PROVE  /\ full \in Nat
               /\ tail \in Nat
               /\ tail < size
               /\ total = full * size + tail
               /\ size \in Nat
               /\ size > 0
    <2>1. size \in Nat \ {0}
      BY <1>2, <1>3, <1>4
    <2>2. /\ total \div size \in Nat
          /\ total % size \in 0 .. size - 1
          /\ total = (total \div size) * size + (total % size)
      BY <2>1, <1>2, DivMod, Zenon
    <2> QED BY <2>1, <2>2, <1>4
  <1>5. ASSUME total > 0 PROVE count \in Byte /\ tail \in Byte
    <2>1. full <= full * size /\ full * size \in Nat
      <3> DEFINE f == full
      <3>1. f \in Nat /\ size \in Nat /\ size >= 1
        BY <1>4, <1>5
      <3> HIDE DEF f
      <3>2. 1 * f <= size * f /\ 1 * f = f /\ size * f = f * size /\ size * f \in Nat
        BY <3>1, MulMonotone
      <3> QED BY <3>1, <3>2 DEF f
    <2> DEFINE f == full
               u == tail
    <2>2. f \in Nat /\ u \in Nat /\ f <= f * size /\ f * size \in Nat /\ total = f * size + u
      BY <2>1, <1>4, <1>5
    <2>3. count = IF u # 0 THEN f + 1 ELSE f
      OBVIOUS
    <2> HIDE DEF f, u
    <2>4. /\ (IF u # 0 THEN f + 1 ELSE f) \in Nat /\ (IF u # 0 THEN f + 1 ELSE f) <= total
          /\ u <= total
      BY <2>2
    <2>5. \A x \in Nat : x <= total => x \in Byte
      BY <1>2, ChunkConstants DEF Byte
    <2>6. (IF u # 0 THEN f + 1 ELSE f) \in Byte /\ u \in Byte
      BY <2>2, <2>4, <2>5
    <2> QED BY <2>3, <2>6 DEF u
  <1>6. ~ (total > 0) => total = 0 /\ count = 0 /\ tail = 0
    BY <1>2
  <1>7. count \in Byte /\ tail \in Byte
    BY <1>2, <1>5, <1>6
  <1>8. SrcRange(r).offset \in Byte /\ DstRange(r).offset \in Byte
    BY Fields DEF ByteRange
  <1> HIDE DEF tail, full
  <1>9. total > 0 => /\ full \in Nat /\ size > 0 /\ tail < size
                     /\ total = full * size + tail
    BY <1>4
  <1>10. count = IF tail # 0 THEN full + 1 ELSE full
    OBVIOUS
  <1> HIDE DEF count
  <1>11. p \in Plan
    BY <1>1, <1>2, <1>3, <1>7, <1>8 DEF Plan
  <1>12. /\ p.total = total /\ p.chunk_size = size /\ p.tail = tail /\ p.count = count
         /\ p.source_offset = SrcRange(r).offset
         /\ p.dest_offset = DstRange(r).offset
    BY <1>1
  <1>13. total = 0 => count = 0
    BY <1>6
  <1> QED BY <1>9, <1>10, <1>11, <1>12, <1>13 DEF total

\* chunk_at() accepts every index of the plan, and each chunk starts where
\* the one before it ends.
LEMMA ChunkGeometry ==
  ASSUME NEW r \in Request, RangesFit(r), Buildable(r), NEW p, p = build(r),
         NEW i \in Nat, i < p.count
  PROVE  /\ ChunkOk(p, i)
         /\ Length(p, i) \in Nat /\ Length(p, i) > 0 /\ Length(p, i) <= p.chunk_size
         /\ i * p.chunk_size \in Nat
         /\ Off(p, i) = i * p.chunk_size
         /\ Off(p, i + 1) = i * p.chunk_size + Length(p, i)
         /\ i * p.chunk_size + Length(p, i) <= p.total
  <1>1. /\ p \in Plan /\ p.total \in Nat /\ p.total <= ByteWrap - 1
        /\ p.chunk_size \in Nat /\ p.tail \in Nat /\ p.count \in Nat
    BY BuildSums, ChunkConstants DEF Plan, Byte
  <1>2. p.total > 0
    BY <1>1, BuildSums
  <1>3. PICK full \in Nat :
              /\ p.chunk_size > 0
              /\ p.tail < p.chunk_size
              /\ p.total = full * p.chunk_size + p.tail
              /\ p.count = IF p.tail # 0 THEN full + 1 ELSE full
    BY <1>2, BuildSums
  <1> DEFINE s == p.chunk_size
  <1>4. s \in Nat /\ s > 0 /\ full * s \in Nat
    BY <1>1, <1>3
  <1> HIDE DEF s
  <1>5. /\ p.total = full * s + p.tail
        /\ p.tail < s
    BY <1>3 DEF s
  <1>6. i * s \in Nat /\ (i + 1) * s = i * s + s
    BY <1>4
  <1>7. /\ Length(p, i) \in Nat /\ Length(p, i) > 0 /\ Length(p, i) <= s
        /\ i * s + Length(p, i) <= p.total
        /\ i + 1 = p.count => i * s + Length(p, i) = p.total
        /\ i + 1 # p.count => Length(p, i) = s
    <2>1. CASE i + 1 = p.count /\ p.tail # 0
      <3>1. i = full
        BY <2>1, <1>3
      <3>2. Length(p, i) = p.tail
        BY <2>1 DEF Length
      <3> QED BY <3>1, <3>2, <2>1, <1>1, <1>4, <1>5
    <2>2. CASE i + 1 # p.count \/ p.tail = 0
      <3>1. Length(p, i) = s
        BY <2>2 DEF Length, s
      <3>2. i + 1 <= full
        BY <2>2, <1>1, <1>3
      <3>3. (i + 1) * s <= full * s
        BY <3>2, <1>4, MulMonotone
      <3>4. i * s + s <= p.total
        BY <3>3, <1>1, <1>4, <1>5, <1>6
      <3>5. i + 1 = p.count => i * s + s = p.total
        <4> SUFFICES ASSUME i + 1 = p.count PROVE i * s + s = p.total
          OBVIOUS
        <4>1. p.tail = 0 /\ full = i + 1
          BY <2>2, <1>3
        <4> QED BY <4>1, <1>4, <1>5, <1>6
      <3> QED BY <3>1, <3>4, <3>5, <1>4
    <2> QED BY <2>1, <2>2
  <1>8. i * s <= ByteWrap - 1 /\ i * s + Length(p, i) <= ByteWrap - 1
    BY <1>1, <1>6, <1>7, ChunkConstants
  <1>9. ~MulOverflows(i, s)
    BY <1>4, <1>8, NoMulOverflow
  <1>10. ~AddOverflows(i * s, Length(p, i))
    BY <1>6, <1>7, <1>8, ChunkConstants DEF AddOverflows
  <1>11. ChunkOk(p, i)
    BY <1>7, <1>9, <1>10 DEF ChunkOk, s
  <1>12. Off(p, i) = i * s
    BY <1>1 DEF Off, s
  <1>13. Off(p, i + 1) = i * s + Length(p, i)
    <2>1. CASE i + 1 = p.count
      BY <2>1, <1>7 DEF Off
    <2>2. CASE i + 1 # p.count
      <3>1. Off(p, i + 1) = (i + 1) * s
        BY <2>2 DEF Off, s
      <3> QED BY <2>2, <3>1, <1>6, <1>7
    <2> QED BY <2>1, <2>2
  <1> QED BY <1>6, <1>7, <1>11, <1>12, <1>13 DEF s

\* Nothing wraps: the bytes of chunk i are the next bytes of the request.
LEMMA PairsNext ==
  ASSUME NEW r \in Request, RangesFit(r), Buildable(r), NEW p, p = build(r),
         NEW i \in Nat, i < p.count
  PROVE  /\ Pairs(p, i) = {<<SrcRange(r).offset + k, DstRange(r).offset + k>> :
                             k \in Off(p, i) .. Off(p, i + 1) - 1}
         /\ Off(p, i) \in Nat /\ Off(p, i + 1) \in Nat
         /\ Off(p, i) < Off(p, i + 1)
         /\ Off(p, i + 1) <= Bytes(r)
  <1> DEFINE so == SrcRange(r).offset
             do == DstRange(r).offset
             off == i * p.chunk_size
             n == Length(p, i)
  <1>1. /\ off \in Nat /\ n \in Nat /\ n > 0 /\ off + n <= p.total
        /\ Off(p, i) = off /\ Off(p, i + 1) = off + n
    BY ChunkGeometry
  <1>2. p.total = Bytes(r) /\ p.source_offset = so /\ p.dest_offset = do
    BY BuildSums
  <1>3. so \in Nat /\ do \in Nat /\ Bytes(r) \in Nat
    BY Fields
  <1>4. so + Bytes(r) <= ByteWrap - 1 /\ do + Bytes(r) <= ByteWrap - 1
    <2>1. r.srcsize \in Nat /\ r.dstsize \in Nat
          /\ r.srcsize <= ByteWrap - 1 /\ r.dstsize <= ByteWrap - 1
      BY Fields, ChunkConstants DEF Byte
    <2>2. Bytes(r) <= r.srcsize - so /\ Bytes(r) <= r.dstsize - do
      BY DEF RangesFit, Bytes
    <2> QED BY <2>1, <2>2, <1>3, ChunkConstants
  <1> HIDE DEF so, do, off, n
  <1>5. so + off \in Byte /\ do + off \in Byte
    BY <1>1, <1>2, <1>3, <1>4, ChunkConstants DEF Byte
  <1>6. (so + off) % ByteWrap = so + off /\ (do + off) % ByteWrap = do + off
    BY <1>5, NoWrap
  <1>7. Pairs(p, i) = {<<so + off + k, do + off + k>> : k \in 0 .. n - 1}
    <2>1. Pairs(p, i) = {<<((so + off) % ByteWrap) + k, ((do + off) % ByteWrap) + k>> :
                           k \in 0 .. n - 1}
      BY <1>2 DEF Pairs, off, n
    <2> QED BY <2>1, <1>6
  <1>8. {<<so + off + k, do + off + k>> : k \in 0 .. n - 1}
          = {<<so + k, do + k>> : k \in off .. off + n - 1}
    <2>1. ASSUME NEW k \in 0 .. n - 1
          PROVE  \E j \in off .. off + n - 1 :
                   <<so + off + k, do + off + k>> = <<so + j, do + j>>
      <3>1. off + k \in off .. off + n - 1
        BY <1>1
      <3>2. so + off + k = so + (off + k) /\ do + off + k = do + (off + k)
        BY <1>1, <1>3
      <3> QED BY <3>1, <3>2
    <2>2. ASSUME NEW j \in off .. off + n - 1
          PROVE  \E k \in 0 .. n - 1 :
                   <<so + j, do + j>> = <<so + off + k, do + off + k>>
      <3>1. j - off \in 0 .. n - 1
        BY <1>1
      <3>2. so + off + (j - off) = so + j /\ do + off + (j - off) = do + j
        BY <1>1, <1>3
      <3> QED BY <3>1, <3>2
    <2> QED BY <2>1, <2>2
  <1> QED BY <1>1, <1>2, <1>7, <1>8 DEF so, do
-----------------------------------------------------------------------------
\* The inductive invariant: the plan is the one build() returned for an
\* acceptable request, and what has been copied is exactly the bytes before
\* the next chunk.
IInv ==
  /\ req \in Requests
  /\ pc \in {"resolve", "copy", "refused", "done"}
  /\ pc \in {"resolve", "refused"} => plan = NoPlan /\ ci = 0 /\ moved = {}
  /\ pc \in {"copy", "done"} =>
       /\ RangesFit(req) /\ Buildable(req)
       /\ plan = build(req)
       /\ ci \in Nat /\ ci <= plan.count
       /\ moved = Prefix(req, Off(plan, ci))
  /\ pc = "done" => ci = plan.count

\* The first chunk starts at the beginning of the range.
LEMMA OffStart ==
  ASSUME NEW r \in Request, RangesFit(r), Buildable(r)
  PROVE  Off(build(r), 0) = 0
  <1> DEFINE p == build(r)
  <1>1. p.chunk_size \in Nat
    BY BuildSums, ChunkConstants DEF Plan, Byte
  <1>2. p.count = 0 => p.total = 0
    <2> SUFFICES ASSUME p.count = 0, p.total # 0 PROVE FALSE
      OBVIOUS
    <2>1. p.total \in Nat /\ p.tail \in Nat
      BY BuildSums, ChunkConstants DEF Plan, Byte
    <2>2. PICK full \in Nat :
              /\ p.chunk_size > 0
              /\ p.tail < p.chunk_size
              /\ p.total = full * p.chunk_size + p.tail
              /\ p.count = IF p.tail # 0 THEN full + 1 ELSE full
      BY <2>1, BuildSums
    <2> HIDE DEF p
    <2>3. full = 0 /\ p.tail = 0
      BY <2>1, <2>2
    <2> QED BY <2>1, <2>2, <2>3, <1>1
  <1> HIDE DEF p
  <1>3. Off(p, 0) = 0
    BY <1>1, <1>2 DEF Off
  <1> QED BY <1>3 DEF p

\* The initial states of submit() satisfy the inductive invariant.
LEMMA InitInv == Init => IInv
  BY DEF Init, IInv

\* One turn of the chunk loop of run_transfer() keeps the invariant and adds
\* the bytes of chunk ci.
LEMMA MoveInv ==
  ASSUME IInv, Move
  PROVE  IInv' /\ ci' = ci + 1 /\ moved' = moved \cup Pairs(plan, ci)
  <1>1. /\ pc = "copy" /\ req \in Request /\ RangesFit(req) /\ Buildable(req)
        /\ plan = build(req) /\ ci \in Nat /\ ci < plan.count
        /\ moved = Prefix(req, Off(plan, ci))
    BY ChunkConstants DEF IInv, Move
  <1>2. plan.count \in Nat
    BY <1>1, BuildSums, ChunkConstants DEF Plan, Byte
  <1>3. ChunkOk(plan, ci)
    BY <1>1, ChunkGeometry
  <1>4. /\ moved' = moved \cup Pairs(plan, ci) /\ ci' = ci + 1
        /\ UNCHANGED <<req, plan, pc>>
    BY <1>3 DEF Move
  <1> DEFINE so == SrcRange(req).offset
             do == DstRange(req).offset
             a == Off(plan, ci)
             b == Off(plan, ci + 1)
  <1>5. /\ Pairs(plan, ci) = {<<so + k, do + k>> : k \in a .. b - 1}
        /\ a \in Nat /\ b \in Nat /\ a < b
    BY <1>1, PairsNext
  <1>6. moved = {<<so + k, do + k>> : k \in 0 .. a - 1}
    BY <1>1 DEF Prefix
  <1> HIDE DEF a, b, so, do
  <1>7. 0 .. b - 1 = (0 .. a - 1) \cup (a .. b - 1)
    BY <1>5
  <1>8. moved' = {<<so + k, do + k>> : k \in 0 .. b - 1}
    BY <1>4, <1>5, <1>6, <1>7
  <1>9. moved' = Prefix(req', Off(plan', ci'))
    BY <1>4, <1>8 DEF Prefix, so, do, b
  <1>10. ci' \in Nat /\ ci' <= plan'.count
    BY <1>1, <1>2, <1>4
  <1> QED
    BY <1>1, <1>4, <1>9, <1>10 DEF IInv, RangesFit, Buildable

\* Every step of submit() and run_transfer() keeps the invariant.
LEMMA NextInv == IInv /\ [Next]_vars => IInv'
  <1> SUFFICES ASSUME IInv, [Next]_vars PROVE IInv'
    OBVIOUS
  <1>1. CASE Refuse
    BY <1>1 DEF Refuse, IInv
  <1>2. CASE Build
    <2>1. /\ req \in Request /\ RangesFit(req) /\ Buildable(req) /\ ci = 0 /\ moved = {}
          /\ plan' = build(req) /\ pc' = "copy" /\ UNCHANGED <<req, ci, moved>>
      BY <1>2, ChunkConstants DEF Build, IInv
    <2>2. Off(plan', ci') = 0
      BY <2>1, OffStart
    <2>3. moved' = Prefix(req', 0)
      BY <2>1 DEF Prefix
    <2>4. plan'.count \in Nat
      BY <2>1, BuildSums, ChunkConstants DEF Plan, Byte
    <2>5. ci' \in Nat /\ ci' <= plan'.count
      BY <2>1, <2>4
    <2> QED BY <2>1, <2>2, <2>3, <2>5 DEF IInv, RangesFit, Buildable
  <1>3. CASE Move
    BY <1>3, MoveInv
  <1>4. CASE Finish
    <2>1. plan.count \in Nat
      BY <1>4, BuildSums, ChunkConstants DEF Finish, IInv, Plan, Byte
    <2> QED BY <1>4, <2>1 DEF Finish, IInv, RangesFit, Buildable
  <1>5. CASE UNCHANGED vars
    BY <1>5 DEF vars, IInv, RangesFit, Buildable
  <1> QED
    BY <1>1, <1>2, <1>3, <1>4, <1>5 DEF Next, Ended

\* What has been copied is always the part of the request before chunk ci.
THEOREM Invariance == Spec => []IInv
  BY InitInv, NextInv, PTL DEF Spec

\* A transfer that ends without error has copied exactly the bytes asked
\* for, and chunk_at() never rejects a chunk of a plan that build() made.
THEOREM ExactCopyAlways == Spec => []ExactCopy
  <1>1. IInv => ExactCopy
    <2> SUFFICES ASSUME IInv, pc = "done" PROVE moved = Prefix(req, Bytes(req))
      BY DEF IInv, ExactCopy
    <2>1. req \in Request /\ RangesFit(req) /\ Buildable(req) /\ plan = build(req)
          /\ ci = plan.count /\ moved = Prefix(req, Off(plan, ci))
      BY ChunkConstants DEF IInv
    <2>2. plan.total = Bytes(req)
      BY <2>1, BuildSums
    <2> QED BY <2>1, <2>2 DEF Off
  <1> QED BY <1>1, Invariance, PTL

\* A byte that has been copied lies inside both endpoints.
LEMMA MovedInside ==
  ASSUME IInv, NEW m \in moved
  PROVE  m \in Nat \X Nat /\ m[1] < req.srcsize /\ m[2] < req.dstsize
  <1> DEFINE so == SrcRange(req).offset
             do == DstRange(req).offset
             end == Off(plan, ci)
  <1>1. /\ req \in Request /\ RangesFit(req) /\ Buildable(req) /\ plan = build(req)
        /\ ci \in Nat /\ ci <= plan.count /\ moved = Prefix(req, end)
    BY ChunkConstants DEF IInv
  <1>2. end \in Nat /\ end <= Bytes(req)
    <2>1. plan.count \in Nat /\ plan.total = Bytes(req) /\ Bytes(req) \in Nat
      BY <1>1, BuildSums, Fields, ChunkConstants DEF Plan, Byte
    <2>2. CASE ci = plan.count
      BY <2>1, <2>2 DEF Off
    <2>3. CASE ci < plan.count
      <3>1. /\ Off(plan, ci) \in Nat /\ Off(plan, ci + 1) \in Nat
            /\ Off(plan, ci) < Off(plan, ci + 1)
            /\ Off(plan, ci + 1) <= Bytes(req)
        BY <1>1, <2>3, PairsNext
      <3> QED BY <3>1, <2>1
    <2> QED BY <1>1, <2>1, <2>2, <2>3
  <1>3. PICK k \in 0 .. end - 1 : m = <<so + k, do + k>>
    BY <1>1 DEF Prefix
  <1>4. /\ so \in Nat /\ do \in Nat /\ Bytes(req) \in Nat
        /\ req.srcsize \in Nat /\ req.dstsize \in Nat
    BY <1>1, Fields, ChunkConstants DEF Byte
  <1>5. Bytes(req) <= req.srcsize - so /\ Bytes(req) <= req.dstsize - do
    BY <1>1 DEF RangesFit, Bytes
  <1> HIDE DEF so, do, end
  <1>6. k \in Nat /\ k < Bytes(req)
    BY <1>2, <1>4
  <1>7. so + k < req.srcsize /\ do + k < req.dstsize
    BY <1>4, <1>5, <1>6
  <1>8. <<so + k, do + k>> \in Nat \X Nat
    BY <1>4, <1>6
  <1> QED BY <1>3, <1>7, <1>8

\* Only bytes inside the two endpoints are touched.
THEOREM WithinEndpointsAlways == Spec => []WithinEndpoints
  <1>1. IInv => WithinEndpoints
    BY MovedInside DEF WithinEndpoints
  <1> QED BY <1>1, Invariance, PTL

\* The plan, the chunk index and the byte positions keep their types: no byte
\* count that the transfer uses has wrapped.
THEOREM TypeCorrect == Spec => []TypeOK
  <1>1. IInv => TypeOK
    <2> SUFFICES ASSUME IInv PROVE TypeOK
      OBVIOUS
    <2>1. req \in Requests /\ req \in Request
          /\ pc \in {"resolve", "copy", "refused", "failed", "done"}
      BY ChunkConstants DEF IInv
    <2>2. plan \in Plan /\ ci \in Byte
      <3>1. CASE pc \in {"resolve", "refused"}
        BY <3>1, ChunkConstants DEF IInv, NoPlan, Plan, Byte
      <3>2. CASE pc \in {"copy", "done"}
        <4>1. /\ RangesFit(req) /\ Buildable(req) /\ plan = build(req)
              /\ ci \in Nat /\ ci <= plan.count
          BY <3>2 DEF IInv
        <4>2. plan \in Plan
          BY <4>1, <2>1, BuildSums
        <4> QED BY <4>1, <4>2, ChunkConstants DEF Plan, Byte
      <3> QED BY <3>1, <3>2 DEF IInv
    <2>3. moved \subseteq Byte \X Byte
      <3> SUFFICES ASSUME NEW m \in moved PROVE m \in Byte \X Byte
        OBVIOUS
      <3>1. m \in Nat \X Nat /\ m[1] < req.srcsize /\ m[2] < req.dstsize
        BY MovedInside
      <3>2. req.srcsize \in Byte /\ req.dstsize \in Byte
        BY <2>1, Fields
      <3> QED BY <3>1, <3>2, ChunkConstants DEF Byte
    <2> QED BY <2>1, <2>2, <2>3 DEF TypeOK
  <1> QED BY <1>1, Invariance, PTL

\* Each chunk is new, is not empty and fits a staging buffer.
THEOREM ChunksDisjointAlways == Spec => ChunksDisjoint
  <1> DEFINE Step == pc = "copy" /\ ci' # ci =>
                       /\ Pairs(plan, ci) \cap moved = {}
                       /\ Pairs(plan, ci) # {}
                       /\ Length(plan, ci) <= plan.chunk_size
  <1>1. IInv /\ [Next]_vars => [Step]_vars
    <2> SUFFICES ASSUME IInv, Next, pc = "copy", ci' # ci PROVE Step
      OBVIOUS
    <2>1. Move
      BY DEF Next, Refuse, Build, Finish, Ended, vars
    <2>2. /\ req \in Request /\ RangesFit(req) /\ Buildable(req)
          /\ plan = build(req) /\ ci \in Nat /\ ci < plan.count
          /\ moved = Prefix(req, Off(plan, ci))
      BY <2>1, ChunkConstants DEF IInv, Move
    <2> DEFINE so == SrcRange(req).offset
               do == DstRange(req).offset
               a == Off(plan, ci)
               b == Off(plan, ci + 1)
    <2>3. /\ Pairs(plan, ci) = {<<so + k, do + k>> : k \in a .. b - 1}
          /\ a \in Nat /\ b \in Nat /\ a < b
      BY <2>2, PairsNext
    <2>4. moved = {<<so + k, do + k>> : k \in 0 .. a - 1}
      BY <2>2 DEF Prefix
    <2>5. so \in Nat /\ do \in Nat
      BY <2>2, Fields
    <2>6. Length(plan, ci) <= plan.chunk_size
      BY <2>2, ChunkGeometry
    <2> HIDE DEF so, do, a, b
    <2>7. Pairs(plan, ci) # {}
      <3>1. a \in a .. b - 1
        BY <2>3
      <3> QED BY <3>1, <2>3, Zenon
    <2>8. Pairs(plan, ci) \cap moved = {}
      <3> SUFFICES ASSUME NEW j \in a .. b - 1, NEW k \in 0 .. a - 1,
                          <<so + j, do + j>> = <<so + k, do + k>>
                   PROVE  FALSE
        BY <2>3, <2>4
      <3>1. so + j = so + k
        OBVIOUS
      <3> QED BY <3>1, <2>3, <2>5
    <2> QED BY <2>6, <2>7, <2>8
  <1> QED BY <1>1, Invariance, PTL DEF Spec, ChunksDisjoint

\* A set of numbers that is closed under successor holds them all.
LEMMA NatClosed ==
  ASSUME NEW T, 0 \in T, \A n \in Nat : n \in T => n + 1 \in T
  PROVE  Nat \subseteq T
  <1> DEFINE Bad == {n \in Nat : n \notin T}
  <1> SUFFICES ASSUME Bad # {} PROVE FALSE
    OBVIOUS
  <1>1. PICK m \in Bad : \A k \in Bad : ~ (<<k, m>> \in OpToRel(<, Nat))
    <2>1. Bad \subseteq Nat
      OBVIOUS
    <2> HIDE DEF Bad
    <2> QED BY <2>1, NatLessThanWellFounded, WFMin, Zenon
  <1>2. m \in Nat /\ m \notin T /\ m # 0
    OBVIOUS
  <1>3. m - 1 \in Nat /\ m - 1 < m
    BY <1>2
  <1>4. m - 1 \notin Bad
    <2> HIDE DEF Bad
    <2> QED BY <1>1, <1>2, <1>3, Zenon DEF OpToRel
  <1>5. (m - 1) + 1 \in T
    BY <1>3, <1>4
  <1> QED BY <1>2, <1>5
-----------------------------------------------------------------------------
(* Loops.                                                                  *)

\* A loop over elements of E with states in S.
Loop(S, E, step, x, s) == step \in [S -> [E -> S]] /\ x \in S /\ s \in Seq(E)

\* f holds the states of a loop over s.
Runs(f, step, x, s) ==
  f = [i \in 0 .. Len(s) |-> IF i = 0 THEN x ELSE step[f[i - 1]][s[i]]]

\* The loop as the function that Runs describes.
LEMMA ThroughIs ==
  ASSUME NEW step, NEW x, NEW s
  PROVE  Through(step, x, s) = (CHOOSE f : Runs(f, step, x, s))[Len(s)]
  BY DEF Through, Runs

\* Every loop has its states: the i-th is made from the one before.
LEMMA LoopRuns ==
  ASSUME NEW S, NEW E, NEW step, NEW x, NEW s, Loop(S, E, step, x, s)
  PROVE  \E f : f \in [0 .. Len(s) -> S] /\ Runs(f, step, x, s)
  <1> step \in [S -> [E -> S]] /\ x \in S /\ s \in Seq(E)
    BY Zenon DEF Loop
  <1> DEFINE Upto(f, n) == /\ f \in [0 .. n -> S] /\ f[0] = x
                           /\ \A i \in 1 .. n : f[i] = step[f[i - 1]][s[i]]
             T == {n \in Nat : n <= Len(s) => \E f : Upto(f, n)}
  <1>1. 0 \in T
    <2> DEFINE g == [i \in 0 .. 0 |-> x]
    <2>1. Upto(g, 0)
      OBVIOUS
    <2> HIDE DEF Upto
    <2> QED BY <2>1, Zenon
  <1>2. ASSUME NEW n \in Nat, n \in T PROVE n + 1 \in T
    <2> SUFFICES ASSUME n + 1 <= Len(s) PROVE \E f : Upto(f, n + 1)
      <3> HIDE DEF Upto
      <3> QED OBVIOUS
    <2>1. PICK f : Upto(f, n)
      <3>1. n <= Len(s)
        OBVIOUS
      <3> HIDE DEF Upto
      <3> QED BY <1>2, <3>1
    <2>2. s[n + 1] \in E /\ f[n] \in S
      BY <2>1
    <2> DEFINE y == step[f[n]][s[n + 1]]
               g == [i \in 0 .. n + 1 |-> IF i = n + 1 THEN y ELSE f[i]]
    <2>3. y \in S
      BY <2>2
    <2> HIDE DEF y
    <2>4. g \in [0 .. n + 1 -> S] /\ g[0] = x /\ g[n + 1] = y
      BY <2>1, <2>3
    <2>5. \A i \in 0 .. n : g[i] = f[i]
      OBVIOUS
    <2> HIDE DEF g
    <2>6. \A i \in 1 .. n + 1 : g[i] = step[g[i - 1]][s[i]]
      <3> SUFFICES ASSUME NEW i \in 1 .. n + 1 PROVE g[i] = step[g[i - 1]][s[i]]
        OBVIOUS
      <3>1. g[i - 1] = f[i - 1]
        <4>1. i - 1 \in 0 .. n
          OBVIOUS
        <4> QED BY <2>5, <4>1, Zenon
      <3>2. CASE i = n + 1
        <4>1. i - 1 = n
          BY <3>2
        <4> QED BY <2>4, <3>1, <3>2, <4>1, Zenon DEF y
      <3>3. CASE i # n + 1
        <4>1. i \in 1 .. n /\ i \in 0 .. n
          BY <3>3
        <4> QED BY <2>1, <2>5, <3>1, <4>1, Zenon
      <3> QED BY <3>2, <3>3
    <2> QED BY <2>4, <2>6, Zenon
  <1>3. Nat \subseteq T
    <2> HIDE DEF T
    <2> QED BY <1>1, <1>2, NatClosed, Zenon
  <1>4. PICK f : Upto(f, Len(s))
    <2>1. Len(s) \in Nat /\ Len(s) <= Len(s)
      OBVIOUS
    <2> HIDE DEF Upto
    <2> QED BY <1>3, <2>1, Zenon
  <1>5. f \in [0 .. Len(s) -> S] /\ f[0] = x /\ \A i \in 1 .. Len(s) : f[i] = step[f[i - 1]][s[i]]
    BY <1>4
  <1>6. \A i \in 0 .. Len(s) : f[i] = IF i = 0 THEN x ELSE step[f[i - 1]][s[i]]
    BY <1>5
  <1> QED BY <1>5, <1>6, Zenon DEF Runs

\* The first n states of a loop, each made from the one before.
Steps(f, n, step, s) == \A i \in 1 .. n : f[i] = step[f[i - 1]][s[i]]

\* f begins with x and follows the steps of the loop over s.
Follows(f, step, x, s) == f[0] = x /\ Steps(f, Len(s), step, s)

\* f holds the states of the loop, the last of which is what is left.
States(f, S, step, x, s) ==
  /\ f \in [0 .. Len(s) -> S]
  /\ f[0] = x /\ f[Len(s)] = Through(step, x, s)
  /\ Steps(f, Len(s), step, s)

\* Every loop has its states.
LEMMA ThroughStates ==
  ASSUME NEW S, NEW E, NEW step, NEW x, NEW s, Loop(S, E, step, x, s)
  PROVE  \E f : States(f, S, step, x, s)
  <1> step \in [S -> [E -> S]] /\ x \in S /\ s \in Seq(E)
    BY Zenon DEF Loop
  <1> DEFINE f == CHOOSE g : Runs(g, step, x, s)
  <1>1. PICK g \in [0 .. Len(s) -> S] : Runs(g, step, x, s)
    BY LoopRuns, Zenon
  <1>2. Runs(f, step, x, s)
    BY <1>1, Zenon
  <1>3. Through(step, x, s) = f[Len(s)]
    BY ThroughIs, Zenon
  <1> HIDE DEF f
  <1>4. \A i \in 0 .. Len(s) : f[i] = IF i = 0 THEN x ELSE step[f[i - 1]][s[i]]
    BY <1>2, Zenon DEF Runs
  <1>5. DOMAIN f = 0 .. Len(s) /\ f = [i \in DOMAIN f |-> f[i]]
    BY <1>2, Zenon DEF Runs
  <1>6. f[0] = x /\ \A i \in 1 .. Len(s) : f[i] = step[f[i - 1]][s[i]]
    <2>1. Len(s) \in Nat
      OBVIOUS
    <2> QED BY <1>4, <2>1
  <1> DEFINE T == {i \in Nat : i <= Len(s) => f[i] \in S}
  <1>7. 0 \in T
    BY <1>6
  <1>8. ASSUME NEW n \in Nat, n \in T PROVE n + 1 \in T
    <2> SUFFICES ASSUME n + 1 <= Len(s) PROVE f[n + 1] \in S
      OBVIOUS
    <2>1. f[n] \in S /\ s[n + 1] \in E /\ n + 1 \in 1 .. Len(s) /\ (n + 1) - 1 = n
      BY <1>8
    <2> QED BY <1>6, <2>1
  <1>9. Nat \subseteq T
    <2> HIDE DEF T
    <2> QED BY <1>7, <1>8, NatClosed, Zenon
  <1>10. \A i \in 0 .. Len(s) : f[i] \in S
    BY <1>9
  <1>11. f \in [0 .. Len(s) -> S]
    BY <1>5, <1>10
  <1> QED BY <1>3, <1>6, <1>11, Zenon DEF States, Steps

\* The states of a loop are determined.
LEMMA SameStates ==
  ASSUME NEW f, NEW g, NEW n \in Nat, NEW step, NEW s, f[0] = g[0],
         Steps(f, n, step, s), Steps(g, n, step, s)
  PROVE  f[n] = g[n]
  <1> DEFINE T == {i \in Nat : i <= n => f[i] = g[i]}
  <1>1. 0 \in T
    OBVIOUS
  <1>2. ASSUME NEW m \in Nat, m \in T PROVE m + 1 \in T
    <2> SUFFICES ASSUME m + 1 <= n PROVE f[m + 1] = g[m + 1]
      OBVIOUS
    <2>1. f[m] = g[m] /\ m + 1 \in 1 .. n /\ (m + 1) - 1 = m
      BY <1>2
    <2> HIDE DEF T
    <2>2. f[m + 1] = step[f[m]][s[m + 1]] /\ g[m + 1] = step[g[m]][s[m + 1]]
      BY <2>1 DEF Steps
    <2> QED BY <2>1, <2>2, Zenon
  <1>3. Nat \subseteq T
    <2> HIDE DEF T
    <2> QED BY <1>1, <1>2, NatClosed, Zenon
  <1> QED BY <1>3

\* What a loop computes: any states that follow its steps are its states.
LEMMA Computes ==
  ASSUME NEW step, NEW x, NEW s, Len(s) \in Nat, NEW f, Follows(f, step, x, s)
  PROVE  Through(step, x, s) = f[Len(s)]
  <1> DEFINE g == [i \in 0 .. Len(s) |-> f[i]]
             h == CHOOSE e : Runs(e, step, x, s)
  <1>0. f[0] = x /\ Steps(f, Len(s), step, s)
    BY Zenon DEF Follows
  <1>1. \A i \in 0 .. Len(s) : g[i] = IF i = 0 THEN x ELSE step[g[i - 1]][s[i]]
    <2> SUFFICES ASSUME NEW i \in 0 .. Len(s)
                 PROVE  g[i] = IF i = 0 THEN x ELSE step[g[i - 1]][s[i]]
      BY Zenon
    <2>1. CASE i = 0
      BY <1>0, <2>1, Zenon
    <2>2. CASE i # 0
      <3>1. i \in 1 .. Len(s) /\ i - 1 \in 0 .. Len(s)
        BY <2>2
      <3> QED BY <1>0, <2>2, <3>1, Zenon DEF Steps
    <2> QED BY <2>1, <2>2, Zenon
  <1>2. g = [i \in 0 .. Len(s) |-> g[i]]
    BY Zenon
  <1> HIDE DEF g
  <1>3. Runs(g, step, x, s)
    BY <1>1, <1>2, Zenon DEF Runs
  <1>4. Runs(h, step, x, s) /\ Through(step, x, s) = h[Len(s)]
    BY <1>3, ThroughIs, Zenon
  <1> HIDE DEF h
  <1>5. \A i \in 0 .. Len(s) : h[i] = IF i = 0 THEN x ELSE step[h[i - 1]][s[i]]
    BY <1>4, Zenon DEF Runs
  <1>6. h[0] = x /\ \A i \in 1 .. Len(s) : h[i] = step[h[i - 1]][s[i]]
    BY <1>5
  <1>7. h[0] = f[0] /\ Steps(h, Len(s), step, s)
    BY <1>0, <1>6, Zenon DEF Steps
  <1>8. h[Len(s)] = f[Len(s)]
    BY <1>0, <1>7, SameStates, Zenon
  <1> QED BY <1>4, <1>8, Zenon

\* A loop stays among its states.
LEMMA ThroughType ==
  ASSUME NEW S, NEW E, NEW step, NEW x, NEW s, Loop(S, E, step, x, s)
  PROVE  Through(step, x, s) \in S
  <1> step \in [S -> [E -> S]] /\ x \in S /\ s \in Seq(E)
    BY Zenon DEF Loop
  <1>1. PICK g : States(g, S, step, x, s)
    BY ThroughStates, Zenon
  <1>2. g \in [0 .. Len(s) -> S] /\ g[Len(s)] = Through(step, x, s)
    BY <1>1, Zenon DEF States
  <1>3. Len(s) \in 0 .. Len(s)
    OBVIOUS
  <1> QED BY <1>2, <1>3, Zenon

\* A loop over s and then over t.
LEMMA ThroughConcat ==
  ASSUME NEW S, NEW E, NEW step, NEW x, NEW s, Loop(S, E, step, x, s), NEW t \in Seq(E)
  PROVE  Through(step, x, s \o t) = Through(step, Through(step, x, s), t)
  <1> DEFINE y == Through(step, x, s)
             m == Len(s)
             n == Len(t)
             st == s \o t
  <1>0. step \in [S -> [E -> S]] /\ x \in S /\ s \in Seq(E)
    BY Zenon DEF Loop
  <1>1. y \in S
    BY ThroughType, Zenon
  <1>2. PICK f : States(f, S, step, x, s)
    BY ThroughStates, Zenon
  <1>3. f[0] = x /\ f[m] = y /\ Steps(f, m, step, s)
    BY <1>2, Zenon DEF States
  <1> HIDE DEF y
  <1>4. PICK g : States(g, S, step, y, t)
    <2>1. Loop(S, E, step, y, t)
      BY <1>0, <1>1, Zenon DEF Loop
    <2> QED BY <2>1, ThroughStates, Zenon
  <1>5. g[0] = y /\ g[n] = Through(step, y, t) /\ Steps(g, n, step, t)
    BY <1>4, Zenon DEF States
  <1>6. /\ st \in Seq(E) /\ Len(st) = m + n /\ m \in Nat /\ n \in Nat
        /\ \A i \in 1 .. m : st[i] = s[i]
        /\ \A i \in 1 .. n : st[m + i] = t[i]
    BY <1>0
  <1> HIDE DEF st, m, n
  <1> DEFINE h == [i \in 0 .. m + n |-> IF i <= m THEN f[i] ELSE g[i - m]]
  <1>7. h[0] = x /\ h[m + n] = g[n]
    BY <1>3, <1>5, <1>6
  <1>8. Steps(h, m + n, step, st)
    <2> SUFFICES ASSUME NEW i \in 1 .. m + n PROVE h[i] = step[h[i - 1]][st[i]]
      BY Zenon DEF Steps
    <2>1. CASE i <= m
      <3>1. i \in 1 .. m /\ h[i] = f[i] /\ h[i - 1] = f[i - 1]
        BY <1>6, <2>1
      <3>2. f[i] = step[f[i - 1]][s[i]]
        BY <1>3, <3>1, Zenon DEF Steps
      <3> QED BY <1>6, <3>1, <3>2, Zenon
    <2>2. CASE i > m
      <3> DEFINE j == i - m
      <3>1. j \in 1 .. n /\ m + j = i /\ h[i] = g[j]
        BY <1>6, <2>2
      <3>2. h[i - 1] = g[j - 1]
        <4>1. CASE j = 1
          <5>1. i - 1 = m /\ j - 1 = 0 /\ h[m] = f[m]
            BY <1>6, <4>1
          <5> QED BY <1>3, <1>5, <5>1, Zenon
        <4>2. CASE j # 1
          <5>1. (i - 1) - m = j - 1 /\ i - 1 \in 0 .. m + n /\ ~(i - 1 <= m)
            BY <1>6, <2>2, <3>1, <4>2
          <5> QED BY <5>1, Zenon
        <4> QED BY <4>1, <4>2
      <3> HIDE DEF j
      <3>3. g[j] = step[g[j - 1]][t[j]]
        BY <1>5, <3>1, Zenon DEF Steps
      <3>4. st[i] = t[j]
        BY <1>6, <3>1, Zenon
      <3> QED BY <3>1, <3>2, <3>3, <3>4, Zenon
    <2>3. i <= m \/ i > m
      BY <1>6
    <2> QED BY <2>1, <2>2, <2>3, Zenon
  <1> HIDE DEF h
  <1>9. Through(step, x, st) = h[Len(st)]
    <2>1. Steps(h, Len(st), step, st)
      BY <1>6, <1>8, Zenon
    <2>2. Follows(h, step, x, st)
      BY <1>7, <2>1, Zenon DEF Follows
    <2>3. Len(st) \in Nat
      BY <1>6
    <2> QED BY <2>2, <2>3, Computes, SMT
  <1> QED BY <1>5, <1>6, <1>7, <1>9, Zenon DEF y, st
-----------------------------------------------------------------------------
(* Registers of bits.                                                      *)

\* Bits are added without carry.
Plus(p, q) == p # q

\* Addition of two bits.
LEMMA PlusBits ==
  ASSUME NEW p \in BOOLEAN, NEW q \in BOOLEAN
  PROVE  /\ Plus(p, q) \in BOOLEAN
         /\ Plus(p, FALSE) = p
         /\ Plus(FALSE, p) = p
         /\ Plus(p, p) = FALSE
         /\ Plus(Plus(p, q), q) = p
         /\ Plus(p, q) = Plus(q, p)
  <1>1. CASE p = TRUE
    BY <1>1, Zenon DEF Plus
  <1>2. CASE p = FALSE
    BY <1>2, Zenon DEF Plus
  <1> QED BY <1>1, <1>2, Zenon

\* The order of three bits does not matter.
LEMMA PlusLeft ==
  ASSUME NEW p \in BOOLEAN, NEW q \in BOOLEAN, NEW r \in BOOLEAN
  PROVE  Plus(p, Plus(q, r)) = Plus(q, Plus(p, r))
  <1>1. CASE p = TRUE
    BY <1>1, Zenon DEF Plus
  <1>2. CASE p = FALSE
    BY <1>2, Zenon DEF Plus
  <1> QED BY <1>1, <1>2, Zenon

\* Nor do the brackets.
LEMMA PlusAssociative ==
  ASSUME NEW p \in BOOLEAN, NEW q \in BOOLEAN, NEW r \in BOOLEAN
  PROVE  Plus(Plus(p, q), r) = Plus(p, Plus(q, r))
  <1>1. CASE p = TRUE
    BY <1>1, Zenon DEF Plus
  <1>2. CASE p = FALSE
    BY <1>2, Zenon DEF Plus
  <1> QED BY <1>1, <1>2, Zenon

\* The register is wider than a byte.
LEMMA CrcSize ==
  Len(Poly) \in Nat /\ ByteBits \in Nat \ {0} /\ Len(Poly) > ByteBits /\ Poly \in Crc
  BY IntegrityConstants DEF Crc

\* The first bit is one of them.
LEMMA FirstBit == 1 \in 1 .. Len(Poly) /\ 1 \in 1 .. ByteBits
  BY CrcSize

\* A bit of a register, and of a byte.
LEMMA CrcBit == ASSUME NEW c \in Crc, NEW k \in 1 .. Len(Poly) PROVE c[k] \in BOOLEAN
  BY Zenon DEF Crc

\* A byte has bits.
LEMMA ByteBit == ASSUME NEW b \in ByteValue, NEW k \in 1 .. ByteBits PROVE b[k] \in BOOLEAN
  BY Zenon DEF ByteValue

\* Registers with the same bits are the same.
LEMMA SameCrc ==
  ASSUME NEW c \in Crc, NEW d \in Crc, \A k \in 1 .. Len(Poly) : c[k] = d[k]
  PROVE  c = d
  <1>1. c = [k \in 1 .. Len(Poly) |-> c[k]] /\ d = [k \in 1 .. Len(Poly) |-> d[k]]
    BY Zenon DEF Crc
  <1> QED BY <1>1, Zenon

\* The operations on registers, bit by bit.
LEMMA XorType == ASSUME NEW c, NEW d PROVE Xor(c, d) \in Crc
  BY Zenon DEF Xor, Crc

\* A bit of a sum.
LEMMA XorBit ==
  ASSUME NEW c, NEW d, NEW k \in 1 .. Len(Poly)
  PROVE  Xor(c, d)[k] = Plus(c[k], d[k])
  BY Zenon DEF Xor, Plus

\* A shifted register is a register.
LEMMA ShiftType == ASSUME NEW c, NEW n PROVE ShiftRight(c, n) \in Crc
  BY Zenon DEF ShiftRight, Crc

\* A bit of a shifted register; zeros come in from above.
LEMMA ShiftBit ==
  ASSUME NEW c \in Crc, NEW n \in Nat, NEW k \in 1 .. Len(Poly)
  PROVE  ShiftRight(c, n)[k] = IF k + n <= Len(Poly) THEN c[k + n] ELSE FALSE
  <1>1. ShiftRight(c, n)[k] = (k + n <= Len(Poly) /\ c[k + n])
    BY Zenon DEF ShiftRight
  <1>2. CASE k + n <= Len(Poly)
    <2>1. k + n \in 1 .. Len(Poly)
      BY <1>2, CrcSize
    <2>2. c[k + n] \in BOOLEAN
      BY <2>1, CrcBit, Zenon
    <2> QED BY <1>1, <1>2, <2>2, Zenon
  <1>3. CASE ~(k + n <= Len(Poly))
    BY <1>1, <1>3, Zenon
  <1> QED BY <1>2, <1>3, Zenon

\* A byte in a register.
LEMMA WidenType == ASSUME NEW b PROVE Widen(b) \in Crc
  BY Zenon DEF Widen, Crc

\* A bit of a byte in a register.
LEMMA WidenBit ==
  ASSUME NEW b \in ByteValue, NEW k \in 1 .. Len(Poly)
  PROVE  Widen(b)[k] = IF k <= ByteBits THEN b[k] ELSE FALSE
  <1>1. Widen(b)[k] = (k <= ByteBits /\ b[k])
    BY Zenon DEF Widen
  <1>2. CASE k <= ByteBits
    <2>1. k \in 1 .. ByteBits
      BY <1>2, CrcSize
    <2>2. b[k] \in BOOLEAN
      BY <2>1, ByteBit, Zenon
    <2> QED BY <1>1, <1>2, <2>2, Zenon
  <1>3. CASE ~(k <= ByteBits)
    BY <1>1, <1>3, Zenon
  <1> QED BY <1>2, <1>3, Zenon

\* The rules of addition.
LEMMA XorComm == ASSUME NEW a \in Crc, NEW b \in Crc PROVE Xor(a, b) = Xor(b, a)
  BY Zenon DEF Xor

\* Adding the same twice changes nothing.
LEMMA XorBack ==
  ASSUME NEW a \in Crc, NEW b \in Crc
  PROVE  Xor(Xor(a, b), b) = a
  <1> DEFINE u == Xor(a, b)
  <1>1. ASSUME NEW k \in 1 .. Len(Poly) PROVE Xor(u, b)[k] = a[k]
    <2>1. u[k] = Plus(a[k], b[k]) /\ a[k] \in BOOLEAN /\ b[k] \in BOOLEAN
      BY XorBit, CrcBit, SMT
    <2> HIDE DEF u
    <2>2. Xor(u, b)[k] = Plus(u[k], b[k])
      BY XorBit, Zenon
    <2>3. Plus(Plus(a[k], b[k]), b[k]) = a[k]
      BY <2>1, PlusBits, Zenon
    <2> QED BY <2>1, <2>2, <2>3, Zenon
  <1> QED BY <1>1, XorType, SameCrc, Zenon

\* The order of three registers does not matter.
LEMMA XorLeft ==
  ASSUME NEW a \in Crc, NEW b \in Crc, NEW c \in Crc
  PROVE  Xor(a, Xor(b, c)) = Xor(b, Xor(a, c))
  <1> DEFINE u == Xor(b, c)
             v == Xor(a, c)
  <1>1. ASSUME NEW k \in 1 .. Len(Poly) PROVE Xor(a, u)[k] = Xor(b, v)[k]
    <2>1. /\ u[k] = Plus(b[k], c[k]) /\ v[k] = Plus(a[k], c[k])
          /\ a[k] \in BOOLEAN /\ b[k] \in BOOLEAN /\ c[k] \in BOOLEAN
      BY XorBit, CrcBit, SMT
    <2> HIDE DEF u, v
    <2>2. Xor(a, u)[k] = Plus(a[k], u[k]) /\ Xor(b, v)[k] = Plus(b[k], v[k])
      BY XorBit, Zenon
    <2>3. Plus(a[k], Plus(b[k], c[k])) = Plus(b[k], Plus(a[k], c[k]))
      BY <2>1, PlusLeft, Zenon
    <2> QED BY <2>1, <2>2, <2>3, Zenon
  <1> QED BY <1>1, XorType, SameCrc, Zenon

\* Shifting commutes with addition.
LEMMA ShiftXor ==
  ASSUME NEW c \in Crc, NEW d \in Crc
  PROVE  ShiftRight(Xor(c, d), 1) = Xor(ShiftRight(c, 1), ShiftRight(d, 1))
  <1> DEFINE x == Xor(c, d)
             u == ShiftRight(c, 1)
             v == ShiftRight(d, 1)
  <1>1. ASSUME NEW k \in 1 .. Len(Poly) PROVE ShiftRight(x, 1)[k] = Xor(u, v)[k]
    <2>1. /\ u[k] = IF k + 1 <= Len(Poly) THEN c[k + 1] ELSE FALSE
          /\ v[k] = IF k + 1 <= Len(Poly) THEN d[k + 1] ELSE FALSE
      BY ShiftBit, 1 \in Nat, Zenon
    <2>2. ShiftRight(x, 1)[k] = IF k + 1 <= Len(Poly) THEN x[k + 1] ELSE FALSE
      BY XorType, ShiftBit, 1 \in Nat, Zenon
    <2> HIDE DEF u, v
    <2>3. Xor(u, v)[k] = Plus(u[k], v[k])
      BY XorBit, Zenon
    <2>4. CASE k + 1 <= Len(Poly)
      <3>1. k + 1 \in 1 .. Len(Poly)
        BY <2>4, CrcSize
      <3>2. x[k + 1] = Plus(c[k + 1], d[k + 1])
        BY <3>1, XorBit, Zenon
      <3> QED BY <2>1, <2>2, <2>3, <2>4, <3>2, Zenon
    <2>5. CASE ~(k + 1 <= Len(Poly))
      <3>1. Plus(FALSE, FALSE) = FALSE
        BY Zenon DEF Plus
      <3> QED BY <2>1, <2>2, <2>3, <2>5, <3>1, Zenon
    <2> QED BY <2>4, <2>5, Zenon
  <1> QED BY <1>1, ShiftType, XorType, SameCrc, Zenon

\* A step of the division leaves a register.
LEMMA DivideType == ASSUME NEW c PROVE Divide(c) \in Crc
  BY XorType, ShiftType, Zenon DEF Divide

\* Without a lowest bit the division only shifts.
LEMMA DivideEven == ASSUME NEW c, c[1] = FALSE PROVE Divide(c) = ShiftRight(c, 1)
  BY Zenon DEF Divide

\* Division by the polynomial is linear: the reason why a table by bytes can stand
\* for a division by bits.
LEMMA DivideXor ==
  ASSUME NEW c \in Crc, NEW d \in Crc
  PROVE  Divide(Xor(c, d)) = Xor(Divide(c), Divide(d))
  <1> DEFINE u == ShiftRight(c, 1)
             v == ShiftRight(d, 1)
             x == Xor(c, d)
             w == Xor(u, v)
  <1>1. u \in Crc /\ v \in Crc /\ Poly \in Crc /\ w \in Crc
    BY ShiftType, XorType, CrcSize, Zenon
  <1>2. ShiftRight(x, 1) = w
    BY ShiftXor, Zenon
  <1>3. x[1] = Plus(c[1], d[1]) /\ c[1] \in BOOLEAN /\ d[1] \in BOOLEAN
    BY FirstBit, XorBit, CrcBit, SMT
  <1>4. /\ Divide(c) = IF c[1] THEN Xor(Poly, u) ELSE u
        /\ Divide(d) = IF d[1] THEN Xor(Poly, v) ELSE v
        /\ Divide(x) = IF x[1] THEN Xor(Poly, w) ELSE w
    BY <1>2, Zenon DEF Divide
  <1> HIDE DEF u, v, x
  <1>5. Xor(u, Xor(Poly, v)) = Xor(Poly, w)
    BY <1>1, XorLeft, Zenon
  <1>6. Xor(Xor(Poly, u), v) = Xor(Poly, w)
    <2>1. Xor(Xor(Poly, u), v) = Xor(v, Xor(Poly, u))
      BY <1>1, XorType, XorComm, Zenon
    <2>2. Xor(v, Xor(Poly, u)) = Xor(Poly, Xor(v, u))
      BY <1>1, XorLeft, Zenon
    <2>3. Xor(v, u) = w
      BY <1>1, XorComm, Zenon
    <2> QED BY <2>1, <2>2, <2>3, Zenon
  <1>7. Xor(Xor(Poly, u), Xor(Poly, v)) = w
    <2> DEFINE p == Xor(Poly, u)
    <2>1. p \in Crc /\ Xor(p, v) = Xor(Poly, w)
      BY <1>6, XorType, Zenon
    <2> HIDE DEF p, w
    <2>2. Xor(p, Xor(Poly, v)) = Xor(Poly, Xor(p, v))
      BY <1>1, <2>1, XorLeft, Zenon
    <2>3. Xor(Poly, w) = Xor(w, Poly) /\ Xor(w, Poly) \in Crc
      BY <1>1, XorComm, XorType, Zenon
    <2>4. Xor(Poly, Xor(w, Poly)) = Xor(Xor(w, Poly), Poly) /\ Xor(Xor(w, Poly), Poly) = w
      BY <1>1, <2>3, XorComm, XorBack, Zenon
    <2> QED BY <2>1, <2>2, <2>3, <2>4, Zenon DEF p
  <1> HIDE DEF w
  <1>8. Plus(TRUE, TRUE) = FALSE /\ Plus(TRUE, FALSE) = TRUE /\ Plus(FALSE, TRUE) = TRUE
        /\ Plus(FALSE, FALSE) = FALSE
    BY Zenon DEF Plus
  <1>9. Divide(x) = Xor(Divide(c), Divide(d))
    <2>1. CASE c[1] = TRUE /\ d[1] = TRUE
      BY <1>3, <1>4, <1>7, <1>8, <2>1, Zenon
    <2>2. CASE c[1] = TRUE /\ d[1] = FALSE
      BY <1>3, <1>4, <1>6, <1>8, <2>2, Zenon
    <2>3. CASE c[1] = FALSE /\ d[1] = TRUE
      BY <1>3, <1>4, <1>5, <1>8, <2>3, Zenon
    <2>4. CASE c[1] = FALSE /\ d[1] = FALSE
      BY <1>3, <1>4, <1>8, <2>4, Zenon DEF w
    <2> QED BY <1>3, <2>1, <2>2, <2>3, <2>4, Zenon
  <1> QED BY <1>9, Zenon DEF x
-----------------------------------------------------------------------------
(* A byte at a time.                                                       *)

\* The bits of b that are still to come after i of them, and the part of
\* register c above the lowest byte, each shifted by i.
Rest(b, i) == [k \in 1 .. Len(Poly) |-> IF k + i <= ByteBits THEN b[k + i] ELSE FALSE]

Above(c, i) ==
  [k \in 1 .. Len(Poly) |->
     IF k + i > ByteBits /\ k + i <= Len(Poly) THEN c[k + i] ELSE FALSE]

\* The register after i bits of b, if t is what the division has made of the
\* lowest byte.
After(t, c, b, i) == Xor(Xor(t, Above(c, i)), Rest(b, i))

\* What remains of the byte is a register,
LEMMA RestType == ASSUME NEW b \in ByteValue, NEW i \in Nat PROVE Rest(b, i) \in Crc
  <1> SUFFICES ASSUME NEW k \in 1 .. Len(Poly)
               PROVE  (IF k + i <= ByteBits THEN b[k + i] ELSE FALSE) \in BOOLEAN
    BY Zenon DEF Rest, Crc
  <1>1. CASE k + i <= ByteBits
    <2>1. k + i \in 1 .. ByteBits
      BY <1>1, CrcSize
    <2> QED BY <1>1, <2>1, ByteBit, Zenon
  <1> QED BY <1>1, Zenon

\* and so is what has been shifted down from above the byte.
LEMMA AboveType == ASSUME NEW c \in Crc, NEW i \in Nat PROVE Above(c, i) \in Crc
  <1> DEFINE In(k) == k + i > ByteBits /\ k + i <= Len(Poly)
  <1> SUFFICES ASSUME NEW k \in 1 .. Len(Poly)
               PROVE  (IF In(k) THEN c[k + i] ELSE FALSE) \in BOOLEAN
    BY Zenon DEF Above, Crc
  <1>1. CASE In(k)
    <2>1. k + i \in 1 .. Len(Poly)
      BY <1>1, CrcSize
    <2>2. c[k + i] \in BOOLEAN
      BY <2>1, CrcBit, Zenon
    <2> QED BY <1>1, <2>2, Zenon
  <1> QED BY <1>1, Zenon

\* A bit of what remains of the byte.
LEMMA RestBit ==
  ASSUME NEW b, NEW i, NEW k \in 1 .. Len(Poly)
  PROVE  Rest(b, i)[k] = IF k + i <= ByteBits THEN b[k + i] ELSE FALSE
  BY Zenon DEF Rest

\* A bit of what was above it.
LEMMA AboveBit ==
  ASSUME NEW c, NEW i, NEW k \in 1 .. Len(Poly)
  PROVE  Above(c, i)[k] = IF k + i > ByteBits /\ k + i <= Len(Poly) THEN c[k + i] ELSE FALSE
  BY Zenon DEF Above

\* The sum of the three is a register.
LEMMA AfterType == ASSUME NEW t, NEW c, NEW b, NEW i PROVE After(t, c, b, i) \in Crc
  BY XorType, Zenon DEF After

\* A bit of the sum of the three.
LEMMA AfterBit ==
  ASSUME NEW t, NEW c, NEW b, NEW i, NEW k \in 1 .. Len(Poly)
  PROVE  After(t, c, b, i)[k] = Plus(Plus(t[k], Above(c, i)[k]), Rest(b, i)[k])
  <1> DEFINE u == Xor(t, Above(c, i))
             r == Rest(b, i)
  <1>1. u[k] = Plus(t[k], Above(c, i)[k])
    BY XorBit, SMT
  <1>2. After(t, c, b, i) = Xor(u, r)
    BY Zenon DEF After
  <1> HIDE DEF u, r
  <1>3. Xor(u, r)[k] = Plus(u[k], r[k])
    BY XorBit, SMT
  <1> QED BY <1>1, <1>2, <1>3, Zenon DEF r

\* The lowest byte of a register.
LEMMA LowByteType == ASSUME NEW c \in Crc PROVE LowByte(c) \in ByteValue
  <1>1. \A k \in 1 .. ByteBits : k \in 1 .. Len(Poly)
    BY CrcSize
  <1>2. \A k \in 1 .. ByteBits : c[k] \in BOOLEAN
    BY <1>1, CrcBit, Zenon
  <1> QED BY <1>2, Zenon DEF LowByte, ByteValue

\* The register before the first bit.
LEMMA AfterNone ==
  ASSUME NEW c \in Crc, NEW b \in ByteValue
  PROVE  After(Widen(LowByte(Xor(c, Widen(b)))), c, b, 0) = c
  <1> DEFINE w == Widen(b)
             x == Xor(c, w)
             l == LowByte(x)
             t == Widen(l)
             a == After(t, c, b, 0)
  <1>0. x \in Crc /\ l \in ByteValue /\ w \in Crc
    BY XorType, WidenType, LowByteType, Zenon
  <1>1. ASSUME NEW k \in 1 .. Len(Poly) PROVE a[k] = c[k]
    <2>1. w[k] = IF k <= ByteBits THEN b[k] ELSE FALSE
      BY WidenBit, Zenon
    <2>2. k <= ByteBits => l[k] = x[k]
      <3>1. k <= ByteBits => k \in 1 .. ByteBits
        BY CrcSize
      <3> HIDE DEF x
      <3> QED BY <3>1, Zenon DEF LowByte
    <2> HIDE DEF w
    <2>3. x[k] = Plus(c[k], w[k])
      BY XorBit, SMT
    <2> HIDE DEF l, x
    <2>4. t[k] = IF k <= ByteBits THEN l[k] ELSE FALSE
      BY <1>0, WidenBit, Zenon
    <2> HIDE DEF t
    <2>5. a[k] = Plus(Plus(t[k], Above(c, 0)[k]), Rest(b, 0)[k])
      BY AfterBit, SMT
    <2>6. k + 0 = k /\ k <= Len(Poly) /\ (k > ByteBits <=> ~(k <= ByteBits))
      BY CrcSize
    <2>7. /\ Above(c, 0)[k] = IF k <= ByteBits THEN FALSE ELSE c[k]
          /\ Rest(b, 0)[k] = IF k <= ByteBits THEN b[k] ELSE FALSE
      <3>1. Above(c, 0)[k] = IF k + 0 > ByteBits /\ k + 0 <= Len(Poly) THEN c[k + 0] ELSE FALSE
        BY AboveBit, Zenon
      <3>2. Rest(b, 0)[k] = IF k + 0 <= ByteBits THEN b[k + 0] ELSE FALSE
        BY RestBit, Zenon
      <3> QED BY <2>6, <3>1, <3>2, Zenon
    <2>8. c[k] \in BOOLEAN
      BY CrcBit, Zenon
    <2>9. CASE k <= ByteBits
      <3>1. k \in 1 .. ByteBits
        BY <2>9, CrcSize
      <3>2. b[k] \in BOOLEAN
        BY <3>1, ByteBit, Zenon
      <3>3. a[k] = Plus(Plus(Plus(c[k], b[k]), FALSE), b[k])
        BY <2>1, <2>2, <2>3, <2>4, <2>5, <2>7, <2>9, Zenon
      <3>4. Plus(Plus(Plus(c[k], b[k]), FALSE), b[k]) = c[k]
        <4>1. CASE c[k] = TRUE
          BY <3>2, <4>1, Zenon DEF Plus
        <4>2. CASE c[k] = FALSE
          BY <3>2, <4>2, Zenon DEF Plus
        <4> QED BY <2>8, <4>1, <4>2, Zenon
      <3> QED BY <3>3, <3>4, Zenon
    <2>10. CASE ~(k <= ByteBits)
      <3>1. a[k] = Plus(Plus(FALSE, c[k]), FALSE)
        BY <2>4, <2>5, <2>7, <2>10, Zenon
      <3>2. Plus(Plus(FALSE, c[k]), FALSE) = c[k]
        <4>1. CASE c[k] = TRUE
          BY <4>1, Zenon DEF Plus
        <4>2. CASE c[k] = FALSE
          BY <4>2, Zenon DEF Plus
        <4> QED BY <2>8, <4>1, <4>2, Zenon
      <3> QED BY <3>1, <3>2, Zenon
    <2> QED BY <2>9, <2>10, Zenon
  <1>2. a \in Crc
    BY AfterType, Zenon
  <1> QED BY <1>1, <1>2, SameCrc, Zenon

\* Flipping the lowest bit of a register, as the next bit of a message does.
Flip(c, bit) == [c EXCEPT ![1] = @ # bit]

\* A register with its lowest bit changed is a register.
LEMMA FlipType ==
  ASSUME NEW c \in Crc, NEW bit \in BOOLEAN
  PROVE  Flip(c, bit) \in Crc
  BY Zenon DEF Flip, Crc

\* Only that bit is changed.
LEMMA FlipBit ==
  ASSUME NEW c \in Crc, NEW bit, NEW k \in 1 .. Len(Poly)
  PROVE  Flip(c, bit)[k] = IF k = 1 THEN Plus(c[k], bit) ELSE c[k]
  BY Zenon DEF Flip, Crc, Plus

\* One bit more: what remains of the byte has no lowest bit once that has been used.
LEMMA AfterNext ==
  ASSUME NEW t \in Crc, NEW c \in Crc, NEW b \in ByteValue, NEW i \in 0 .. ByteBits - 1
  PROVE  Divide(Flip(After(t, c, b, i), b[i + 1])) = After(Divide(t), c, b, i + 1)
  <1> DEFINE h == Above(c, i)
             r == Rest(b, i)
             a == After(t, c, b, i)
             bit == b[i + 1]
             f == Flip(a, bit)
             s == Flip(r, bit)
             u == Xor(t, h)
  <1>0. i \in Nat /\ i + 1 \in Nat /\ i + 1 \in 1 .. ByteBits /\ 1 \in Nat
    BY CrcSize
  <1>1. bit \in BOOLEAN
    BY <1>0, ByteBit, Zenon
  <1>2. h \in Crc /\ r \in Crc /\ u \in Crc /\ a \in Crc
    BY <1>0, AboveType, RestType, XorType, AfterType, Zenon
  <1>3. f \in Crc /\ s \in Crc
    BY <1>1, <1>2, FlipType, Zenon
  <1>4. f = Xor(u, s)
    <2>1. ASSUME NEW k \in 1 .. Len(Poly) PROVE f[k] = Xor(u, s)[k]
      <3>1. a = Xor(u, r)
        BY Zenon DEF After
      <3> HIDE DEF a, r, u, bit
      <3>2. f[k] = IF k = 1 THEN Plus(a[k], bit) ELSE a[k]
        BY <1>2, FlipBit, Zenon
      <3>3. s[k] = IF k = 1 THEN Plus(r[k], bit) ELSE r[k]
        BY <1>2, FlipBit, ZenonT(40)
      <3> HIDE DEF s, f
      <3>4. Xor(u, s)[k] = Plus(u[k], s[k]) /\ Xor(u, r)[k] = Plus(u[k], r[k])
        BY XorBit, SMT
      <3>5. u[k] \in BOOLEAN /\ r[k] \in BOOLEAN
        BY <1>2, CrcBit, Zenon
      <3>6. Plus(Plus(u[k], r[k]), bit) = Plus(u[k], Plus(r[k], bit))
        BY <1>1, <3>5, PlusAssociative, Zenon
      <3> QED BY <3>1, <3>2, <3>3, <3>4, <3>6, Zenon
    <2> QED BY <1>3, <2>1, XorType, SameCrc, Zenon
  <1>5. s[1] = FALSE /\ ShiftRight(s, 1) = Rest(b, i + 1)
    <2>1. 1 + i <= ByteBits /\ 1 + i = i + 1
      BY CrcSize
    <2>2. r[1] = IF 1 + i <= ByteBits THEN b[1 + i] ELSE FALSE
      BY FirstBit, RestBit, Zenon
    <2>3. r[1] = bit
      BY <2>1, <2>2, Zenon
    <2>4. \A k \in 1 .. Len(Poly) : s[k] = IF k = 1 THEN Plus(r[k], bit) ELSE r[k]
      <3> HIDE DEF r, bit
      <3> QED BY <1>2, FlipBit, Zenon
    <2>5. s[1] = FALSE
      <3>1. s[1] = Plus(r[1], bit)
        BY <2>4, FirstBit, Zenon
      <3>2. Plus(bit, bit) = FALSE
        BY Zenon DEF Plus
      <3> QED BY <2>3, <3>1, <3>2, Zenon
    <2>6. ASSUME NEW k \in 1 .. Len(Poly) PROVE ShiftRight(s, 1)[k] = Rest(b, i + 1)[k]
      <3>1. ShiftRight(s, 1)[k] = IF k + 1 <= Len(Poly) THEN s[k + 1] ELSE FALSE
        <4> HIDE DEF s
        <4> QED BY <1>0, <1>3, ShiftBit, Zenon
      <3>2. Rest(b, i + 1)[k] = IF k + (i + 1) <= ByteBits THEN b[k + (i + 1)] ELSE FALSE
        BY RestBit, Zenon
      <3>3. CASE k + 1 <= Len(Poly)
        <4>1. k + 1 \in 1 .. Len(Poly) /\ k + 1 # 1 /\ (k + 1) + i = k + (i + 1)
          BY <3>3, CrcSize
        <4>2. s[k + 1] = r[k + 1]
          BY <2>4, <4>1, Zenon
        <4>3. r[k + 1] = IF (k + 1) + i <= ByteBits THEN b[(k + 1) + i] ELSE FALSE
          BY <4>1, RestBit, Zenon
        <4> QED BY <3>1, <3>2, <3>3, <4>1, <4>2, <4>3, Zenon
      <3>4. CASE ~(k + 1 <= Len(Poly))
        <4>1. ~(k + (i + 1) <= ByteBits)
          BY <3>4, CrcSize
        <4> QED BY <3>1, <3>2, <3>4, <4>1, Zenon
      <3> QED BY <3>3, <3>4, Zenon
    <2>7. ShiftRight(s, 1) \in Crc /\ Rest(b, i + 1) \in Crc
      BY <1>0, ShiftType, RestType, Zenon
    <2> HIDE DEF s
    <2> QED BY <2>5, <2>6, <2>7, SameCrc, Zenon
  <1>6. h[1] = FALSE /\ ShiftRight(h, 1) = Above(c, i + 1)
    <2> DEFINE In(j) == j > ByteBits /\ j <= Len(Poly)
    <2>1. ~In(1 + i)
      BY CrcSize
    <2>2. \A k \in 1 .. Len(Poly) : h[k] = IF In(k + i) THEN c[k + i] ELSE FALSE
      BY AboveBit, Zenon
    <2>3. h[1] = FALSE
      <3> HIDE DEF In
      <3> QED BY <2>1, <2>2, FirstBit, Zenon
    <2>4. ASSUME NEW k \in 1 .. Len(Poly) PROVE ShiftRight(h, 1)[k] = Above(c, i + 1)[k]
      <3>1. ShiftRight(h, 1)[k] = IF k + 1 <= Len(Poly) THEN h[k + 1] ELSE FALSE
        <4> HIDE DEF h
        <4> QED BY <1>0, <1>2, ShiftBit, Zenon
      <3>2. Above(c, i + 1)[k] = IF In(k + (i + 1)) THEN c[k + (i + 1)] ELSE FALSE
        BY AboveBit, Zenon
      <3>3. CASE k + 1 <= Len(Poly)
        <4>1. k + 1 \in 1 .. Len(Poly) /\ (k + 1) + i = k + (i + 1)
          BY <3>3, CrcSize
        <4> HIDE DEF In, h
        <4>2. h[k + 1] = IF In((k + 1) + i) THEN c[(k + 1) + i] ELSE FALSE
          BY <2>2, <4>1, Zenon
        <4> QED BY <3>1, <3>2, <3>3, <4>1, <4>2, Zenon
      <3>4. CASE ~(k + 1 <= Len(Poly))
        <4>1. ~In(k + (i + 1))
          BY <3>4, CrcSize
        <4> HIDE DEF In
        <4> QED BY <3>1, <3>2, <3>4, <4>1, Zenon
      <3> QED BY <3>3, <3>4, Zenon
    <2>5. ShiftRight(h, 1) \in Crc /\ Above(c, i + 1) \in Crc
      BY <1>0, ShiftType, AboveType, Zenon
    <2> HIDE DEF h
    <2> QED BY <2>3, <2>4, <2>5, SameCrc, Zenon
  <1>7. Divide(s) = Rest(b, i + 1)
    BY <1>5, DivideEven, Zenon
  <1>8. Divide(h) = Above(c, i + 1)
    BY <1>6, DivideEven, Zenon
  <1>9. Divide(f) = Xor(Xor(Divide(t), Divide(h)), Divide(s))
    <2>1. Divide(u) = Xor(Divide(t), Divide(h))
      BY <1>2, DivideXor, Zenon
    <2> HIDE DEF u, s, f, h
    <2>2. Divide(Xor(u, s)) = Xor(Divide(u), Divide(s))
      BY <1>2, <1>3, DivideXor, Zenon
    <2> QED BY <1>4, <2>1, <2>2, Zenon
  <1>10. Divide(f) = After(Divide(t), c, b, i + 1)
    <2> HIDE DEF f, h, s
    <2> QED BY <1>7, <1>8, <1>9, Zenon DEF After
  <1> QED BY <1>10, Zenon

\* After the last bit nothing is left of the byte and all of the register above it
\* has been shifted down.
LEMMA AfterAll ==
  ASSUME NEW t \in Crc, NEW c \in Crc, NEW b \in ByteValue
  PROVE  After(t, c, b, ByteBits) = Xor(t, ShiftRight(c, ByteBits))
  <1> DEFINE n == ByteBits
             a == After(t, c, b, n)
             v == ShiftRight(c, n)
             z == Xor(t, v)
  <1>0. n \in Nat
    BY CrcSize
  <1>1. ASSUME NEW k \in 1 .. Len(Poly) PROVE a[k] = z[k]
    <2>1. a[k] = Plus(Plus(t[k], Above(c, n)[k]), Rest(b, n)[k])
      BY AfterBit, SMT
    <2>2. v[k] = IF k + n <= Len(Poly) THEN c[k + n] ELSE FALSE
      BY <1>0, ShiftBit, Zenon
    <2>3. Rest(b, n)[k] = IF k + n <= ByteBits THEN b[k + n] ELSE FALSE
      BY RestBit, Zenon
    <2>4. Above(c, n)[k] = IF k + n > ByteBits /\ k + n <= Len(Poly) THEN c[k + n] ELSE FALSE
      BY AboveBit, Zenon
    <2>5. k + n > ByteBits /\ ~(k + n <= ByteBits)
      BY CrcSize
    <2>6. Above(c, n)[k] = v[k] /\ Rest(b, n)[k] = FALSE
      <3>1. CASE k + n <= Len(Poly)
        BY <2>2, <2>3, <2>4, <2>5, <3>1, Zenon
      <3>2. CASE ~(k + n <= Len(Poly))
        BY <2>2, <2>3, <2>4, <2>5, <3>2, Zenon
      <3> QED BY <3>1, <3>2, Zenon
    <2>7. v \in Crc
      BY ShiftType, Zenon
    <2> HIDE DEF v
    <2>8. z[k] = Plus(t[k], v[k])
      BY XorBit, SMT
    <2>9. t[k] \in BOOLEAN /\ v[k] \in BOOLEAN
      BY <2>7, CrcBit, Zenon
    <2>10. Plus(t[k], v[k]) \in BOOLEAN
      BY Zenon DEF Plus
    <2>11. Plus(Plus(t[k], v[k]), FALSE) = Plus(t[k], v[k])
      BY <2>10, PlusBits, Zenon
    <2> QED BY <2>1, <2>6, <2>8, <2>11, Zenon
  <1> QED BY <1>1, AfterType, XorType, SameCrc, Zenon

\* The steps of the three loops of a CRC.
TableStep == [c \in Crc |-> [k \in 1 .. ByteBits |-> Divide(c)]]

Count == [k \in 1 .. ByteBits |-> k]

\* An entry of the table is what its loop leaves.
LEMMA TableIs ==
  ASSUME NEW b \in ByteValue
  PROVE  /\ Loop(Crc, 1 .. ByteBits, TableStep, Widen(b), Count)
         /\ table[b] = Through(TableStep, Widen(b), Count)
         /\ Len(Count) = ByteBits
  <1>1. Count \in Seq(1 .. ByteBits) /\ Len(Count) = ByteBits
    BY CrcSize DEF Count
  <1>2. TableStep \in [Crc -> [1 .. ByteBits -> Crc]]
    BY DivideType, Zenon DEF TableStep
  <1>3. table[b] = Through(TableStep, Widen(b), Count)
    BY Zenon DEF table, TableStep, Count
  <1> QED BY <1>1, <1>2, <1>3, WidenType, Zenon DEF Loop

\* The table holds registers.
LEMMA TableType == ASSUME NEW b \in ByteValue PROVE table[b] \in Crc
  BY TableIs, ThroughType, Zenon

\* The step of the loop over bits.
LEMMA BitStepIs ==
  /\ BitStep \in [Crc -> [BOOLEAN -> Crc]]
  /\ \A c \in Crc : \A bit \in BOOLEAN : BitStep[c][bit] = Divide(Flip(c, bit))
  BY DivideType, Zenon DEF BitStep, Flip

\* The step of the loop over bytes.
LEMMA CrcStepIs ==
  /\ crc_step \in [Crc -> [ByteValue -> Crc]]
  /\ \A c \in Crc : \A b \in ByteValue :
       crc_step[c][b] = Xor(table[LowByte(Xor(c, Widen(b)))], ShiftRight(c, ByteBits))
  BY XorType, Zenon DEF crc_step

\* A byte is the sequence of its bits.
LEMMA ByteIsSeq == ASSUME NEW b \in ByteValue PROVE b \in Seq(BOOLEAN) /\ Len(b) = ByteBits
  BY CrcSize DEF ByteValue

\* One look into the table divides by a whole byte.
LEMMA ByteStep ==
  ASSUME NEW c \in Crc, NEW b \in ByteValue
  PROVE  crc_step[c][b] = Through(BitStep, c, b)
  <1> DEFINE l == LowByte(Xor(c, Widen(b)))
             w == Widen(l)
  <1>1. l \in ByteValue /\ w \in Crc
    BY XorType, LowByteType, WidenType, Zenon
  <1>2. PICK g : States(g, Crc, TableStep, w, Count)
    BY <1>1, TableIs, ThroughStates, Zenon
  <1>3. /\ g \in [0 .. ByteBits -> Crc] /\ g[0] = w /\ g[ByteBits] = table[l]
        /\ \A i \in 1 .. ByteBits : g[i] = TableStep[g[i - 1]][Count[i]]
    BY <1>1, <1>2, TableIs, Zenon DEF States, Steps
  <1>4. After(w, c, b, 0) = c
    BY AfterNone, Zenon
  <1> HIDE DEF l, w
  <1> DEFINE f == [i \in 0 .. ByteBits |-> After(g[i], c, b, i)]
  <1>5. f[0] = c /\ f[ByteBits] = After(table[l], c, b, ByteBits)
    <2>1. 0 \in 0 .. ByteBits /\ ByteBits \in 0 .. ByteBits
      BY CrcSize
    <2> QED BY <1>3, <1>4, <2>1, Zenon
  <1>6. ASSUME NEW i \in 1 .. ByteBits PROVE f[i] = BitStep[f[i - 1]][b[i]]
    <2>1. /\ i - 1 \in 0 .. ByteBits - 1 /\ (i - 1) + 1 = i
          /\ i - 1 \in 0 .. ByteBits /\ i \in 0 .. ByteBits
      BY CrcSize
    <2>2. g[i - 1] \in Crc /\ b[i] \in BOOLEAN
      BY <1>3, <2>1, ByteBit, Zenon
    <2>3. g[i] = Divide(g[i - 1])
      BY <1>3, <2>2, Zenon DEF TableStep, Count
    <2>4. f[i - 1] = After(g[i - 1], c, b, i - 1) /\ f[i] = After(g[i], c, b, i)
      BY <2>1, Zenon
    <2> DEFINE p == After(g[i - 1], c, b, i - 1)
    <2>5. p \in Crc
      BY AfterType, Zenon
    <2>6. Divide(Flip(p, b[(i - 1) + 1])) = After(Divide(g[i - 1]), c, b, (i - 1) + 1)
      BY <2>1, <2>2, AfterNext, Zenon
    <2> HIDE DEF p, f
    <2>7. BitStep[p][b[i]] = Divide(Flip(p, b[i]))
      BY <2>2, <2>5, BitStepIs, Zenon
    <2> QED BY <2>1, <2>3, <2>4, <2>6, <2>7, Zenon DEF p
  <1> HIDE DEF f
  <1>7. Follows(f, BitStep, c, b) /\ Len(b) \in Nat
    BY <1>5, <1>6, ByteIsSeq, CrcSize, Zenon DEF Follows, Steps
  <1>8. Through(BitStep, c, b) = f[Len(b)]
    BY <1>7, Computes, SMT
  <1>9. After(table[l], c, b, ByteBits) = Xor(table[l], ShiftRight(c, ByteBits))
    BY <1>1, TableType, AfterAll, Zenon
  <1>10. crc_step[c][b] = Xor(table[l], ShiftRight(c, ByteBits))
    BY CrcStepIs, Zenon DEF l
  <1> QED BY <1>5, <1>8, <1>9, <1>10, ByteIsSeq, Zenon
-----------------------------------------------------------------------------
(* Prefixes of the data.                                                   *)

\* q and r are quotient and remainder of a and b.
Division(a, b, q, r) ==
  b \in Nat \ {0} /\ q \in Nat /\ r \in 0 .. b - 1 /\ a = q * b + r

\* Quotient and remainder are such a pair.
LEMMA DivIs ==
  ASSUME NEW a \in Nat, NEW b \in Nat \ {0}
  PROVE  Division(a, b, a \div b, a % b)
  BY DivMod, Zenon DEF Division

\* They are determined.
LEMMA DivUnique ==
  ASSUME NEW a, NEW b, NEW q, NEW r, NEW p, NEW t, Division(a, b, q, r), Division(a, b, p, t)
  PROVE  q = p /\ r = t
  <1> /\ b \in Nat \ {0} /\ q \in Nat /\ r \in 0 .. b - 1
      /\ p \in Nat /\ t \in 0 .. b - 1 /\ q * b + r = p * b + t
    BY Zenon DEF Division
  <1>1. CASE q < p
    <2>1. (q + 1) * b <= p * b
      <3>1. p * b = (q + 1) * b + (p - q - 1) * b
        OBVIOUS
      <3>2. (p - q - 1) * b >= 0
        BY <1>1
      <3> QED BY <3>1, <3>2
    <2> QED BY <2>1
  <1>2. CASE q > p
    <2>1. (p + 1) * b <= q * b
      <3>1. q * b = (p + 1) * b + (q - p - 1) * b
        OBVIOUS
      <3>2. (q - p - 1) * b >= 0
        BY <1>2
      <3> QED BY <3>1, <3>2
    <2> QED BY <2>1
  <1>3. CASE q = p
    BY <1>3
  <1> QED BY <1>1, <1>2, <1>3

\* The first n elements.
Take(s, n) == [k \in 1 .. n |-> s[k]]

\* The first elements are a sequence of that length.
LEMMA TakeType ==
  ASSUME NEW E, NEW s \in Seq(E), NEW n \in 0 .. Len(s)
  PROVE  Take(s, n) \in Seq(E) /\ Len(Take(s, n)) = n
  <1>1. \A k \in 1 .. n : s[k] \in E
    OBVIOUS
  <1> QED BY <1>1 DEF Take

\* All of them are the sequence.
LEMMA TakeAll == ASSUME NEW E, NEW s \in Seq(E) PROVE Take(s, Len(s)) = s
  BY DEF Take

\* None of them are the empty one.
LEMMA TakeNone == ASSUME NEW s PROVE Take(s, 0) = <<>>
  BY DEF Take

\* Two functions on the same numbers with the same values.
LEMMA SameSeq ==
  ASSUME NEW E, NEW s \in Seq(E), NEW t \in Seq(E), Len(s) = Len(t),
         \A k \in 1 .. Len(s) : s[k] = t[k]
  PROVE  s = t
  OBVIOUS

\* A part of a sequence.
LEMMA PartIs ==
  ASSUME NEW E, NEW s \in Seq(E), NEW m \in 0 .. Len(s), NEW n \in m .. Len(s)
  PROVE  /\ SubSeq(s, m + 1, n) \in Seq(E) /\ Len(SubSeq(s, m + 1, n)) = n - m
         /\ \A k \in 1 .. n - m : SubSeq(s, m + 1, n)[k] = s[m + k]
  OBVIOUS

\* u is s, of length m, and behind it t, of length n.
Joined(E, u, s, t, m, n) ==
  /\ u \in Seq(E) /\ Len(u) = m + n
  /\ \A k \in 1 .. m : u[k] = s[k]
  /\ \A k \in 1 .. n : u[m + k] = t[k]

\* What concatenation makes.
LEMMA JoinIs ==
  ASSUME NEW E, NEW s \in Seq(E), NEW t \in Seq(E)
  PROVE  Joined(E, s \o t, s, t, Len(s), Len(t))
  BY DEF Joined

\* A prefix grows by the part that follows it.
LEMMA TakeMore ==
  ASSUME NEW E, NEW s \in Seq(E), NEW m \in 0 .. Len(s), NEW n \in m .. Len(s)
  PROVE  Take(s, n) = Take(s, m) \o SubSeq(s, m + 1, n)
  <1> DEFINE p == SubSeq(s, m + 1, n)
             t == Take(s, m)
             u == Take(s, n)
  <1>1. p \in Seq(E) /\ Len(p) = n - m /\ \A k \in 1 .. n - m : p[k] = s[m + k]
    BY PartIs
  <1>2. t \in Seq(E) /\ Len(t) = m /\ \A k \in 1 .. m : t[k] = s[k]
    BY TakeType, Zenon DEF Take
  <1>3. u \in Seq(E) /\ Len(u) = n /\ \A k \in 1 .. n : u[k] = s[k]
    <2>1. n \in 0 .. Len(s)
      OBVIOUS
    <2> QED BY <2>1, TakeType, Zenon DEF Take
  <1> HIDE DEF p, t, u
  <1>4. /\ t \o p \in Seq(E) /\ Len(t \o p) = m + (n - m)
        /\ \A k \in 1 .. m : (t \o p)[k] = t[k]
        /\ \A k \in 1 .. n - m : (t \o p)[m + k] = p[k]
    <2>1. Joined(E, t \o p, t, p, Len(t), Len(p))
      <3>1. t \in Seq(E) /\ p \in Seq(E)
        BY <1>1, <1>2, Zenon
      <3> QED BY <3>1, JoinIs, Zenon
    <2> QED BY <1>1, <1>2, <2>1, Zenon DEF Joined
  <1>5. m + (n - m) = n /\ m \in Nat /\ n \in Nat
    OBVIOUS
  <1>7. ASSUME NEW k \in 1 .. n PROVE u[k] = (t \o p)[k]
    <2>1. CASE k \in 1 .. m
      BY <1>2, <1>3, <1>4, <2>1, Zenon
    <2>2. CASE k \notin 1 .. m
      <3>1. k - m \in 1 .. n - m /\ m + (k - m) = k
        BY <1>5, <2>2
      <3>2. (t \o p)[m + (k - m)] = p[k - m] /\ p[k - m] = s[m + (k - m)]
        BY <1>1, <1>4, <3>1, Zenon
      <3> QED BY <1>3, <3>1, <3>2, Zenon
    <2> QED BY <2>1, <2>2, Zenon
  <1>6. u = t \o p
    BY <1>3, <1>4, <1>5, <1>7, SameSeq, Zenon
  <1> QED BY <1>6, Zenon DEF p, t, u
-----------------------------------------------------------------------------
(* Loops within loops.                                                     *)

\* A loop over nothing leaves the state it began with.
LEMMA ThroughNone ==
  ASSUME NEW S, NEW E, NEW step, NEW x, Loop(S, E, step, x, <<>>)
  PROVE  Through(step, x, <<>>) = x
  <1>1. PICK f : States(f, S, step, x, <<>>)
    BY ThroughStates, Zenon
  <1>2. Len(<<>>) = 0
    OBVIOUS
  <1> QED BY <1>1, <1>2, Zenon DEF States

\* J[i] is what the first i pieces of ps make when they are joined.
Joins(J, E, ps) ==
  /\ J \in [0 .. Len(ps) -> Seq(E)] /\ J[0] = <<>>
  /\ \A i \in 1 .. Len(ps) : J[i] = J[i - 1] \o ps[i]

\* One step of a loop over pieces of P is a loop over the elements of the piece.
Nests(outer, step, S, P) == \A c \in S : \A p \in P : outer[c][p] = Through(step, c, p)

\* A loop over pieces is one loop over all their elements: how the data is cut
\* does not matter.
LEMMA Nested ==
  ASSUME NEW S, NEW E, NEW P, NEW outer, NEW step, NEW x, NEW ps, NEW J,
         Loop(S, P, outer, x, ps), Loop(S, E, step, x, <<>>), P \subseteq Seq(E),
         Nests(outer, step, S, P), Joins(J, E, ps)
  PROVE  Through(outer, x, ps) = Through(step, x, J[Len(ps)])
  <1> DEFINE f == [i \in 0 .. Len(ps) |-> Through(step, x, J[i])]
  <1>1. ps \in Seq(P) /\ x \in S /\ step \in [S -> [E -> S]]
    BY Zenon DEF Loop
  <1>2. Len(ps) \in Nat
    BY <1>1
  <1>3. ASSUME NEW i \in 0 .. Len(ps)
        PROVE  Loop(S, E, step, x, J[i]) /\ f[i] = Through(step, x, J[i])
    <2>1. J[i] \in Seq(E)
      BY Zenon DEF Joins
    <2> QED BY <1>1, <2>1, Zenon DEF Loop
  <1>4. 0 \in 0 .. Len(ps) /\ Len(ps) \in 0 .. Len(ps)
    BY <1>2
  <1>5. f[0] = x
    <2>1. J[0] = <<>>
      BY Zenon DEF Joins
    <2>2. Through(step, x, <<>>) = x
      BY ThroughNone, SMT
    <2> QED BY <1>3, <1>4, <2>1, <2>2, Zenon
  <1>6. ASSUME NEW i \in 1 .. Len(ps) PROVE f[i] = outer[f[i - 1]][ps[i]]
    <2>1. i - 1 \in 0 .. Len(ps) /\ i \in 0 .. Len(ps)
      BY <1>2
    <2>2. ps[i] \in P
      BY <1>1
    <2>3. f[i - 1] \in S /\ f[i - 1] = Through(step, x, J[i - 1])
      BY <1>3, <2>1, ThroughType, Zenon
    <2>4. outer[f[i - 1]][ps[i]] = Through(step, f[i - 1], ps[i])
      BY <2>2, <2>3, Zenon DEF Nests
    <2>5. ps[i] \in Seq(E)
      BY <2>2, Zenon
    <2>6. J[i] = J[i - 1] \o ps[i]
      BY Zenon DEF Joins
    <2>7. Loop(S, E, step, x, J[i - 1]) /\ f[i] = Through(step, x, J[i])
      BY <1>3, <2>1, Zenon
    <2> HIDE DEF f
    <2>8. Through(step, x, J[i - 1] \o ps[i]) = Through(step, Through(step, x, J[i - 1]), ps[i])
      BY <2>5, <2>7, ThroughConcat, SMT
    <2> QED BY <2>3, <2>4, <2>6, <2>7, <2>8, Zenon
  <1>7. f[Len(ps)] = Through(step, x, J[Len(ps)])
    BY <1>3, <1>4, Zenon
  <1> HIDE DEF f
  <1>8. Follows(f, outer, x, ps)
    BY <1>5, <1>6, Zenon DEF Follows, Steps
  <1>9. Through(outer, x, ps) = f[Len(ps)]
    BY <1>2, <1>8, Computes, SMT
  <1> QED BY <1>7, <1>9, Zenon
-----------------------------------------------------------------------------
(* The data as bits, and the pieces of a region.                           *)

\* The bits of the first n bytes.
BitsUpto(data, n) == BitsOf(Take(data, n))

\* The bits of the data, by their position.
LEMMA BitsIs ==
  ASSUME NEW data \in Seq(ByteValue)
  PROVE  /\ BitsOf(data) \in Seq(BOOLEAN) /\ Len(BitsOf(data)) = Len(data) * ByteBits
         /\ \A k \in 1 .. Len(data) * ByteBits :
              BitsOf(data)[k] = data[((k - 1) \div ByteBits) + 1][((k - 1) % ByteBits) + 1]
  <1> DEFINE n == Len(data) * ByteBits
             q(k) == ((k - 1) \div ByteBits) + 1
             r(k) == ((k - 1) % ByteBits) + 1
  <1>1. Len(data) \in Nat /\ ByteBits \in Nat \ {0} /\ n \in Nat
    BY CrcSize
  <1>2. ASSUME NEW k \in 1 .. n PROVE data[q(k)][r(k)] \in BOOLEAN
    <2> DEFINE a == (k - 1) \div ByteBits
               b == (k - 1) % ByteBits
    <2>1. k - 1 \in Nat /\ k - 1 < Len(data) * ByteBits
      BY <1>1
    <2>2. a \in Nat /\ b \in 0 .. ByteBits - 1 /\ k - 1 = a * ByteBits + b
      BY <1>1, <2>1, DivMod, Zenon
    <2> HIDE DEF a, b
    <2>3. a < Len(data)
      <3>1. CASE a >= Len(data)
        <4>1. a * ByteBits >= Len(data) * ByteBits
          BY <1>1, <2>2, <3>1
        <4> QED BY <1>1, <2>1, <2>2, <4>1
      <3> QED BY <1>1, <2>2, <3>1
    <2>4. a + 1 \in 1 .. Len(data) /\ b + 1 \in 1 .. ByteBits
      BY <1>1, <2>2, <2>3
    <2>5. data[a + 1] \in ByteValue
      BY <2>4
    <2> QED BY <2>4, <2>5, ByteBit, Zenon DEF a, b
  <1>3. BitsOf(data) = [k \in 1 .. n |-> data[q(k)][r(k)]]
    BY Zenon DEF BitsOf
  <1> HIDE DEF n, q, r
  <1>4. BitsOf(data) \in [1 .. n -> BOOLEAN]
    BY <1>2, <1>3, Zenon
  <1>5. BitsOf(data) \in Seq(BOOLEAN) /\ Len(BitsOf(data)) = n
    BY <1>1, <1>4
  <1> QED BY <1>3, <1>5, Zenon DEF n, q, r

\* One byte more.
LEMMA BitsMore ==
  ASSUME NEW data \in Seq(ByteValue), NEW n \in 1 .. Len(data)
  PROVE  BitsUpto(data, n) = BitsUpto(data, n - 1) \o data[n]
  <1> DEFINE d == Take(data, n)
             e == Take(data, n - 1)
             b == data[n]
             m == (n - 1) * ByteBits
             u == BitsOf(d)
             v == BitsOf(e)
  <1>1. /\ n \in 0 .. Len(data) /\ n - 1 \in 0 .. Len(data) /\ m \in Nat /\ b \in ByteValue
        /\ ByteBits \in Nat \ {0} /\ n * ByteBits = m + ByteBits
    BY CrcSize
  <1>2. d \in Seq(ByteValue) /\ Len(d) = n /\ \A k \in 1 .. n : d[k] = data[k]
    BY <1>1, TakeType, Zenon DEF Take
  <1>3. e \in Seq(ByteValue) /\ Len(e) = n - 1 /\ \A k \in 1 .. n - 1 : e[k] = data[k]
    BY <1>1, TakeType, Zenon DEF Take
  <1>4. b \in Seq(BOOLEAN) /\ Len(b) = ByteBits
    BY <1>1, ByteIsSeq, Zenon
  <1> HIDE DEF d, e, m, b
  <1>5. /\ u \in Seq(BOOLEAN) /\ Len(u) = n * ByteBits
        /\ \A k \in 1 .. n * ByteBits :
             u[k] = d[((k - 1) \div ByteBits) + 1][((k - 1) % ByteBits) + 1]
    BY <1>2, BitsIs, Zenon
  <1>6. /\ v \in Seq(BOOLEAN) /\ Len(v) = m
        /\ \A k \in 1 .. m :
             v[k] = e[((k - 1) \div ByteBits) + 1][((k - 1) % ByteBits) + 1]
    BY <1>3, BitsIs, Zenon DEF m
  <1> HIDE DEF u, v
  <1>7. /\ v \o b \in Seq(BOOLEAN) /\ Len(v \o b) = m + ByteBits
        /\ \A k \in 1 .. m : (v \o b)[k] = v[k]
        /\ \A k \in 1 .. ByteBits : (v \o b)[m + k] = b[k]
    <2>1. Joined(BOOLEAN, v \o b, v, b, Len(v), Len(b))
      BY <1>4, <1>6, JoinIs, Zenon
    <2> QED BY <1>4, <1>6, <2>1, Zenon DEF Joined
  <1>8. ASSUME NEW k \in 1 .. m + ByteBits PROVE u[k] = (v \o b)[k]
    <2> DEFINE q == (k - 1) \div ByteBits
               r == (k - 1) % ByteBits
    <2>1. k - 1 \in Nat
      BY <1>1
    <2>2. q \in Nat /\ r \in 0 .. ByteBits - 1 /\ k - 1 = q * ByteBits + r
      BY <1>1, <2>1, DivMod, Zenon
    <2>3. u[k] = d[q + 1][r + 1]
      BY <1>1, <1>5, Zenon
    <2>4. k \in 1 .. m => v[k] = e[q + 1][r + 1]
      BY <1>6, Zenon
    <2>5. CASE k \in 1 .. m
      <3>1. q + 1 \in 1 .. n - 1 /\ q + 1 \in 1 .. n
        <4> HIDE DEF q, r
        <4>1. q < n - 1
          <5>1. CASE q >= n - 1
            <6>1. q * ByteBits >= (n - 1) * ByteBits
              BY <1>1, <2>2, <5>1
            <6> QED BY <1>1, <2>2, <2>5, <6>1 DEF m
          <5> QED BY <1>1, <2>2, <5>1
        <4> QED BY <1>1, <2>2, <4>1
      <3> HIDE DEF q, r
      <3> QED BY <1>2, <1>3, <1>7, <2>3, <2>4, <2>5, <3>1, Zenon
    <2>6. CASE k \notin 1 .. m
      <3> DEFINE s == k - 1 - m
      <3>1. s \in 0 .. ByteBits - 1 /\ k = m + (s + 1) /\ s + 1 \in 1 .. ByteBits
        BY <1>1, <2>6
      <3>2. n - 1 \in Nat /\ k - 1 = (n - 1) * ByteBits + s
        BY <1>1 DEF m
      <3>3. q = n - 1 /\ r = s
        <4>1. Division(k - 1, ByteBits, q, r)
          BY <1>1, <2>1, DivIs, Zenon
        <4>2. Division(k - 1, ByteBits, n - 1, s)
          BY <1>1, <3>1, <3>2, Zenon DEF Division
        <4> HIDE DEF q, r, s
        <4> QED BY <4>1, <4>2, DivUnique, Zenon
      <3>4. q + 1 = n /\ n \in 1 .. n
        BY <1>1, <3>3
      <3> HIDE DEF q, r, s
      <3>5. (v \o b)[m + (s + 1)] = b[s + 1]
        BY <1>7, <3>1, Zenon
      <3>6. d[n] = b
        BY <1>2, <3>4, Zenon DEF b
      <3> QED BY <2>3, <3>1, <3>3, <3>4, <3>5, <3>6, Zenon
    <2> QED BY <2>5, <2>6, Zenon
  <1>9. u = v \o b
    BY <1>1, <1>5, <1>7, <1>8, SameSeq, Zenon
  <1> QED BY <1>9, Zenon DEF u, v, b, d, e, BitsUpto

\* The bytes of the data, or all its bits: the same remainder.
LEMMA CrcBits ==
  ASSUME NEW c \in Crc, NEW data \in Seq(ByteValue)
  PROVE  Through(crc_step, c, data) = Through(BitStep, c, BitsOf(data))
  <1> DEFINE J == [i \in 0 .. Len(data) |-> BitsUpto(data, i)]
  <1>0. Len(data) \in Nat /\ 0 \in 0 .. Len(data) /\ Len(data) \in 0 .. Len(data)
    OBVIOUS
  <1>1. ASSUME NEW i \in 0 .. Len(data) PROVE J[i] \in Seq(BOOLEAN)
    BY TakeType, BitsIs, Zenon DEF BitsUpto
  <1>2. J[0] = <<>>
    <2>1. BitsOf(<<>>) \in Seq(BOOLEAN) /\ Len(BitsOf(<<>>)) = Len(<<>>) * ByteBits
      <3>1. <<>> \in Seq(ByteValue)
        OBVIOUS
      <3> QED BY <3>1, BitsIs, Zenon
    <2>2. BitsOf(<<>>) = <<>>
      <3>1. Len(<<>>) * ByteBits = 0
        BY CrcSize
      <3> HIDE DEF J
      <3> QED BY <2>1, <3>1, EmptySeq
    <2> QED BY <1>0, <2>2, TakeNone, Zenon DEF BitsUpto
  <1>3. ASSUME NEW i \in 1 .. Len(data) PROVE J[i] = J[i - 1] \o data[i]
    <2>1. i \in 0 .. Len(data) /\ i - 1 \in 0 .. Len(data)
      OBVIOUS
    <2>2. BitsUpto(data, i) = BitsUpto(data, i - 1) \o data[i]
      BY BitsMore, Zenon
    <2> QED BY <2>1, <2>2, Zenon
  <1>4. J[Len(data)] = BitsOf(data)
    BY <1>0, TakeAll, Zenon DEF BitsUpto
  <1>5. J \in [0 .. Len(data) -> Seq(BOOLEAN)]
    BY <1>1, Zenon
  <1> HIDE DEF J
  <1>6. Joins(J, BOOLEAN, data)
    BY <1>2, <1>3, <1>5, Zenon DEF Joins
  <1>7. Loop(Crc, ByteValue, crc_step, c, data)
    BY CrcStepIs, Zenon DEF Loop
  <1>8. Loop(Crc, BOOLEAN, BitStep, c, <<>>)
    <2>1. <<>> \in Seq(BOOLEAN)
      OBVIOUS
    <2> QED BY <2>1, BitStepIs, Zenon DEF Loop
  <1>9. Nests(crc_step, BitStep, Crc, ByteValue)
    BY ByteStep, Zenon DEF Nests
  <1>10. ByteValue \subseteq Seq(BOOLEAN)
    BY ByteIsSeq, Zenon
  <1>11. Through(crc_step, c, data) = Through(BitStep, c, J[Len(data)])
    BY <1>6, <1>7, <1>8, <1>9, <1>10, Nested, SMT
  <1> QED BY <1>4, <1>11, Zenon

\* One update() is a loop over the bytes of its piece.
LEMMA CrcUpdateIs ==
  /\ crc_update \in [Crc -> [Seq(ByteValue) -> Crc]]
  /\ \A c \in Crc : \A data \in Seq(ByteValue) : crc_update[c][data] = Through(crc_step, c, data)
  <1>1. ASSUME NEW c \in Crc, NEW data \in Seq(ByteValue) PROVE Through(crc_step, c, data) \in Crc
    <2>1. Loop(Crc, ByteValue, crc_step, c, data)
      BY CrcStepIs, Zenon DEF Loop
    <2> QED BY <2>1, ThroughType, Zenon
  <1> QED BY <1>1, Zenon DEF crc_update
-----------------------------------------------------------------------------
\* Where the k-th piece ends.
PieceEnd(region, n, k) == IF k * n < Len(region) THEN k * n ELSE Len(region)

\* How many pieces there are.
PieceCount(region, n) == (Len(region) + n - 1) \div n

\* Every piece begins where the one before it ends, and the last one ends with the
\* region.
LEMMA PieceNumbers ==
  ASSUME NEW region \in Seq(ByteValue), region # <<>>, NEW n \in Nat \ {0}
  PROVE  /\ PieceCount(region, n) \in Nat
         /\ PieceEnd(region, n, 0) = 0
         /\ PieceEnd(region, n, PieceCount(region, n)) = Len(region)
         /\ \A k \in 0 .. PieceCount(region, n) : PieceEnd(region, n, k) \in 0 .. Len(region)
         /\ \A k \in 1 .. PieceCount(region, n) :
              /\ PieceEnd(region, n, k - 1) = (k - 1) * n
              /\ PieceEnd(region, n, k) \in PieceEnd(region, n, k - 1) .. Len(region)
  <1> DEFINE L == Len(region)
             K == PieceCount(region, n)
             r == (L + n - 1) % n
  <1>1. L \in Nat \ {0} /\ L + n - 1 \in Nat
    BY EmptySeq
  <1>2. K \in Nat /\ r \in 0 .. n - 1 /\ L + n - 1 = K * n + r
    BY <1>1, DivMod, Zenon DEF PieceCount
  <1> HIDE DEF L, K, r
  <1>3. L <= K * n /\ K * n <= L + n - 1 /\ K * n \in Nat
    BY <1>1, <1>2
  <1>4. ASSUME NEW k \in 0 .. K PROVE PieceEnd(region, n, k) \in 0 .. L
    <2>1. k * n \in Nat
      OBVIOUS
    <2> QED BY <1>1, <2>1 DEF PieceEnd, L
  <1>5. PieceEnd(region, n, K) = L
    BY <1>1, <1>3 DEF PieceEnd, L
  <1>6. PieceEnd(region, n, 0) = 0
    <2>1. 0 * n = 0
      OBVIOUS
    <2> QED BY <1>1, <2>1 DEF PieceEnd, L
  <1>7. ASSUME NEW k \in 1 .. K
        PROVE  /\ PieceEnd(region, n, k - 1) = (k - 1) * n
               /\ PieceEnd(region, n, k) \in PieceEnd(region, n, k - 1) .. L
    <2>0. k \in Nat /\ k - 1 \in Nat
      OBVIOUS
    <2>1. k * n = (k - 1) * n + n /\ (k - 1) * n \in Nat
      BY <2>0
    <2>2. k * n <= K * n
      <3>1. K * n = k * n + (K - k) * n
        BY <1>2, <2>0
      <3>2. (K - k) * n \in Nat
        BY <1>2
      <3> QED BY <2>1, <3>1, <3>2
    <2>3. (k - 1) * n < L
      BY <1>1, <1>3, <2>1, <2>2
    <2>4. PieceEnd(region, n, k - 1) = (k - 1) * n
      BY <2>3 DEF PieceEnd, L
    <2>5. PieceEnd(region, n, k) \in (k - 1) * n .. L
      BY <1>1, <2>1, <2>3 DEF PieceEnd, L
    <2> QED BY <2>4, <2>5, Zenon
  <1> QED BY <1>2, <1>4, <1>5, <1>6, <1>7, Zenon DEF L, K

\* The pieces in their order make the region.
LEMMA PiecesJoin ==
  ASSUME NEW region \in Seq(ByteValue), region # <<>>, NEW n \in Nat \ {0}
  PROVE  /\ Pieces(region, n) \in Seq(Seq(ByteValue))
         /\ \E J : Joins(J, ByteValue, Pieces(region, n)) /\ J[Len(Pieces(region, n))] = region
  <1> DEFINE L == Len(region)
             K == PieceCount(region, n)
             e(k) == PieceEnd(region, n, k)
             ps == Pieces(region, n)
             J == [k \in 0 .. K |-> Take(region, e(k))]
  <1>1. /\ K \in Nat /\ e(0) = 0 /\ e(K) = L
        /\ \A k \in 0 .. K : e(k) \in 0 .. L
        /\ \A k \in 1 .. K : e(k - 1) = (k - 1) * n /\ e(k) \in e(k - 1) .. L
    BY PieceNumbers, Zenon
  <1>2. ps = [k \in 1 .. K |-> SubSeq(region, (k - 1) * n + 1, e(k))]
    BY Zenon DEF Pieces, PieceCount, PieceEnd
  <1> HIDE DEF K, e, ps
  <1>3. ASSUME NEW k \in 1 .. K
        PROVE  /\ ps[k] \in Seq(ByteValue) /\ k - 1 \in 0 .. K /\ k \in 0 .. K
               /\ Take(region, e(k)) = Take(region, e(k - 1)) \o ps[k]
    <2>1. k - 1 \in 0 .. K /\ k \in 0 .. K
      BY <1>1
    <2>2. e(k - 1) \in 0 .. Len(region) /\ e(k) \in e(k - 1) .. Len(region)
      BY <1>1, <2>1, Zenon
    <2>3. ps[k] = SubSeq(region, e(k - 1) + 1, e(k))
      BY <1>1, <1>2, Zenon
    <2>4. SubSeq(region, e(k - 1) + 1, e(k)) \in Seq(ByteValue)
      BY <2>2, PartIs, Zenon
    <2>5. Take(region, e(k)) = Take(region, e(k - 1)) \o SubSeq(region, e(k - 1) + 1, e(k))
      BY <2>2, TakeMore, Zenon
    <2> QED BY <2>1, <2>3, <2>4, <2>5, Zenon
  <1>4. ps \in Seq(Seq(ByteValue)) /\ Len(ps) = K
    <2>1. ps \in [1 .. K -> Seq(ByteValue)]
      BY <1>2, <1>3, Zenon
    <2> QED BY <1>1, <2>1
  <1>5. J[0] = <<>> /\ J[K] = region
    <2>1. 0 \in 0 .. K /\ K \in 0 .. K
      BY <1>1
    <2> QED BY <1>1, <2>1, TakeNone, TakeAll, Zenon
  <1>6. J \in [0 .. K -> Seq(ByteValue)]
    BY <1>1, TakeType, Zenon
  <1>7. \A k \in 1 .. K : J[k] = J[k - 1] \o ps[k]
    BY <1>3, Zenon
  <1> HIDE DEF J
  <1>8. Joins(J, ByteValue, ps)
    BY <1>4, <1>5, <1>6, <1>7, Zenon DEF Joins
  <1> QED BY <1>4, <1>5, <1>8, Zenon DEF ps

\* The CRC of a region, in whatever pieces, is the standard's.
LEMMA CrcExact ==
  ASSUME NEW region \in Seq(ByteValue), region # <<>>, NEW n \in Nat \ {0}
  PROVE  crc_value(Through(crc_update, crc_init, Pieces(region, n))) = ReferenceCrc(region)
  <1> DEFINE ps == Pieces(region, n)
  <1>1. PICK J : Joins(J, ByteValue, ps) /\ J[Len(ps)] = region
    BY PiecesJoin, Zenon
  <1>2. ps \in Seq(Seq(ByteValue))
    BY PiecesJoin, Zenon
  <1>3. crc_init \in Crc
    BY DEF crc_init, Crc
  <1> HIDE DEF ps
  <1>4. Loop(Crc, Seq(ByteValue), crc_update, crc_init, ps)
    BY <1>2, <1>3, CrcUpdateIs, Zenon DEF Loop
  <1>5. Loop(Crc, ByteValue, crc_step, crc_init, <<>>)
    <2>1. <<>> \in Seq(ByteValue)
      OBVIOUS
    <2> QED BY <1>3, <2>1, CrcStepIs, Zenon DEF Loop
  <1>6. Nests(crc_update, crc_step, Crc, Seq(ByteValue))
    BY CrcUpdateIs, Zenon DEF Nests
  <1>7. Through(crc_update, crc_init, ps) = Through(crc_step, crc_init, J[Len(ps)])
    BY <1>1, <1>4, <1>5, <1>6, Nested, SMT
  <1>8. Through(crc_step, crc_init, region) = Through(BitStep, crc_init, BitsOf(region))
    BY <1>3, CrcBits, Zenon
  <1> QED BY <1>1, <1>7, <1>8, Zenon DEF ReferenceCrc, ps
-----------------------------------------------------------------------------
(* Blocks and parts of data that is followed by more data.                 *)

\* q blocks of the data from offset o on.
Blocks(data, o, q) == [n \in 1 .. q |-> BlockAt(data, o, n)]

\* A block has room for the length and at least one more byte.
LEMMA BlockSizeIs == BlockSize \in Nat \ {0} /\ LengthSize \in 1 .. BlockSize - 1
  BY IntegrityConstants

\* Where the blocks are.
LEMMA BlockRange ==
  ASSUME NEW o \in Nat, NEW q \in Nat, NEW n \in 1 .. q, NEW k \in 1 .. BlockSize
  PROVE  o + (n - 1) * BlockSize + k \in o + 1 .. o + q * BlockSize
  <1>1. q * BlockSize = (n - 1) * BlockSize + BlockSize + (q - n) * BlockSize
    BY BlockSizeIs
  <1>2. (n - 1) * BlockSize \in Nat /\ (q - n) * BlockSize \in Nat /\ q * BlockSize \in Nat
    BY BlockSizeIs
  <1> QED BY <1>1, <1>2, BlockSizeIs

\* Blocks that lie inside the data are made of bytes.
LEMMA BlocksType ==
  ASSUME NEW data \in Seq(ByteValue), NEW o \in Nat, NEW q \in Nat,
         o + q * BlockSize <= Len(data)
  PROVE  Blocks(data, o, q) \in Seq(Seq(ByteValue)) /\ Len(Blocks(data, o, q)) = q
  <1>1. ASSUME NEW n \in 1 .. q, NEW k \in 1 .. BlockSize
        PROVE  data[o + (n - 1) * BlockSize + k] \in ByteValue
    <2> DEFINE j == o + (n - 1) * BlockSize + k
    <2>1. j \in o + 1 .. o + q * BlockSize
      BY BlockRange, Zenon
    <2>2. q * BlockSize \in Nat
      BY BlockSizeIs
    <2> HIDE DEF j
    <2>3. j \in 1 .. Len(data)
      BY <2>1, <2>2
    <2>4. data[j] \in ByteValue
      BY <2>3
    <2> QED BY <2>4, Zenon DEF j
  <1>2. ASSUME NEW n \in 1 .. q PROVE BlockAt(data, o, n) \in Seq(ByteValue)
    <2>1. BlockAt(data, o, n) \in [1 .. BlockSize -> ByteValue]
      BY <1>1, Zenon DEF BlockAt
    <2> QED BY <2>1, BlockSizeIs
  <1>3. Blocks(data, o, q) \in [1 .. q -> Seq(ByteValue)]
    BY <1>2, Zenon DEF Blocks
  <1> QED BY <1>3

\* The n bytes of d from offset o on are those of e from offset p on.
SameBytes(d, o, e, p, n) == \A j \in 1 .. n : d[o + j] = e[p + j]

\* The same bytes make the same blocks, wherever they are.
LEMMA SameBlocks ==
  ASSUME NEW d, NEW o \in Nat, NEW e, NEW p \in Nat, NEW q \in Nat,
         SameBytes(d, o, e, p, q * BlockSize)
  PROVE  Blocks(d, o, q) = Blocks(e, p, q)
  <1>1. ASSUME NEW n \in 1 .. q, NEW k \in 1 .. BlockSize
        PROVE  d[o + (n - 1) * BlockSize + k] = e[p + (n - 1) * BlockSize + k]
    <2> DEFINE j == (n - 1) * BlockSize + k
    <2>1. 0 + (n - 1) * BlockSize + k \in 0 + 1 .. 0 + q * BlockSize
      BY BlockRange, Zenon
    <2>2. (n - 1) * BlockSize \in Nat /\ q * BlockSize \in Nat /\ k \in Nat
      BY BlockSizeIs
    <2>3. /\ j \in 1 .. q * BlockSize
          /\ o + j = o + (n - 1) * BlockSize + k /\ p + j = p + (n - 1) * BlockSize + k
      BY <2>1, <2>2
    <2> HIDE DEF j
    <2> QED BY <2>3, Zenon DEF SameBytes
  <1>2. \A n \in 1 .. q : BlockAt(d, o, n) = BlockAt(e, p, n)
    BY <1>1, Zenon DEF BlockAt
  <1> QED BY <1>2, Zenon DEF Blocks

\* The data has q blocks from offset o on.
Holds(data, o, q) == o + q * BlockSize <= Len(data)

\* Some blocks and then some more.
LEMMA BlocksMore ==
  ASSUME NEW data \in Seq(ByteValue), NEW o \in Nat, NEW a \in Nat, NEW b \in Nat,
         Holds(data, o, a + b)
  PROVE  Blocks(data, o, a + b) = Blocks(data, o, a) \o Blocks(data, o + a * BlockSize, b)
  <1> DEFINE u == Blocks(data, o, a + b)
             v == Blocks(data, o, a)
             p == o + a * BlockSize
             w == Blocks(data, p, b)
             E == Seq(ByteValue)
  <1>1. /\ (a + b) * BlockSize = a * BlockSize + b * BlockSize
        /\ a * BlockSize \in Nat /\ b * BlockSize \in Nat /\ a + b \in Nat
        /\ o + (a + b) * BlockSize <= Len(data)
    BY BlockSizeIs DEF Holds
  <1>2. p \in Nat /\ o + a * BlockSize <= Len(data) /\ p + b * BlockSize <= Len(data)
    BY <1>1
  <1>3. u \in Seq(E) /\ Len(u) = a + b /\ \A n \in 1 .. a + b : u[n] = BlockAt(data, o, n)
    <2>1. u \in Seq(E) /\ Len(u) = a + b
      BY <1>1, BlocksType, Zenon
    <2> QED BY <2>1, Zenon DEF Blocks
  <1>4. v \in Seq(E) /\ Len(v) = a /\ \A n \in 1 .. a : v[n] = BlockAt(data, o, n)
    <2>1. v \in Seq(E) /\ Len(v) = a
      BY <1>2, BlocksType, Zenon
    <2> QED BY <2>1, Zenon DEF Blocks
  <1>5. w \in Seq(E) /\ Len(w) = b /\ \A n \in 1 .. b : w[n] = BlockAt(data, p, n)
    <2> HIDE DEF p
    <2>1. w \in Seq(E) /\ Len(w) = b
      BY <1>2, BlocksType, Zenon
    <2> QED BY <2>1, Zenon DEF Blocks
  <1> HIDE DEF u, v, w, E
  <1>6. Joined(E, v \o w, v, w, a, b)
    <2>1. Joined(E, v \o w, v, w, Len(v), Len(w))
      BY <1>4, <1>5, JoinIs, Zenon
    <2> QED BY <1>4, <1>5, <2>1, Zenon
  <1>7. ASSUME NEW n \in 1 .. b PROVE BlockAt(data, o, a + n) = BlockAt(data, p, n)
    <2>1. ASSUME NEW k \in 1 .. BlockSize
          PROVE  o + ((a + n) - 1) * BlockSize + k = p + (n - 1) * BlockSize + k
      <3>1. ((a + n) - 1) * BlockSize = a * BlockSize + (n - 1) * BlockSize
        BY BlockSizeIs
      <3>2. (n - 1) * BlockSize \in Nat /\ k \in Nat
        BY BlockSizeIs
      <3> QED BY <1>1, <3>1, <3>2
    <2> HIDE DEF p
    <2> QED BY <2>1, Zenon DEF BlockAt
  <1>8. ASSUME NEW n \in 1 .. a + b PROVE u[n] = (v \o w)[n]
    <2>1. CASE n \in 1 .. a
      BY <1>3, <1>4, <1>6, <2>1, Zenon DEF Joined
    <2>2. CASE n \notin 1 .. a
      <3>1. n - a \in 1 .. b /\ a + (n - a) = n
        BY <2>2
      <3>2. (v \o w)[a + (n - a)] = w[n - a]
        BY <1>6, <3>1, Zenon DEF Joined
      <3>3. BlockAt(data, o, a + (n - a)) = BlockAt(data, p, n - a)
        BY <1>7, <3>1, Zenon
      <3>4. w[n - a] = BlockAt(data, p, n - a)
        BY <1>5, <3>1, Zenon
      <3> HIDE DEF p
      <3> QED BY <1>3, <3>1, <3>2, <3>3, <3>4, Zenon
    <2> QED BY <2>1, <2>2, Zenon
  <1>9. v \o w \in Seq(E) /\ Len(v \o w) = a + b
    BY <1>6, Zenon DEF Joined
  <1>10. u = v \o w
    BY <1>3, <1>8, <1>9, SameSeq, Zenon
  <1> QED BY <1>10, Zenon DEF u, v, w

\* A part that reaches into the data that follows.
LEMMA PartAcross ==
  ASSUME NEW E, NEW d \in Seq(E), NEW e \in Seq(E), NEW x \in 0 .. Len(d), NEW y \in 0 .. Len(e)
  PROVE  SubSeq(d \o e, x + 1, Len(d) + y) = SubSeq(d, x + 1, Len(d)) \o SubSeq(e, 1, y)
  <1> DEFINE m == Len(d)
             u == d \o e
             a == SubSeq(u, x + 1, m + y)
             b == SubSeq(d, x + 1, m)
             c == SubSeq(e, 1, y)
  <1>1. m \in Nat /\ x \in Nat /\ y \in Nat /\ m - x \in Nat /\ (m - x) + y \in Nat
    OBVIOUS
  <1>2. /\ u \in Seq(E) /\ Len(u) = m + Len(e)
        /\ \A k \in 1 .. m : u[k] = d[k]
        /\ \A k \in 1 .. Len(e) : u[m + k] = e[k]
    <2>1. Joined(E, d \o e, d, e, Len(d), Len(e))
      BY JoinIs, Zenon
    <2> QED BY <2>1, Zenon DEF Joined
  <1>3. b \in Seq(E) /\ Len(b) = m - x /\ \A k \in 1 .. m - x : b[k] = d[x + k]
    <2>1. m \in x .. Len(d)
      BY <1>1
    <2> QED BY <2>1, PartIs, Zenon
  <1>4. c \in Seq(E) /\ Len(c) = y /\ \A k \in 1 .. y : c[k] = e[k]
    OBVIOUS
  <1> HIDE DEF u
  <1>5. a \in Seq(E) /\ Len(a) = (m + y) - x /\ \A k \in 1 .. (m + y) - x : a[k] = u[x + k]
    <2>1. x \in 0 .. Len(u) /\ m + y \in x .. Len(u)
      BY <1>1, <1>2
    <2>2. u \in Seq(E)
      BY <1>2, Zenon
    <2> QED BY <2>1, <2>2, PartIs, Zenon
  <1>6. (m + y) - x = (m - x) + y
    BY <1>1
  <1> HIDE DEF a, b, c
  <1>7. Joined(E, b \o c, b, c, m - x, y)
    <2>1. Joined(E, b \o c, b, c, Len(b), Len(c))
      BY <1>3, <1>4, JoinIs, Zenon
    <2> QED BY <1>3, <1>4, <2>1, Zenon
  <1>8. ASSUME NEW k \in 1 .. (m - x) + y PROVE a[k] = (b \o c)[k]
    <2>0. a[k] = u[x + k]
      BY <1>5, <1>6, Zenon
    <2>1. CASE k \in 1 .. m - x
      <3>1. x + k \in 1 .. m
        BY <1>1, <2>1
      <3> QED BY <1>2, <1>3, <1>7, <2>0, <2>1, <3>1, Zenon DEF Joined
    <2>2. CASE k \notin 1 .. m - x
      <3> DEFINE j == k - (m - x)
      <3>1. j \in 1 .. y /\ j \in 1 .. Len(e) /\ (m - x) + j = k /\ x + k = m + j
        BY <1>1, <2>2
      <3> HIDE DEF j
      <3>2. (b \o c)[(m - x) + j] = c[j] /\ u[m + j] = e[j]
        BY <1>2, <1>7, <3>1, Zenon DEF Joined
      <3> QED BY <1>4, <2>0, <3>1, <3>2, Zenon
    <2> QED BY <2>1, <2>2, Zenon
  <1>9. b \o c \in Seq(E) /\ Len(b \o c) = (m - x) + y
    BY <1>7, Zenon DEF Joined
  <1>10. a = b \o c
    BY <1>5, <1>6, <1>8, <1>9, SameSeq, Zenon
  <1> QED BY <1>10, Zenon DEF a, b, c, u

\* A part of the data that follows.
LEMMA PartBehind ==
  ASSUME NEW E, NEW d \in Seq(E), NEW e \in Seq(E), NEW y \in 0 .. Len(e)
  PROVE  SubSeq(d \o e, (Len(d) + y) + 1, Len(d) + Len(e)) = SubSeq(e, y + 1, Len(e))
  OBVIOUS
-----------------------------------------------------------------------------
(* The hash of all the bytes seen so far.                                  *)

Absorbed(d) ==
  [blocks |-> Blocks(d, 0, Len(d) \div BlockSize),
   buffer |-> SubSeq(d, (Len(d) \div BlockSize) * BlockSize + 1, Len(d)),
   total |-> Len(d)]

\* How far the whole blocks reach.
LEMMA WholeIs ==
  ASSUME NEW d \in Seq(ByteValue)
  PROVE  /\ Division(Len(d), BlockSize, Len(d) \div BlockSize, Len(d) % BlockSize)
         /\ (Len(d) \div BlockSize) * BlockSize \in 0 .. Len(d)
  <1> DEFINE q == Len(d) \div BlockSize
             r == Len(d) % BlockSize
  <1>1. Len(d) \in Nat
    OBVIOUS
  <1>0. Division(Len(d), BlockSize, q, r)
    BY <1>1, BlockSizeIs, DivIs, Zenon
  <1> HIDE DEF q, r
  <1>2. q \in Nat /\ r \in 0 .. BlockSize - 1 /\ Len(d) = q * BlockSize + r
    BY <1>0, Zenon DEF Division
  <1>3. q * BlockSize \in Nat
    BY <1>2, BlockSizeIs
  <1>4. q * BlockSize \in 0 .. Len(d)
    BY <1>2, <1>3, BlockSizeIs, SMTT(30)
  <1> QED BY <1>0, <1>4, Zenon DEF q, r

\* The state of the hash: fewer bytes wait than make a block.
LEMMA AbsorbedType ==
  ASSUME NEW d \in Seq(ByteValue)
  PROVE  Absorbed(d) \in Hash /\ Len(Absorbed(d).buffer) = Len(d) % BlockSize
  <1> DEFINE q == Len(d) \div BlockSize
             r == Len(d) % BlockSize
             x == q * BlockSize
  <1>0. Division(Len(d), BlockSize, q, r) /\ x \in 0 .. Len(d)
    BY WholeIs, Zenon
  <1> HIDE DEF q, r
  <1>1. q \in Nat /\ x \in 0 .. Len(d) /\ Len(d) = x + r /\ r \in 0 .. BlockSize - 1
    BY <1>0, Zenon DEF Division
  <1>2. Blocks(d, 0, q) \in Seq(Seq(ByteValue))
    <2>1. 0 + q * BlockSize <= Len(d) /\ 0 \in Nat
      BY <1>1, BlockSizeIs
    <2> QED BY <1>1, <2>1, BlocksType, Zenon
  <1>3. SubSeq(d, x + 1, Len(d)) \in Seq(ByteValue) /\ Len(SubSeq(d, x + 1, Len(d))) = Len(d) - x
    <2>1. Len(d) \in x .. Len(d)
      BY <1>1
    <2> HIDE DEF x
    <2> QED BY <1>1, <2>1, PartIs, Zenon
  <1>4. Len(d) - x = r /\ Len(d) \in Nat
    BY <1>1
  <1>5. Absorbed(d) =
          [blocks |-> Blocks(d, 0, q), buffer |-> SubSeq(d, x + 1, Len(d)), total |-> Len(d)]
    BY Zenon DEF Absorbed, q
  <1> HIDE DEF x
  <1> QED BY <1>2, <1>3, <1>4, <1>5 DEF Hash, r

\* More data that goes on at the end of a block.
LEMMA Aligned ==
  ASSUME NEW d \in Seq(ByteValue), NEW e \in Seq(ByteValue), NEW G \in Nat,
         NEW i \in 0 .. Len(e), Len(d) + i = G * BlockSize
  PROVE  Absorbed(d \o e) =
           [blocks |-> Blocks(d \o e, 0, G) \o Blocks(e, i, (Len(e) - i) \div BlockSize),
            buffer |-> SubSeq(e, i + ((Len(e) - i) \div BlockSize) * BlockSize + 1, Len(e)),
            total |-> Len(d) + Len(e)]
  <1> DEFINE u == d \o e
             w == (Len(e) - i) \div BlockSize
             s == (Len(e) - i) % BlockSize
             W == Len(u) \div BlockSize
             y == i + w * BlockSize
  <1>1. /\ u \in Seq(ByteValue) /\ Len(u) = Len(d) + Len(e)
        /\ \A k \in 1 .. Len(e) : u[Len(d) + k] = e[k]
    <2>1. Joined(ByteValue, d \o e, d, e, Len(d), Len(e))
      BY JoinIs, Zenon
    <2> QED BY <2>1, Zenon DEF Joined
  <1> HIDE DEF u
  <1>2. w \in Nat /\ s \in 0 .. BlockSize - 1 /\ Len(e) - i = w * BlockSize + s
    <2>1. Len(e) - i \in Nat
      OBVIOUS
    <2> QED BY <2>1, BlockSizeIs, DivMod, Zenon
  <1> HIDE DEF w, s
  <1>3. /\ w * BlockSize \in Nat /\ G * BlockSize \in Nat /\ Len(d) \in Nat /\ Len(e) \in Nat
        /\ (G + w) * BlockSize = G * BlockSize + w * BlockSize /\ G + w \in Nat
    BY <1>2, BlockSizeIs
  <1>4. /\ Len(u) = (G + w) * BlockSize + s /\ y \in 0 .. Len(e)
        /\ (G + w) * BlockSize = Len(d) + y
    <2> DEFINE gw == (G + w) * BlockSize
               g == G * BlockSize
               ww == w * BlockSize
    <2>1. gw = g + ww /\ g \in Nat /\ ww \in Nat /\ g = Len(d) + i
      BY <1>3, Zenon
    <2>2. s \in Nat /\ i \in Nat /\ Len(e) - i = ww + s
      BY <1>2, BlockSizeIs
    <2> HIDE DEF gw, g, ww
    <2>3. Len(u) = gw + s /\ i + ww \in 0 .. Len(e) /\ gw = Len(d) + (i + ww)
      <3>1. Len(e) = i + ww + s /\ i + ww \in Nat
        BY <1>3, <2>1, <2>2
      <3>2. i + ww \in 0 .. Len(e)
        BY <2>1, <2>2, <3>1, SMTT(30)
      <3>3. gw = Len(d) + (i + ww)
        BY <1>3, <2>1, <2>2
      <3>4. Len(u) = gw + s
        BY <1>1, <1>3, <2>1, <2>2, <3>1, <3>3, SMTT(30)
      <3> QED BY <3>2, <3>3, <3>4, Zenon
    <2> QED BY <2>3, Zenon DEF gw, ww
  <1>5. W = G + w
    <2>1. Division(Len(u), BlockSize, W, Len(u) % BlockSize)
      <3>1. Len(u) \in Nat
        BY <1>1
      <3> QED BY <3>1, BlockSizeIs, DivIs, Zenon
    <2>2. Division(Len(u), BlockSize, G + w, s)
      BY <1>2, <1>3, <1>4, BlockSizeIs, Zenon DEF Division
    <2> HIDE DEF W
    <2> QED BY <2>1, <2>2, DivUnique, Zenon
  <1>6. Blocks(u, 0, G + w) = Blocks(u, 0, G) \o Blocks(u, G * BlockSize, w)
    <2>1. 0 + (G + w) * BlockSize <= Len(u) /\ 0 \in Nat /\ 0 + G * BlockSize = G * BlockSize
      BY <1>2, <1>3, <1>4, BlockSizeIs, SMTT(30)
    <2>2. Blocks(u, 0, G + w) = Blocks(u, 0, G) \o Blocks(u, 0 + G * BlockSize, w)
      <3>1. u \in Seq(ByteValue) /\ w \in Nat /\ 0 \in Nat
        BY <1>1, <1>2, <2>1, Zenon
      <3>2. Holds(u, 0, G + w)
        BY <2>1, Zenon DEF Holds
      <3> QED BY <3>1, <3>2, BlocksMore, SMTT(30)
    <2> QED BY <2>1, <2>2, Zenon
  <1>7. Blocks(u, G * BlockSize, w) = Blocks(e, i, w)
    <2>1. ASSUME NEW j \in 1 .. w * BlockSize PROVE u[G * BlockSize + j] = e[i + j]
      <3>1. i + j \in 1 .. Len(e) /\ G * BlockSize + j = Len(d) + (i + j)
        BY <1>2, <1>3, BlockSizeIs
      <3> QED BY <1>1, <3>1, Zenon
    <2>2. i \in Nat
      OBVIOUS
    <2>3. SameBytes(u, G * BlockSize, e, i, w * BlockSize)
      BY <2>1, Zenon DEF SameBytes
    <2> QED BY <1>2, <1>3, <2>2, <2>3, SameBlocks, SMTT(30)
  <1>8. SubSeq(u, (Len(d) + y) + 1, Len(d) + Len(e)) = SubSeq(e, y + 1, Len(e))
    <2> HIDE DEF y
    <2> QED BY <1>4, PartBehind, Zenon DEF u
  <1>9. Absorbed(u) = [blocks |-> Blocks(u, 0, W), buffer |-> SubSeq(u, W * BlockSize + 1, Len(u)),
                       total |-> Len(u)]
    BY Zenon DEF Absorbed
  <1> HIDE DEF W
  <1>10. SubSeq(u, W * BlockSize + 1, Len(u)) = SubSeq(e, i + w * BlockSize + 1, Len(e))
    BY <1>1, <1>4, <1>5, <1>8, Zenon
  <1>11. Blocks(u, 0, W) = Blocks(u, 0, G) \o Blocks(e, i, w)
    BY <1>5, <1>6, <1>7, Zenon
  <1> QED BY <1>1, <1>9, <1>10, <1>11, Zenon DEF u, w

\* One block.
LEMMA OneBlock ==
  ASSUME NEW u \in Seq(ByteValue), NEW o \in Nat, o + BlockSize <= Len(u)
  PROVE  Blocks(u, o, 1) = <<SubSeq(u, o + 1, o + BlockSize)>>
  <1> DEFINE p == SubSeq(u, o + 1, o + BlockSize)
             b == BlockAt(u, o, 1)
  <1>1. p \in Seq(ByteValue) /\ Len(p) = BlockSize /\ \A k \in 1 .. BlockSize : p[k] = u[o + k]
    <2>1. o \in 0 .. Len(u) /\ o + BlockSize \in o .. Len(u) /\ (o + BlockSize) - o = BlockSize
      BY BlockSizeIs
    <2>2. /\ p \in Seq(ByteValue) /\ Len(p) = (o + BlockSize) - o
          /\ \A k \in 1 .. (o + BlockSize) - o : p[k] = u[o + k]
      BY <2>1, PartIs, Zenon
    <2> QED BY <2>1, <2>2, Zenon
  <1>2. ASSUME NEW k \in 1 .. BlockSize PROVE b[k] = p[k]
    <2>1. o + (1 - 1) * BlockSize + k = o + k
      BY BlockSizeIs
    <2>2. b[k] = u[o + (1 - 1) * BlockSize + k]
      BY Zenon DEF BlockAt
    <2> HIDE DEF b, p
    <2> QED BY <1>1, <2>1, <2>2, Zenon
  <1>3. b \in Seq(ByteValue) /\ Len(b) = BlockSize
    <2> HIDE DEF p
    <2>1. \A k \in 1 .. BlockSize : p[k] \in ByteValue
      BY <1>1
    <2>2. DOMAIN b = 1 .. BlockSize /\ b = [k \in DOMAIN b |-> b[k]]
      BY Zenon DEF BlockAt
    <2> HIDE DEF b
    <2>3. b \in [1 .. BlockSize -> ByteValue]
      BY <1>2, <2>1, <2>2, Zenon
    <2> QED BY <2>3, BlockSizeIs
  <1> HIDE DEF b, p
  <1>4. b = p
    BY <1>1, <1>2, <1>3, SameSeq, Zenon
  <1>5. Blocks(u, o, 1) = <<b>>
    BY DEF Blocks, b
  <1> QED BY <1>4, <1>5, Zenon DEF p

\* How much of the data goes into the buffer first.
Fill(r, len) == IF r = 0 THEN 0 ELSE IF len < BlockSize - r THEN len ELSE BlockSize - r

\* first is what the buffer is filled up to with i bytes.
Filled(h, e, i, first) ==
  /\ i = Fill(Len(h.buffer), Len(e)) /\ first = h.buffer \o SubSeq(e, 1, i)
  /\ Len(h.buffer) = 0 <=> h.buffer = <<>>

\* What update() makes of a hash.
LEMMA UpdatedIs ==
  ASSUME NEW h, NEW e, NEW i, NEW first, Filled(h, e, i, first)
  PROVE  Updated(h, e) =
           [blocks |-> h.blocks \o ((IF Len(first) = BlockSize THEN <<first>> ELSE <<>>)
                                      \o Blocks(e, i, (Len(e) - i) \div BlockSize)),
            buffer |-> (IF Len(first) = BlockSize THEN <<>> ELSE first)
                         \o SubSeq(e, i + ((Len(e) - i) \div BlockSize) * BlockSize + 1, Len(e)),
            total |-> h.total + Len(e)]
  <1>1. i = IF h.buffer = <<>> THEN 0
            ELSE IF Len(e) < BlockSize - Len(h.buffer) THEN Len(e) ELSE BlockSize - Len(h.buffer)
    BY Zenon DEF Fill, Filled
  <1>2. first = h.buffer \o SubSeq(e, 1, i)
    BY Zenon DEF Filled
  <1> QED BY <1>1, <1>2, Zenon DEF Updated, process_blocks, Blocks

\* After the bytes of d and then those of e the hash is that of both.
LEMMA Absorb ==
  ASSUME NEW d \in Seq(ByteValue), NEW e \in Seq(ByteValue)
  PROVE  Updated(Absorbed(d), e) = Absorbed(d \o e)
  <1> DEFINE B == BlockSize
             E == Seq(ByteValue)
             h == Absorbed(d)
             u == d \o e
             q == Len(d) \div B
             r == Len(d) % B
             x == q * B
             len == Len(e)
             i == Fill(r, len)
             buf == SubSeq(d, x + 1, Len(d))
             first == buf \o SubSeq(e, 1, i)
             w == (len - i) \div B
  <1>1. /\ u \in Seq(ByteValue) /\ Len(u) = Len(d) + len
        /\ \A k \in 1 .. Len(d) : u[k] = d[k]
    <2>1. Joined(ByteValue, d \o e, d, e, Len(d), Len(e))
      BY JoinIs, Zenon
    <2> QED BY <2>1, Zenon DEF Joined
  <1>2. Division(Len(d), B, q, r) /\ x \in 0 .. Len(d)
    BY WholeIs, Zenon
  <1>3. h = [blocks |-> Blocks(d, 0, q), buffer |-> buf, total |-> Len(d)]
    BY Zenon DEF Absorbed
  <1>4. B \in Nat \ {0} /\ len \in Nat /\ Len(d) \in Nat
    BY BlockSizeIs
  <1> HIDE DEF h, u, q, r
  <1>5. q \in Nat /\ r \in 0 .. B - 1 /\ Len(d) = x + r /\ x \in Nat
    <2>1. q \in Nat /\ r \in 0 .. B - 1 /\ Len(d) = x + r
      BY <1>2, Zenon DEF Division
    <2> QED BY <1>2, <2>1
  <1>6. buf \in Seq(ByteValue) /\ Len(buf) = r /\ (r = 0 <=> buf = <<>>)
    <2>1. Len(d) \in x .. Len(d) /\ Len(d) - x = r
      BY <1>4, <1>5
    <2> HIDE DEF x
    <2>2. buf \in Seq(ByteValue) /\ Len(buf) = Len(d) - x
      BY <1>2, <2>1, PartIs, ZenonT(40)
    <2> HIDE DEF buf
    <2> QED BY <2>1, <2>2
  <1>7. i \in 0 .. len
    BY <1>4, <1>5 DEF Fill
  <1>8. SubSeq(u, x + 1, Len(d) + i) = first
    <2> HIDE DEF x, i
    <2> QED BY <1>2, <1>7, PartAcross, Zenon DEF u
  <1>9. first \in Seq(ByteValue) /\ Len(first) = r + i
    <2>1. SubSeq(e, 1, i) \in Seq(ByteValue) /\ Len(SubSeq(e, 1, i)) = i
      <3> HIDE DEF i
      <3> QED BY <1>7
    <2> HIDE DEF buf
    <2> QED BY <1>6, <2>1
  <1>10. h.buffer = buf /\ h.blocks = Blocks(d, 0, q) /\ h.total = Len(d)
    <2> HIDE DEF buf
    <2> QED BY <1>3
  <1>11. Updated(h, e) =
           [blocks |-> Blocks(d, 0, q) \o ((IF Len(first) = B THEN <<first>> ELSE <<>>)
                                             \o Blocks(e, i, w)),
            buffer |-> (IF Len(first) = B THEN <<>> ELSE first) \o SubSeq(e, i + w * B + 1, len),
            total |-> Len(d) + len]
    <2> HIDE DEF i, buf
    <2>1. r = Len(h.buffer) /\ (r = 0 <=> h.buffer = <<>>) /\ first = h.buffer \o SubSeq(e, 1, i)
      BY <1>6, <1>10, Zenon
    <2>2. i = Fill(r, Len(e))
      BY Zenon DEF i
    <2> HIDE DEF first
    <2>3. Filled(h, e, i, first)
      BY <2>1, <2>2, Zenon DEF Filled
    <2>4. Updated(h, e) =
            [blocks |-> h.blocks \o ((IF Len(first) = BlockSize THEN <<first>> ELSE <<>>)
                                       \o Blocks(e, i, (Len(e) - i) \div BlockSize)),
             buffer |-> (IF Len(first) = BlockSize THEN <<>> ELSE first)
                          \o SubSeq(e, i + ((Len(e) - i) \div BlockSize) * BlockSize + 1, Len(e)),
             total |-> h.total + Len(e)]
      BY <2>3, UpdatedIs, Zenon
    <2> QED BY <1>10, <2>4, Zenon
  <1>12. Blocks(u, 0, q) = Blocks(d, 0, q)
    <2>1. ASSUME NEW j \in 1 .. q * B PROVE u[0 + j] = d[0 + j]
      <3>1. j \in 1 .. Len(d) /\ 0 + j = j
        BY <1>2, <1>4, <1>5
      <3> QED BY <1>1, <3>1, Zenon
    <2>2. SameBytes(u, 0, d, 0, q * BlockSize) /\ 0 \in Nat
      BY <2>1, Zenon DEF SameBytes
    <2> QED BY <1>5, <2>2, SameBlocks, SMTT(30)
  <1>13. Blocks(d, 0, q) \in Seq(E) /\ Blocks(u, 0, q) \in Seq(E)
    <2>1. 0 + q * BlockSize <= Len(d) /\ 0 \in Nat
      BY <1>2, <1>4
    <2> QED BY <1>5, <1>12, <2>1, BlocksType, Zenon
  <1>14. w \in Nat /\ w * B \in Nat /\ i + w * B \in 0 .. len
    <2> DEFINE s == (len - i) % B
    <2> HIDE DEF i
    <2>1. len - i \in Nat
      BY <1>7
    <2>2. w \in Nat /\ s \in 0 .. B - 1 /\ len - i = w * B + s
      BY <1>4, <2>1, DivMod, Zenon
    <2> HIDE DEF w, s
    <2>3. w * B \in Nat
      BY <1>4, <2>2
    <2> QED BY <1>4, <1>7, <2>2, <2>3, SMTT(30)
  <1>15. Blocks(e, i, w) \in Seq(E)
    <2> HIDE DEF i, w
    <2>1. i \in Nat /\ i + w * BlockSize <= Len(e)
      BY <1>7, <1>14
    <2> QED BY <1>14, <2>1, BlocksType, Zenon
  <1>16. SubSeq(e, i + w * B + 1, len) \in Seq(ByteValue)
    <2> DEFINE y == i + w * B
    <2>1. y \in 0 .. Len(e) /\ Len(e) \in y .. Len(e)
      <3> HIDE DEF i, w
      <3> QED BY <1>4, <1>14
    <2> HIDE DEF y
    <2>2. SubSeq(e, y + 1, Len(e)) \in Seq(ByteValue)
      BY <2>1, PartIs, Zenon
    <2> QED BY <2>2, Zenon DEF y
  <1>17. Absorbed(u) = [blocks |-> Blocks(u, 0, Len(u) \div B),
                        buffer |-> SubSeq(u, (Len(u) \div B) * B + 1, Len(u)), total |-> Len(u)]
    BY Zenon DEF Absorbed
  <1> HIDE DEF B, E, x, len, buf, first, w, i
  <1>20. CASE r = 0
    <2>1. i = 0
      BY <1>20, Zenon DEF i, Fill
    <2>2. Len(first) # B /\ first = <<>>
      BY <1>4, <1>9, <1>20, <2>1, EmptySeq, SMTT(30)
    <2>3. Absorbed(u) = [blocks |-> Blocks(u, 0, q) \o Blocks(e, i, w),
                         buffer |-> SubSeq(e, i + w * B + 1, len), total |-> Len(d) + len]
      <3>1. Len(d) + i = q * BlockSize
        BY <1>4, <1>5, <1>20, <2>1, SMTT(30) DEF x, B
      <3> QED BY <1>5, <1>7, <3>1, Aligned, Zenon DEF u, len, w, B
    <2>4. <<>> \o Blocks(e, i, w) = Blocks(e, i, w)
      BY <1>15, ConcatEmptySeq, Zenon
    <2>5. <<>> \o SubSeq(e, i + w * B + 1, len) = SubSeq(e, i + w * B + 1, len)
      BY <1>16, ConcatEmptySeq, Zenon
    <2> QED BY <1>11, <1>12, <2>2, <2>3, <2>4, <2>5, Zenon DEF h, u
  <1>21. CASE r # 0 /\ i = B - r
    <2>1. Len(first) = B /\ Len(d) + i = x + B
      BY <1>4, <1>5, <1>9, <1>21, SMTT(30)
    <2>2. (q + 1) * BlockSize = x + B /\ q + 1 \in Nat
      BY <1>4, <1>5 DEF x, B
    <2>3. Absorbed(u) = [blocks |-> Blocks(u, 0, q + 1) \o Blocks(e, i, w),
                         buffer |-> SubSeq(e, i + w * B + 1, len), total |-> Len(d) + len]
      <3>1. Len(d) + i = (q + 1) * BlockSize
        BY <2>1, <2>2, Zenon
      <3> QED BY <1>7, <2>2, <3>1, Aligned, Zenon DEF u, len, w, B
    <2>4. x + B <= Len(u) /\ 0 + x = x /\ 0 + (q + 1) * BlockSize <= Len(u)
      BY <1>1, <1>4, <1>5, <1>7, <2>1, <2>2, SMTT(30)
    <2>5. Blocks(u, 0, q + 1) = Blocks(u, 0, q) \o Blocks(u, x, 1)
      <3>1. 0 \in Nat /\ 1 \in Nat
        OBVIOUS
      <3>2. Blocks(u, 0, q + 1) = Blocks(u, 0, q) \o Blocks(u, 0 + q * BlockSize, 1)
        <4>1. u \in Seq(ByteValue) /\ q \in Nat
          BY <1>1, <1>5, Zenon
        <4>2. Holds(u, 0, q + 1)
          BY <2>4, Zenon DEF Holds
        <4> QED BY <3>1, <4>1, <4>2, BlocksMore, SMTT(30)
      <3> QED BY <2>4, <3>2, Zenon DEF x, B
    <2>6. Blocks(u, x, 1) = <<first>>
      <3>1. Blocks(u, x, 1) = <<SubSeq(u, x + 1, x + BlockSize)>>
        BY <1>1, <1>5, <2>4, OneBlock, Zenon DEF B
      <3> QED BY <1>8, <2>1, <3>1, Zenon DEF B
    <2>7. <<first>> \in Seq(E)
      BY <1>9 DEF E
    <2>8. (Blocks(d, 0, q) \o <<first>>) \o Blocks(e, i, w)
            = Blocks(d, 0, q) \o (<<first>> \o Blocks(e, i, w))
      BY <1>13, <1>15, <2>7, ConcatAssociative, SMTT(30)
    <2>9. <<>> \o SubSeq(e, i + w * B + 1, len) = SubSeq(e, i + w * B + 1, len)
      BY <1>16, ConcatEmptySeq, Zenon
    <2> QED BY <1>11, <1>12, <2>1, <2>3, <2>5, <2>6, <2>8, <2>9, ZenonT(40) DEF h, u
  <1>22. CASE r # 0 /\ i = len /\ len < B - r
    <2>1. Len(first) # B /\ Len(u) = x + (r + len) /\ r + len \in 0 .. B - 1
      BY <1>1, <1>4, <1>5, <1>9, <1>22, SMTT(30)
    <2>2. Len(u) \div B = q
      <3>1. Division(Len(u), B, Len(u) \div B, Len(u) % B)
        <4>1. Len(u) \in Nat
          BY <1>1
        <4> QED BY <1>4, <4>1, DivIs, Zenon
      <3>2. Division(Len(u), B, q, r + len)
        BY <1>4, <1>5, <2>1, Zenon DEF Division, x
      <3> QED BY <3>1, <3>2, DivUnique, Zenon
    <2>3. w = 0 /\ i + w * B + 1 = len + 1
      <3>1. len - i = 0 /\ 0 \div B = 0
        BY <1>4, <1>22
      <3>2. w = 0
        BY <3>1, Zenon DEF w
      <3> QED BY <1>4, <1>22, <3>2
    <2>4. Blocks(e, i, w) = <<>>
      BY <1>15, <2>3 DEF Blocks
    <2>5. SubSeq(e, len + 1, len) = <<>>
      BY <1>4 DEF len
    <2>6. first \o <<>> = first
      BY <1>9, ConcatEmptySeq, Zenon
    <2>7. Blocks(d, 0, q) \o (<<>> \o <<>>) = Blocks(d, 0, q)
      <3>1. <<>> \o <<>> = <<>>
        OBVIOUS
      <3> QED BY <1>13, <3>1, ConcatEmptySeq, Zenon
    <2>8. Len(u) = Len(d) + i /\ Len(u) = Len(d) + len
      BY <1>1, <1>22, Zenon
    <2>9. SubSeq(u, (Len(u) \div B) * B + 1, Len(u)) = first
      BY <1>8, <2>2, <2>8, Zenon DEF x
    <2>10. Updated(h, e) = [blocks |-> Blocks(d, 0, q), buffer |-> first, total |-> Len(d) + len]
      BY <1>11, <2>1, <2>3, <2>4, <2>5, <2>6, <2>7, Zenon
    <2> QED BY <1>12, <1>17, <2>2, <2>8, <2>9, <2>10, ZenonT(40) DEF h, u
  <1>23. r = 0 \/ (r # 0 /\ i = B - r) \/ (r # 0 /\ i = len /\ len < B - r)
    BY Zenon DEF i, Fill, B
  <1> QED BY <1>20, <1>21, <1>22, <1>23, Zenon DEF h, u

\* One update() of the hash.
LEMMA ShaUpdateIs ==
  ASSUME NEW d \in Seq(ByteValue), NEW e \in Seq(ByteValue)
  PROVE  sha_update[Absorbed(d)][e] = Absorbed(d \o e)
  <1>1. Absorbed(d) \in Hash
    BY AbsorbedType, Zenon
  <1>2. sha_update[Absorbed(d)][e] = Updated(Absorbed(d), e)
    BY <1>1, Zenon DEF sha_update
  <1> QED BY <1>2, Absorb, Zenon

\* The hash of pieces is the hash of what they make.
LEMMA ShaPieces ==
  ASSUME NEW d \in Seq(ByteValue), NEW ps, ps \in Seq(Seq(ByteValue)), NEW J,
         J \in [0 .. Len(ps) -> Seq(ByteValue)], J[0] = d,
         \A i \in 1 .. Len(ps) : J[i] = J[i - 1] \o ps[i]
  PROVE  Through(sha_update, Absorbed(d), ps) = Absorbed(J[Len(ps)])
  <1> DEFINE f == [i \in 0 .. Len(ps) |-> Absorbed(J[i])]
  <1>1. Len(ps) \in Nat /\ 0 \in 0 .. Len(ps) /\ Len(ps) \in 0 .. Len(ps)
    OBVIOUS
  <1>2. f[0] = Absorbed(d) /\ f[Len(ps)] = Absorbed(J[Len(ps)])
    BY <1>1, Zenon
  <1>3. ASSUME NEW i \in 1 .. Len(ps) PROVE f[i] = sha_update[f[i - 1]][ps[i]]
    <2>1. i - 1 \in 0 .. Len(ps) /\ i \in 0 .. Len(ps)
      OBVIOUS
    <2>2. ps[i] \in Seq(ByteValue) /\ J[i - 1] \in Seq(ByteValue)
      <3>1. ps[i] \in Seq(ByteValue)
        OBVIOUS
      <3>2. J[i - 1] \in Seq(ByteValue)
        BY <2>1, Zenon
      <3> QED BY <3>1, <3>2, Zenon
    <2>3. f[i - 1] = Absorbed(J[i - 1]) /\ f[i] = Absorbed(J[i - 1] \o ps[i])
      BY <2>1, Zenon
    <2>4. sha_update[Absorbed(J[i - 1])][ps[i]] = Absorbed(J[i - 1] \o ps[i])
      BY <2>2, ShaUpdateIs, Zenon
    <2> QED BY <2>3, <2>4, Zenon
  <1> HIDE DEF f
  <1>4. Follows(f, sha_update, Absorbed(d), ps)
    BY <1>2, <1>3, Zenon DEF Follows, Steps
  <1>5. Through(sha_update, Absorbed(d), ps) = f[Len(ps)]
    BY <1>1, <1>4, Computes, SMT
  <1> QED BY <1>2, <1>5, Zenon

\* One zero more.
LEMMA ZerosIs ==
  ASSUME NEW n \in Nat
  PROVE  /\ Zeros(n) \in Seq(ByteValue) /\ Len(Zeros(n)) = n
         /\ n > 0 => Zeros(n) = Zeros(n - 1) \o Zeros(1)
  <1> DEFINE z == [j \in 1 .. ByteBits |-> FALSE]
  <1>1. z \in ByteValue
    BY Zenon DEF ByteValue
  <1>2. \A m \in Nat : Zeros(m) = [k \in 1 .. m |-> z]
    BY Zenon DEF Zeros
  <1> HIDE DEF z
  <1>3. \A m \in Nat : /\ Zeros(m) \in Seq(ByteValue) /\ Len(Zeros(m)) = m
                       /\ \A k \in 1 .. m : Zeros(m)[k] = z
    BY <1>1, <1>2
  <1>4. ASSUME n > 0 PROVE Zeros(n) = Zeros(n - 1) \o Zeros(1)
    <2> DEFINE a == Zeros(n)
               b == Zeros(n - 1)
               c == Zeros(1)
    <2>1. n - 1 \in Nat /\ 1 \in Nat
      BY <1>4
    <2>2. /\ a \in Seq(ByteValue) /\ Len(a) = n /\ \A k \in 1 .. n : a[k] = z
          /\ b \in Seq(ByteValue) /\ Len(b) = n - 1 /\ \A k \in 1 .. n - 1 : b[k] = z
          /\ c \in Seq(ByteValue) /\ Len(c) = 1 /\ \A k \in 1 .. 1 : c[k] = z
      BY <1>3, <2>1, Zenon
    <2> HIDE DEF a, b, c
    <2>3. b \o c \in Seq(ByteValue) /\ Len(b \o c) = n /\ \A k \in 1 .. n : (b \o c)[k] = z
      <3>1. Joined(ByteValue, b \o c, b, c, n - 1, 1)
        <4>1. Joined(ByteValue, b \o c, b, c, Len(b), Len(c))
          BY <2>2, JoinIs, Zenon
        <4> QED BY <2>2, <4>1, Zenon
      <3>2. b \o c \in Seq(ByteValue) /\ Len(b \o c) = (n - 1) + 1 /\ (n - 1) + 1 = n
        BY <2>1, <3>1 DEF Joined
      <3>3. ASSUME NEW k \in 1 .. n PROVE (b \o c)[k] = z
        <4>1. CASE k \in 1 .. n - 1
          BY <2>2, <3>1, <4>1, Zenon DEF Joined
        <4>2. CASE k \notin 1 .. n - 1
          <5>1. k = (n - 1) + 1 /\ 1 \in 1 .. 1
            BY <2>1, <4>2
          <5> QED BY <2>2, <3>1, <5>1, ZenonT(40) DEF Joined
        <4> QED BY <4>1, <4>2, Zenon
      <3> QED BY <3>2, <3>3, Zenon
    <2>4. a = b \o c
      BY <2>2, <2>3, SameSeq, Zenon
    <2> QED BY <2>4, Zenon DEF a, b, c
  <1> QED BY <1>3, <1>4, Zenon

\* After n zeros.
LEMMA PadIs ==
  ASSUME NEW d \in Seq(ByteValue), NEW n \in Nat
  PROVE  Through(sha_update, Absorbed(d), [k \in 1 .. n |-> Zeros(1)]) = Absorbed(d \o Zeros(n))
  <1> DEFINE ps == [k \in 1 .. n |-> Zeros(1)]
             J == [i \in 0 .. n |-> d \o Zeros(i)]
  <1>1. Zeros(1) \in Seq(ByteValue)
    <2>1. 1 \in Nat
      OBVIOUS
    <2> QED BY <2>1, ZerosIs, Zenon
  <1>2. ps \in Seq(Seq(ByteValue)) /\ Len(ps) = n /\ \A k \in 1 .. n : ps[k] = Zeros(1)
    BY <1>1
  <1>3. ASSUME NEW i \in 0 .. n PROVE J[i] \in Seq(ByteValue)
    <2>1. Zeros(i) \in Seq(ByteValue)
      <3>1. i \in Nat
        OBVIOUS
      <3> QED BY <3>1, ZerosIs, Zenon
    <2> QED BY <2>1
  <1>4. J[0] = d
    <2>1. Zeros(0) = <<>> /\ 0 \in 0 .. n
      BY DEF Zeros
    <2>2. d \o <<>> = d
      BY ConcatEmptySeq, Zenon
    <2> QED BY <2>1, <2>2, Zenon
  <1>5. ASSUME NEW i \in 1 .. n PROVE J[i] = J[i - 1] \o ps[i]
    <2>1. i \in Nat /\ i - 1 \in Nat /\ i > 0 /\ i - 1 \in 0 .. n /\ i \in 0 .. n
      OBVIOUS
    <2>2. Zeros(i) = Zeros(i - 1) \o Zeros(1) /\ Zeros(i - 1) \in Seq(ByteValue)
      BY <2>1, ZerosIs, Zenon
    <2>3. (d \o Zeros(i - 1)) \o Zeros(1) = d \o (Zeros(i - 1) \o Zeros(1))
      <3> HIDE DEF ps, J
      <3> QED BY <1>1, <2>2, ConcatAssociative, SMTT(30)
    <2>4. J[i] = d \o Zeros(i) /\ J[i - 1] = d \o Zeros(i - 1)
      BY <2>1, Zenon
    <2> HIDE DEF ps, J
    <2> QED BY <1>2, <2>2, <2>3, <2>4, Zenon
  <1>6. J \in [0 .. n -> Seq(ByteValue)]
    BY <1>3, Zenon
  <1>7. J[n] = d \o Zeros(n)
    <2>1. n \in 0 .. n
      OBVIOUS
    <2> QED BY <2>1, Zenon
  <1> HIDE DEF ps, J
  <1>8. Through(sha_update, Absorbed(d), ps) = Absorbed(J[Len(ps)])
    BY <1>2, <1>4, <1>5, <1>6, ShaPieces, Zenon
  <1> QED BY <1>2, <1>7, <1>8, Zenon DEF ps

\* The zeros leave room for the length exactly when a whole number of blocks
\* results with it.
LEMMA RoomForLength ==
  ASSUME NEW m \in Nat \ {0}
  PROVE  m % BlockSize = BlockSize - LengthSize <=> (m + LengthSize) % BlockSize = 0
  <1> DEFINE B == BlockSize
             l == LengthSize
             q == m \div B
             r == m % B
             p == (m + l) \div B
             t == (m + l) % B
  <1>1. B \in Nat \ {0} /\ l \in 1 .. B - 1 /\ m + l \in Nat
    BY BlockSizeIs
  <1>2. Division(m, B, q, r) /\ Division(m + l, B, p, t)
    BY <1>1, DivIs, Zenon
  <1> HIDE DEF B, l, q, r, p, t
  <1>3. ASSUME r = B - l PROVE t = 0
    <2>1. q \in Nat /\ m = q * B + r
      BY <1>2, Zenon DEF Division
    <2>2. (q + 1) * B = q * B + B /\ q * B \in Nat /\ q + 1 \in Nat
      BY <1>1, <2>1
    <2>3. m + l = (q + 1) * B + 0 /\ 0 \in 0 .. B - 1
      BY <1>1, <1>3, <2>1, <2>2
    <2>4. Division(m + l, B, q + 1, 0)
      BY <1>1, <2>2, <2>3, Zenon DEF Division
    <2> QED BY <1>2, <2>4, DivUnique, Zenon
  <1>4. ASSUME t = 0 PROVE r = B - l
    <2>1. p \in Nat /\ m + l = p * B + t
      BY <1>2, Zenon DEF Division
    <2>2. p # 0
      BY <1>1, <1>4, <2>1
    <2>3. p - 1 \in Nat /\ p * B = (p - 1) * B + B /\ (p - 1) * B \in Nat
      BY <1>1, <2>1, <2>2
    <2>4. m = (p - 1) * B + (B - l) /\ B - l \in 0 .. B - 1
      BY <1>1, <1>4, <2>1, <2>3
    <2>5. Division(m, B, p - 1, B - l)
      BY <1>1, <2>3, <2>4, Zenon DEF Division
    <2> QED BY <1>2, <2>5, DivUnique, Zenon
  <1> QED BY <1>3, <1>4, Zenon DEF B, l, r, t

\* Exactly one number below the size of a block completes the last block.
LEMMA Completes ==
  ASSUME NEW m \in Nat
  PROVE  /\ \E z \in 0 .. BlockSize - 1 : (m + z) % BlockSize = 0
         /\ \A y, z \in 0 .. BlockSize - 1 :
              (m + y) % BlockSize = 0 /\ (m + z) % BlockSize = 0 => y = z
  <1> DEFINE B == BlockSize
             q == m \div B
             r == m % B
  <1>1. B \in Nat \ {0}
    BY BlockSizeIs
  <1>2. Division(m, B, q, r)
    BY <1>1, DivIs, Zenon
  <1> HIDE DEF B, q, r
  <1>3. q \in Nat /\ r \in 0 .. B - 1 /\ m = q * B + r
    BY <1>2, Zenon DEF Division
  <1>4. ASSUME NEW z \in 0 .. B - 1
        PROVE  /\ Division(m + z, B, (m + z) \div B, (m + z) % B)
               /\ (r = 0 /\ z = 0 => Division(m + z, B, q, 0))
               /\ (r # 0 /\ z = B - r => Division(m + z, B, q + 1, 0))
               /\ (r + z < B => Division(m + z, B, q, r + z))
               /\ (r + z >= B => Division(m + z, B, q + 1, r + z - B))
    <2>1. /\ m + z \in Nat /\ 0 \in 0 .. B - 1 /\ q + 1 \in Nat
          /\ q * B \in Nat /\ (q + 1) * B = q * B + B
      BY <1>1, <1>3
    <2>2. Division(m + z, B, (m + z) \div B, (m + z) % B)
      BY <1>1, <2>1, DivIs, Zenon
    <2>3. r + z < B => m + z = q * B + (r + z) /\ r + z \in 0 .. B - 1
      BY <1>1, <1>3
    <2>4. r + z >= B => m + z = (q + 1) * B + (r + z - B) /\ r + z - B \in 0 .. B - 1
      BY <1>1, <1>3, <2>1
    <2>5. r + z < B => Division(m + z, B, q, r + z)
      BY <1>1, <1>3, <2>3, Zenon DEF Division
    <2>6. r + z >= B => Division(m + z, B, q + 1, r + z - B)
      BY <1>1, <2>1, <2>4, Zenon DEF Division
    <2>7. r = 0 /\ z = 0 => r + z < B /\ r + z = 0
      BY <1>1
    <2>8. r # 0 /\ z = B - r => r + z >= B /\ r + z - B = 0
      BY <1>1, <1>3
    <2> QED BY <2>2, <2>5, <2>6, <2>7, <2>8, Zenon
  <1>5. \E z \in 0 .. B - 1 : (m + z) % B = 0
    <2>1. CASE r = 0
      <3>1. 0 \in 0 .. B - 1
        BY <1>1
      <3>2. (m + 0) % B = 0
        <4>1. Division(m + 0, B, (m + 0) \div B, (m + 0) % B) /\ Division(m + 0, B, q, 0)
          BY <1>4, <2>1, <3>1, Zenon
        <4> QED BY <4>1, DivUnique, Zenon
      <3> QED BY <3>1, <3>2
    <2>2. CASE r # 0
      <3>1. B - r \in 0 .. B - 1
        BY <1>1, <1>3, <2>2
      <3>2. (m + (B - r)) % B = 0
        <4> DEFINE z == B - r
        <4>1. Division(m + z, B, (m + z) \div B, (m + z) % B) /\ Division(m + z, B, q + 1, 0)
          BY <1>4, <2>2, <3>1, Zenon
        <4> HIDE DEF z
        <4>2. (m + z) % B = 0
          BY <4>1, DivUnique, Zenon
        <4> QED BY <4>2, Zenon DEF z
      <3> QED BY <3>1, <3>2
    <2> QED BY <2>1, <2>2, Zenon
  <1>6. ASSUME NEW z \in 0 .. B - 1, (m + z) % B = 0 PROVE (r = 0 /\ z = 0) \/ (r # 0 /\ z = B - r)
    <2>0. /\ Division(m + z, B, (m + z) \div B, 0)
          /\ (r + z < B => Division(m + z, B, q, r + z))
          /\ (r + z >= B => Division(m + z, B, q + 1, r + z - B))
      BY <1>4, <1>6, Zenon
    <2>1. r + z < B => r + z = 0
      BY <2>0, DivUnique, Zenon
    <2>2. r + z >= B => r + z - B = 0
      BY <2>0, DivUnique, Zenon
    <2> QED BY <1>1, <1>3, <2>1, <2>2
  <1>7. \A y, z \in 0 .. B - 1 : (m + y) % B = 0 /\ (m + z) % B = 0 => y = z
    BY <1>6, Zenon
  <1> QED BY <1>5, <1>7, Zenon DEF B

\* How many zeros the standard asks for.
ZerosFor(m) == CHOOSE z \in 0 .. BlockSize - 1 : (m + z + LengthSize) % BlockSize = 0

\* That number exists, and no other below the size of a block will do.
LEMMA ZerosForIs ==
  ASSUME NEW m \in Nat
  PROVE  /\ ZerosFor(m) \in 0 .. BlockSize - 1 /\ (m + ZerosFor(m) + LengthSize) % BlockSize = 0
         /\ \A y \in 0 .. BlockSize - 1 : (m + y + LengthSize) % BlockSize = 0 => y = ZerosFor(m)
  <1> DEFINE a == m + LengthSize
  <1>1. a \in Nat
    BY BlockSizeIs
  <1>2. ASSUME NEW z \in 0 .. BlockSize - 1 PROVE m + z + LengthSize = a + z
    BY BlockSizeIs
  <1> HIDE DEF a
  <1>3. /\ \E z \in 0 .. BlockSize - 1 : (a + z) % BlockSize = 0
        /\ \A y, z \in 0 .. BlockSize - 1 :
             (a + y) % BlockSize = 0 /\ (a + z) % BlockSize = 0 => y = z
    BY <1>1, Completes, Zenon
  <1>4. \E z \in 0 .. BlockSize - 1 : (m + z + LengthSize) % BlockSize = 0
    BY <1>2, <1>3, Zenon
  <1>5. ZerosFor(m) \in 0 .. BlockSize - 1 /\ (m + ZerosFor(m) + LengthSize) % BlockSize = 0
    BY <1>4, Zenon DEF ZerosFor
  <1> QED BY <1>2, <1>3, <1>5, Zenon

\* The loop of finalize() adds as many zeros as the standard asks for.
LEMMA PadExact ==
  ASSUME NEW d \in Seq(ByteValue), Len(d) > 0
  PROVE  sha_pad(Absorbed(d)) = Absorbed(d \o Zeros(ZerosFor(Len(d))))
  <1> DEFINE m == Len(d)
             Z == ZerosFor(m)
             after(n) == Through(sha_update, Absorbed(d), [k \in 1 .. n |-> Zeros(1)])
             ready(n) == Len(after(n).buffer) = BlockSize - LengthSize
             N == CHOOSE n \in 0 .. BlockSize : ready(n) /\ \A k \in 0 .. n - 1 : ~ready(k)
  <1>1. m \in Nat /\ m > 0
    OBVIOUS
  <1>2. ASSUME NEW n \in Nat
        PROVE  /\ after(n) = Absorbed(d \o Zeros(n))
               /\ (ready(n) <=> (m + n + LengthSize) % BlockSize = 0)
    <2>1. after(n) = Absorbed(d \o Zeros(n))
      BY PadIs, Zenon
    <2>2. d \o Zeros(n) \in Seq(ByteValue) /\ Len(d \o Zeros(n)) = m + n
      <3>1. Zeros(n) \in Seq(ByteValue) /\ Len(Zeros(n)) = n
        BY ZerosIs, Zenon
      <3> QED BY <3>1
    <2>3. Len(Absorbed(d \o Zeros(n)).buffer) = (m + n) % BlockSize
      BY <2>2, AbsorbedType, Zenon
    <2>4. m + n \in Nat \ {0}
      BY <1>1
    <2>5. (m + n) % BlockSize = BlockSize - LengthSize <=> (m + n + LengthSize) % BlockSize = 0
      BY <2>4, RoomForLength, Zenon
    <2> QED BY <2>1, <2>3, <2>5, Zenon
  <1>3. /\ Z \in 0 .. BlockSize - 1 /\ (m + Z + LengthSize) % BlockSize = 0
        /\ \A y \in 0 .. BlockSize - 1 : (m + y + LengthSize) % BlockSize = 0 => y = Z
    BY <1>1, ZerosForIs, Zenon
  <1>4. sha_pad(Absorbed(d)) = after(N)
    BY Zenon DEF sha_pad
  <1> HIDE DEF Z, after, m
  <1>5. \A n \in Nat : ready(n) <=> (m + n + LengthSize) % BlockSize = 0
    BY <1>2, Zenon
  <1> HIDE DEF ready
  <1>6. /\ Z \in Nat /\ Z \in 0 .. BlockSize
        /\ 0 .. BlockSize - 1 \subseteq Nat /\ 0 .. BlockSize \subseteq Nat
    BY <1>3, BlockSizeIs
  <1>7. ready(Z) /\ \A y \in 0 .. BlockSize - 1 : ready(y) => y = Z
    BY <1>3, <1>5, <1>6, Zenon
  <1>8. \A k \in 0 .. Z - 1 : ~ready(k)
    <2> SUFFICES ASSUME NEW k \in 0 .. Z - 1, ready(k) PROVE FALSE
      OBVIOUS
    <2>1. k \in 0 .. BlockSize - 1 /\ k # Z
      BY <1>3, <1>6, BlockSizeIs
    <2> QED BY <1>7, <2>1, Zenon
  <1>9. N \in 0 .. BlockSize /\ ready(N) /\ \A k \in 0 .. N - 1 : ~ready(k)
    BY <1>6, <1>7, <1>8, Zenon
  <1> HIDE DEF N
  <1>10. N = Z
    <2>1. CASE N < Z
      <3>1. N \in 0 .. Z - 1
        BY <1>6, <1>9, <2>1, BlockSizeIs, SMTT(30)
      <3> QED BY <1>8, <1>9, <3>1, Zenon
    <2>2. CASE N > Z
      <3>1. Z \in 0 .. N - 1
        BY <1>6, <1>9, <2>2, BlockSizeIs, SMTT(30)
      <3> QED BY <1>7, <1>9, <3>1, Zenon
    <2> QED BY <1>6, <1>9, <2>1, <2>2, BlockSizeIs, SMTT(30)
  <1> QED BY <1>2, <1>4, <1>6, <1>10, Zenon DEF Z, m

\* The length as bytes.
LEMMA BigEndianType == ASSUME NEW n PROVE BigEndian(n) \in Seq(ByteValue)
  <1>2. ASSUME NEW k \in 1 .. LengthSize PROVE BigEndian(n)[k] \in ByteValue
    <2>1. BigEndian(n)[k] =
            [j \in 1 .. ByteBits |-> (n \div 2^(ByteBits * (LengthSize - k) + j - 1)) % 2 = 1]
      BY Zenon DEF BigEndian
    <2> QED BY <2>1, Zenon DEF ByteValue
  <1>3. DOMAIN BigEndian(n) = 1 .. LengthSize
        /\ BigEndian(n) = [k \in DOMAIN BigEndian(n) |-> BigEndian(n)[k]]
    BY Zenon DEF BigEndian
  <1>4. BigEndian(n) \in [1 .. LengthSize -> ByteValue]
    BY <1>2, <1>3, Zenon
  <1>5. LengthSize \in Nat
    BY BlockSizeIs
  <1> QED BY <1>4, <1>5

\* The byte behind the message.
LEMMA MarkerType == <<Marker>> \in Seq(ByteValue) /\ Len(<<Marker>>) = 1
  <1>1. Marker \in ByteValue
    BY Zenon DEF Marker, ByteValue
  <1> QED BY <1>1

\* The blocks of a region, in whatever pieces it was read, are the standard's.
LEMMA ShaExact ==
  ASSUME NEW region \in Seq(ByteValue), region # <<>>, NEW n \in Nat \ {0}
  PROVE  sha_final(Through(sha_update, sha_reset, Pieces(region, n))) = ReferenceBlocks(region)
  <1> DEFINE ps == Pieces(region, n)
             h == Absorbed(region)
             d == region \o <<Marker>>
             Z == ZerosFor(Len(region) + 1)
             length == BigEndian(Len(region) * ByteBits)
             p == d \o Zeros(Z)
             message == p \o length
  <1>1. sha_reset = Absorbed(<<>>) /\ <<>> \in Seq(ByteValue)
    <2>1. Len(<<>>) = 0 /\ 0 \div BlockSize = 0 /\ <<>> \in Seq(ByteValue)
      BY BlockSizeIs
    <2>2. Blocks(<<>>, 0, 0) = <<>>
      BY DEF Blocks
    <2>3. SubSeq(<<>>, 0 * BlockSize + 1, 0) = <<>>
      BY BlockSizeIs
    <2> QED BY <2>1, <2>2, <2>3, Zenon DEF sha_reset, Absorbed
  <1>2. Through(sha_update, sha_reset, ps) = h
    <2>1. PICK J : Joins(J, ByteValue, ps) /\ J[Len(ps)] = region
      BY PiecesJoin, Zenon
    <2>2. ps \in Seq(Seq(ByteValue))
      BY PiecesJoin, Zenon
    <2> HIDE DEF ps
    <2>3. /\ J \in [0 .. Len(ps) -> Seq(ByteValue)] /\ J[0] = <<>>
          /\ \A i \in 1 .. Len(ps) : J[i] = J[i - 1] \o ps[i]
      BY <2>1, Zenon DEF Joins
    <2>4. Through(sha_update, Absorbed(<<>>), ps) = Absorbed(J[Len(ps)])
      BY <1>1, <2>2, <2>3, ShaPieces, Zenon
    <2> QED BY <1>1, <2>1, <2>4, ZenonT(40)
  <1>3. d \in Seq(ByteValue) /\ Len(d) = Len(region) + 1 /\ Len(d) > 0 /\ Len(d) \in Nat
    BY MarkerType
  <1>4. sha_update[h][<<Marker>>] = Absorbed(d)
    BY MarkerType, ShaUpdateIs, Zenon
  <1> HIDE DEF d
  <1>5. sha_pad(Absorbed(d)) = Absorbed(p)
    <2>1. sha_pad(Absorbed(d)) = Absorbed(d \o Zeros(ZerosFor(Len(d))))
      BY <1>3, PadExact, Zenon
    <2> QED BY <1>3, <2>1, Zenon
  <1>6. p \in Seq(ByteValue)
    <2>1. Z \in Nat
      <3>1. Z \in 0 .. BlockSize - 1
        BY <1>3, ZerosForIs, Zenon
      <3> QED BY <3>1, BlockSizeIs
    <2>2. Zeros(Z) \in Seq(ByteValue)
      BY <2>1, ZerosIs, Zenon
    <2> QED BY <1>3, <2>2
  <1>7. length \in Seq(ByteValue)
    BY BigEndianType, Zenon
  <1>8. sha_update[Absorbed(p)][length] = Absorbed(message)
    <2> HIDE DEF p, length
    <2> QED BY <1>6, <1>7, ShaUpdateIs, Zenon
  <1>9. h.total = Len(region)
    BY DEF Absorbed
  <1>10. sha_final(h) =
           sha_update[sha_pad(sha_update[h][<<Marker>>])][BigEndian(h.total * ByteBits)].blocks
    BY Zenon DEF sha_final
  <1> HIDE DEF h
  <1>11. sha_final(h) = Absorbed(message).blocks
    <2> HIDE DEF p, message
    <2> QED BY <1>4, <1>5, <1>8, <1>9, <1>10, Zenon
  <1>12. ReferenceBlocks(region) = Blocks(message, 0, Len(message) \div BlockSize)
    BY Zenon DEF ReferenceBlocks, Blocks, ZerosFor, d
  <1> HIDE DEF message
  <1>13. Absorbed(message).blocks = Blocks(message, 0, Len(message) \div BlockSize)
    BY DEF Absorbed
  <1> QED BY <1>2, <1>11, <1>12, <1>13, Zenon
-----------------------------------------------------------------------------
(* The digests of the two endpoints.                                       *)

\* Digest() is the digest of the standard, whatever buffer the region is read
\* through.
LEMMA HashExact ==
  ASSUME NEW region \in Seq(ByteValue), region # <<>>,
         NEW kind \in {"file", "device", "memory"}
  PROVE  /\ Digest("crc32c", kind, region) = ReferenceCrc(region)
         /\ Digest("sha256", kind, region) = ReferenceBlocks(region)
  <1> DEFINE n == BufferFor(kind, region)
  <1>1. n \in Nat \ {0}
    <2>1. Len(region) \in Nat \ {0}
      BY EmptySeq
    <2>2. FileBuffer \in Nat \ {0} /\ DeviceBuffer \in Nat \ {0}
      BY IntegrityConstants
    <2> QED BY <2>1, <2>2 DEF BufferFor
  <1> HIDE DEF n
  <1>2. Digest("crc32c", kind, region)
          = crc_value(Through(crc_update, crc_init, Pieces(region, n)))
    BY Zenon DEF Digest, n
  <1>3. Digest("sha256", kind, region)
          = sha_final(Through(sha_update, sha_reset, Pieces(region, n)))
    <2>1. "sha256" # "crc32c"
      OBVIOUS
    <2> QED BY <2>1, Zenon DEF Digest, n
  <1>4. crc_value(Through(crc_update, crc_init, Pieces(region, n))) = ReferenceCrc(region)
    BY <1>1, CrcExact, Zenon
  <1>5. sha_final(Through(sha_update, sha_reset, Pieces(region, n))) = ReferenceBlocks(region)
    BY <1>1, ShaExact, Zenon
  <1> QED BY <1>2, <1>3, <1>4, <1>5, Zenon

\* What is hashed of an endpoint is a sequence of bytes.
LEMMA HashedType ==
  ASSUME NEW e \in Endpoint, NEW bytes \in [Byte -> ByteValue],
         NEW offset \in Nat, NEW len \in Nat \ {0}
  PROVE  /\ HashedRegion(e, bytes, offset, len) \in Seq(ByteValue)
         /\ HashedRegion(e, bytes, offset, len) # <<>>
  <1> DEFINE first == IF e.kind = "file" THEN e.start + offset ELSE offset
             r == [k \in 1 .. len |-> bytes[(first + k - 1) % ByteWrap]]
  <1>1. first \in Nat
    <2>1. e.start \in Starts
      BY DEF Endpoint
    <2>2. Starts \subseteq Byte
      BY IntegrityConstants, Zenon
    <2>3. e.start \in Byte
      BY <2>1, <2>2, Zenon
    <2>4. Byte \subseteq Nat
      BY ChunkConstants DEF Byte
    <2>5. e.start \in Nat
      BY <2>3, <2>4, ZenonT(40)
    <2> QED BY <2>5
  <1> HIDE DEF first
  <1>2. \A k \in 1 .. len : (first + k - 1) % ByteWrap \in Byte
    BY <1>1, ChunkConstants DEF Byte
  <1>3. r \in [1 .. len -> ByteValue]
    BY <1>2, Zenon
  <1> HIDE DEF r
  <1>4. r \in Seq(ByteValue) /\ Len(r) = len
    BY <1>3
  <1>5. r # <<>>
    BY <1>4, SMTT(30)
  <1>6. HashedRegion(e, bytes, offset, len) = r
    BY Zenon DEF HashedRegion, r, first
  <1> QED BY <1>4, <1>5, <1>6, Zenon

\* When the loop has ended the destination holds, where it was written, what the
\* source holds.
LEMMA CopiedBytes ==
  ASSUME IInv, pc = "done", plan.total > 0
  PROVE  /\ plan.source_offset \in Nat /\ plan.dest_offset \in Nat /\ plan.total \in Nat
         /\ \A k \in 1 .. plan.total :
              /\ plan.source_offset + k - 1 \in Byte /\ plan.dest_offset + k - 1 \in Byte
              /\ Written[plan.dest_offset + k - 1] = Content[plan.source_offset + k - 1]
  <1> DEFINE so == SrcRange(req).offset
             do == DstRange(req).offset
             n == plan.total
  <1>1. /\ req \in Request /\ RangesFit(req) /\ Buildable(req) /\ plan = build(req)
        /\ ci = plan.count /\ moved = Prefix(req, Off(plan, ci))
    BY ChunkConstants, SMTT(30) DEF IInv
  <1>2. n = Bytes(req) /\ plan.source_offset = so /\ plan.dest_offset = do
    BY <1>1, BuildSums, SMTT(30)
  <1>3. moved = {<<so + k, do + k>> : k \in 0 .. n - 1}
    BY <1>1, SMTT(30) DEF Off, Prefix
  <1>4. /\ so \in Nat /\ do \in Nat /\ n \in Nat /\ n > 0
        /\ req.srcsize \in Byte /\ n <= req.srcsize - so
        /\ req.dstsize \in Byte /\ n <= req.dstsize - do
    BY <1>1, <1>2, Fields DEF RangesFit, Bytes
  <1> HIDE DEF so, do, n
  <1>5. ASSUME NEW k \in 1 .. n
        PROVE  /\ plan.source_offset + k - 1 \in Byte /\ plan.dest_offset + k - 1 \in Byte
               /\ Written[plan.dest_offset + k - 1] = Content[plan.source_offset + k - 1]
    <2> DEFINE j == k - 1
               i == do + j
               c == CHOOSE m \in moved : m[2] = i
    <2>1. j \in 0 .. n - 1 /\ do + k - 1 = i /\ so + k - 1 = so + j
      BY <1>4
    <2>2. <<so + j, i>> \in moved /\ <<so + j, i>>[2] = i
      BY <1>3, <2>1, Zenon
    <2>3. c \in moved /\ c[2] = i
      BY <2>2, Zenon
    <2>4. so + j \in Byte /\ i \in Byte
      BY <1>4, <2>1, ChunkConstants DEF Byte
    <2>5. Written[i] = Content[c[1]]
      BY <2>2, <2>4, Zenon DEF Written
    <2> HIDE DEF c, j
    <2>6. PICK h \in 0 .. n - 1 : c = <<so + h, do + h>>
      BY <1>3, <2>3, Zenon
    <2>7. h = j
      BY <1>4, <2>1, <2>3, <2>6, SMTT(30)
    <2>8. c[1] = so + j
      BY <2>6, <2>7
    <2> QED BY <1>2, <2>1, <2>4, <2>5, <2>8, Zenon
  <1> QED BY <1>2, <1>4, <1>5, Zenon DEF n

\* Hashed where they were copied, source and destination are the same bytes.
LEMMA RegionsAgree ==
  ASSUME IInv, pc = "done", plan.total > 0,
         NEW e \in Endpoint, NEW f \in Endpoint, HashedWhereCopied(e), HashedWhereCopied(f)
  PROVE  HashedRegion(e, Content, plan.source_offset, plan.total)
           = HashedRegion(f, Written, plan.dest_offset, plan.total)
  <1> DEFINE so == plan.source_offset
             do == plan.dest_offset
             n == plan.total
  <1>1. /\ so \in Nat /\ do \in Nat /\ n \in Nat
        /\ \A k \in 1 .. n : /\ so + k - 1 \in Byte /\ do + k - 1 \in Byte
                             /\ Written[do + k - 1] = Content[so + k - 1]
    BY CopiedBytes, Zenon
  <1> HIDE DEF so, do, n
  <1>2. \A i \in Byte : i % ByteWrap = i
    BY ChunkConstants DEF Byte
  <1>3. ASSUME NEW g \in Endpoint, HashedWhereCopied(g), NEW o \in Nat
        PROVE  (IF g.kind = "file" THEN g.start + o ELSE o) = o
    BY <1>3 DEF HashedWhereCopied
  <1>4. HashedRegion(e, Content, so, n) = [k \in 1 .. n |-> Content[(so + k - 1) % ByteWrap]]
    BY <1>1, <1>3, Zenon DEF HashedRegion
  <1>5. HashedRegion(f, Written, do, n) = [k \in 1 .. n |-> Written[(do + k - 1) % ByteWrap]]
    BY <1>1, <1>3, Zenon DEF HashedRegion
  <1>6. \A k \in 1 .. n : Content[(so + k - 1) % ByteWrap] = Written[(do + k - 1) % ByteWrap]
    BY <1>1, <1>2, Zenon
  <1>7. HashedRegion(e, Content, so, n) = HashedRegion(f, Written, do, n)
    BY <1>4, <1>5, <1>6, Zenon
  <1> QED BY <1>7 DEF so, do, n

\* integrity.hpp, "Both accept incremental updates": hash_endpoint_region() gives
\* the digest of the standard for every endpoint, every content, every region,
\* every size of the buffers, every width of a byte and of the register and every
\* polynomial.  Once the chunk loop of run_transfer() has ended it gives source
\* and destination the same digest if both are hashed where they were copied,
\* that is, unless one is a file with a desc.offset.
THEOREM VerificationExactAlways == Spec => []VerificationExact
  <1>1. IInv => VerificationExact
    <2> SUFFICES ASSUME IInv, pc = "done", plan.total > 0, NEW e \in Endpoint
        PROVE  LET region == HashedRegion(e, Content, plan.source_offset, plan.total)
               IN /\ SourceDigest("crc32c", e) = ReferenceCrc(region)
                  /\ SourceDigest("sha256", e) = ReferenceBlocks(region)
                  /\ \A f \in Endpoint, mode \in {"crc32c", "sha256"} :
                       HashedWhereCopied(e) /\ HashedWhereCopied(f) =>
                         SourceDigest(mode, e) = DestDigest(mode, f)
      BY Zenon DEF VerificationExact
    <2> DEFINE region == HashedRegion(e, Content, plan.source_offset, plan.total)
               Exact(g, r) == /\ Digest("crc32c", g.kind, r) = ReferenceCrc(r)
                              /\ Digest("sha256", g.kind, r) = ReferenceBlocks(r)
    <2>1. region \in Seq(ByteValue) /\ region # <<>>
      <3>1. plan.source_offset \in Nat /\ plan.total \in Nat
        BY CopiedBytes, Zenon
      <3>2. plan.total \in Nat \ {0}
        BY <3>1
      <3>3. Content \in [Byte -> ByteValue]
        BY IntegrityConstants
      <3> QED BY <3>1, <3>2, <3>3, HashedType, Zenon
    <2>2. \A g \in Endpoint : Exact(g, region)
      <3>1. \A g \in Endpoint : g.kind \in {"file", "device", "memory"}
        BY DEF Endpoint
      <3> HIDE DEF region
      <3> QED BY <2>1, <3>1, HashExact, Zenon
    <2>3. ASSUME NEW f \in Endpoint, NEW mode \in {"crc32c", "sha256"},
                 HashedWhereCopied(e), HashedWhereCopied(f)
          PROVE  SourceDigest(mode, e) = DestDigest(mode, f)
      <3>1. region = HashedRegion(f, Written, plan.dest_offset, plan.total)
        BY <2>3, RegionsAgree, Zenon
      <3>2. DestDigest(mode, f) = Digest(mode, f.kind, region)
        BY <3>1, Zenon DEF DestDigest, hash_endpoint_region
      <3>3. SourceDigest(mode, e) = Digest(mode, e.kind, region)
        BY Zenon DEF SourceDigest, hash_endpoint_region
      <3>4. Digest(mode, e.kind, region) = Digest(mode, f.kind, region)
        <4> HIDE DEF region
        <4> QED BY <2>2, Zenon
      <3> QED BY <3>2, <3>3, <3>4, Zenon
    <2>4. \A mode : SourceDigest(mode, e) = Digest(mode, e.kind, region)
      BY Zenon DEF SourceDigest, hash_endpoint_region
    <2> HIDE DEF region
    <2>5. SourceDigest("crc32c", e) = ReferenceCrc(region)
          /\ SourceDigest("sha256", e) = ReferenceBlocks(region)
      BY <2>2, <2>4, Zenon
    <2> QED BY <2>3, <2>5, Zenon DEF region
  <1> QED BY <1>1, Invariance, PTL
=============================================================================
