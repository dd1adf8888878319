----------------------------- MODULE ChunkPlan ------------------------------
(***************************************************************************)
(* From a request to bytes: resolve_ranges() in src/src/runtime/runtime.cpp *)
(* settles which bytes move, ChunkPlan (src/src/chunking.cpp) cuts them    *)
(* into chunks, and the loop of run_transfer() moves one chunk after the   *)
(* other.  Byte counts are unsigned and wrap at ByteWrap.                  *)
(***************************************************************************)
EXTENDS Integers

CONSTANTS ByteWrap,  \* one more than the largest byte_count
          Requests   \* the requests submit() may be given

Byte == 0 .. ByteWrap - 1

ByteRange == [offset : Byte, length : Byte]

\* The two ranges asked for, the sizes of the two endpoints, and the chunk
\* parameters that submit() takes from the policy and the legs of the route.
Request == [src : ByteRange, dst : ByteRange, srcsize : Byte, dstsize : Byte,
            min_chunk : Byte, max_chunk : Byte, preferred : Byte, alignment : Byte]

ASSUME ChunkConstants ==
  /\ ByteWrap \in Nat \ {0}
  /\ Requests \subseteq Request

VARIABLES req,    \* the request
          pc,     \* where submit() and then run_transfer() are
          plan,   \* the chunk plan, once it is built
          ci,     \* the index of the next chunk
          moved   \* the pairs <<source byte, destination byte>> copied so far

vars == <<req, pc, plan, ci, moved>>
-----------------------------------------------------------------------------
(* resolve_ranges(): an empty range stands for a default.                  *)

SrcRange(r) == IF r.src.length = 0 THEN [offset |-> 0, length |-> r.srcsize] ELSE r.src

Bytes(r) == SrcRange(r).length

DstRange(r) == IF r.dst.length = 0 THEN [offset |-> 0, length |-> Bytes(r)] ELSE r.dst

\* Mutant of RangesFit: the offset of the destination is left out of its test.
RangesFitLengths(r) ==
  /\ SrcRange(r).offset <= r.srcsize
  /\ SrcRange(r).length <= r.srcsize - SrcRange(r).offset
  /\ DstRange(r).length >= Bytes(r)
  /\ DstRange(r).offset <= r.dstsize
  /\ Bytes(r) <= r.dstsize

RangesFit(r) ==
  /\ SrcRange(r).offset <= r.srcsize
  /\ SrcRange(r).length <= r.srcsize - SrcRange(r).offset
  /\ DstRange(r).length >= Bytes(r)
  /\ DstRange(r).offset <= r.dstsize
  /\ Bytes(r) <= r.dstsize - DstRange(r).offset
-----------------------------------------------------------------------------
(* ChunkPlan::build() and chunk_at().                                      *)

Buildable(r) ==
  /\ r.min_chunk > 0
  /\ r.max_chunk >= r.min_chunk
  /\ r.alignment > 0

\* Raise to lo, then lower to hi.
Clamp(x, lo, hi) ==
  LET y == IF x < lo THEN lo ELSE x
  IN IF y > hi THEN hi ELSE y

\* The preferred size between the bounds, rounded down to the alignment and
\* put between the bounds again.
ChunkSize(r) ==
  LET chunk == Clamp(IF r.preferred = 0 THEN r.min_chunk ELSE r.preferred,
                     r.min_chunk, r.max_chunk)
      base == (chunk \div r.alignment) * r.alignment
  IN Clamp(IF base = 0 THEN r.alignment ELSE base, r.min_chunk, r.max_chunk)

\* Nothing to move: no chunks, and a size that nobody divides by.
build(r) ==
  LET total == Bytes(r)
      size == IF total > 0 THEN ChunkSize(r)
              ELSE IF r.preferred = 0 THEN r.min_chunk ELSE r.preferred
      tail == IF total > 0 THEN total % size ELSE 0
      full == IF total > 0 THEN total \div size ELSE 0
  IN [total |-> total, source_offset |-> SrcRange(r).offset,
      dest_offset |-> DstRange(r).offset, chunk_size |-> size, tail |-> tail,
      count |-> IF tail # 0 THEN full + 1 ELSE full]

MulOverflows(a, b) == a # 0 /\ b > (ByteWrap - 1) \div a

AddOverflows(a, b) == b > ByteWrap - 1 - a

\* Mutants of Length: every chunk is full; a full chunk is a byte
\* longer than it should be.
LengthFull(p, i) == p.chunk_size

LengthLonger(p, i) == IF i + 1 = p.count /\ p.tail # 0 THEN p.tail ELSE p.chunk_size + 1

Length(p, i) == IF i + 1 = p.count /\ p.tail # 0 THEN p.tail ELSE p.chunk_size

\* chunk_at() returns success.
ChunkOk(p, i) ==
  /\ i < p.count
  /\ ~MulOverflows(i, p.chunk_size)
  /\ ~AddOverflows(i * p.chunk_size, Length(p, i))
  /\ i * p.chunk_size + Length(p, i) <= p.total

\* The bytes that chunk i copies.
Pairs(p, i) ==
  LET off == i * p.chunk_size
  IN {<<((p.source_offset + off) % ByteWrap) + k,
        ((p.dest_offset + off) % ByteWrap) + k>> : k \in 0 .. Length(p, i) - 1}
-----------------------------------------------------------------------------
NoPlan == [total |-> 0, source_offset |-> 0, dest_offset |-> 0, chunk_size |-> 0,
           tail |-> 0, count |-> 0]

Init ==
  /\ req \in Requests
  /\ pc = "resolve"
  /\ plan = NoPlan
  /\ ci = 0
  /\ moved = {}

\* submit() refuses what does not fit or cannot be cut.
Refuse ==
  /\ pc = "resolve"
  /\ ~RangesFit(req) \/ ~Buildable(req)
  /\ pc' = "refused"
  /\ UNCHANGED <<req, plan, ci, moved>>

Build ==
  /\ pc = "resolve"
  /\ RangesFit(req)
  /\ Buildable(req)
  /\ plan' = build(req)
  /\ pc' = "copy"
  /\ UNCHANGED <<req, ci, moved>>

\* One turn of the loop; a chunk that chunk_at() rejects fails the transfer.
Move ==
  /\ pc = "copy"
  /\ ci < plan.count
  /\ IF ChunkOk(plan, ci)
     THEN /\ moved' = moved \cup Pairs(plan, ci)
          /\ ci' = ci + 1
          /\ pc' = pc
     ELSE /\ pc' = "failed"
          /\ UNCHANGED <<moved, ci>>
  /\ UNCHANGED <<req, plan>>

Finish ==
  /\ pc = "copy"
  /\ ci >= plan.count
  /\ pc' = "done"
  /\ UNCHANGED <<req, plan, ci, moved>>

Ended == pc \in {"refused", "failed", "done"} /\ UNCHANGED vars

Next == Refuse \/ Build \/ Move \/ Finish \/ Ended

Spec == Init /\ [][Next]_vars
-----------------------------------------------------------------------------
Plan == [total : Byte, source_offset : Byte, dest_offset : Byte, chunk_size : Byte,
         tail : Byte, count : Byte]

\* The request, its chunk plan and the byte pairs that have been copied.
TypeOK ==
  /\ req \in Requests
  /\ pc \in {"resolve", "copy", "refused", "failed", "done"}
  /\ plan \in Plan
  /\ ci \in Byte
  /\ moved \subseteq Byte \X Byte

\* The first n bytes of the request, source byte with destination byte.
Prefix(r, n) ==
  {<<SrcRange(r).offset + k, DstRange(r).offset + k>> : k \in 0 .. n - 1}

\* A transfer that ends without error has copied exactly the bytes asked for,
\* each to its place, and no plan that build() returns is rejected later by
\* chunk_at().
ExactCopy ==
  /\ pc # "failed"
  /\ pc = "done" => moved = Prefix(req, Bytes(req))

\* No byte outside either endpoint is touched, however the ranges, the sizes
\* and the chunk parameters combine.
WithinEndpoints ==
  \A m \in moved : m[1] < req.srcsize /\ m[2] < req.dstsize

\* No byte is copied twice, and a chunk fits the staging buffers, which are
\* chunk_size() long.
ChunksDisjoint ==
  [][pc = "copy" /\ ci' # ci =>
       /\ Pairs(plan, ci) \cap moved = {}
       /\ Pairs(plan, ci) # {}
       /\ Length(plan, ci) <= plan.chunk_size]_vars
=============================================================================
