----------------------------- MODULE Integrity ------------------------------
(***************************************************************************)
(* The two digests of src/src/integrity.cpp, and hash_endpoint_region() of *)
(* executor.cpp, which computes them for the source and the destination of *)
(* a transfer when the chunk loop has ended.                               *)
(*                                                                         *)
(* The sizes are parameters: in the code a byte has 8 bits, the CRC 32, a  *)
(* block of SHA-256 64 bytes of which the length takes 8.  The compression *)
(* function is taken to be free of collisions: the state of a hash is the  *)
(* sequence of blocks that went through process_block().                   *)
(***************************************************************************)
EXTENDS ChunkPlan, Sequences

CONSTANTS ByteBits,      \* bits of a byte
          Poly,          \* the reflected polynomial, lowest bit first
          BlockSize,     \* bytes of a block
          LengthSize,    \* bytes of the length at the end of the last block
          FileBuffer,    \* bytes hashed at a time of a file
          DeviceBuffer,  \* and of device memory
          Content,       \* what the source holds at each position
          Before,        \* and the destination, before the transfer
          Starts         \* desc.offset of an endpoint

\* A byte is its bits, the lowest one first.
ByteValue == [1 .. ByteBits -> BOOLEAN]

ASSUME IntegrityConstants ==
  /\ {ByteBits, BlockSize, FileBuffer, DeviceBuffer} \subseteq Nat \ {0}
  /\ LengthSize \in 1 .. BlockSize - 1
  /\ Poly \in Seq(BOOLEAN) /\ Len(Poly) > ByteBits
  /\ Content \in [Byte -> ByteValue] /\ Before \in [Byte -> ByteValue]
  /\ Starts \subseteq Byte

\* A loop over s: the state that is left when each element in turn has taken
\* the state before it to the next one.
Through(step, state, s) ==
  LET after[i \in 0 .. Len(s)] == IF i = 0 THEN state ELSE step[after[i - 1]][s[i]]
  IN after[Len(s)]
-----------------------------------------------------------------------------
(* CRC: a register of bits, the lowest one first.                          *)

Crc == [1 .. Len(Poly) -> BOOLEAN]

Widen(b) == [k \in 1 .. Len(Poly) |-> k <= ByteBits /\ b[k]]

LowByte(c) == [k \in 1 .. ByteBits |-> c[k]]

Xor(c, d) == [k \in 1 .. Len(Poly) |-> c[k] # d[k]]

ShiftRight(c, n) == [k \in 1 .. Len(Poly) |-> k + n <= Len(Poly) /\ c[k + n]]

\* One bit of the division by the polynomial.
Divide(c) == IF c[1] THEN Xor(Poly, ShiftRight(c, 1)) ELSE ShiftRight(c, 1)

table ==
  [b \in ByteValue |-> Through([c \in Crc |-> [k \in 1 .. ByteBits |-> Divide(c)]],
                               Widen(b), [k \in 1 .. ByteBits |-> k])]

crc_init == [k \in 1 .. Len(Poly) |-> TRUE]

\* One byte.
crc_step ==
  [c \in Crc |-> [b \in ByteValue |->
     Xor(table[LowByte(Xor(c, Widen(b)))], ShiftRight(c, ByteBits))]]

crc_update == [c \in Crc |-> [data \in Seq(ByteValue) |-> Through(crc_step, c, data)]]

crc_value(crc) == [k \in 1 .. Len(Poly) |-> ~crc[k]]
-----------------------------------------------------------------------------
(* SHA-256: blocks processed so far, the bytes waiting for a full block    *)
(* and the number of bytes seen.                                           *)

Hash == [blocks : Seq(Seq(ByteValue)), buffer : Seq(ByteValue), total : Nat]

sha_reset == [blocks |-> <<>>, buffer |-> <<>>, total |-> 0]

\* The state after more blocks: all that went into them.
process_blocks(blocks, more) == blocks \o more

\* The n-th whole block of the data behind the first i bytes.
BlockAt(data, i, n) == [k \in 1 .. BlockSize |-> data[i + (n - 1) * BlockSize + k]]

\* The buffer is filled up if it has something, whole blocks are taken from
\* the data as they are, and the rest waits in the buffer.
Updated(h, data) ==
  LET len   == Len(data)
      room  == BlockSize - Len(h.buffer)
      i     == IF h.buffer = <<>> THEN 0 ELSE IF len < room THEN len ELSE room
      first == h.buffer \o SubSeq(data, 1, i)
      full  == Len(first) = BlockSize
      whole == (len - i) \div BlockSize
  IN [blocks |-> process_blocks(h.blocks, (IF full THEN <<first>> ELSE <<>>)
                                            \o [n \in 1 .. whole |-> BlockAt(data, i, n)]),
      buffer |-> (IF full THEN <<>> ELSE first)
                   \o SubSeq(data, i + whole * BlockSize + 1, len),
      total |-> h.total + len]

sha_update == [h \in Hash |-> [data \in Seq(ByteValue) |-> Updated(h, data)]]

Zeros(n) == [k \in 1 .. n |-> [j \in 1 .. ByteBits |-> FALSE]]

\* The byte 0x80.
Marker == [j \in 1 .. ByteBits |-> j = ByteBits]

\* One zero after the other until only the length fits into the block.
sha_pad(h) ==
  LET after(n) == Through(sha_update, h, [k \in 1 .. n |-> Zeros(1)])
      ready(n) == Len(after(n).buffer) = BlockSize - LengthSize
  IN after(CHOOSE n \in 0 .. BlockSize : ready(n) /\ \A m \in 0 .. n - 1 : ~ready(m))

\* The highest byte first.
BigEndian(n) ==
  [k \in 1 .. LengthSize |->
     [j \in 1 .. ByteBits |-> (n \div 2^(ByteBits * (LengthSize - k) + j - 1)) % 2 = 1]]

\* Mutant of sha_final: the length counts the padding.
sha_final_late(h) ==
  LET padded == sha_pad(sha_update[h][<<Marker>>])
  IN sha_update[padded][BigEndian(padded.total * ByteBits)].blocks

\* The length is taken before the padding is added.
sha_final(h) ==
  LET padded == sha_pad(sha_update[h][<<Marker>>])
  IN sha_update[padded][BigEndian(h.total * ByteBits)].blocks
-----------------------------------------------------------------------------
(* hash_endpoint_region(): the region goes through a buffer of n bytes.    *)

Pieces(region, n) ==
  [k \in 1 .. (Len(region) + n - 1) \div n |->
     SubSeq(region, (k - 1) * n + 1, IF k * n < Len(region) THEN k * n ELSE Len(region))]

BufferFor(kind, region) ==
  CASE kind = "file" -> FileBuffer
    [] kind = "device" -> DeviceBuffer
    [] kind = "memory" -> Len(region)

Digest(mode, kind, region) ==
  LET pieces == Pieces(region, BufferFor(kind, region))
  IN IF region = <<>> THEN <<>>
     ELSE IF mode = "crc32c"
     THEN crc_value(Through(crc_update, crc_init, pieces))
     ELSE sha_final(Through(sha_update, sha_reset, pieces))

Endpoint == [kind : {"file", "device", "memory"}, start : Starts]

\* A file is read from desc.offset + offset, all else from base + offset: that
\* is not where the copies of a file go, which leave desc.offset out.
HashedRegion(e, bytes, offset, len) ==
  LET first == IF e.kind = "file" THEN e.start + offset ELSE offset
  IN [k \in 1 .. len |-> bytes[(first + k - 1) % ByteWrap]]

\* The file is taken to be long enough; a short read is an error (Pipeline has it).
hash_endpoint_region(mode, e, bytes, offset, len) ==
  Digest(mode, e.kind, HashedRegion(e, bytes, offset, len))
-----------------------------------------------------------------------------
(* The verification: both endpoints are hashed when the chunk loop has     *)
(* ended, the destination as the copied bytes left it.                     *)

Written ==
  [i \in Byte |-> IF \E m \in moved : m[2] = i
                  THEN Content[(CHOOSE m \in moved : m[2] = i)[1]]
                  ELSE Before[i]]

SourceDigest(mode, e) ==
  hash_endpoint_region(mode, e, Content, plan.source_offset, plan.total)

DestDigest(mode, e) ==
  hash_endpoint_region(mode, e, Written, plan.dest_offset, plan.total)

\* The hash of the endpoint reads what the copies read and write.
HashedWhereCopied(e) == e.kind = "file" => e.start = 0

\* What the standards ask for: the remainder bit by bit; and the message, a
\* one, zeros and the length, cut into blocks.
BitsOf(region) ==
  [k \in 1 .. Len(region) * ByteBits |->
     region[((k - 1) \div ByteBits) + 1][((k - 1) % ByteBits) + 1]]

BitStep == [c \in Crc |-> [b \in BOOLEAN |-> Divide([c EXCEPT ![1] = @ # b])]]

ReferenceCrc(region) == crc_value(Through(BitStep, crc_init, BitsOf(region)))

ReferenceBlocks(region) ==
  LET n == CHOOSE z \in 0 .. BlockSize - 1 :
             (Len(region) + 1 + z + LengthSize) % BlockSize = 0
      message == region \o <<Marker>> \o Zeros(n) \o BigEndian(Len(region) * ByteBits)
  IN [k \in 1 .. Len(message) \div BlockSize |-> BlockAt(message, 0, k)]

\* integrity.hpp: both digests accept incremental updates.  However an endpoint
\* is cut into pieces for hashing, its digest is the one of the standard, of the
\* bytes behind desc.offset for a file, and can be compared with one computed
\* elsewhere.  And when the chunk loop has ended source and destination have the
\* same digest, whatever the destination held before, if both are hashed where
\* they were copied: then a correct copy never fails its verification.
VerificationExact ==
  pc = "done" /\ plan.total > 0 =>
    \A e \in Endpoint :
      LET region == HashedRegion(e, Content, plan.source_offset, plan.total)
      IN /\ SourceDigest("crc32c", e) = ReferenceCrc(region)
         /\ SourceDigest("sha256", e) = ReferenceBlocks(region)
         /\ \A f \in Endpoint, mode \in {"crc32c", "sha256"} :
              HashedWhereCopied(e) /\ HashedWhereCopied(f) =>
                SourceDigest(mode, e) = DestDigest(mode, f)
=============================================================================
