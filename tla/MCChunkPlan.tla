---------------------------- MODULE MCChunkPlan -----------------------------
(***************************************************************************)
(* Endpoints of up to six bytes with every range that starts and ends in   *)
(* or just outside them, over 3-bit byte counts, and chunk parameters on   *)
(* both sides of every comparison build() makes.  Bytes have two bits,     *)
(* blocks four bytes, two of them for the length, and a CRC four bits.     *)
(***************************************************************************)
EXTENDS Integrity

Ends == {0, 1, 5, 7}

MCRequests ==
  [src : [offset : {0, 2, 7}, length : Ends], dst : [offset : {0, 1}, length : {0, 4, 6}],
   srcsize : {0, 6, 7}, dstsize : {6, 7},
   min_chunk : {0, 1, 2}, max_chunk : {1, 3, 7}, preferred : {0, 1, 3, 5},
   alignment : {0, 1, 2, 4}]

\* Bytes that differ from their neighbours.
MCContent ==
  [i \in 0 .. 7 |-> [k \in 1 .. 2 |-> ((i * i + i \div 2 + 1) \div k) % 2 = 1]]

\* The destination held something else everywhere.
MCBefore == [i \in 0 .. 7 |-> [k \in 1 .. 2 |-> ~MCContent[i][k]]]

MCPoly == <<TRUE, TRUE, FALSE, TRUE>>
=============================================================================
