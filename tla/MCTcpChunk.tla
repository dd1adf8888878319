----------------------------- MODULE MCTcpChunk -----------------------------
(* Small instances of the file transfer over TCP.                          *)
EXTENDS TcpChunk
=============================================================================
