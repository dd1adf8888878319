----------------------------- MODULE MCPipeline -----------------------------
(* A transfer between two devices, and a verified one between two files, both*)
(* through the staging pool, and a verified direct copy of the part of a file*)
(* that begins behind its start.                                             *)
EXTENDS Pipeline, TLC

CONSTANTS dd, via, copy,  \* transfers
          dev, dew,       \* device memory
          f, g, h, i,     \* files
          b1, b2, b3      \* buffers

MCTransfers == {dd, via, copy}
MCEndpoints == {dev, dew, f, g, h, i}
MCKind == [x \in MCEndpoints |-> IF x \in {dev, dew} THEN "device" ELSE "file"]
MCCells == [x \in MCEndpoints |-> 3]
MCStart == [x \in MCEndpoints |-> IF x = h THEN 1 ELSE 0]
MCSource == dd :> dev @@ via :> f @@ copy :> h
MCDest == dd :> dew @@ via :> g @@ copy :> i
MCSrcOff == [t \in MCTransfers |-> 0]
MCDstOff == [t \in MCTransfers |-> 0]
MCChunks == [t \in MCTransfers |-> IF t = dd THEN 3 ELSE 1]
MCLegs == [t \in MCTransfers |-> IF t = copy THEN 1 ELSE 2]
MCVerified == [t \in MCTransfers |-> t # dd]
MCBuffers == {b1, b2, b3}

\* A staged transfer has come and gone: two releases of its two buffers.
MCRecycled == <<b1, b2, b1, b2>>

ASSUME Separate == PrivateEndpoints
=============================================================================
