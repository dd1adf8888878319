-------------------------- MODULE MCPipelineReuse ---------------------------
(* Three transfers from host memory to devices, through the staging pool,    *)
(* each between endpoints of its own.                                        *)
EXTENDS Pipeline, TLC

CONSTANTS p, q, r,  \* transfers
          k, l, m,  \* host memory
          x, y, z   \* device memory

MCTransfers == {p, q, r}
MCEndpoints == {k, l, m, x, y, z}
MCKind == [e \in MCEndpoints |-> IF e \in {x, y, z} THEN "device" ELSE "memory"]
MCCells == [e \in MCEndpoints |-> 1]
MCStart == [e \in MCEndpoints |-> 0]
MCSource == p :> k @@ q :> l @@ r :> m
MCDest == p :> x @@ q :> y @@ r :> z
MCSrcOff == [t \in MCTransfers |-> 0]
MCDstOff == [t \in MCTransfers |-> 0]
MCChunks == [t \in MCTransfers |-> 1]
MCLegs == [t \in MCTransfers |-> 2]
MCVerified == [t \in MCTransfers |-> FALSE]
MCRecycled == <<>>
=============================================================================
