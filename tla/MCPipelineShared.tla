-------------------------- MODULE MCPipelineShared --------------------------
(* Two transfers read different parts of one file into host memory.         *)
EXTENDS Pipeline, TLC

CONSTANTS p, q,  \* transfers
          f,     \* the file
          m, n   \* host memory

MCTransfers == {p, q}
MCEndpoints == {f, m, n}
MCKind == [x \in MCEndpoints |-> IF x = f THEN "file" ELSE "memory"]
MCCells == [x \in MCEndpoints |-> 3]
MCStart == [x \in MCEndpoints |-> 0]
MCSource == [t \in MCTransfers |-> f]
MCDest == p :> m @@ q :> n
MCSrcOff == p :> 0 @@ q :> 1
MCDstOff == [t \in MCTransfers |-> 0]
MCChunks == [t \in MCTransfers |-> 1]
MCLegs == [t \in MCTransfers |-> 1]
MCVerified == [t \in MCTransfers |-> TRUE]
MCRecycled == <<>>
=============================================================================
