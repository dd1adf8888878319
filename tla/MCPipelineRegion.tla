-------------------------- MODULE MCPipelineRegion --------------------------
(* A transfer to host memory from file_region(path, 1, 2): the part of a file*)
(* that begins behind its first cell.                                        *)
EXTENDS Pipeline, TLC

CONSTANTS p,  \* the transfer
          f,  \* the file
          m   \* host memory

MCEndpoints == {f, m}
MCKind == f :> "file" @@ m :> "memory"
MCCells == f :> 3 @@ m :> 2
MCStart == f :> 1 @@ m :> 0
MCSource == p :> f
MCDest == p :> m
MCSrcOff == p :> 0
MCDstOff == p :> 0
MCChunks == p :> 2
MCLegs == p :> 1
MCVerified == p :> FALSE
MCRecycled == <<>>
=============================================================================
