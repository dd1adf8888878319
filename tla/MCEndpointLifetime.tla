------------------------- MODULE MCEndpointLifetime -------------------------
(* Three registrations, one of each kind that opens something, and two     *)
(* transfers that may get the same id.                                     *)
EXTENDS EndpointLifetime, TLC

CONSTANTS r1, r2, r3

MCRecords == {r1, r2, r3}
MCKind == (r1 :> "mmap") @@ (r2 :> "file") @@ (r3 :> "shared")
=============================================================================
