-------------------------- MODULE EndpointLifetime --------------------------
(***************************************************************************)
(* How long the operating-system objects behind an endpoint stay open: the *)
(* endpoint registry composed with the part of register_endpoint() that    *)
(* opens them one after another, the records of transfers that refer to    *)
(* endpoints, and the map of TransferRegistry that keeps those records.    *)
(* An endpoint record is shared: it goes when the slot, the thread in      *)
(* register_endpoint() and every transfer record have let go of it, and    *)
(* its destructor closes the file and the mapping.  Of the two endpoints   *)
(* of a transfer one is followed.                                          *)
(***************************************************************************)
EXTENDS EndpointRegistry, Functions

CONSTANTS Kind,  \* the kind of the endpoint of each registration
          Ids    \* transfer ids, given by the client or generated

ASSUME LifetimeConstants ==
  Kind \in [Records -> {"memory", "file", "shared", "mmap"}]

VARIABLES opened,  \* the objects each registration has opened
          tpc,     \* how far each submit() and its transfer are
          map      \* map_ of TransferRegistry

lvars == <<vars, opened, tpc, map>>

Closeable == {"file", "mapping"}

\* What register_endpoint() opens for an endpoint, in this order.
Needs(r) ==
  [memory |-> <<>>,
   file   |-> <<"file">>,
   shared |-> <<"mapping", "view">>,
   mmap   |-> <<"file", "mapping", "view">>][Kind[r]]

LInit ==
  /\ Init
  /\ opened = [r \in Records |-> {}]
  /\ tpc = [t \in Transfers |-> "idle"]
  /\ map = [id \in Ids |-> {}]

\* submit() holds the endpoint in a local variable, then in the record of the
\* transfer, which the threads working on it and the map share.
Holds(t) ==
  \/ tpc[t] \in {"resolved", "running"}
  \/ \E id \in Ids : t \in map[id]

Referenced(r) ==
  \/ rpc[r] = "opened"
  \/ \E s \in Range(slots) : s.rec = r
  \/ \E t \in Transfers : pinned[t] = r /\ Holds(t)

\* ~EndpointRecord() closes the handles, and leaves the view mapped.
Destroy ==
  opened' = [r \in Records |->
               IF Referenced(r)' THEN opened[r] ELSE opened[r] \ Closeable]
-----------------------------------------------------------------------------
Test(r) == RegisterTests(r) /\ UNCHANGED <<opened, tpc, map>>

Refuse(r) == RegisterRefused(r) /\ UNCHANGED <<opened, tpc, map>>

\* The next object is opened.
Acquire(r) ==
  /\ rpc[r] = "opened"
  /\ \E k \in DOMAIN Needs(r) :
       /\ opened[r] = {Needs(r)[j] : j \in 1 .. k - 1}
       /\ opened' = [opened EXCEPT ![r] = @ \cup {Needs(r)[k]}]
  /\ UNCHANGED <<vars, tpc, map>>

\* Mutant of AcquireFails: the file is left open when its mapping fails.
AcquireFailsLeaking(r) ==
  /\ "view" \notin opened[r]
  /\ RegisterFails(r)
  /\ opened' = [opened EXCEPT ![r] = @ \ {"mapping"}]
  /\ UNCHANGED <<tpc, map>>

\* An object cannot be opened, or the size of the file or the device cannot
\* be had: what was opened so far is closed.  Nothing fails after the view.
AcquireFails(r) ==
  /\ "view" \notin opened[r]
  /\ RegisterFails(r)
  /\ opened' = [opened EXCEPT ![r] = {}]
  /\ UNCHANGED <<tpc, map>>

Enter(r) ==
  /\ opened[r] = Range(Needs(r))
  /\ Allocate(r)
  /\ UNCHANGED <<opened, tpc, map>>

\* Mutant of RemoveEndpoint: removing an endpoint closes it.
RemoveAndClose(r) ==
  /\ Unregister(r)
  /\ opened' = [opened EXCEPT ![r] = @ \ Closeable]
  /\ UNCHANGED <<tpc, map>>

\* remove() asks nothing of the transfers; it drops one reference.
RemoveEndpoint(r) == Unregister(r) /\ UNCHANGED <<tpc, map>> /\ Destroy

\* submit() resolves the handle, or ends here.
Resolve(t) ==
  /\ tpc[t] = "idle"
  /\ Pin(t)
  /\ tpc' = [tpc EXCEPT ![t] = IF pinned'[t] = NoRecord THEN "refused" ELSE "resolved"]
  /\ UNCHANGED <<opened, map>>

\* The other handle, the ranges or the route are no good.
Reject(t) ==
  /\ tpc[t] = "resolved"
  /\ tpc' = [tpc EXCEPT ![t] = "refused"]
  /\ UNCHANGED <<vars, map>>
  /\ Destroy

\* insert() replaces whatever record has the id; nothing erases one.
Insert(t) ==
  /\ tpc[t] = "resolved"
  /\ tpc' = [tpc EXCEPT ![t] = "running"]
  /\ \E id \in Ids : map' = [map EXCEPT ![id] = {t}]
  /\ UNCHANGED vars
  /\ Destroy

\* The last thread that works on the transfer lets go of the record.
Finish(t) ==
  /\ tpc[t] = "running"
  /\ tpc' = [tpc EXCEPT ![t] = "finished"]
  /\ UNCHANGED <<vars, map>>
  /\ Destroy

Close == BeginShutdown /\ UNCHANGED <<opened, tpc, map>>

ClearAll == Clear /\ UNCHANGED <<tpc, map>> /\ Destroy

LNext ==
  \/ \E r \in Records :
       \/ Test(r) \/ Refuse(r) \/ Acquire(r) \/ AcquireFails(r)
       \/ Enter(r) \/ RemoveEndpoint(r)
  \/ \E t \in Transfers : Resolve(t) \/ Reject(t) \/ Insert(t) \/ Finish(t)
  \/ Close
  \/ ClearAll

LSpec == LInit /\ [][LNext]_lvars
-----------------------------------------------------------------------------
\* An endpoint can be removed, its slot reused and the registry cleared while
\* a transfer works on it (registry.cpp, remove() and clear()): the transfer
\* still finds open everything that registration opened.
OpenWhileUsed ==
  \A t \in Transfers :
    Holds(t) => pinned[t] \in Records /\ opened[pinned[t]] = Range(Needs(pinned[t]))

\* ENDPOINTS.md: the handles are closed when the endpoint goes.  No path of
\* register_endpoint() that gives up, and no order of removal, replaced
\* transfer records and clear(), leaves a file or a mapping open that nothing
\* refers to.
NoOrphans ==
  \A r \in Records : opened[r] \cap Closeable # {} => Referenced(r)
=============================================================================
