-------------------------- MODULE EndpointRegistry --------------------------
(***************************************************************************)
(* The generation-checked slot registry of src/src/runtime/registry.cpp as *)
(* the runtime uses it: register_endpoint() and unregister_endpoint() in   *)
(* client threads, get() when submit() resolves a handle, and clear() at   *)
(* the end of shutdown().  One action is one critical section of mu_, or   *)
(* the test of shutdown_ before it.  Generations are 64 bits wide and do   *)
(* not wrap here.                                                          *)
(***************************************************************************)
EXTENDS Naturals, Sequences, SequencesExt

CONSTANTS Records,   \* the register_endpoint() calls, each with its record
          NoRecord,  \* the null pointer
          Transfers  \* the submit() calls

ASSUME RegistryConstants == NoRecord \notin Records

VARIABLES slots,     \* slots_
          free,      \* free_, indices of slots, the last one is reused first
          rpc,       \* how far each registration is
          handle,    \* the handle each registration returned
          pinned,    \* the endpoint record each transfer holds on to
          shutdown,  \* shutdown_
          cleared,   \* clear() has run
          late       \* the records allocated after clear()

vars == <<slots, free, rpc, handle, pinned, shutdown, cleared, late>>

Slot == [gen : Nat, used : BOOLEAN, rec : Records \cup {NoRecord}]

NoHandle == [slot |-> 0, generation |-> 0]

Init ==
  /\ slots = <<>>
  /\ free = <<>>
  /\ rpc = [r \in Records |-> "idle"]
  /\ handle = [r \in Records |-> NoHandle]
  /\ pinned = [t \in Transfers |-> NoRecord]
  /\ shutdown = FALSE
  /\ cleared = FALSE
  /\ late = {}

\* Mutant of Resolves: the generation is not compared.
ResolvesSlot(h) == h.slot \in DOMAIN slots /\ slots[h.slot].used

\* get() finds a record: the slot exists, is in use and has the generation.
Resolves(h) ==
  /\ h.slot \in DOMAIN slots
  /\ slots[h.slot].used
  /\ slots[h.slot].gen = h.generation

get(h) == IF Resolves(h) THEN slots[h.slot].rec ELSE NoRecord

\* register_endpoint() tests shutdown_ first, refuses a bad descriptor, and
\* then opens the resource, which may fail.
RegisterTests(r) ==
  /\ rpc[r] = "idle"
  /\ ~shutdown
  /\ rpc' = [rpc EXCEPT ![r] = "opened"]
  /\ UNCHANGED <<slots, free, handle, pinned, shutdown, cleared, late>>

RegisterRefused(r) ==
  /\ rpc[r] = "idle"
  /\ rpc' = [rpc EXCEPT ![r] = "refused"]
  /\ UNCHANGED <<slots, free, handle, pinned, shutdown, cleared, late>>

RegisterFails(r) ==
  /\ rpc[r] = "opened"
  /\ rpc' = [rpc EXCEPT ![r] = "refused"]
  /\ UNCHANGED <<slots, free, handle, pinned, shutdown, cleared, late>>

\* allocate(): the slot freed last, or a new one; its generation goes up.
Allocate(r) ==
  /\ rpc[r] = "opened"
  /\ LET reuse == free # <<>>
         i == IF reuse THEN Last(free) ELSE Len(slots) + 1
         g == IF reuse THEN slots[i].gen + 1 ELSE 1
         s == [gen |-> g, used |-> TRUE, rec |-> r]
     IN /\ slots' = IF reuse THEN [slots EXCEPT ![i] = s] ELSE Append(slots, s)
        /\ free' = IF reuse THEN Front(free) ELSE free
        /\ handle' = [handle EXCEPT ![r] = [slot |-> i, generation |-> g]]
  /\ rpc' = [rpc EXCEPT ![r] = "registered"]
  /\ late' = IF cleared THEN late \cup {r} ELSE late
  /\ UNCHANGED <<pinned, shutdown, cleared>>

\* remove() with a handle that some registration returned, which may be
\* stale; when it does not resolve nothing changes.
Unregister(r) ==
  /\ rpc[r] \in {"registered", "removed"}
  /\ Resolves(handle[r])
  /\ LET i == handle[r].slot
     IN /\ slots' = [slots EXCEPT ![i] = [gen |-> @.gen + 1, used |-> FALSE,
                                          rec |-> NoRecord]]
        /\ free' = Append(free, i)
  /\ rpc' = [rpc EXCEPT ![r] = "removed"]
  /\ UNCHANGED <<handle, pinned, shutdown, cleared, late>>

\* submit() resolves a handle, current or stale, and keeps the record.  It
\* has tested shutdown_ earlier; by now the flag may be set.
Pin(t) ==
  /\ pinned[t] = NoRecord
  /\ \E r \in Records :
       /\ rpc[r] \in {"registered", "removed"}
       /\ pinned' = [pinned EXCEPT ![t] = get(handle[r])]
  /\ UNCHANGED <<slots, free, rpc, handle, shutdown, cleared, late>>

BeginShutdown ==
  /\ ~shutdown
  /\ shutdown' = TRUE
  /\ UNCHANGED <<slots, free, rpc, handle, pinned, cleared, late>>

\* The slots go, and with them their generations.
Clear ==
  /\ shutdown
  /\ ~cleared
  /\ slots' = <<>>
  /\ free' = <<>>
  /\ cleared' = TRUE
  /\ UNCHANGED <<rpc, handle, pinned, shutdown, late>>

Next ==
  \/ \E r \in Records :
       \/ RegisterTests(r) \/ RegisterRefused(r) \/ RegisterFails(r)
       \/ Allocate(r) \/ Unregister(r)
  \/ \E t \in Transfers : Pin(t)
  \/ BeginShutdown
  \/ Clear

Spec == Init /\ [][Next]_vars
-----------------------------------------------------------------------------
\* Slots, free list and handles; the free list names slots that exist.
TypeOK ==
  /\ slots \in Seq(Slot)
  /\ free \in Seq(Nat)
  /\ \A k \in 1 .. Len(free) : free[k] \in 1 .. Len(slots)
  /\ rpc \in [Records -> {"idle", "refused", "opened", "registered", "removed"}]
  /\ handle \in [Records -> [slot : Nat, generation : Nat]]
  /\ pinned \in [Transfers -> Records \cup {NoRecord}]
  /\ shutdown \in BOOLEAN
  /\ cleared \in BOOLEAN
  /\ late \subseteq Records

\* ENDPOINTS.md: stale handles are rejected.  Until the registry is cleared a
\* handle finds the endpoint it was issued for as long as that is registered,
\* and nothing afterwards, however often its slot has been reused meanwhile.
\* clear() forgets the generations: from then on a handle may also find the
\* endpoint of a registration that was under way during shutdown().
HandlesExact ==
  \A r \in Records :
    /\ get(handle[r]) \in {r, NoRecord} \cup late
    /\ ~cleared =>
         /\ rpc[r] = "registered" => get(handle[r]) = r
         /\ rpc[r] = "removed" => get(handle[r]) = NoRecord
=============================================================================
