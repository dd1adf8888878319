----------------------- MODULE EndpointLifetimeProofs -----------------------
(***************************************************************************)
(* Proofs about modules EndpointRegistry and EndpointLifetime, for every   *)
(* set of registrations, transfers and ids, and so for slot vectors and    *)
(* free lists of any length.  First the registry by itself; then the       *)
(* composition: it is a behaviour of the registry, so that what is proved  *)
(* of the registry holds of it, and the objects behind an endpoint are     *)
(* open exactly as long as needed.                                         *)
(***************************************************************************)
EXTENDS EndpointLifetime, SequenceTheorems, TLAPS
-----------------------------------------------------------------------------
(* The registry.                                                           *)

\* The free list names unused slots, each of them once.
FreeUnused ==
  /\ \A k \in 1 .. Len(free) : free[k] \in 1 .. Len(slots) /\ ~slots[free[k]].used
  /\ \A j, k \in 1 .. Len(free) : free[j] = free[k] => j = k

\* The slot of a registered endpoint is as it was filled; that of a removed
\* one has moved on to a later generation.
HandlesCurrent ==
  \A r \in Records :
    /\ rpc[r] = "registered" =>
         /\ handle[r].slot \in 1 .. Len(slots)
         /\ slots[handle[r].slot].used
         /\ slots[handle[r].slot].gen = handle[r].generation
         /\ slots[handle[r].slot].rec = r
    /\ rpc[r] = "removed" =>
         /\ handle[r].slot \in 1 .. Len(slots)
         /\ handle[r].generation < slots[handle[r].slot].gen

\* A registration has no handle before its record is in a slot.
NoHandleYet ==
  \A r \in Records : rpc[r] \notin {"registered", "removed"} => handle[r].slot = 0

\* After clear() only records that came later are in slots.
SlotsLate ==
  cleared => \A i \in 1 .. Len(slots) : slots[i].used => slots[i].rec \in late

\* The inductive invariant.
IInv ==
  /\ TypeOK
  /\ FreeUnused
  /\ ~cleared => HandlesCurrent
  /\ NoHandleYet
  /\ SlotsLate
-----------------------------------------------------------------------------
\* The empty registry satisfies the inductive invariant.
LEMMA InitInv == Init => IInv
  <1> SUFFICES ASSUME Init PROVE IInv
    OBVIOUS
  <1>1. NoHandle \in [slot : Nat, generation : Nat]
    BY DEF NoHandle
  <1>2. TypeOK
    <2>1. /\ slots \in Seq(Slot) /\ free \in Seq(Nat)
          /\ \A k \in 1 .. Len(free) : free[k] \in 1 .. Len(slots)
      BY DEF Init
    <2>2. handle \in [Records -> [slot : Nat, generation : Nat]]
      BY <1>1 DEF Init
    <2>3. /\ rpc \in [Records -> {"idle", "refused", "opened", "registered", "removed"}]
          /\ pinned \in [Transfers -> Records \cup {NoRecord}]
          /\ shutdown \in BOOLEAN /\ cleared \in BOOLEAN /\ late \subseteq Records
      BY Zenon DEF Init
    <2> QED BY <2>1, <2>2, <2>3 DEF TypeOK
  <1>3. FreeUnused /\ HandlesCurrent
    BY DEF Init, FreeUnused, HandlesCurrent
  <1>4. NoHandleYet /\ SlotsLate
    BY DEF Init, NoHandleYet, NoHandle, SlotsLate
  <1> QED BY <1>2, <1>3, <1>4 DEF IInv

\* The fields of a slot of the registry.
LEMMA SlotFields ==
  ASSUME TypeOK, NEW i \in 1 .. Len(slots)
  PROVE  /\ slots[i] \in Slot /\ slots[i].gen \in Nat
         /\ slots[i].rec \in Records \cup {NoRecord}
  <1>1. slots[i] \in Slot
    BY DEF TypeOK
  <1> QED BY <1>1 DEF Slot

\* The slot freed last is taken out of the free list and filled.
LEMMA AllocateReuseInv ==
  ASSUME IInv, NEW r \in Records, Allocate(r), free # <<>>
  PROVE  IInv'
  <1> DEFINE n == Len(free)
             i == free[n]
             g == slots[i].gen + 1
             s == [gen |-> g, used |-> TRUE, rec |-> r]
  <1>1. /\ free \in Seq(Nat) /\ slots \in Seq(Slot) /\ n \in Nat /\ n >= 1 /\ rpc[r] = "opened"
        /\ handle \in [Records -> [slot : Nat, generation : Nat]]
    BY DEF IInv, TypeOK, Allocate
  <1>2. i \in 1 .. Len(slots) /\ ~slots[i].used /\ i \in Nat
    BY <1>1 DEF IInv, FreeUnused
  <1>3. g \in Nat /\ s \in Slot
    BY <1>2, SlotFields DEF IInv, Slot
  <1>4. /\ slots' = [slots EXCEPT ![i] = s]
        /\ free' = SubSeq(free, 1, n - 1)
        /\ handle' = [handle EXCEPT ![r] = [slot |-> i, generation |-> g]]
        /\ rpc' = [rpc EXCEPT ![r] = "registered"]
        /\ late' = IF cleared THEN late \cup {r} ELSE late
        /\ UNCHANGED <<pinned, shutdown, cleared>>
    BY DEF Allocate, Last, Front
  <1> HIDE DEF s
  <1>5. /\ slots' \in Seq(Slot) /\ Len(slots') = Len(slots) /\ slots'[i] = s
        /\ \A j \in 1 .. Len(slots) : j # i => slots'[j] = slots[j]
    BY <1>1, <1>2, <1>3, <1>4
  <1>6. /\ free' \in Seq(Nat) /\ Len(free') = n - 1
        /\ \A k \in 1 .. n - 1 : free'[k] = free[k]
    <2>1. n - 1 \in Int /\ n - 1 - 1 + 1 = n - 1 /\ 1 \in Int
      BY <1>1
    <2>2. \A k \in 1 .. n - 1 : free[k] \in Nat
      BY <1>1, SMTT(30)
    <2> HIDE DEF n
    <2>3. /\ SubSeq(free, 1, n - 1) \in Seq(Nat)
          /\ Len(SubSeq(free, 1, n - 1)) = IF 1 <= n - 1 THEN n - 1 - 1 + 1 ELSE 0
          /\ \A k \in 1 .. n - 1 - 1 + 1 : SubSeq(free, 1, n - 1)[k] = free[1 + k - 1]
      BY <2>1, <2>2, SubSeqProperties
    <2>4. Len(free') = n - 1
      BY <1>1, <1>4, <2>1, <2>3
    <2>5. \A k \in 1 .. n - 1 : free'[k] = free[k]
      <3> TAKE k \in 1 .. n - 1
      <3>1. 1 + k - 1 = k
        OBVIOUS
      <3> QED BY <3>1, <1>4, <2>1, <2>3
    <2> QED BY <1>4, <2>3, <2>4, <2>5
  <1>7. FreeUnused'
    <2>1. \A k \in 1 .. n - 1 : k \in 1 .. n /\ free[k] # i
      BY <1>1 DEF IInv, FreeUnused
    <2> QED BY <2>1, <1>5, <1>6, Zenon DEF IInv, FreeUnused
  <1>8. TypeOK'
    BY <1>7, <1>1, <1>2, <1>3, <1>4, <1>5, <1>6, SMTT(20) DEF IInv, TypeOK, FreeUnused
  <1>9. ASSUME ~cleared' PROVE HandlesCurrent'
    <2>1. HandlesCurrent
      BY <1>4, <1>9 DEF IInv
    <2>2. s.used /\ s.gen = g /\ s.rec = r /\ s.gen \in Nat
      BY <1>3 DEF s
    <2> SUFFICES ASSUME NEW q \in Records
                 PROVE  /\ rpc'[q] = "registered" =>
                             /\ handle'[q].slot \in 1 .. Len(slots')
                             /\ slots'[handle'[q].slot].used
                             /\ slots'[handle'[q].slot].gen = handle'[q].generation
                             /\ slots'[handle'[q].slot].rec = q
                        /\ rpc'[q] = "removed" =>
                             /\ handle'[q].slot \in 1 .. Len(slots')
                             /\ handle'[q].generation < slots'[handle'[q].slot].gen
      BY DEF HandlesCurrent
    <2>3. CASE q = r
      BY <2>3, <2>2, <1>1, <1>2, <1>4, <1>5, SMTT(20) DEF IInv, TypeOK
    <2>4. CASE q # r
      <3>1. handle'[q] = handle[q] /\ rpc'[q] = rpc[q]
        BY <2>4, <1>1, <1>4, SMTT(30) DEF IInv, TypeOK
      <3>2. CASE rpc[q] = "registered"
        BY <3>1, <3>2, <2>1, <1>2, <1>5, SMTT(30) DEF HandlesCurrent
      <3>3. CASE rpc[q] = "removed"
        <4>1. /\ handle[q].slot \in 1 .. Len(slots)
              /\ handle[q].generation < slots[handle[q].slot].gen
              /\ handle[q].generation \in Nat
          BY <3>3, <2>1, <1>1, SMTT(30) DEF HandlesCurrent
        <4>2. CASE handle[q].slot = i
          <5>1. slots[i].gen \in Nat
            BY <1>2, SlotFields DEF IInv
          <5> QED BY <4>1, <4>2, <5>1, <3>1, <3>3, <2>2, <1>5, SMTT(30)
        <4>3. CASE handle[q].slot # i
          BY <4>1, <4>3, <3>1, <3>3, <1>5, SMTT(30)
        <4> QED BY <4>2, <4>3, SMTT(30)
      <3> QED BY <3>1, <3>2, <3>3, SMTT(30)
    <2> QED BY <2>3, <2>4
  <1>10. NoHandleYet'
    BY <1>1, <1>4 DEF IInv, TypeOK, NoHandleYet
  <1>11. SlotsLate'
    <2>1. s.rec = r
      BY DEF s
    <2> QED BY <2>1, <1>4, <1>5 DEF IInv, SlotsLate
  <1> QED BY <1>7, <1>8, <1>9, <1>10, <1>11 DEF IInv

\* A new slot is appended.
LEMMA AllocateNewInv ==
  ASSUME IInv, NEW r \in Records, Allocate(r), free = <<>>
  PROVE  IInv'
  <1> DEFINE i == Len(slots) + 1
             s == [gen |-> 1, used |-> TRUE, rec |-> r]
  <1>1. /\ slots \in Seq(Slot) /\ Len(slots) \in Nat /\ rpc[r] = "opened"
        /\ handle \in [Records -> [slot : Nat, generation : Nat]]
    BY DEF IInv, TypeOK, Allocate
  <1>2. s \in Slot
    BY DEF Slot
  <1>3. /\ slots' = Append(slots, s)
        /\ free' = free
        /\ handle' = [handle EXCEPT ![r] = [slot |-> i, generation |-> 1]]
        /\ rpc' = [rpc EXCEPT ![r] = "registered"]
        /\ late' = IF cleared THEN late \cup {r} ELSE late
        /\ UNCHANGED <<pinned, shutdown, cleared>>
    BY DEF Allocate
  <1> HIDE DEF s
  <1>4. /\ slots' \in Seq(Slot) /\ Len(slots') = i /\ slots'[i] = s
        /\ \A j \in 1 .. Len(slots) : slots'[j] = slots[j]
    BY <1>1, <1>2, <1>3, SMTT(30)
  <1>5. FreeUnused'
    BY <1>3 DEF FreeUnused
  <1>6. TypeOK'
    BY <1>5, <1>1, <1>3, <1>4, SMTT(30) DEF IInv, TypeOK, FreeUnused
  <1>7. ASSUME ~cleared' PROVE HandlesCurrent'
    <2>1. HandlesCurrent
      BY <1>3, <1>7 DEF IInv
    <2>2. s.used /\ s.gen = 1 /\ s.rec = r
      BY DEF s
    <2>3. \A q \in Records : q # r => handle'[q] = handle[q] /\ rpc'[q] = rpc[q]
      BY <1>1, <1>3 DEF IInv, TypeOK
    <2>4. handle'[r].slot = i /\ handle'[r].generation = 1 /\ rpc'[r] = "registered"
      BY <1>1, <1>3 DEF IInv, TypeOK
    <2> QED BY <2>1, <2>2, <2>3, <2>4, <1>1, <1>4, SMTT(20) DEF HandlesCurrent
  <1>8. NoHandleYet'
    BY <1>1, <1>3 DEF IInv, TypeOK, NoHandleYet
  <1>9. SlotsLate'
    <2>1. s.rec = r
      BY DEF s
    <2>2. \A j \in 1 .. i : j = i \/ j \in 1 .. Len(slots)
      BY <1>1
    <2> QED BY <2>1, <2>2, <1>3, <1>4, SMTT(30) DEF IInv, SlotsLate
  <1> QED BY <1>5, <1>6, <1>7, <1>8, <1>9, SMTT(30) DEF IInv

\* The slot of the handle is emptied and goes to the end of the free list.
LEMMA UnregisterInv ==
  ASSUME IInv, NEW r \in Records, Unregister(r)
  PROVE  IInv'
  <1> DEFINE i == handle[r].slot
             s == [gen |-> slots[i].gen + 1, used |-> FALSE, rec |-> NoRecord]
             n == Len(free)
  <1>1. /\ slots \in Seq(Slot) /\ free \in Seq(Nat) /\ n \in Nat
        /\ handle \in [Records -> [slot : Nat, generation : Nat]]
        /\ rpc[r] \in {"registered", "removed"}
    BY DEF IInv, TypeOK, Unregister
  <1>2. i \in 1 .. Len(slots) /\ i \in Nat /\ slots[i].used /\ slots[i].gen = handle[r].generation
    BY <1>1 DEF Unregister, Resolves
  <1>3. slots[i].gen \in Nat /\ s \in Slot
    BY <1>2, SlotFields, SMTT(30) DEF IInv, Slot
  <1>4. /\ slots' = [slots EXCEPT ![i] = s]
        /\ free' = Append(free, i)
        /\ rpc' = [rpc EXCEPT ![r] = "removed"]
        /\ UNCHANGED <<handle, pinned, shutdown, cleared, late>>
    BY DEF Unregister
  <1>5. s.gen = slots[i].gen + 1 /\ ~s.used
    OBVIOUS
  <1> HIDE DEF s
  <1>6. /\ slots' \in Seq(Slot) /\ Len(slots') = Len(slots) /\ slots'[i] = s
        /\ \A j \in 1 .. Len(slots) : j # i => slots'[j] = slots[j]
    BY <1>1, <1>2, <1>3, <1>4, SMTT(30)
  <1>7. /\ free' \in Seq(Nat) /\ Len(free') = n + 1 /\ free'[n + 1] = i
        /\ \A k \in 1 .. n : free'[k] = free[k]
    BY <1>1, <1>2, <1>4
  <1>8. FreeUnused'
    <2>1. \A k \in 1 .. n : free[k] \in 1 .. Len(slots) /\ ~slots[free[k]].used /\ free[k] # i
      BY <1>2 DEF IInv, FreeUnused
    <2>2. \A j, k \in 1 .. n : free[j] = free[k] => j = k
      BY DEF IInv, FreeUnused
    <2>3. \A k \in 1 .. n + 1 : k \in 1 .. n \/ k = n + 1
      BY <1>1
    <2> HIDE DEF n, i
    <2>4. \A k \in 1 .. n + 1 : free'[k] \in 1 .. Len(slots') /\ ~slots'[free'[k]].used
      BY <2>1, <2>3, <1>2, <1>5, <1>6, <1>7, SMTT(30)
    <2>5. \A j, k \in 1 .. n + 1 : free'[j] = free'[k] => j = k
      BY <2>1, <2>2, <2>3, <1>7, SMTT(30)
    <2> QED BY <2>4, <2>5, <1>7, SMTT(30) DEF FreeUnused
  <1>9. TypeOK'
    BY <1>8, <1>1, <1>4, <1>6, <1>7, SMTT(20) DEF IInv, TypeOK, FreeUnused
  <1>10. ASSUME ~cleared' PROVE HandlesCurrent'
    <2>1. HandlesCurrent
      BY <1>4, <1>10 DEF IInv
    <2>2. rpc[r] = "registered" /\ slots[i].rec = r
      BY <2>1, <1>1, <1>2, SMTT(30) DEF HandlesCurrent
    <2> SUFFICES ASSUME NEW q \in Records
                 PROVE  /\ rpc'[q] = "registered" =>
                             /\ handle[q].slot \in 1 .. Len(slots')
                             /\ slots'[handle[q].slot].used
                             /\ slots'[handle[q].slot].gen = handle[q].generation
                             /\ slots'[handle[q].slot].rec = q
                        /\ rpc'[q] = "removed" =>
                             /\ handle[q].slot \in 1 .. Len(slots')
                             /\ handle[q].generation < slots'[handle[q].slot].gen
      BY <1>4 DEF HandlesCurrent
    <2>3. CASE q = r
      BY <2>3, <1>1, <1>2, <1>3, <1>4, <1>5, <1>6, SMTT(20) DEF IInv, TypeOK
    <2>4. CASE q # r /\ rpc[q] = "registered"
      BY <2>4, <2>1, <2>2, <1>1, <1>4, <1>6, SMTT(20) DEF HandlesCurrent, IInv, TypeOK
    <2>5. CASE q # r /\ rpc[q] = "removed"
      <3>1. /\ handle[q].slot \in 1 .. Len(slots)
            /\ handle[q].generation < slots[handle[q].slot].gen
            /\ handle[q].generation \in Nat
        BY <2>5, <2>1, <1>1 DEF HandlesCurrent
      <3>2. rpc'[q] = "removed"
        BY <2>5, <1>4, SMTT(30) DEF IInv, TypeOK
      <3>3. CASE handle[q].slot = i
        BY <3>1, <3>2, <3>3, <1>3, <1>5, <1>6, SMTT(20)
      <3>4. CASE handle[q].slot # i
        BY <3>1, <3>2, <3>4, <1>6, SMTT(30)
      <3> QED BY <3>3, <3>4
    <2>6. CASE q # r /\ rpc[q] \notin {"registered", "removed"}
      BY <2>6, <1>4 DEF IInv, TypeOK
    <2> QED BY <2>3, <2>4, <2>5, <2>6, SMTT(30)
  <1>11. NoHandleYet'
    BY <1>4 DEF IInv, TypeOK, NoHandleYet
  <1>12. SlotsLate'
    BY <1>4, <1>5, <1>6 DEF IInv, SlotsLate
  <1> QED BY <1>8, <1>9, <1>10, <1>11, <1>12, SMTT(30) DEF IInv

\* get() returns null or the record of a slot.
LEMMA GetType == ASSUME TypeOK, NEW h PROVE get(h) \in Records \cup {NoRecord}
  <1>1. CASE Resolves(h)
    <2>1. h.slot \in 1 .. Len(slots)
      BY <1>1 DEF Resolves, TypeOK
    <2> QED BY <1>1, <2>1, SlotFields DEF get
  <1>2. CASE ~Resolves(h)
    BY <1>2 DEF get
  <1> QED BY <1>1, <1>2

\* Every step of the registry and of its users keeps the invariant.
LEMMA NextInv == IInv /\ [Next]_vars => IInv'
  <1> SUFFICES ASSUME IInv, [Next]_vars PROVE IInv'
    OBVIOUS
  <1>1. ASSUME NEW r \in Records, RegisterTests(r) \/ RegisterRefused(r) \/ RegisterFails(r)
        PROVE  IInv'
    <2>1. /\ UNCHANGED <<slots, free, handle, pinned, shutdown, cleared, late>>
          /\ rpc[r] \in {"idle", "opened"}
          /\ rpc' = [rpc EXCEPT ![r] = "opened"] \/ rpc' = [rpc EXCEPT ![r] = "refused"]
      BY <1>1, Zenon DEF RegisterTests, RegisterRefused, RegisterFails
    <2>2. \A q \in Records : \/ rpc'[q] = rpc[q]
                            \/ /\ rpc[q] \notin {"registered", "removed"}
                               /\ rpc'[q] \notin {"registered", "removed"}
      BY <2>1 DEF IInv, TypeOK
    <2>3. TypeOK'
      BY <2>1, Zenon DEF IInv, TypeOK
    <2>4. FreeUnused' /\ SlotsLate'
      BY <2>1, SMTT(30) DEF IInv, FreeUnused, SlotsLate
    <2>5. ~cleared' => HandlesCurrent'
      BY <2>1, <2>2 DEF IInv, HandlesCurrent
    <2>6. NoHandleYet'
      BY <2>1, <2>2 DEF IInv, NoHandleYet
    <2> QED BY <2>3, <2>4, <2>5, <2>6, SMTT(30) DEF IInv
  <1>2. ASSUME NEW r \in Records, Allocate(r) PROVE IInv'
    BY <1>2, AllocateReuseInv, AllocateNewInv, SMTT(30)
  <1>3. ASSUME NEW r \in Records, Unregister(r) PROVE IInv'
    BY <1>3, UnregisterInv, SMTT(30)
  <1>4. ASSUME NEW t \in Transfers, Pin(t) PROVE IInv'
    <2>1. PICK r \in Records : pinned' = [pinned EXCEPT ![t] = get(handle[r])]
      BY <1>4, Zenon DEF Pin
    <2>2. pinned' \in [Transfers -> Records \cup {NoRecord}]
      BY <2>1, GetType, SMTT(30) DEF IInv, TypeOK
    <2> QED BY <1>4, <2>2 DEF Pin, IInv, TypeOK, FreeUnused, HandlesCurrent, NoHandleYet, SlotsLate
  <1>5. CASE BeginShutdown
    BY <1>5, SMTT(30)
       DEF BeginShutdown, IInv, TypeOK, FreeUnused, HandlesCurrent, NoHandleYet, SlotsLate
  <1>6. CASE Clear
    BY <1>6 DEF Clear, IInv, TypeOK, FreeUnused, NoHandleYet, SlotsLate
  <1>7. CASE UNCHANGED vars
    BY <1>7, Zenon DEF vars, IInv, TypeOK, FreeUnused, HandlesCurrent, NoHandleYet, SlotsLate
  <1> QED
    BY <1>1, <1>2, <1>3, <1>4, <1>5, <1>6, <1>7, SMTT(30) DEF Next
-----------------------------------------------------------------------------
\* The inductive invariant of the registry holds in every reachable state.
THEOREM Invariance == Spec => []IInv
  BY InitInv, NextInv, PTL DEF Spec

\* Every variable of the registry keeps its type.
THEOREM TypeCorrect == Spec => []TypeOK
  <1>1. IInv => TypeOK
    BY SMTT(30) DEF IInv
  <1> QED BY <1>1, Invariance, PTL

\* A handle finds its own endpoint, nothing, or what was registered after
\* clear(); and until clear() its endpoint exactly while that is registered.
\* For any number of registrations and reuses of slots.
THEOREM HandlesExactAlways == Spec => []HandlesExact
  <1>1. IInv => HandlesExact
    <2> SUFFICES ASSUME IInv, NEW r \in Records
                 PROVE  /\ get(handle[r]) \in {r, NoRecord} \cup late
                        /\ ~cleared =>
                             /\ rpc[r] = "registered" => get(handle[r]) = r
                             /\ rpc[r] = "removed" => get(handle[r]) = NoRecord
      BY DEF HandlesExact
    <2>1. slots \in Seq(Slot) /\ handle[r].generation \in Nat
      BY DEF IInv, TypeOK
    <2>2. CASE ~cleared /\ rpc[r] = "registered"
      BY <2>1, <2>2 DEF IInv, HandlesCurrent, get, Resolves
    <2>3. CASE ~cleared /\ rpc[r] = "removed"
      <3>1. /\ handle[r].slot \in 1 .. Len(slots)
            /\ handle[r].generation < slots[handle[r].slot].gen
        BY <2>1, <2>3 DEF IInv, HandlesCurrent
      <3>2. slots[handle[r].slot].gen \in Nat
        BY <3>1, SlotFields, SMTT(30) DEF IInv
      <3>3. ~Resolves(handle[r])
        BY <2>1, <3>1, <3>2, SMTT(30) DEF Resolves
      <3> QED BY <2>3, <3>3, SMTT(30) DEF get
    <2>4. CASE ~cleared /\ rpc[r] \notin {"registered", "removed"}
      BY <2>1, <2>4, SMTT(30) DEF IInv, NoHandleYet, get, Resolves
    <2>5. CASE cleared
      BY <2>1, <2>5 DEF IInv, SlotsLate, get, Resolves
    <2> QED BY <2>2, <2>3, <2>4, <2>5, SMTT(30)
  <1> QED BY <1>1, Invariance, PTL
-----------------------------------------------------------------------------
(* The composition.                                                        *)

Settled == {"registered", "removed"}

\* What a transfer holds was in a slot, and what is in a slot was entered.
RecordsSettled ==
  /\ \A t \in Transfers : Holds(t) => pinned[t] \in Records
  /\ \A t \in Transfers : pinned[t] \in Records => rpc[pinned[t]] \in Settled
  /\ \A i \in 1 .. Len(slots) : slots[i].rec \in Records => rpc[slots[i].rec] \in Settled
  /\ \A i \in 1 .. Len(slots) : ~slots[i].used => slots[i].rec = NoRecord

\* An endpoint that was entered is complete while something refers to it.
OpenWhileReferenced ==
  \A r \in Records : Referenced(r) /\ rpc[r] \in Settled => opened[r] = Range(Needs(r))

LTypes ==
  /\ opened \in [Records -> SUBSET {"file", "mapping", "view"}]
  /\ tpc \in [Transfers -> {"idle", "refused", "resolved", "running", "finished"}]
  /\ map \in [Ids -> SUBSET Transfers]

\* The inductive invariant of the composition.
LInv == IInv /\ LTypes /\ RecordsSettled /\ OpenWhileReferenced /\ NoOrphans
-----------------------------------------------------------------------------
\* Every step of the composition is a step of the registry or leaves it alone.
LEMMA StepRefines == [LNext]_lvars => [Next]_vars
  <1> SUFFICES ASSUME [LNext]_lvars PROVE [Next]_vars
    OBVIOUS
  <1>1. ASSUME NEW r \in Records,
               \/ Test(r) \/ Refuse(r) \/ Acquire(r) \/ AcquireFails(r)
               \/ Enter(r) \/ RemoveEndpoint(r)
        PROVE  [Next]_vars
    BY <1>1, Zenon DEF Test, Refuse, Acquire, AcquireFails, Enter, RemoveEndpoint, Next
  <1>2. ASSUME NEW t \in Transfers, Resolve(t) \/ Reject(t) \/ Insert(t) \/ Finish(t)
        PROVE  [Next]_vars
    BY <1>2, Zenon DEF Resolve, Reject, Insert, Finish, Next
  <1>3. CASE Close \/ ClearAll
    BY <1>3, Zenon DEF Close, ClearAll, Next
  <1>4. CASE UNCHANGED lvars
    BY <1>4 DEF lvars
  <1> QED BY <1>1, <1>2, <1>3, <1>4, SMTT(30) DEF LNext

\* The composition starts in the inductive invariant.
LEMMA LInitInv == LInit => LInv
  <1> SUFFICES ASSUME LInit PROVE LInv
    OBVIOUS
  <1>1. IInv
    BY InitInv DEF LInit
  <1>2. /\ slots = <<>> /\ Len(slots) = 0 /\ Range(slots) = {}
        /\ rpc = [r \in Records |-> "idle"]
        /\ pinned = [t \in Transfers |-> NoRecord]
    BY DEF LInit, Init, Range
  <1>3. LTypes
    BY Zenon DEF LInit, LTypes
  <1>4. \A t \in Transfers : ~Holds(t)
    BY DEF LInit, Holds
  <1>5. RecordsSettled
    BY <1>2, <1>4, RegistryConstants, SMTT(30) DEF RecordsSettled
  <1>6. OpenWhileReferenced
    BY <1>2 DEF OpenWhileReferenced, Settled
  <1>7. NoOrphans
    BY DEF LInit, NoOrphans, Closeable
  <1> QED BY <1>1, <1>3, <1>5, <1>6, <1>7, SMTT(30) DEF LInv

\* A step that runs destructors keeps the two facts about open objects if it
\* makes no new references.
LEMMA DestroyInv ==
  ASSUME LInv, Destroy,
         \A r \in Records : Referenced(r)' => Referenced(r),
         \A r \in Records : rpc'[r] \in Settled => rpc[r] \in Settled
  PROVE  OpenWhileReferenced' /\ NoOrphans' /\ opened' \in [Records -> SUBSET {"file", "mapping", "view"}]
  <1>1. \A r \in Records : opened'[r] = IF Referenced(r)' THEN opened[r] ELSE opened[r] \ Closeable
    BY DEF Destroy
  <1>2. OpenWhileReferenced'
    BY <1>1, Zenon DEF LInv, OpenWhileReferenced
  <1>3. NoOrphans'
    BY <1>1, Zenon DEF NoOrphans
  <1>4. opened' \in [Records -> SUBSET {"file", "mapping", "view"}]
    <2>1. \A r \in Records : opened[r] \subseteq {"file", "mapping", "view"}
      BY DEF LInv, LTypes
    <2> QED BY <2>1 DEF Destroy
  <1> QED BY <1>2, <1>3, <1>4, SMTT(30)

\* A step that leaves all references, the objects and the settled records
\* alone keeps the facts about them.
LEMMA SameReferencesInv ==
  ASSUME LInv, opened' = opened,
         \A r \in Records : Referenced(r)' = Referenced(r),
         \A r \in Records : rpc'[r] \in Settled => rpc[r] \in Settled
  PROVE  OpenWhileReferenced' /\ NoOrphans'
  BY DEF LInv, OpenWhileReferenced, NoOrphans

\* A registration that is under way, or given up, touches no settled record.
LEMMA RegisterInv ==
  ASSUME LInv, NEW r \in Records, Test(r) \/ Refuse(r) \/ Acquire(r) \/ AcquireFails(r)
  PROVE  LTypes' /\ RecordsSettled' /\ OpenWhileReferenced' /\ NoOrphans'
  <1>1. /\ UNCHANGED <<slots, pinned, tpc, map>>
        /\ rpc[r] \notin Settled /\ rpc'[r] \notin Settled
        /\ \A q \in Records : q # r => rpc'[q] = rpc[q] /\ opened'[q] = opened[q]
    <2>1. rpc \in [Records -> {"idle", "refused", "opened", "registered", "removed"}]
      BY DEF LInv, IInv, TypeOK
    <2>2. opened \in [Records -> SUBSET {"file", "mapping", "view"}]
      BY DEF LInv, LTypes
    <2>3. CASE Test(r) \/ Refuse(r)
      BY <2>3, <2>1, <2>2, SMTT(30) DEF Test, Refuse, RegisterTests, RegisterRefused, Settled
    <2>4. CASE Acquire(r)
      BY <2>4, <2>1, <2>2, SMTT(30) DEF Acquire, vars, Settled
    <2>5. CASE AcquireFails(r)
      BY <2>5, <2>1, <2>2, SMTT(30) DEF AcquireFails, RegisterFails, Settled
    <2> QED BY <2>3, <2>4, <2>5, SMTT(30)
  <1>2. /\ opened' \in [Records -> SUBSET {"file", "mapping", "view"}]
        /\ opened'[r] \cap Closeable # {} =>
             \/ rpc'[r] = "opened"
             \/ opened'[r] = opened[r] /\ rpc[r] # "opened"
    <2>1. rpc \in [Records -> {"idle", "refused", "opened", "registered", "removed"}]
      BY DEF LInv, IInv, TypeOK
    <2>2. opened \in [Records -> SUBSET {"file", "mapping", "view"}]
      BY DEF LInv, LTypes
    <2>3. CASE Test(r) \/ Refuse(r)
      BY <2>3, <2>1, <2>2, SMTT(30) DEF Test, Refuse, RegisterTests, RegisterRefused
    <2>4. CASE Acquire(r)
      <3>1. PICK k \in DOMAIN Needs(r) : opened' = [opened EXCEPT ![r] = @ \cup {Needs(r)[k]}]
        BY <2>4, Zenon DEF Acquire
      <3>2. Needs(r)[k] \in {"file", "mapping", "view"}
        BY LifetimeConstants, SMTT(30) DEF Needs
      <3>3. opened'[r] = opened[r] \cup {Needs(r)[k]} /\ rpc'[r] = "opened"
        BY <2>4, <2>2, <3>1, SMTT(30) DEF Acquire, vars
      <3>4. opened[r] \cup {Needs(r)[k]} \in SUBSET {"file", "mapping", "view"}
        BY <2>2, <3>2, SMTT(30)
      <3>5. opened' \in [Records -> SUBSET {"file", "mapping", "view"}]
        BY <2>2, <3>1, <3>4, SMTT(30)
      <3> QED BY <3>3, <3>5
    <2>5. CASE AcquireFails(r)
      BY <2>5, <2>1, <2>2, SMTT(30) DEF AcquireFails, RegisterFails
    <2> QED BY <2>3, <2>4, <2>5, SMTT(30)
  <1>3. \A t \in Transfers : Holds(t)' = Holds(t)
    BY <1>1, SMTT(30) DEF Holds
  <1>4. LTypes'
    BY <1>1, <1>2, SMTT(30) DEF LInv, LTypes
  <1>5. RecordsSettled'
    BY <1>1, <1>3, SMTT(30) DEF LInv, RecordsSettled
  <1>6. \A q \in Records : q # r => Referenced(q)' = Referenced(q)
    BY <1>1, <1>3, SMTT(30) DEF Referenced
  <1>7. OpenWhileReferenced'
    BY <1>1, <1>6, SMTT(30) DEF LInv, OpenWhileReferenced
  <1>8. Referenced(r) /\ rpc[r] # "opened" => Referenced(r)'
    BY <1>1, <1>3, SMTT(30) DEF Referenced
  <1>9. rpc'[r] = "opened" => Referenced(r)'
    BY SMTT(30) DEF Referenced
  <1>10. NoOrphans'
    BY <1>1, <1>2, <1>6, <1>8, <1>9, SMTT(30) DEF LInv, NoOrphans
  <1> QED BY <1>4, <1>5, <1>7, <1>10, SMTT(30)

\* The record moves from the registering thread into a slot that held none.
LEMMA EnterInv ==
  ASSUME LInv, NEW r \in Records, Enter(r)
  PROVE  LTypes' /\ RecordsSettled' /\ OpenWhileReferenced' /\ NoOrphans'
  <1>1. /\ slots \in Seq(Slot) /\ Len(slots) \in Nat /\ free \in Seq(Nat)
        /\ rpc \in [Records -> {"idle", "refused", "opened", "registered", "removed"}]
        /\ FreeUnused /\ RecordsSettled
    BY DEF LInv, IInv, TypeOK
  <1>2. /\ rpc[r] = "opened" /\ rpc' = [rpc EXCEPT ![r] = "registered"]
        /\ UNCHANGED <<pinned, opened, tpc, map>>
        /\ opened[r] = Range(Needs(r))
    BY DEF Enter, Allocate
  <1>3. PICK i \in Nat :
          /\ i \in 1 .. Len(slots') /\ slots' \in Seq(Slot)
          /\ slots'[i].rec = r /\ slots'[i].used
          /\ Len(slots') >= Len(slots)
          /\ \A j \in 1 .. Len(slots') : j # i => j \in 1 .. Len(slots) /\ slots'[j] = slots[j]
          /\ i \in 1 .. Len(slots) => slots[i].rec = NoRecord
    <2>1. CASE free # <<>>
      <3> DEFINE n == Len(free)
                 k == free[n]
                 s == [gen |-> slots[k].gen + 1, used |-> TRUE, rec |-> r]
      <3>1. n \in Nat /\ n >= 1 /\ n \in 1 .. n
        BY <1>1, <2>1
      <3>2. k \in 1 .. Len(slots) /\ ~slots[k].used /\ k \in Nat
        BY <1>1, <3>1 DEF FreeUnused
      <3>3. s \in Slot
        BY <3>2, SlotFields, SMTT(30) DEF LInv, IInv, Slot
      <3>4. slots' = [slots EXCEPT ![k] = s]
        BY <2>1, SMTT(30) DEF Enter, Allocate, Last
      <3>5. s.rec = r /\ s.used
        OBVIOUS
      <3>6. slots[k].rec = NoRecord
        BY <1>1, <3>2, SMTT(30) DEF RecordsSettled
      <3> HIDE DEF s, k
      <3>7. /\ slots' \in Seq(Slot) /\ Len(slots') = Len(slots) /\ slots'[k] = s
            /\ \A j \in 1 .. Len(slots) : j # k => slots'[j] = slots[j]
        BY <1>1, <3>2, <3>3, <3>4, SMTT(30)
      <3> QED BY <1>1, <3>2, <3>5, <3>6, <3>7, SMTT(20)
    <2>2. CASE free = <<>>
      <3> DEFINE k == Len(slots) + 1
                 s == [gen |-> 1, used |-> TRUE, rec |-> r]
      <3>1. s \in Slot
        BY DEF Slot
      <3>2. slots' = Append(slots, s)
        BY <2>2, SMTT(30) DEF Enter, Allocate
      <3>3. s.rec = r /\ s.used
        OBVIOUS
      <3> HIDE DEF s
      <3>4. /\ slots' \in Seq(Slot) /\ Len(slots') = k /\ slots'[k] = s
            /\ \A j \in 1 .. Len(slots) : slots'[j] = slots[j]
        BY <1>1, <3>1, <3>2, SMTT(30)
      <3> QED BY <1>1, <3>3, <3>4, SMTT(20)
    <2> QED BY <2>1, <2>2, SMTT(30)
  <1>4. \A q \in Records : q # r => rpc'[q] = rpc[q]
    BY <1>1, <1>2, SMTT(30)
  <1>5. \A t \in Transfers : Holds(t)' = Holds(t)
    BY <1>2 DEF Holds
  <1>6. rpc[r] \notin Settled /\ rpc'[r] \in Settled /\ rpc'[r] # "opened"
    BY <1>1, <1>2, SMTT(30) DEF Settled
  <1>7. LTypes'
    BY <1>2 DEF LInv, LTypes
  <1>8. RecordsSettled'
    <2>1. \A t \in Transfers : Holds(t)' => pinned'[t] \in Records
      BY <1>1, <1>2, <1>5, SMTT(30) DEF RecordsSettled
    <2>2. \A t \in Transfers : pinned'[t] \in Records => rpc'[pinned'[t]] \in Settled
      BY <1>1, <1>2, <1>4, <1>6, SMTT(30) DEF RecordsSettled
    <2>3. ASSUME NEW j \in 1 .. Len(slots')
          PROVE  /\ slots'[j].rec \in Records => rpc'[slots'[j].rec] \in Settled
                 /\ ~slots'[j].used => slots'[j].rec = NoRecord
      <3>1. CASE j = i
        BY <3>1, <1>3, <1>6, SMTT(30)
      <3>2. CASE j # i
        <4>1. j \in 1 .. Len(slots) /\ slots'[j] = slots[j]
          BY <3>2, <1>3, SMTT(30)
        <4> QED BY <4>1, <1>1, <1>4, <1>6, ZenonT(40) DEF RecordsSettled
      <3> QED BY <3>1, <3>2, SMTT(30)
    <2> QED BY <2>1, <2>2, <2>3, ZenonT(40) DEF RecordsSettled
  <1>9. \A q \in Records : q # r => Referenced(q)' = Referenced(q)
    <2> SUFFICES ASSUME NEW q \in Records, q # r PROVE Referenced(q)' = Referenced(q)
      OBVIOUS
    <2>1. (\E s \in Range(slots) : s.rec = q) <=> \E j \in 1 .. Len(slots) : slots[j].rec = q
      BY <1>1, SMTT(30) DEF Range
    <2>2. (\E s \in Range(slots') : s.rec = q) <=> \E j \in 1 .. Len(slots') : slots'[j].rec = q
      BY <1>3, SMTT(30) DEF Range
    <2>3. (\E j \in 1 .. Len(slots) : slots[j].rec = q) <=> \E j \in 1 .. Len(slots') : slots'[j].rec = q
      <3>1. ASSUME NEW j \in 1 .. Len(slots), slots[j].rec = q
            PROVE  \E k \in 1 .. Len(slots') : slots'[k].rec = q
        <4>1. j # i /\ j \in 1 .. Len(slots')
          BY <3>1, <1>1, <1>3, RegistryConstants, SMTT(30)
        <4> QED BY <3>1, <4>1, <1>3, SMTT(30)
      <3>2. ASSUME NEW j \in 1 .. Len(slots'), slots'[j].rec = q
            PROVE  \E k \in 1 .. Len(slots) : slots[k].rec = q
        <4>1. j # i
          BY <3>2, <1>3, SMTT(30)
        <4> QED BY <3>2, <4>1, <1>3, SMTT(30)
      <3> QED BY <3>1, <3>2, SMTT(30)
    <2> QED BY <2>1, <2>2, <2>3, <1>2, <1>4, <1>5, SMTT(30) DEF Referenced
  <1>10. Referenced(r)'
    BY <1>3 DEF Referenced, Range
  <1>11. OpenWhileReferenced'
    BY <1>2, <1>4, <1>9, SMTT(30) DEF LInv, OpenWhileReferenced
  <1>12. NoOrphans'
    BY <1>2, <1>9, <1>10, SMTT(30) DEF LInv, NoOrphans
  <1> QED BY <1>7, <1>8, <1>11, <1>12, SMTT(30)

\* Steps that run destructors and only let go of references.
LEMMA ReleaseInv ==
  ASSUME LInv, UNCHANGED vars, Destroy, LTypes',
         \A t \in Transfers : Holds(t)' => Holds(t)
  PROVE  LTypes' /\ RecordsSettled' /\ OpenWhileReferenced' /\ NoOrphans'
  <1>1. UNCHANGED <<slots, rpc, pinned>>
    BY DEF vars
  <1>2. \A r \in Records : Referenced(r)' => Referenced(r)
    BY <1>1 DEF Referenced
  <1>3. OpenWhileReferenced' /\ NoOrphans'
    BY <1>1, <1>2, DestroyInv, SMTT(30)
  <1>4. RecordsSettled'
    BY <1>1, SMTT(30) DEF LInv, RecordsSettled
  <1> QED BY <1>3, <1>4, SMTT(30)

\* submit() and the threads of a transfer.
LEMMA TransferInv ==
  ASSUME LInv, NEW t \in Transfers, Reject(t) \/ Insert(t) \/ Finish(t)
  PROVE  LTypes' /\ RecordsSettled' /\ OpenWhileReferenced' /\ NoOrphans'
  <1>1. /\ tpc \in [Transfers -> {"idle", "refused", "resolved", "running", "finished"}]
        /\ map \in [Ids -> SUBSET Transfers]
    BY DEF LInv, LTypes
  <1>2. UNCHANGED vars /\ Destroy
    BY DEF Reject, Insert, Finish
  <1>3. /\ tpc' \in [Transfers -> {"idle", "refused", "resolved", "running", "finished"}]
        /\ map' \in [Ids -> SUBSET Transfers]
    <2>1. CASE Reject(t) \/ Finish(t)
      BY <2>1, <1>1, SMTT(30) DEF Reject, Finish
    <2>2. CASE Insert(t)
      <3>1. PICK id \in Ids : map' = [map EXCEPT ![id] = {t}]
        BY <2>2, Zenon DEF Insert
      <3> QED BY <2>2, <3>1, <1>1, SMTT(30) DEF Insert
    <2> QED BY <2>1, <2>2, SMTT(30)
  <1>4. \A u \in Transfers : Holds(u)' => Holds(u)
    <2> SUFFICES ASSUME NEW u \in Transfers, Holds(u)' PROVE Holds(u)
      OBVIOUS
    <2>1. CASE Reject(t) \/ Finish(t)
      <3>1. map' = map /\ (u # t => tpc'[u] = tpc[u]) /\ tpc'[t] \notin {"resolved", "running"}
        BY <2>1, <1>1, SMTT(30) DEF Reject, Finish
      <3> QED BY <3>1 DEF Holds
    <2>2. CASE Insert(t)
      <3>1. PICK id \in Ids : map' = [map EXCEPT ![id] = {t}]
        BY <2>2, Zenon DEF Insert
      <3>2. tpc[t] = "resolved" /\ (u # t => tpc'[u] = tpc[u])
        BY <2>2, <1>1, SMTT(30) DEF Insert
      <3>3. \A d \in Ids : u \in map'[d] => u = t \/ u \in map[d]
        BY <3>1, <1>1, SMTT(30)
      <3> QED BY <3>2, <3>3 DEF Holds
    <2> QED BY <2>1, <2>2, SMTT(30)
  <1>5. opened' \in [Records -> SUBSET {"file", "mapping", "view"}]
    <2>1. \A r \in Records : opened[r] \subseteq {"file", "mapping", "view"}
      BY DEF LInv, LTypes
    <2> QED BY <2>1, <1>2, SMTT(30) DEF Destroy
  <1>6. LTypes'
    BY <1>3, <1>5, SMTT(30) DEF LTypes
  <1> QED BY <1>2, <1>4, <1>6, ReleaseInv, SMTT(30)

\* A slot lets go of its record.
LEMMA RemoveInv ==
  ASSUME LInv, NEW r \in Records, RemoveEndpoint(r)
  PROVE  LTypes' /\ RecordsSettled' /\ OpenWhileReferenced' /\ NoOrphans'
  <1> DEFINE i == handle[r].slot
             s == [gen |-> slots[i].gen + 1, used |-> FALSE, rec |-> NoRecord]
  <1>1. /\ slots \in Seq(Slot) /\ RecordsSettled
        /\ rpc \in [Records -> {"idle", "refused", "opened", "registered", "removed"}]
        /\ opened \in [Records -> SUBSET {"file", "mapping", "view"}]
    BY SMTT(30) DEF LInv, IInv, TypeOK, LTypes
  <1>2. /\ i \in 1 .. Len(slots) /\ slots' = [slots EXCEPT ![i] = s]
        /\ rpc[r] \in Settled /\ rpc' = [rpc EXCEPT ![r] = "removed"]
        /\ UNCHANGED <<pinned, tpc, map>> /\ Destroy
    BY <1>1, SMTT(30) DEF RemoveEndpoint, Unregister, Resolves, Settled
  <1>3. s.rec = NoRecord
    OBVIOUS
  <1> HIDE DEF s, i
  <1>4. /\ Len(slots') = Len(slots) /\ slots'[i] = s /\ DOMAIN slots' = DOMAIN slots
        /\ \A j \in 1 .. Len(slots) : j # i => slots'[j] = slots[j]
    BY <1>1, <1>2, SMTT(30)
  <1>5. /\ \A q \in Records : rpc[q] \in Settled => rpc'[q] \in Settled
        /\ \A q \in Records : rpc'[q] \in Settled => rpc[q] \in Settled
        /\ \A q \in Records : rpc'[q] = "opened" => rpc[q] = "opened"
    BY <1>1, <1>2, SMTT(30) DEF Settled
  <1>6. \A t \in Transfers : Holds(t)' = Holds(t)
    BY <1>2 DEF Holds
  <1>7. RecordsSettled'
    <2>1. \A t \in Transfers : Holds(t)' => pinned'[t] \in Records
      BY <1>1, <1>2, <1>6, SMTT(30) DEF RecordsSettled
    <2>2. \A t \in Transfers : pinned'[t] \in Records => rpc'[pinned'[t]] \in Settled
      BY <1>1, <1>2, <1>5, SMTT(30) DEF RecordsSettled
    <2>3. ASSUME NEW j \in 1 .. Len(slots')
          PROVE  /\ slots'[j].rec \in Records => rpc'[slots'[j].rec] \in Settled
                 /\ ~slots'[j].used => slots'[j].rec = NoRecord
      <3>1. CASE j = i
        BY <3>1, <1>3, <1>4, RegistryConstants, SMTT(30)
      <3>2. CASE j # i
        <4>1. j \in 1 .. Len(slots) /\ slots'[j] = slots[j]
          BY <3>2, <1>4
        <4> QED BY <4>1, <1>1, <1>5, Zenon DEF RecordsSettled
      <3> QED BY <3>1, <3>2, SMTT(30)
    <2> QED BY <2>1, <2>2, <2>3, ZenonT(40) DEF RecordsSettled
  <1>8. \A q \in Records : Referenced(q)' => Referenced(q)
    <2> SUFFICES ASSUME NEW q \in Records, Referenced(q)' PROVE Referenced(q)
      OBVIOUS
    <2>1. ASSUME NEW e \in Range(slots'), e.rec = q PROVE \E d \in Range(slots) : d.rec = q
      <3>1. PICK j \in 1 .. Len(slots') : slots'[j] = e
        BY <2>1, <1>1, <1>4, SMTT(30) DEF Range
      <3>2. j # i
        BY <3>1, <2>1, <1>3, <1>4, RegistryConstants, SMTT(30)
      <3> QED BY <3>1, <3>2, <2>1, <1>1, <1>4, SMTT(30) DEF Range
    <2> QED BY <2>1, <1>2, <1>5, <1>6, ZenonT(40) DEF Referenced
  <1>9. OpenWhileReferenced' /\ NoOrphans' /\ opened' \in [Records -> SUBSET {"file", "mapping", "view"}]
    BY <1>2, <1>5, <1>8, DestroyInv, SMTT(30)
  <1>10. LTypes'
    BY <1>2, <1>9, SMTT(30) DEF LInv, LTypes
  <1> QED BY <1>7, <1>9, <1>10, SMTT(30)

\* What get() finds is in a slot.
LEMMA GetInSlot ==
  ASSUME slots \in Seq(Slot), NEW h, get(h) \in Records
  PROVE  \E i \in 1 .. Len(slots) : slots[i] \in Range(slots) /\ slots[i].rec = get(h)
  <1>1. Resolves(h) /\ get(h) = slots[h.slot].rec
    BY RegistryConstants, SMTT(30) DEF get
  <1>2. h.slot \in 1 .. Len(slots)
    BY <1>1, SMTT(30) DEF Resolves
  <1>3. slots[h.slot] \in Range(slots)
    BY <1>2, SMTT(30) DEF Range
  <1> QED BY <1>1, <1>2, <1>3, SMTT(30)

\* submit() takes a reference while a slot still has one.
LEMMA ResolveInv ==
  ASSUME LInv, NEW t \in Transfers, Resolve(t)
  PROVE  LTypes' /\ RecordsSettled' /\ OpenWhileReferenced' /\ NoOrphans'
  <1>1. /\ tpc \in [Transfers -> {"idle", "refused", "resolved", "running", "finished"}]
        /\ pinned \in [Transfers -> Records \cup {NoRecord}]
        /\ slots \in Seq(Slot) /\ RecordsSettled
    BY DEF LInv, IInv, TypeOK, LTypes
  <1>2. PICK r \in Records : pinned' = [pinned EXCEPT ![t] = get(handle[r])]
    BY Zenon DEF Resolve, Pin
  <1> DEFINE p == get(handle[r])
  <1>3. p \in Records \cup {NoRecord}
    BY GetType, SMTT(30) DEF LInv, IInv
  <1>4. /\ pinned[t] = NoRecord /\ pinned'[t] = p
        /\ tpc' = [tpc EXCEPT ![t] = IF pinned'[t] = NoRecord THEN "refused" ELSE "resolved"]
        /\ UNCHANGED <<slots, rpc, opened, map>>
    BY <1>1, <1>2, SMTT(30) DEF Resolve, Pin
  <1>5. p \in Records => \E i \in 1 .. Len(slots) : slots[i] \in Range(slots) /\ slots[i].rec = p
    BY <1>1, GetInSlot, SMTT(30)
  <1>6. p \in Records => rpc[p] \in Settled
    BY <1>1, <1>5, SMTT(30) DEF RecordsSettled
  <1>7. p \in Records => \E s \in Range(slots) : s.rec = p
    BY <1>5, SMTT(30)
  <1> HIDE DEF p
  <1>8. ~Holds(t)
    BY <1>1, <1>4, RegistryConstants, SMTT(30) DEF RecordsSettled
  <1>9. tpc'[t] = IF p = NoRecord THEN "refused" ELSE "resolved"
    BY <1>1, <1>4, SMTT(30)
  <1>10. \A u \in Transfers : u # t => pinned'[u] = pinned[u] /\ tpc'[u] = tpc[u]
    BY <1>1, <1>2, <1>4, SMTT(30)
  <1>11. \A u \in Transfers : u # t => Holds(u)' = Holds(u)
    BY <1>4, <1>10, SMTT(30) DEF Holds
  <1>12. Holds(t)' => p \in Records
    BY <1>3, <1>4, <1>8, <1>9, SMTT(30) DEF Holds
  <1>13. LTypes'
    BY <1>1, <1>4, SMTT(30) DEF LInv, LTypes
  <1>14. RecordsSettled'
    <2>1. \A u \in Transfers : Holds(u)' => pinned'[u] \in Records
      BY <1>1, <1>4, <1>10, <1>11, <1>12, ZenonT(40) DEF RecordsSettled
    <2>2. \A u \in Transfers : pinned'[u] \in Records => rpc'[pinned'[u]] \in Settled
      BY <1>1, <1>4, <1>6, <1>10, SMTT(30) DEF RecordsSettled
    <2> QED BY <2>1, <2>2, <1>1, <1>4, SMTT(30) DEF RecordsSettled
  <1>15. \A q \in Records : Referenced(q)' = Referenced(q)
    <2> SUFFICES ASSUME NEW q \in Records PROVE Referenced(q)' <=> Referenced(q)
      BY DEF Referenced
    <2>1. ASSUME Referenced(q)' PROVE Referenced(q)
      <3>1. ASSUME NEW u \in Transfers, pinned'[u] = q, Holds(u)' PROVE Referenced(q)
        <4>1. CASE u = t
          BY <4>1, <3>1, <1>4, <1>7, SMTT(30) DEF Referenced
        <4>2. CASE u # t
          BY <4>2, <3>1, <1>10, <1>11, ZenonT(40) DEF Referenced
        <4> QED BY <4>1, <4>2, SMTT(30)
      <3> QED BY <2>1, <3>1, <1>4, Zenon DEF Referenced
    <2>2. ASSUME Referenced(q) PROVE Referenced(q)'
      <3>1. ASSUME NEW u \in Transfers, pinned[u] = q, Holds(u) PROVE Referenced(q)'
        <4>1. u # t
          BY <3>1, <1>8, SMTT(30)
        <4> QED BY <4>1, <3>1, <1>10, <1>11, ZenonT(40) DEF Referenced
      <3> QED BY <2>2, <3>1, <1>4, Zenon DEF Referenced
    <2> QED BY <2>1, <2>2, SMTT(30)
  <1>16. OpenWhileReferenced' /\ NoOrphans'
    BY <1>4, <1>15, SameReferencesInv, SMTT(30)
  <1> QED BY <1>13, <1>14, <1>16, SMTT(30)

\* All slots let go of their records.
LEMMA ClearInv ==
  ASSUME LInv, ClearAll
  PROVE  LTypes' /\ RecordsSettled' /\ OpenWhileReferenced' /\ NoOrphans'
  <1>1. slots' = <<>> /\ UNCHANGED <<rpc, pinned, tpc, map>> /\ Destroy
    BY DEF ClearAll, Clear
  <1>2. \A t \in Transfers : Holds(t)' = Holds(t)
    BY <1>1 DEF Holds
  <1>3. Range(slots') = {} /\ Len(slots') = 0
    BY <1>1 DEF Range
  <1>4. \A q \in Records : Referenced(q)' => Referenced(q)
    BY <1>1, <1>2, <1>3, Zenon DEF Referenced
  <1>5. OpenWhileReferenced' /\ NoOrphans' /\ opened' \in [Records -> SUBSET {"file", "mapping", "view"}]
    BY <1>1, <1>4, DestroyInv, SMTT(30)
  <1>6. RecordsSettled'
    <2>1. \A t \in Transfers : Holds(t)' => pinned'[t] \in Records
      BY <1>1, <1>2, SMTT(30) DEF LInv, RecordsSettled
    <2>2. \A t \in Transfers : pinned'[t] \in Records => rpc'[pinned'[t]] \in Settled
      BY <1>1, SMTT(30) DEF LInv, RecordsSettled
    <2> QED BY <2>1, <2>2, <1>3, SMTT(30) DEF RecordsSettled
  <1>7. LTypes'
    BY <1>1, <1>5, SMTT(30) DEF LInv, LTypes
  <1> QED BY <1>5, <1>6, <1>7, SMTT(30)

\* Steps that change none of what the invariant is about.
LEMMA QuietInv ==
  ASSUME LInv, UNCHANGED <<slots, rpc, pinned, opened, tpc, map>>
  PROVE  LTypes' /\ RecordsSettled' /\ OpenWhileReferenced' /\ NoOrphans'
  <1>1. \A t \in Transfers : Holds(t)' = Holds(t)
    BY SMTT(30) DEF Holds
  <1>2. \A r \in Records : Referenced(r)' = Referenced(r)
    BY <1>1 DEF Referenced
  <1>3. OpenWhileReferenced' /\ NoOrphans'
    BY <1>2, SameReferencesInv, SMTT(30)
  <1>4. RecordsSettled'
    BY <1>1 DEF LInv, RecordsSettled
  <1> QED BY <1>3, <1>4, SMTT(30) DEF LInv, LTypes

\* Every step of the composition keeps the invariant.
LEMMA LNextInv == LInv /\ [LNext]_lvars => LInv'
  <1> SUFFICES ASSUME LInv, [LNext]_lvars PROVE LInv'
    OBVIOUS
  <1> DEFINE Rest == LTypes /\ RecordsSettled /\ OpenWhileReferenced /\ NoOrphans
  <1>1. IInv'
    BY StepRefines, NextInv, SMTT(30) DEF LInv
  <1>2. ASSUME NEW r \in Records,
               \/ Test(r) \/ Refuse(r) \/ Acquire(r) \/ AcquireFails(r)
               \/ Enter(r) \/ RemoveEndpoint(r)
        PROVE  Rest'
    BY <1>2, RegisterInv, EnterInv, RemoveInv, SMTT(30)
  <1>3. ASSUME NEW t \in Transfers, Resolve(t) \/ Reject(t) \/ Insert(t) \/ Finish(t)
        PROVE  Rest'
    BY <1>3, ResolveInv, TransferInv, SMTT(30)
  <1>4. ASSUME Close PROVE Rest'
    BY <1>4, QuietInv, SMTT(30) DEF Close, BeginShutdown
  <1>5. ASSUME ClearAll PROVE Rest'
    BY <1>5, ClearInv, SMTT(30)
  <1>6. ASSUME UNCHANGED lvars PROVE Rest'
    BY <1>6, QuietInv, SMTT(30) DEF lvars, vars
  <1>7. Rest'
    BY <1>2, <1>3, <1>4, <1>5, <1>6, SMTT(20) DEF LNext
  <1> QED BY <1>1, <1>7 DEF LInv
-----------------------------------------------------------------------------
\* The registry inside the composition behaves as the registry alone, so that
\* its theorems hold of the composition.
THEOREM LifetimeImplementsRegistry == LSpec => Spec
  <1>1. LInit => Init
    BY SMTT(30) DEF LInit
  <1> QED BY <1>1, StepRefines, PTL DEF LSpec, Spec

\* The inductive invariant holds in every reachable state.
THEOREM LInvariance == LSpec => []LInv
  BY LInitInv, LNextInv, PTL DEF LSpec

\* Whatever is removed, replaced or cleared meanwhile, a transfer finds all
\* the objects of its endpoint open.
THEOREM OpenWhileUsedAlways == LSpec => []OpenWhileUsed
  <1>1. LInv => OpenWhileUsed
    <2> SUFFICES ASSUME LInv, NEW t \in Transfers, Holds(t)
                 PROVE  pinned[t] \in Records /\ opened[pinned[t]] = Range(Needs(pinned[t]))
      BY DEF OpenWhileUsed
    <2>1. pinned[t] \in Records /\ rpc[pinned[t]] \in Settled
      BY SMTT(30) DEF LInv, RecordsSettled
    <2>2. Referenced(pinned[t])
      BY SMTT(30) DEF Referenced
    <2> QED BY <2>1, <2>2, SMTT(30) DEF LInv, OpenWhileReferenced
  <1> QED BY <1>1, LInvariance, PTL

\* No path leaves a file or a mapping open that nothing refers to.
THEOREM NoOrphansAlways == LSpec => []NoOrphans
  <1>1. LInv => NoOrphans
    BY DEF LInv
  <1> QED BY <1>1, LInvariance, PTL

\* A handle finds its endpoint, nothing, or what came after clear().
THEOREM LifetimeHandlesExact == LSpec => []HandlesExact
  BY LifetimeImplementsRegistry, HandlesExactAlways, PTL
=============================================================================
