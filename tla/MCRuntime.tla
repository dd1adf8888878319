----------------------------- MODULE MCRuntime ------------------------------
(***************************************************************************)
(* Instances of the runtime.  Three transfers at most, staging pools with  *)
(* room for one or two transfers, rings of two buffers.                    *)
(***************************************************************************)
EXTENDS Runtime, TLC

CONSTANTS t1, t2, t3

Two == {t1, t2}
Three == {t1, t2, t3}

NoDeps == [t \in Transfers |-> <<>>]
\* t2 and t3 wait for t1.
FanDeps == [t \in Transfers |-> IF t = t1 THEN <<>> ELSE <<t1>>]

OneChunk == [t \in Transfers |-> 1]
TwoChunks == [t \in Transfers |-> 2]
\* t3 moves nothing.
EmptyThird == [t \in Transfers |-> IF t = t3 THEN 0 ELSE 1]
UnitChunks == [t \in Transfers |-> 1]

Direct == [t \in Transfers |-> <<>>]
\* t1 passes through both pools, in this order.
ThroughBoth == [t \in Transfers |-> IF t = t1 THEN <<"host", "pinned">> ELSE <<"pinned">>]

Checked == [t \in Transfers |-> t = t1]
Unchecked == [t \in Transfers |-> FALSE]
SamePriority == [t \in Transfers |-> 4]

AddressSymmetry == Permutations(Addresses)

Room == [k \in PoolKind |-> 3]
=============================================================================
