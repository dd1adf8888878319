----------------------------- MODULE Lifecycle ------------------------------
(***************************************************************************)
(* The states of a transfer and the transition table of                    *)
(* src/src/status.cpp.  "none" stands for a transfer without a record.     *)
(***************************************************************************)

TransferState == {"created", "planned", "reserved", "queued", "active",
                  "verifying", "committing", "completed", "cancelled",
                  "failed", "rolled_back"}

is_terminal(s) == s \in {"completed", "cancelled", "failed", "rolled_back"}

\* The states the table allows after each state.
table ==
  [created    |-> {"planned", "failed", "cancelled"},
   planned    |-> {"reserved", "failed", "cancelled"},
   reserved   |-> {"queued", "rolled_back", "cancelled", "failed"},
   queued     |-> {"active", "cancelled", "failed", "rolled_back"},
   active     |-> {"verifying", "cancelled", "failed", "rolled_back"},
   verifying  |-> {"committing", "completed", "cancelled", "failed", "rolled_back"},
   committing |-> {"completed", "failed", "rolled_back"},
   completed  |-> {}, cancelled |-> {}, failed |-> {}, rolled_back |-> {}]

allowed(from, to) == to \in table[from]
=============================================================================
