---------------------------- MODULE MCScheduler -----------------------------
(***************************************************************************)
(* Four tasks in three bands, two of them in the same band and one with a  *)
(* priority above the highest band, so that clamping, FIFO order within a  *)
(* band, overtaking and a full queue all happen.                           *)
(***************************************************************************)
EXTENDS Scheduler, TLC

CONSTANTS t1, t2, t3, t4

MCTasks == {t1, t2, t3, t4}

MCPriority == t1 :> -1 @@ t2 :> 1 @@ t3 :> 1 @@ t4 :> 7
=============================================================================
