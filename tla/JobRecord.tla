----------------------------- MODULE JobRecord -----------------------------
(***************************************************************************)
(* What a client that polls GET /jobs may see of the Job rows: `status`    *)
(* and `retriable`, without the queue, the worker or the files.  The       *)
(* extraction pipeline implements it.                                      *)
(***************************************************************************)
CONSTANT Jobs

VARIABLES status, retriable

ActiveStatus == {"pending", "running"}

Init ==
  /\ status = [j \in Jobs |-> "none"]
  /\ retriable = [j \in Jobs |-> FALSE]

Set(S, st) == [j \in Jobs |-> IF j \in S THEN st ELSE status[j]]

Active(S) == \A j \in S : status[j] \in ActiveStatus

(* An upload creates jobs.                                                 *)
Create(S) ==
  /\ \A j \in S : status[j] = "none"
  /\ status' = Set(S, "pending")
  /\ UNCHANGED retriable

(* A retry or a re-run creates one job, which may be born failed because   *)
(* the processor could not be reached; a retry takes the flag of the       *)
(* failed job it supersedes.                                               *)
CreateOne(k, superseded) ==
  /\ status[k] = "none"
  /\ \A j \in superseded : status[j] = "failed" /\ retriable[j]
  /\ \E st \in {"pending", "failed"} :
       /\ status' = Set({k}, st)
       /\ retriable' = [j \in Jobs |-> IF j = k THEN st = "failed"
                                       ELSE retriable[j] /\ j \notin superseded]

(* A worker reports.                                                       *)
Report(j) ==
  /\ Active({j})
  /\ \/ status' = Set({j}, "running") /\ UNCHANGED retriable
     \/ status' = Set({j}, "succeeded") /\ UNCHANGED retriable
     \/ /\ status' = Set({j}, "failed")
        /\ \E b \in BOOLEAN : retriable' = [retriable EXCEPT ![j] = b]

(* Stuck jobs are given up.                                                *)
Reap(S) == Active(S) /\ status' = Set(S, "failed") /\ UNCHANGED retriable

(* The two writes that do not look at the row first: a dispatch that       *)
(* failed, and a cancellation.                                             *)
DispatchFailed(S) ==
  /\ \A j \in S : status[j] # "none"
  /\ status' = Set(S, "failed")
  /\ retriable' = [j \in Jobs |-> j \in S \/ retriable[j]]
Cancel(j) ==
  /\ status[j] # "none"
  /\ status' = Set({j}, "cancelled")
  /\ UNCHANGED retriable

Next ==
  \/ \E S \in SUBSET Jobs : Create(S) \/ Reap(S) \/ DispatchFailed(S)
  \/ \E k \in Jobs : CreateOne(k, {})
  \/ \E j, k \in Jobs : CreateOne(k, {j})
  \/ \E j \in Jobs : Report(j) \/ Cancel(j)

Spec == Init /\ [][Next]_<<status, retriable>>

=============================================================================
