---------------------------- MODULE JobLifecycle ----------------------------
(***************************************************************************)
(* What GET /admin/ingest/{job_id} promises of an ingestion job, whatever  *)
(* the ingestion does underneath: the status row moves one way, from       *)
(* pending through running to exactly one verdict, a verdict is never      *)
(* taken back, and "succeeded" is only said when no requested table is     *)
(* left to ingest.                                                         *)
(***************************************************************************)

CONSTANTS
    Jobs,      \* the ingestion runs that may own a row of ingestion_jobs
    Tables     \* the configured source tables

VARIABLES
    status,    \* [Jobs -> status column of the job's row, "none" before it]
    left       \* [Jobs -> tables the job still has to ingest]

vars == <<status, left>>

Statuses == {"none", "pending", "running", "succeeded", "failed"}

Init ==
    /\ status = [j \in Jobs |-> "none"]
    /\ left = [j \in Jobs |-> {}]

\* create_job: the row and the list of tables it is for.
Create(j, wanted) ==
    /\ status[j] = "none"
    /\ status' = [status EXCEPT ![j] = "pending"]
    /\ left' = [left EXCEPT ![j] = wanted]

Start(j) ==
    /\ status[j] = "pending"
    /\ status' = [status EXCEPT ![j] = "running"]
    /\ UNCHANGED left

\* One table has been carried all the way to its watermark.
FinishTable(j, t) ==
    /\ status[j] = "running"
    /\ t \in left[j]
    /\ left' = [left EXCEPT ![j] = @ \ {t}]
    /\ UNCHANGED status

Succeed(j) ==
    /\ status[j] = "running"
    /\ left[j] = {}
    /\ status' = [status EXCEPT ![j] = "succeeded"]
    /\ UNCHANGED left

Fail(j) ==
    /\ status[j] \in {"pending", "running"}
    /\ status' = [status EXCEPT ![j] = "failed"]
    /\ UNCHANGED left

Next ==
    \E j \in Jobs :
        \/ \E wanted \in SUBSET Tables : Create(j, wanted)
        \/ Start(j)
        \/ \E t \in Tables : FinishTable(j, t)
        \/ Succeed(j)
        \/ Fail(j)

Spec == Init /\ [][Next]_vars

=============================================================================
