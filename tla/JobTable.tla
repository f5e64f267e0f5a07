------------------------------ MODULE JobTable ------------------------------
(***************************************************************************)
(* The tables delivery_jobs and delivery_attempts, and the statements      *)
(* internal/storage/store.go runs on them.  Every operator of this module  *)
(* is one SQL statement, hence one atomic step; who may issue it, and      *)
(* when, is the business of the modules that extend this one.              *)
(*                                                                         *)
(* Times are kept as what a WHERE clause can see of them: `due' is         *)
(* available_at <= now(), `lease' is leased_until seen against now().      *)
(* The clock itself appears as the two actions BecomeDue and LeaseRunsOut. *)
(***************************************************************************)
EXTENDS Integers

CONSTANTS Jobs,          \* ids delivery_jobs will ever hand out; never reused
          MaxAttempts    \* maxInt(job.max_attempts, WORKER_MAX_RETRY)

\* parseInt accepts any integer for WORKER_MAX_RETRY, zero and negatives too.
ASSUME MaxAttemptsIsInt == MaxAttempts \in Int

VARIABLES status,      \* delivery_jobs.status, "none" before and "deleted" after the row exists
          attempts,    \* delivery_jobs.attempts
          due,         \* available_at <= now()
          lease,       \* leased_until: NULL, ahead of now(), or behind it
          payload,     \* payload_json still holds the message (FALSE: wiped to '{}')
          attemptLog   \* the results delivery_attempts holds for the job

tableVars == <<status, attempts, due, lease, payload, attemptLog>>

RowStatus == {"pending", "processing", "retry", "completed", "dead_letter"}
Results   == {"success", "temporary_error", "permanent_error"}
Failures  == Results \ {"success"}
Leases    == {"none", "live", "expired"}

TableTypeOK ==
    /\ status \in [Jobs -> RowStatus \cup {"none", "deleted"}]
    /\ attempts \in [Jobs -> Int]
    /\ due \in [Jobs -> BOOLEAN]
    /\ lease \in [Jobs -> Leases]
    /\ payload \in [Jobs -> BOOLEAN]
    /\ attemptLog \in [Jobs -> SUBSET Results]

TableInit ==
    /\ status = [j \in Jobs |-> "none"]
    /\ attempts = [j \in Jobs |-> 0]
    /\ due = [j \in Jobs |-> FALSE]
    /\ lease = [j \in Jobs |-> "none"]
    /\ payload = [j \in Jobs |-> FALSE]
    /\ attemptLog = [j \in Jobs |-> {}]

RowExists(j) == status[j] \in RowStatus

-----------------------------------------------------------------------------
(* The INSERT of EnqueueTelegramUpdate. *)
InsertJob(j) ==
    /\ status[j] = "none"
    /\ status' = [status EXCEPT ![j] = "pending"]
    /\ due' = [due EXCEPT ![j] = TRUE]
    /\ payload' = [payload EXCEPT ![j] = TRUE]
    /\ UNCHANGED <<attempts, lease, attemptLog>>

(* Operators named with a trailing _M are mutants: the definition after    *)
(* them with a bug it could have had.  Nothing else refers to them.        *)
ClaimableFresh_M  == {j \in Jobs : status[j] = "pending" /\ due[j] /\ lease[j] # "live"}
ClaimableLeased_M == {j \in Jobs : status[j] \in {"pending", "retry", "processing"} /\ due[j]}
ClaimableLapsed_M ==
    {j \in Jobs : status[j] \in {"pending", "retry", "processing"} /\ due[j] /\ lease[j] # "live"}
ClaimableDead_M ==
    {j \in Jobs : status[j] \in {"pending", "retry", "dead_letter"} /\ due[j] /\ lease[j] # "live"}

(* The rows ClaimJobs selects from.  ORDER BY available_at is abstracted:  *)
(* a claim takes any of them.                                              *)
Claimable ==
    {j \in Jobs : status[j] \in {"pending", "retry"} /\ due[j] /\ lease[j] # "live"}

ClaimJobs(S) ==
    /\ S \subseteq Claimable
    /\ status' = [j \in Jobs |-> IF j \in S THEN "processing" ELSE status[j]]
    /\ lease' = [j \in Jobs |-> IF j \in S THEN "live" ELSE lease[j]]
    /\ UNCHANGED <<attempts, due, payload, attemptLog>>

RecordAttemptCounted_M(j, res) ==
    /\ RowExists(j)
    /\ attemptLog' = [attemptLog EXCEPT ![j] = @ \cup {res}]
    /\ attempts' = [attempts EXCEPT ![j] = @ + 1]
    /\ UNCHANGED <<status, due, lease, payload>>

(* The foreign key refuses an attempt of a row that is gone. *)
RecordAttempt(j, result) ==
    /\ attemptLog' = IF RowExists(j)
                     THEN [attemptLog EXCEPT ![j] = @ \cup {result}]
                     ELSE attemptLog
    /\ UNCHANGED <<status, attempts, due, lease, payload>>

(* WHERE id = $1 and nothing else: neither the status nor the lease is     *)
(* looked at.  The same goes for MarkJobRetryOrDead and RetryJobNow.       *)
MarkJobCompleted(j) ==
    /\ IF RowExists(j)
       THEN /\ status' = [status EXCEPT ![j] = "completed"]
            /\ lease' = [lease EXCEPT ![j] = "none"]
       ELSE UNCHANGED <<status, lease>>
    /\ UNCHANGED <<attempts, due, payload, attemptLog>>

MarkDeadEarly_M(j, nextAttempt) ==
    /\ nextAttempt + 1 >= MaxAttempts
    /\ status' = [status EXCEPT ![j] = "dead_letter"]
    /\ UNCHANGED due

MarkDead(j, nextAttempt) ==
    /\ nextAttempt >= MaxAttempts
    /\ status' = [status EXCEPT ![j] = "dead_letter"]
    /\ UNCHANGED due

MarkRetry(j, nextAttempt, later) ==
    /\ nextAttempt < MaxAttempts
    /\ status' = [status EXCEPT ![j] = "retry"]
    /\ due' = [due EXCEPT ![j] = ~later]

(* later: nextRun lies ahead (a backoff), otherwise it is now. *)
MarkJobRetryOrDead(j, nextAttempt, later) ==
    /\ IF RowExists(j)
       THEN /\ MarkDead(j, nextAttempt) \/ MarkRetry(j, nextAttempt, later)
            /\ attempts' = [attempts EXCEPT ![j] = nextAttempt]
            /\ lease' = [lease EXCEPT ![j] = "none"]
       ELSE UNCHANGED <<status, attempts, due, lease>>
    /\ UNCHANGED <<payload, attemptLog>>

StaleUnleased_M == {j \in Jobs : status[j] = "processing" /\ lease[j] = "none"}
Stale == {j \in Jobs : status[j] = "processing" /\ lease[j] = "expired"}

RequeueKeepingLease_M ==
    /\ status' = [j \in Jobs |-> IF j \in Stale THEN "retry" ELSE status[j]]
    /\ due' = [j \in Jobs |-> IF j \in Stale THEN TRUE ELSE due[j]]
    /\ UNCHANGED <<attempts, lease, payload, attemptLog>>

RequeueCounted_M ==
    /\ status' = [j \in Jobs |-> IF j \in Stale THEN "retry" ELSE status[j]]
    /\ lease' = [j \in Jobs |-> IF j \in Stale THEN "none" ELSE lease[j]]
    /\ due' = [j \in Jobs |-> IF j \in Stale THEN TRUE ELSE due[j]]
    /\ attempts' = [j \in Jobs |-> IF j \in Stale THEN attempts[j] + 1 ELSE attempts[j]]
    /\ UNCHANGED <<payload, attemptLog>>

RequeueStaleProcessing ==
    /\ status' = [j \in Jobs |-> IF j \in Stale THEN "retry" ELSE status[j]]
    /\ lease' = [j \in Jobs |-> IF j \in Stale THEN "none" ELSE lease[j]]
    /\ due' = [j \in Jobs |-> IF j \in Stale THEN TRUE ELSE due[j]]
    /\ UNCHANGED <<attempts, payload, attemptLog>>

(* The operator's retry takes a row in any status. *)
RetryJobNow(j) ==
    /\ RowExists(j)
    /\ status' = [status EXCEPT ![j] = "retry"]
    /\ due' = [due EXCEPT ![j] = TRUE]
    /\ lease' = [lease EXCEPT ![j] = "none"]
    /\ UNCHANGED <<attempts, payload, attemptLog>>

-----------------------------------------------------------------------------
(* The statements of CleanupRetention, each on the set S of rows that are  *)
(* old enough.  They run one after the other and the first error ends the  *)
(* sequence; since S may be empty, any of them may be taken at any time.   *)
WipeAnyPayload_M(S) ==
    /\ S \subseteq {j \in Jobs : RowExists(j)}
    /\ payload' = [j \in Jobs |-> IF j \in S THEN FALSE ELSE payload[j]]
    /\ UNCHANGED <<status, attempts, due, lease, attemptLog>>

WipePayloads(S) ==
    /\ S \subseteq {j \in Jobs : status[j] = "completed"}
    /\ payload' = [j \in Jobs |-> IF j \in S THEN FALSE ELSE payload[j]]
    /\ UNCHANGED <<status, attempts, due, lease, attemptLog>>

PruneAttempts(S) ==
    /\ attemptLog' = [j \in Jobs |-> IF j \in S THEN {} ELSE attemptLog[j]]
    /\ UNCHANGED <<status, attempts, due, lease, payload>>

(* A deleted row takes its delivery_attempts along (ON DELETE CASCADE). *)
DeleteRows(S) ==
    /\ S \subseteq {j \in Jobs : RowExists(j)}
    /\ status' = [j \in Jobs |-> IF j \in S THEN "deleted" ELSE status[j]]
    /\ due' = [j \in Jobs |-> IF j \in S THEN FALSE ELSE due[j]]
    /\ lease' = [j \in Jobs |-> IF j \in S THEN "none" ELSE lease[j]]
    /\ payload' = [j \in Jobs |-> IF j \in S THEN FALSE ELSE payload[j]]
    /\ attemptLog' = [j \in Jobs |-> IF j \in S THEN {} ELSE attemptLog[j]]
    /\ attempts' = [j \in Jobs |-> IF j \in S THEN 0 ELSE attempts[j]]

Completed == {j \in Jobs : status[j] = "completed"}
Finished  == {j \in Jobs : status[j] \in {"completed", "dead_letter"}}

-----------------------------------------------------------------------------
(* Time passes available_at, or leased_until. *)
BecomeDue(j) ==
    /\ RowExists(j) /\ ~due[j]
    /\ due' = [due EXCEPT ![j] = TRUE]
    /\ UNCHANGED <<status, attempts, lease, payload, attemptLog>>

LeaseRunsOut(j) ==
    /\ lease[j] = "live"
    /\ lease' = [lease EXCEPT ![j] = "expired"]
    /\ UNCHANGED <<status, attempts, due, payload, attemptLog>>
=============================================================================
