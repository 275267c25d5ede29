------------------------------ MODULE JobRecord ------------------------------
(***************************************************************************)
(* The job records of the durable runtime queue, and what each operation   *)
(* of RuntimeQueueBackend turns a record into (runtime-app/queue/models.ts *)
(* and queue/backend.ts).  Nothing here has state: JobQueue applies these  *)
(* operators to the copies its calls have read.                            *)
(*                                                                         *)
(* A record keeps what the queue's control flow reads: the status, the     *)
(* attempt counter, the claimant and the two instants compared with the    *)
(* clock.  Payloads, metadata, notes and error texts are left out.         *)
(***************************************************************************)
EXTENDS Naturals

CONSTANTS
  Jobs,         \* job ids
  Workers,      \* worker ids a claim may be made for
  NoWorker,     \* claimed_by: undefined
  MaxAttempts,  \* max_attempts of each job (the input's, or the policy's)
  BaseDelay,    \* RetryPolicy.base_delay_ms
  MaxDelay,     \* RetryPolicy.max_delay_ms
  Strategy,     \* RetryPolicy.strategy
  StaleAfter    \* staleAfterMs given to recoverInterruptedJobs

ASSUME JobRecordAssumption ==
  /\ MaxAttempts \in [Jobs -> Nat \ {0}]   \* no job is created without budget
  /\ BaseDelay \in Nat
  /\ MaxDelay \in Nat
  /\ Strategy \in {"fixed", "exponential"}
  /\ StaleAfter \in Nat \ {0}
  /\ NoWorker \notin Workers

-----------------------------------------------------------------------------
(* RuntimeJobStatus without "failed", which no operation of the backend    *)
(* ever writes; "absent" stands for getJob answering undefined.            *)
Status ==
  {"absent", "queued", "running", "completed", "retrying", "dead_lettered"}

JobRec ==
  [status : Status, attempts : Nat, claimedBy : Workers \cup {NoWorker},
   availableAt : Nat, heartbeatAt : Nat]

Absent ==
  [status |-> "absent", attempts |-> 0, claimedBy |-> NoWorker,
   availableAt |-> 0, heartbeatAt |-> 0]

(* The statuses claimNext asks the repository for.                         *)
Waiting == {"queued", "retrying"}

Terminal == {"completed", "dead_lettered"}

-----------------------------------------------------------------------------
(* createRuntimeJob: attempts 0, available from the instant given.         *)
Created(availableAt) ==
  [Absent EXCEPT !.status = "queued", !.availableAt = availableAt]

(* Slips: the attempt is not counted; the claimant is not recorded.        *)
ClaimedUncounted(job, worker, now) ==
  [job EXCEPT !.status = "running", !.claimedBy = worker, !.heartbeatAt = now]

ClaimedForNobody(job, worker, now) ==
  [job EXCEPT !.status = "running", !.attempts = @ + 1, !.heartbeatAt = now]

Claimed(job, worker, now) ==
  [job EXCEPT !.status = "running", !.attempts = @ + 1, !.claimedBy = worker,
              !.heartbeatAt = now]

Beaten(job, now) == [job EXCEPT !.heartbeatAt = now]

Completed(job) == [job EXCEPT !.status = "completed"]

(* computeRetryAt: base * 2^max(attempts-1, 0) for the exponential         *)
(* strategy, and never more than the cap.                                  *)
RetryDelay(attempts) ==
  LET exponent == IF attempts = 0 THEN 0 ELSE attempts - 1
      raw == IF Strategy = "fixed" THEN BaseDelay ELSE BaseDelay * 2^exponent
  IN  IF raw \in 0..MaxDelay THEN raw ELSE MaxDelay

(* Two slips at the boundary: one attempt too many, one too few.           *)
HasBudgetLate(j, job) == job.attempts <= MaxAttempts[j]

HasBudgetEarly(j, job) == job.attempts + 1 < MaxAttempts[j]

HasBudget(j, job) == job.attempts < MaxAttempts[j]

(* Slip: the last failure is recorded as such, not as a dead letter.       *)
FailedOutright(j, job, now) ==
  IF HasBudget(j, job)
  THEN [job EXCEPT !.status = "retrying",
                   !.availableAt = now + RetryDelay(job.attempts)]
  ELSE [job EXCEPT !.status = "failed"]

(* fail: the delay counts from the caller's now, the claim fields stay.    *)
Failed(j, job, now) ==
  IF HasBudget(j, job)
  THEN [job EXCEPT !.status = "retrying",
                   !.availableAt = now + RetryDelay(job.attempts)]
  ELSE [job EXCEPT !.status = "dead_lettered"]

(* retryFailedJob: no look at the status, attempts kept.                   *)
Retried(job, now) ==
  [job EXCEPT !.status = "retrying", !.claimedBy = NoWorker,
              !.heartbeatAt = 0, !.availableAt = now]

(* Slip: recovery only releases the claim of a job that is out of budget.  *)
RecoveredHalfway(j, job, now) ==
  IF HasBudget(j, job)
  THEN [job EXCEPT !.status = "retrying", !.claimedBy = NoWorker,
                   !.availableAt = now]
  ELSE [job EXCEPT !.claimedBy = NoWorker]

(* One iteration of recoverInterruptedJobs.                                *)
Recovered(j, job, now) ==
  IF HasBudget(j, job)
  THEN [job EXCEPT !.status = "retrying", !.claimedBy = NoWorker,
                   !.availableAt = now]
  ELSE [job EXCEPT !.status = "dead_lettered", !.claimedBy = NoWorker]

(* Slip: recovery does not ask for running jobs only.                      *)
IsOld(job, now) ==
  /\ job.status # "absent"
  /\ now >= job.heartbeatAt + StaleAfter

(* The staleness test of recoverInterruptedJobs.                           *)
IsStale(job, now) ==
  /\ job.status = "running"
  /\ now >= job.heartbeatAt + StaleAfter

(* The filter of listJobs as claimNext uses it.                            *)
IsRunnable(job, now) == job.status \in Waiting /\ job.availableAt <= now
=============================================================================
