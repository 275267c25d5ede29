------------------------------ MODULE JobQueue -------------------------------
(***************************************************************************)
(* RuntimeQueueBackend over a RuntimeQueueRepository                       *)
(* (runtime-app/queue/backend.ts, queue/repository.ts).                    *)
(*                                                                         *)
(* Every operation of the backend reads the repository, awaits, and then   *)
(* saves a whole record computed from the copy it read: two steps with     *)
(* room for anything between them.  Each in-flight call is a caller with a *)
(* call record; "claim" .. "work" .. "complete"/"fail" is the life of one  *)
(* execution as RuntimeWorkerPool.runWorkerCycle drives it.                *)
(*                                                                         *)
(* How calls overlap is the caller's business: the code excludes nothing.  *)
(* Discipline says what the program around it does:                        *)
(*   "serial"     one loop that awaits each call it makes, cycles and      *)
(*                maintenance alike, and one producer that awaits each     *)
(*                enqueue: the use the tests make of it;                   *)
(*   "scheduled"  the loop, the producer and a timer each await their own  *)
(*                calls, so recovery can run while a handler is working;   *)
(*   "free"       anything overlaps, two cycles or two producers included. *)
(*                                                                         *)
(* Bounds: MaxRestarts, MaxRetries and MaxTime stop, in that order,        *)
(* process deaths, operator retries of a job and the clock; the history of *)
(* handler starts saturates at MaxRuns, above every budget.                *)
(***************************************************************************)
EXTENDS JobRecord

CONSTANTS
  Callers,      \* async call chains that may be in flight together
  NoJob,
  Discipline,   \* which calls await one another
  Offered,      \* the operations callers make use of
  EnqueueDelay, \* how far ahead an enqueue may set available_at
  MaxLag,       \* how far the instant a claimant passes may trail the clock
  MaxRestarts, MaxRetries, MaxTime,
  MaxRuns       \* where the history of handler starts stops counting

Operations == {"enqueue", "claim", "workbeat", "beat", "retry", "recover"}

ASSUME JobQueueAssumption ==
  /\ Discipline \in {"serial", "scheduled", "free"}
  /\ Offered \subseteq Operations
  /\ EnqueueDelay \subseteq Nat
  /\ MaxLag \in Nat
  /\ MaxRestarts \in Nat
  /\ MaxRetries \in Nat
  /\ MaxTime \in Nat
  /\ MaxRuns \in Nat
  /\ \A j \in Jobs : MaxAttempts[j] + MaxRetries < MaxRuns
  /\ NoJob \notin Jobs

VARIABLES
  jobs,      \* the repository: job_id -> record
  now,       \* the clock callers read
  call,      \* caller -> its call in flight, with the copies it holds
  restarts,  \* process deaths so far
  runs,      \* history: times the handler was started for a job
  retries    \* history: operator retries saved for a job

vars == <<jobs, now, call, restarts, runs, retries>>

-----------------------------------------------------------------------------
(* Where a call stands: "idle", or awaiting between the read and the save  *)
(* of the operation named, or between operations of one execution:         *)
(* "claimed" before the handler is called, "working" while it runs,        *)
(* "workbeat" while the handler awaits a heartbeat of its own.             *)
Stage == {"idle", "enqueue", "claim", "claimed", "working", "workbeat",
          "complete", "fail", "beat", "retry", "recover"}

(* The stages in which the caller executes the job it claimed.             *)
Executing == {"claimed", "working", "workbeat", "complete", "fail"}

NothingRead == [j \in Jobs |-> Absent]

Call ==
  [stage : Stage, id : Jobs \cup {NoJob}, by : Workers \cup {NoWorker},
   at : Nat, seen : [Jobs -> JobRec]]

Idle ==
  [stage |-> "idle", id |-> NoJob, by |-> NoWorker, at |-> 0,
   seen |-> NothingRead]

TypeOK ==
  /\ jobs \in [Jobs -> JobRec]
  /\ now \in Nat
  /\ call \in [Callers -> Call]
  /\ restarts \in Nat
  /\ runs \in [Jobs -> Nat]
  /\ retries \in [Jobs -> Nat]

Init ==
  /\ jobs = [j \in Jobs |-> Absent]
  /\ now = 0
  /\ call = [p \in Callers |-> Idle]
  /\ restarts = 0
  /\ runs = [j \in Jobs |-> 0]
  /\ retries = [j \in Jobs |-> 0]

-----------------------------------------------------------------------------
(* Calls of one lane await one another, unless the discipline is "free".   *)
Lane(stage) ==
  CASE stage = "enqueue" -> "intake"
    [] stage \in {"beat", "retry", "recover"} /\ Discipline = "scheduled" -> "timer"
    [] OTHER -> "work"

MayStart(p, op) ==
  /\ op \in Offered
  /\ call[p].stage = "idle"
  /\ Discipline # "free" =>
       \A q \in Callers :
         call[q].stage # "idle" => Lane(call[q].stage) # Lane(op)

(* getJob: a copy of one record.                                           *)
Copy(j) == [NothingRead EXCEPT ![j] = jobs[j]]

(* The copy heartbeat has read, with the timestamp it is about to save.    *)
BeatenCopy(j) == [NothingRead EXCEPT ![j] = Beaten(jobs[j], now)]

Begin(p, stage, j, w, t, seen) ==
  /\ call' = [call EXCEPT ![p] = [stage |-> stage, id |-> j, by |-> w,
                                  at |-> t, seen |-> seen]]
  /\ UNCHANGED <<jobs, now, restarts, runs, retries>>

(* saveJob replaces the stored record, whatever it is by now.              *)
Save(j, record) == jobs' = [jobs EXCEPT ![j] = record]

Return(p) == call' = [call EXCEPT ![p] = Idle]

Held(p) == call[p].seen[call[p].id]

-----------------------------------------------------------------------------
(* enqueue: getJob, await, then throw if it answered a record.             *)
BeginEnqueue(p, j) ==
  /\ MayStart(p, "enqueue")
  /\ Begin(p, "enqueue", j, NoWorker, now, Copy(j))

EndEnqueue(p) ==
  /\ call[p].stage = "enqueue"
  /\ \/ /\ Held(p).status # "absent"
        /\ UNCHANGED jobs
     \/ /\ Held(p).status = "absent"
        /\ \E d \in EnqueueDelay : Save(call[p].id, Created(call[p].at + d))
  /\ Return(p)
  /\ UNCHANGED <<now, restarts, runs, retries>>

(* claimNext: the earliest available of the runnable jobs, as listed.  The *)
(* repository breaks ties by insertion order, here any of them is taken.   *)
(* t is the instant the caller passes: a pool cycle takes the time once    *)
(* and uses it for every worker.                                           *)
Instants == {t \in 0..now : now <= t + MaxLag}

IsNext(j, t) ==
  /\ IsRunnable(jobs[j], t)
  /\ \A k \in Jobs : IsRunnable(jobs[k], t) =>
                       jobs[j].availableAt <= jobs[k].availableAt

BeginClaim(p, w, t) ==
  /\ MayStart(p, "claim")
  /\ \E j \in Jobs : IsNext(j, t) /\ Begin(p, "claim", j, w, t, Copy(j))

EndClaim(p) ==
  /\ call[p].stage = "claim"
  /\ Save(call[p].id, Claimed(Held(p), call[p].by, call[p].at))
  /\ call' = [call EXCEPT ![p].stage = "claimed", ![p].seen = NothingRead]
  /\ UNCHANGED <<now, restarts, runs, retries>>

(* The claimant calls its handler.                                         *)
StartHandler(p) ==
  /\ call[p].stage = "claimed"
  /\ call' = [call EXCEPT ![p].stage = "working"]
  /\ runs' = [runs EXCEPT ![call[p].id] = IF @ < MaxRuns THEN @ + 1 ELSE @]
  /\ UNCHANGED <<jobs, now, restarts, retries>>

(* The handler resolved: complete(job_id, now) of the claimant.            *)
BeginComplete(p) ==
  /\ call[p].stage = "working"
  /\ call' = [call EXCEPT ![p].stage = "complete", ![p].seen = Copy(call[p].id)]
  /\ UNCHANGED <<jobs, now, restarts, runs, retries>>

EndComplete(p) ==
  /\ call[p].stage = "complete"
  /\ Save(call[p].id, Completed(Held(p)))
  /\ Return(p)
  /\ UNCHANGED <<now, restarts, runs, retries>>

(* The handler threw, or no handler is registered for the job's kind.      *)
BeginFail(p) ==
  /\ call[p].stage \in {"claimed", "working"}
  /\ call' = [call EXCEPT ![p].stage = "fail", ![p].seen = Copy(call[p].id)]
  /\ UNCHANGED <<jobs, now, restarts, runs, retries>>

EndFail(p) ==
  /\ call[p].stage = "fail"
  /\ Save(call[p].id, Failed(call[p].id, Held(p), call[p].at))
  /\ Return(p)
  /\ UNCHANGED <<now, restarts, runs, retries>>

-----------------------------------------------------------------------------
(* heartbeat, awaited by the handler itself ...                            *)
BeginWorkBeat(p) ==
  /\ "workbeat" \in Offered
  /\ call[p].stage = "working"
  /\ call' = [call EXCEPT ![p].stage = "workbeat",
                          ![p].seen = BeatenCopy(call[p].id)]
  /\ UNCHANGED <<jobs, now, restarts, runs, retries>>

EndWorkBeat(p) ==
  /\ call[p].stage = "workbeat"
  /\ Save(call[p].id, Held(p))
  /\ call' = [call EXCEPT ![p].stage = "working", ![p].seen = NothingRead]
  /\ UNCHANGED <<now, restarts, runs, retries>>

(* ... or by another caller, a timer for instance.                         *)
BeginBeat(p, j) ==
  /\ MayStart(p, "beat")
  /\ jobs[j].status # "absent"
  /\ Begin(p, "beat", j, NoWorker, now, BeatenCopy(j))

EndBeat(p) ==
  /\ call[p].stage = "beat"
  /\ Save(call[p].id, Held(p))
  /\ Return(p)
  /\ UNCHANGED <<now, restarts, runs, retries>>

(* retryFailedJob, by an operator.                                         *)
BeginRetry(p, j) ==
  /\ MayStart(p, "retry")
  /\ jobs[j].status # "absent"
  /\ retries[j] < MaxRetries
  /\ Begin(p, "retry", j, NoWorker, now, Copy(j))

EndRetry(p) ==
  /\ call[p].stage = "retry"
  /\ Save(call[p].id, Retried(Held(p), call[p].at))
  /\ Return(p)
  /\ retries' = [retries EXCEPT ![call[p].id] = @ + 1]
  /\ UNCHANGED <<now, restarts, runs>>

(* recoverInterruptedJobs: one listing, then one save per stale job, in    *)
(* the order listed, with an await after each.                             *)
BeginRecover(p) ==
  /\ MayStart(p, "recover")
  /\ \E j \in Jobs : IsStale(jobs[j], now)
  /\ Begin(p, "recover", NoJob, NoWorker, now,
           [j \in Jobs |-> IF IsStale(jobs[j], now) THEN jobs[j] ELSE Absent])

Listed(p) == {j \in Jobs : call[p].seen[j].status # "absent"}

RecoverOne(p, j) ==
  /\ call[p].stage = "recover"
  /\ j \in Listed(p)
  /\ \A k \in Listed(p) :
       call[p].seen[j].availableAt <= call[p].seen[k].availableAt
  /\ Save(j, Recovered(j, call[p].seen[j], call[p].at))
  /\ IF Listed(p) = {j}
     THEN Return(p)
     ELSE call' = [call EXCEPT ![p].seen[j] = Absent]
  /\ UNCHANGED <<now, restarts, runs, retries>>

-----------------------------------------------------------------------------
(* The process dies: every call in flight is gone, a durable repository    *)
(* keeps its records.                                                      *)
Restart ==
  /\ restarts < MaxRestarts
  /\ restarts' = restarts + 1
  /\ call' = [p \in Callers |-> Idle]
  /\ UNCHANGED <<jobs, now, runs, retries>>

(* Time passes, as long as some record still has an instant ahead of it    *)
(* that an operation compares with the clock.                              *)
Awaited(job) ==
  \/ job.status \in Waiting /\ now < job.availableAt
  \/ job.status = "running" /\ now < job.heartbeatAt + StaleAfter

Tick ==
  /\ now < MaxTime
  /\ \E j \in Jobs : Awaited(jobs[j])
  /\ now' = now + 1
  /\ UNCHANGED <<jobs, call, restarts, runs, retries>>

-----------------------------------------------------------------------------
Step(p) ==
  \/ EndEnqueue(p)
  \/ EndClaim(p)
  \/ StartHandler(p)
  \/ BeginComplete(p)
  \/ EndComplete(p)
  \/ BeginFail(p)
  \/ EndFail(p)
  \/ BeginWorkBeat(p)
  \/ EndWorkBeat(p)
  \/ EndBeat(p)
  \/ EndRetry(p)
  \/ BeginRecover(p)
  \/ \E j \in Jobs :
       \/ BeginEnqueue(p, j)
       \/ BeginBeat(p, j)
       \/ BeginRetry(p, j)
       \/ RecoverOne(p, j)
  \/ \E w \in Workers, t \in Instants : BeginClaim(p, w, t)

Next ==
  \/ \E p \in Callers : Step(p)
  \/ Restart
  \/ Tick

Spec == Init /\ [][Next]_vars

-----------------------------------------------------------------------------
(* Invariants that hold however calls overlap                              *)

(* No stored attempt counter passes the job's budget plus the operator     *)
(* retries granted: claimNext adds one only to a copy that fail, recovery  *)
(* or retry wrote with budget left, however old that copy is.              *)
AttemptsWithinBudget ==
  \A j \in Jobs : jobs[j].attempts <= MaxAttempts[j] + retries[j]

(* fail and recoverInterruptedJobs give up only on a job whose counter has *)
(* reached max_attempts, and no stale save takes the counter back.         *)
DeadLetteredIsSpent ==
  \A j \in Jobs :
    jobs[j].status = "dead_lettered" => jobs[j].attempts >= MaxAttempts[j]

(* Why they hold: every record, stored or still held by a call, is sound,  *)
(* and a claim holds a copy that was waiting.                              *)
Sound(j, record) ==
  /\ record.attempts <= MaxAttempts[j] + retries[j]
  /\ record.status \in Waiting => record.attempts < MaxAttempts[j] + retries[j]
  /\ record.status = "dead_lettered" => record.attempts >= MaxAttempts[j]

CallShape ==
  \A p \in Callers :
    /\ call[p].stage \notin {"idle", "recover"} => call[p].id \in Jobs
    /\ call[p].stage = "claim" => Held(p).status \in Waiting

BudgetInv ==
  /\ CallShape
  /\ \A j \in Jobs : Sound(j, jobs[j])
  /\ \A p \in Callers, j \in Jobs : Sound(j, call[p].seen[j])

-----------------------------------------------------------------------------
(* Properties of serial use                                                *)

(* The retry budget bounds what it is there to bound, the number of times  *)
(* a handler is started for the job, over restarts and recoveries too.     *)
RunsWithinBudget ==
  \A j \in Jobs : runs[j] <= MaxAttempts[j] + retries[j]

(* While a caller executes a job, the repository says so: the record is    *)
(* running and claimed for that caller's worker.                           *)
ExecutedIsRunning ==
  \A p \in Callers :
    call[p].stage \in Executing =>
      /\ jobs[call[p].id].status = "running"
      /\ jobs[call[p].id].claimedBy = call[p].by

(* A completed or dead-lettered job stays as it is unless an operator      *)
(* retries it: no late heartbeat, recovery or enqueue touches its status.  *)
TerminalIsFinal ==
  [][\A j \in Jobs :
       /\ jobs[j].status \in Terminal
       /\ jobs'[j].status # jobs[j].status
       => retries'[j] = retries[j] + 1]_vars

(* Why they hold: in each lane one call at a time, whose copies still      *)
(* agree with the repository, and no handler start without a counted       *)
(* attempt.                                                                *)
SameLife(r, s) ==
  r.status = s.status /\ r.attempts = s.attempts /\ r.claimedBy = s.claimedBy

LanesExclude ==
  \A p, q \in Callers :
    /\ call[p].stage # "idle"
    /\ call[q].stage # "idle"
    /\ Lane(call[p].stage) = Lane(call[q].stage)
    => p = q

CopyIsFresh(p) ==
  /\ call[p].stage = "enqueue" /\ Held(p).status = "absent"
       => jobs[call[p].id].status = "absent"
  /\ call[p].stage \notin {"idle", "enqueue", "recover"}
       => jobs[call[p].id].status # "absent"
  /\ call[p].stage \in {"claim", "complete", "fail", "workbeat", "beat", "retry"}
       => SameLife(Held(p), jobs[call[p].id])
  /\ call[p].stage = "recover"
       => \A j \in Listed(p) : /\ call[p].seen[j].status = "running"
                               /\ SameLife(call[p].seen[j], jobs[j])

StartsAreCounted ==
  /\ \A j \in Jobs : /\ runs[j] <= jobs[j].attempts
                     /\ jobs[j].status = "absent" => jobs[j].attempts = 0
  /\ \A p \in Callers :
       call[p].stage = "claimed" => runs[call[p].id] < jobs[call[p].id].attempts

SerialInv ==
  /\ LanesExclude
  /\ \A p \in Callers : CopyIsFresh(p)
  /\ ExecutedIsRunning
  /\ StartsAreCounted

(* What the queue promises about each job, without its mechanism.          *)
Lifecycle ==
  INSTANCE JobLifecycle WITH
    Budget <- MaxAttempts,
    phase <- [j \in Jobs |-> jobs[j].status],
    tries <- [j \in Jobs |-> jobs[j].attempts],
    asked <- retries

ImplementsLifecycle == Lifecycle!Spec

-----------------------------------------------------------------------------
(* Every job that was accepted is completed or dead-lettered in the end,   *)
(* whichever handlers fail and wherever the process dies.  (WorkerPool says *)
(* under which fairness.)                                                  *)
EveryJobSettles ==
  \A j \in Jobs :
    jobs[j].status # "absent" ~> jobs[j].status \in Terminal

=============================================================================
