----------------------------- MODULE WorkerPool ------------------------------
(***************************************************************************)
(* RuntimeWorkerPool (runtime-app/workers/pool.ts) on top of JobQueue.     *)
(*                                                                         *)
(* A cycle visits the workers in order; for each it publishes an idle      *)
(* snapshot, claims a job, publishes a busy snapshot, runs the handler,    *)
(* ends the job and publishes the outcome.  Every point between two awaits *)
(* is a step here, taken together with the JobQueue action of the queue    *)
(* call it makes.  The one instant a cycle reads serves all its workers,   *)
(* and the snapshots it holds across awaits are kept in the cycle record.  *)
(*                                                                         *)
(* saveWorker stores what workerState was just set to, so one variable     *)
(* stands for both; that the call may reject is what matters, and at most  *)
(* MaxFaults of them do.                                                   *)
(***************************************************************************)
EXTENDS JobQueue, Sequences, FiniteSets, FiniteSetsExt

CONSTANTS
  WorkerOrder,  \* worker_ids, in the order of the Map
  Handled,      \* jobs of a kind some handler is registered for
  WorkerStale,  \* stale_after_ms of the pool
  MaxFaults     \* saveWorker calls that reject

ASSUME WorkerPoolAssumption ==
  /\ WorkerOrder \in Seq(Workers)
  /\ \A w \in Workers : \E k \in 1..Len(WorkerOrder) : WorkerOrder[k] = w
  /\ Handled \subseteq Jobs
  /\ WorkerStale \in Nat
  /\ MaxFaults \in Nat

VARIABLES
  worker,  \* workerState: worker id -> snapshot
  cycle,   \* caller -> where its runCycle stands
  faults   \* saveWorker calls that rejected so far

poolVars == <<worker, cycle, faults>>
allVars == <<vars, poolVars>>

-----------------------------------------------------------------------------
Snapshot ==
  [status : {"idle", "busy", "offline", "error"}, job : Jobs \cup {NoJob},
   beat : Nat, processed : Nat, failed : Nat]

(* The await a cycle stands at: "ready", "busy", "finished" and "reported" *)
(* on a saveWorker, the others on a call to the queue or to the handler.   *)
Point == {"off", "ready", "claiming", "claimed", "busy", "handling",
          "completing", "finished", "failing", "reported"}

(* held is the snapshot the cycle goes on to build the next one from.      *)
Cycle ==
  [point : Point, turn : Nat, at : Nat, job : Jobs \cup {NoJob}, held : Snapshot]

NewWorker ==
  [status |-> "idle", job |-> NoJob, beat |-> 0, processed |-> 0, failed |-> 0]

Off ==
  [point |-> "off", turn |-> 0, at |-> 0, job |-> NoJob, held |-> NewWorker]

PoolTypeOK ==
  /\ TypeOK
  /\ worker \in [Workers -> Snapshot]
  /\ cycle \in [Callers -> Cycle]
  /\ faults \in 0..MaxFaults

PoolInit ==
  /\ Init
  /\ worker = [w \in Workers |-> NewWorker]
  /\ cycle = [p \in Callers |-> Off]
  /\ faults = 0

Turn(p) == WorkerOrder[cycle[p].turn]

-----------------------------------------------------------------------------
(* The caller is between cycles and no call of the loop is in flight,      *)
(* unless nobody awaits anybody.                                           *)
LoopIsFree(p) ==
  /\ cycle[p].point = "off"
  /\ call[p].stage = "idle"
  /\ Discipline # "free" =>
       \A q \in Callers : /\ cycle[q].point = "off"
                          /\ call[q].stage \in {"idle", "enqueue"}

(* Slips: the snapshot of a visit starts the worker's books afresh; it     *)
(* leaves the status of the last visit standing.                           *)
VisitAfresh(p, turn, t) ==
  IF turn <= Len(WorkerOrder)
  THEN LET ready == [NewWorker EXCEPT !.beat = t]
       IN  /\ worker' = [worker EXCEPT ![WorkerOrder[turn]] = ready]
           /\ cycle' = [cycle EXCEPT ![p] =
                          [point |-> "ready", turn |-> turn, at |-> t,
                           job |-> NoJob, held |-> ready]]
  ELSE cycle' = [cycle EXCEPT ![p] = Off] /\ UNCHANGED worker

VisitInPassing(p, turn, t) ==
  IF turn <= Len(WorkerOrder)
  THEN LET ready == [worker[WorkerOrder[turn]] EXCEPT !.beat = t]
       IN  /\ worker' = [worker EXCEPT ![WorkerOrder[turn]] = ready]
           /\ cycle' = [cycle EXCEPT ![p] =
                          [point |-> "ready", turn |-> turn, at |-> t,
                           job |-> NoJob, held |-> ready]]
  ELSE cycle' = [cycle EXCEPT ![p] = Off] /\ UNCHANGED worker

(* runWorkerCycle up to its first await, or the end of the cycle.          *)
Visit(p, turn, t) ==
  IF turn <= Len(WorkerOrder)
  THEN LET w == WorkerOrder[turn]
           ready == [worker[w] EXCEPT !.status = "idle", !.job = NoJob, !.beat = t]
       IN  /\ worker' = [worker EXCEPT ![w] = ready]
           /\ cycle' = [cycle EXCEPT ![p] =
                          [point |-> "ready", turn |-> turn, at |-> t,
                           job |-> NoJob, held |-> ready]]
  ELSE /\ cycle' = [cycle EXCEPT ![p] = Off]
       /\ UNCHANGED worker

StartCycle(p) ==
  /\ LoopIsFree(p)
  /\ Visit(p, 1, now)
  /\ UNCHANGED <<vars, faults>>

NextWorker(p) ==
  /\ cycle[p].point \in {"finished", "reported"}
  /\ Visit(p, cycle[p].turn + 1, cycle[p].at)
  /\ UNCHANGED <<vars, faults>>

(* claimNext found nothing.                                                *)
NothingToClaim(p) ==
  /\ cycle[p].point = "ready"
  /\ \A j \in Jobs : ~IsRunnable(jobs[j], cycle[p].at)
  /\ Visit(p, cycle[p].turn + 1, cycle[p].at)
  /\ UNCHANGED <<vars, faults>>

GoTo(p, point) ==
  /\ cycle' = [cycle EXCEPT ![p].point = point]
  /\ UNCHANGED <<worker, faults>>

StartClaim(p) ==
  /\ cycle[p].point = "ready"
  /\ BeginClaim(p, Turn(p), cycle[p].at)
  /\ GoTo(p, "claiming")

ClaimSaved(p) ==
  /\ cycle[p].point = "claiming"
  /\ EndClaim(p)
  /\ cycle' = [cycle EXCEPT ![p].point = "claimed", ![p].job = call[p].id]
  /\ UNCHANGED <<worker, faults>>

NoHandler(p) ==
  /\ cycle[p].point = "claimed"
  /\ cycle[p].job \notin Handled
  /\ BeginFail(p)
  /\ GoTo(p, "failing")

(* A snapshot the cycle builds becomes the worker's and is saved.          *)
Publish(p, snapshot, point) ==
  /\ worker' = [worker EXCEPT ![Turn(p)] = snapshot]
  /\ cycle' = [cycle EXCEPT ![p].point = point, ![p].held = snapshot]
  /\ UNCHANGED faults

TakeUp(p) ==
  /\ cycle[p].point = "claimed"
  /\ cycle[p].job \in Handled
  /\ Publish(p, [cycle[p].held EXCEPT !.status = "busy", !.job = cycle[p].job,
                                      !.beat = cycle[p].at],
             "busy")
  /\ UNCHANGED vars

CallHandler(p) ==
  /\ cycle[p].point = "busy"
  /\ StartHandler(p)
  /\ GoTo(p, "handling")

HandlerResolves(p) ==
  /\ cycle[p].point = "handling"
  /\ BeginComplete(p)
  /\ GoTo(p, "completing")

HandlerThrows(p) ==
  /\ cycle[p].point = "handling"
  /\ BeginFail(p)
  /\ GoTo(p, "failing")

(* complete resolved: the new snapshot is built from the busy one.         *)
CompleteSaved(p) ==
  /\ cycle[p].point = "completing"
  /\ EndComplete(p)
  /\ Publish(p, [cycle[p].held EXCEPT !.status = "idle", !.job = NoJob,
                                      !.processed = @ + 1, !.beat = cycle[p].at],
             "finished")

(* Slip: the snapshot takes the status of the job.                         *)
FailSavedAsJob(p) ==
  /\ cycle[p].point = "failing"
  /\ EndFail(p)
  /\ Publish(p, [worker[Turn(p)] EXCEPT !.status = jobs'[cycle[p].job].status,
                                        !.failed = @ + 1, !.beat = cycle[p].at],
             "reported")

(* fail resolved: the new snapshot is built from the current one.          *)
FailSaved(p) ==
  /\ cycle[p].point = "failing"
  /\ EndFail(p)
  /\ Publish(p, [worker[Turn(p)] EXCEPT !.status = "error", !.job = NoJob,
                                        !.failed = @ + 1, !.beat = cycle[p].at],
             "reported")

-----------------------------------------------------------------------------
(* saveWorker rejects outside the try: so does runCycle, a claimed job is  *)
(* left running.                                                           *)
CycleRejects(p) ==
  /\ cycle[p].point \in {"ready", "busy", "reported"}
  /\ faults < MaxFaults
  /\ faults' = faults + 1
  /\ cycle' = [cycle EXCEPT ![p] = Off]
  /\ Return(p)
  /\ UNCHANGED <<jobs, now, restarts, runs, retries, worker>>

(* saveWorker rejects inside the try, after complete: the catch fails the  *)
(* completed job.                                                          *)
FailFinished(p) ==
  /\ cycle[p].point = "finished"
  /\ faults < MaxFaults
  /\ faults' = faults + 1
  /\ Begin(p, "fail", cycle[p].job, Turn(p), cycle[p].at, Copy(cycle[p].job))
  /\ cycle' = [cycle EXCEPT ![p].point = "failing"]
  /\ UNCHANGED worker

-----------------------------------------------------------------------------
(* recordHeartbeat and one iteration of monitorHeartbeats: each reads and  *)
(* sets the worker's snapshot without an await between.                    *)
RecordHeartbeat(w) ==
  /\ worker' = [worker EXCEPT ![w].beat = now]
  /\ UNCHANGED <<vars, cycle, faults>>

IsSilent(w, t) == t > worker[w].beat + WorkerStale

(* Slip: a busy worker is put offline as well.                             *)
MonitorAnyHeartbeat(w, t) ==
  /\ IsSilent(w, t)
  /\ worker' = [worker EXCEPT ![w].status = "offline"]
  /\ UNCHANGED <<vars, cycle, faults>>

MonitorHeartbeat(w, t) ==
  /\ IsSilent(w, t)
  /\ worker[w].status # "busy"
  /\ worker' = [worker EXCEPT ![w].status = "offline"]
  /\ UNCHANGED <<vars, cycle, faults>>

-----------------------------------------------------------------------------
(* What goes on beside the cycles: producers, and the loop's own recovery  *)
(* and operator retries.                                                   *)
Enqueueing(p) ==
  /\ cycle[p].point = "off"
  /\ EndEnqueue(p) \/ \E j \in Jobs : BeginEnqueue(p, j)
  /\ UNCHANGED poolVars

Recovering(p) ==
  /\ \/ LoopIsFree(p) /\ BeginRecover(p)
     \/ \E j \in Jobs : RecoverOne(p, j)
  /\ UNCHANGED poolVars

Retrying(p) ==
  /\ \/ LoopIsFree(p) /\ \E j \in Jobs : BeginRetry(p, j)
     \/ cycle[p].point = "off" /\ EndRetry(p)
  /\ UNCHANGED poolVars

(* A new process builds a new pool over the same repository.               *)
PoolRestart ==
  /\ Restart
  /\ worker' = [w \in Workers |-> NewWorker]
  /\ cycle' = [p \in Callers |-> Off]
  /\ UNCHANGED faults

PoolTick == Tick /\ UNCHANGED poolVars

CycleStep(p) ==
  \/ NextWorker(p)
  \/ NothingToClaim(p)
  \/ StartClaim(p)
  \/ ClaimSaved(p)
  \/ NoHandler(p)
  \/ TakeUp(p)
  \/ CallHandler(p)
  \/ HandlerResolves(p)
  \/ HandlerThrows(p)
  \/ CompleteSaved(p)
  \/ FailSaved(p)

PoolNext ==
  \/ \E p \in Callers :
       \/ StartCycle(p)
       \/ CycleStep(p)
       \/ CycleRejects(p)
       \/ FailFinished(p)
       \/ Enqueueing(p)
       \/ Recovering(p)
       \/ Retrying(p)
  \/ \E w \in Workers :
       \/ RecordHeartbeat(w)
       \/ \E t \in Instants : MonitorHeartbeat(w, t)
  \/ PoolRestart
  \/ PoolTick

PoolSpec == PoolInit /\ [][PoolNext]_allVars

-----------------------------------------------------------------------------
(* Cycles that await one another                                           *)

(* A cycle between its busy snapshot and the end of its job has the        *)
(* worker's snapshot and the repository agree on what the worker does,     *)
(* whatever heartbeats and monitoring go on; and no other snapshot is busy *)
(* unless a save was lost.                                                 *)
Engaged == {"busy", "handling", "completing"}

BusyIsTrue ==
  /\ \A p \in Callers :
       cycle[p].point \in Engaged =>
         /\ worker[Turn(p)].status = "busy"
         /\ worker[Turn(p)].job = cycle[p].job
         /\ jobs[cycle[p].job].status = "running"
         /\ jobs[cycle[p].job].claimedBy = Turn(p)
  /\ \A w \in Workers :
       worker[w].status = "busy" /\ faults = 0 =>
         \E p \in Callers :
           cycle[p].point \in Engaged \cup {"failing"} /\ Turn(p) = w

(* Each counted attempt of a job is, as long as the process lives and no   *)
(* save is lost, in some worker's books: processed, failed, or under way.  *)
Ended == MapThenSumSet(LAMBDA w : worker[w].processed + worker[w].failed, Workers)
Attempts == MapThenSumSet(LAMBDA j : jobs[j].attempts, Jobs)
UnderWay == {j \in Jobs : jobs[j].status = "running"}

AttemptsAreAccounted ==
  restarts = 0 /\ faults = 0 => Attempts = Ended + Cardinality(UnderWay)

-----------------------------------------------------------------------------
(* Liveness: runCycle and recovery are called again and again, awaits      *)
(* resolve, handlers settle.                                               *)
PoolFairness ==
  /\ \A p \in Callers :
       /\ WF_allVars(CycleStep(p))
       /\ WF_allVars(Recovering(p) /\ call[p].stage = "recover")
       /\ WF_allVars(Enqueueing(p) /\ call[p].stage = "enqueue")
  /\ SF_allVars(\E p \in Callers : StartCycle(p))
  /\ SF_allVars(\E p \in Callers : Recovering(p) /\ call[p].stage = "idle")
  /\ WF_allVars(PoolTick)

FairPoolSpec == PoolSpec /\ PoolFairness

(* A worker that is busy does not stay so, even when its cycle was lost to *)
(* a rejected save: the next cycle takes it back.                          *)
BusyEnds ==
  \A w \in Workers : worker[w].status = "busy" ~> worker[w].status # "busy"
=============================================================================
