--------------------------- MODULE WorkerPoolProofs ---------------------------
(***************************************************************************)
(* What WorkerPool guarantees for every number of workers, jobs and        *)
(* callers: its types however cycles overlap; when cycles and maintenance  *)
(* await one another, that a busy snapshot is true, that every counted     *)
(* attempt is in the workers' books, and that the budget bounds the        *)
(* handler starts; and that a pool whose saves succeed uses the queue as   *)
(* JobQueue has it used.                                                   *)
(***************************************************************************)
EXTENDS WorkerPool, JobQueueProofs, FiniteSetTheorems, SequenceTheorems

-----------------------------------------------------------------------------
(* The invariant                                                           *)

(* A cycle that is under way stands at a worker of the pool.               *)
AtAWorker ==
  \A p \in Callers :
    cycle[p].point # "off" => cycle[p].turn \in 1..Len(WorkerOrder)

(* The caller is in a cycle, in a recovery or in an operator retry.        *)
Active(p) ==
  cycle[p].point # "off" \/ call[p].stage \notin {"idle", "enqueue"}

Alone ==
  /\ \A p, q \in Callers : Active(p) /\ Active(q) => p = q
  /\ \A p, q \in Callers :
       call[p].stage = "enqueue" /\ call[q].stage = "enqueue" => p = q

(* The await a cycle stands at is that of the queue call in flight.        *)
Coupled(p) ==
  /\ cycle[p].point = "off" => call[p].stage \in {"idle", "enqueue", "recover", "retry"}
  /\ cycle[p].point \in {"ready", "finished", "reported"} => call[p].stage = "idle"
  /\ cycle[p].point = "claiming" => call[p].stage = "claim" /\ call[p].by = Turn(p)
  /\ cycle[p].point \in {"claimed", "busy"} => call[p].stage = "claimed"
  /\ cycle[p].point = "handling" => call[p].stage = "working"
  /\ cycle[p].point = "completing" => call[p].stage = "complete"
  /\ cycle[p].point = "failing" => call[p].stage = "fail"
  /\ cycle[p].point \in Engaged \cup {"claimed"} => cycle[p].job = call[p].id

(* A call that is going to save a record over another one has it there,    *)
(* and an enqueue that found none has none there.                          *)
Stored(p) ==
  /\ call[p].stage \notin {"idle", "recover"} => call[p].id \in Jobs
  /\ call[p].stage = "enqueue" /\ Held(p).status = "absent"
       => jobs[call[p].id].status = "absent"
  /\ call[p].stage \notin {"idle", "enqueue", "recover"}
       => jobs[call[p].id].status # "absent"
  /\ call[p].stage = "recover" => \A j \in Listed(p) : jobs[j].status # "absent"
  /\ cycle[p].point = "finished"
       => cycle[p].job \in Jobs /\ jobs[cycle[p].job].status # "absent"

Truthful(p) ==
  /\ cycle[p].point \in Engaged \cup {"claimed"} =>
       /\ jobs[cycle[p].job].status = "running"
       /\ jobs[cycle[p].job].claimedBy = Turn(p)
  /\ cycle[p].point \in Engaged =>
       /\ worker[Turn(p)].status = "busy"
       /\ worker[Turn(p)].job = cycle[p].job

Sane(p) == Coupled(p) /\ Stored(p) /\ Truthful(p)

Attends(p, w) ==
  cycle[p].point \in Engaged \cup {"failing"} /\ Turn(p) = w

NoneForgotten ==
  \A w \in Workers :
    worker[w].status = "busy" /\ faults = 0 => \E p \in Callers : Attends(p, w)

PoolInv == Alone /\ (\A p \in Callers : Sane(p)) /\ NoneForgotten

-----------------------------------------------------------------------------
(* Types                                                                   *)

LEMMA WorkerOfTurn ==
  ASSUME NEW n \in 1..Len(WorkerOrder)
  PROVE  WorkerOrder[n] \in Workers
BY WorkerPoolAssumption, ElementOfSeq DEF WorkerPoolAssumption

LEMMA NewWorkerType == NewWorker \in Snapshot /\ Off \in Cycle
BY DEF NewWorker, Snapshot, Off, Cycle, Point

LEMMA CycleFields ==
  ASSUME PoolTypeOK, AtAWorker, NEW p \in Callers
  PROVE  /\ TypeOK
         /\ cycle[p] \in Cycle
         /\ cycle[p].turn \in Nat
         /\ cycle[p].at \in Nat
         /\ cycle[p].job \in Jobs \cup {NoJob}
         /\ cycle[p].held \in Snapshot
         /\ cycle[p].point # "off" => Turn(p) \in Workers
         /\ cycle[p].point # "off" => worker[Turn(p)] \in Snapshot
<1>1. cycle[p] \in Cycle
  BY DEF PoolTypeOK
<1>2. cycle[p].point # "off" => Turn(p) \in Workers
  BY WorkerOfTurn DEF AtAWorker, Turn
<1>. QED  BY <1>1, <1>2 DEF PoolTypeOK, Cycle

(* A visit publishes a snapshot of the worker whose turn it is, or ends    *)
(* the cycle.                                                              *)
LEMMA VisitType ==
  ASSUME PoolTypeOK, AtAWorker, NEW p \in Callers, NEW n \in Nat \ {0}, NEW t \in Nat,
         Visit(p, n, t), UNCHANGED <<vars, faults>>
  PROVE  PoolTypeOK' /\ AtAWorker'
<1>1. TypeOK'
  BY DEF PoolTypeOK, TypeOK, vars
<1>2. CASE n <= Len(WorkerOrder)
  <2>. DEFINE w == WorkerOrder[n]
              ready == [worker[w] EXCEPT !.status = "idle", !.job = NoJob, !.beat = t]
  <2>1. Len(WorkerOrder) \in Nat
    BY WorkerPoolAssumption DEF WorkerPoolAssumption
  <2>2. n \in 1..Len(WorkerOrder)
    BY <1>2, <2>1
  <2>3. w \in Workers
    BY <2>2, WorkerOfTurn
  <2>4. ready \in Snapshot
    BY <2>3 DEF PoolTypeOK, Snapshot
  <2>. HIDE DEF ready
  <2>5. /\ worker' = [worker EXCEPT ![w] = ready]
        /\ cycle' = [cycle EXCEPT ![p] = [point |-> "ready", turn |-> n, at |-> t,
                                          job |-> NoJob, held |-> ready]]
    BY <1>2 DEF Visit, ready
  <2>6. [point |-> "ready", turn |-> n, at |-> t, job |-> NoJob, held |-> ready] \in Cycle
    BY <2>4 DEF Cycle, Point
  <2>7. worker' \in [Workers -> Snapshot] /\ cycle' \in [Callers -> Cycle]
    BY <2>4, <2>5, <2>6 DEF PoolTypeOK
  <2>8. AtAWorker'
    BY <2>2, <2>5 DEF AtAWorker, PoolTypeOK
  <2>. QED  BY <1>1, <2>7, <2>8 DEF PoolTypeOK
<1>3. CASE ~(n <= Len(WorkerOrder))
  <2>1. cycle' = [cycle EXCEPT ![p] = Off] /\ worker' = worker
    BY <1>3 DEF Visit
  <2>2. AtAWorker'
    BY <2>1 DEF AtAWorker, PoolTypeOK, Off
  <2>. QED  BY <1>1, <2>1, <2>2, NewWorkerType DEF PoolTypeOK
<1>. QED  BY <1>2, <1>3

(* A cycle that goes on to another await of the same visit.                *)
LEMMA GoToType ==
  ASSUME PoolTypeOK, AtAWorker, NEW p \in Callers, cycle[p].point # "off",
         NEW point \in Point, GoTo(p, point), TypeOK'
  PROVE  PoolTypeOK' /\ AtAWorker'
<1>1. cycle' \in [Callers -> Cycle]
  BY DEF GoTo, PoolTypeOK, Cycle
<1>2. AtAWorker'
  BY DEF GoTo, AtAWorker, PoolTypeOK, Cycle
<1>. QED  BY <1>1, <1>2 DEF GoTo, PoolTypeOK

LEMMA PublishType ==
  ASSUME PoolTypeOK, AtAWorker, NEW p \in Callers, cycle[p].point # "off",
         NEW snapshot \in Snapshot, NEW point \in Point,
         Publish(p, snapshot, point), TypeOK'
  PROVE  PoolTypeOK' /\ AtAWorker'
<1>1. cycle' \in [Callers -> Cycle]
  BY DEF Publish, PoolTypeOK, Cycle
<1>2. AtAWorker'
  BY DEF Publish, AtAWorker, PoolTypeOK, Cycle
<1>3. worker' \in [Workers -> Snapshot]
  BY DEF Publish, PoolTypeOK
<1>. QED  BY <1>1, <1>2, <1>3 DEF Publish, PoolTypeOK

LEMMA CycleStepType ==
  ASSUME PoolTypeOK, AtAWorker, NEW p \in Callers, CycleStep(p)
  PROVE  PoolTypeOK' /\ AtAWorker'
<1>. USE CycleFields
<1>1. ASSUME NextWorker(p) \/ NothingToClaim(p) PROVE PoolTypeOK' /\ AtAWorker'
  <2>1. cycle[p].turn + 1 \in Nat \ {0}
    OBVIOUS
  <2>. QED  BY <1>1, <2>1, VisitType DEF NextWorker, NothingToClaim
<1>2. ASSUME StartClaim(p) PROVE PoolTypeOK' /\ AtAWorker'
  <2>1. cycle[p].point = "ready" /\ GoTo(p, "claiming")
    BY <1>2 DEF StartClaim
  <2>2. TypeOK'
    BY <1>2, <2>1, BeginType, CopyType DEF StartClaim, BeginClaim, Stage
  <2>. QED  BY <2>1, <2>2, GoToType DEF Point
<1>3. ASSUME ClaimSaved(p) PROVE PoolTypeOK' /\ AtAWorker'
  <2>1. TypeOK'
    BY <1>3, StepType DEF ClaimSaved, Step
  <2>2. cycle' = [cycle EXCEPT ![p].point = "claimed", ![p].job = call[p].id]
    BY <1>3 DEF ClaimSaved
  <2>3. cycle' \in [Callers -> Cycle]
    <3>1. [cycle[p] EXCEPT !.point = "claimed", !.job = call[p].id] \in Cycle
      BY CallFields DEF Cycle, Point
    <3>2. cycle' = [cycle EXCEPT ![p] = [cycle[p] EXCEPT !.point = "claimed",
                                                         !.job = call[p].id]]
      BY <2>2
    <3>. QED  BY <3>1, <3>2 DEF PoolTypeOK
  <2>4. AtAWorker'
    BY <1>3, <2>2 DEF ClaimSaved, AtAWorker, PoolTypeOK, Cycle
  <2>. QED  BY <1>3, <2>1, <2>3, <2>4 DEF ClaimSaved, PoolTypeOK
<1>4. ASSUME NoHandler(p) PROVE PoolTypeOK' /\ AtAWorker'
  <2>1. TypeOK'
    BY <1>4, StepType DEF NoHandler, Step
  <2>. QED  BY <1>4, <2>1, GoToType DEF NoHandler, Point
<1>5. ASSUME TakeUp(p) PROVE PoolTypeOK' /\ AtAWorker'
  <2>. DEFINE s == [cycle[p].held EXCEPT !.status = "busy", !.job = cycle[p].job,
                                         !.beat = cycle[p].at]
  <2>1. s \in Snapshot
    BY DEF Snapshot
  <2>2. TypeOK'
    BY <1>5 DEF TakeUp, vars, TypeOK
  <2>3. Publish(p, s, "busy") /\ cycle[p].point # "off"
    BY <1>5 DEF TakeUp
  <2>. HIDE DEF s
  <2>. QED  BY <2>1, <2>2, <2>3, PublishType DEF Point
<1>6. ASSUME CallHandler(p) PROVE PoolTypeOK' /\ AtAWorker'
  <2>1. TypeOK'
    BY <1>6, StepType DEF CallHandler, Step
  <2>. QED  BY <1>6, <2>1, GoToType DEF CallHandler, Point
<1>7. ASSUME HandlerResolves(p) PROVE PoolTypeOK' /\ AtAWorker'
  <2>1. TypeOK'
    BY <1>7, StepType DEF HandlerResolves, Step
  <2>. QED  BY <1>7, <2>1, GoToType DEF HandlerResolves, Point
<1>8. ASSUME HandlerThrows(p) PROVE PoolTypeOK' /\ AtAWorker'
  <2>1. TypeOK'
    BY <1>8, StepType DEF HandlerThrows, Step
  <2>. QED  BY <1>8, <2>1, GoToType DEF HandlerThrows, Point
<1>9. ASSUME CompleteSaved(p) PROVE PoolTypeOK' /\ AtAWorker'
  <2>. DEFINE s == [cycle[p].held EXCEPT !.status = "idle", !.job = NoJob,
                                         !.processed = @ + 1, !.beat = cycle[p].at]
  <2>0. cycle[p].held.processed + 1 \in Nat
    BY DEF Snapshot
  <2>1. s \in Snapshot
    BY <2>0 DEF Snapshot
  <2>2. TypeOK'
    BY <1>9, StepType DEF CompleteSaved, Step
  <2>3. Publish(p, s, "finished") /\ cycle[p].point # "off"
    BY <1>9 DEF CompleteSaved
  <2>. HIDE DEF s
  <2>. QED  BY <2>1, <2>2, <2>3, PublishType DEF Point
<1>10. ASSUME FailSaved(p) PROVE PoolTypeOK' /\ AtAWorker'
  <2>. DEFINE s == [worker[Turn(p)] EXCEPT !.status = "error", !.job = NoJob,
                                           !.failed = @ + 1, !.beat = cycle[p].at]
  <2>1. cycle[p].point # "off"
    BY <1>10 DEF FailSaved
  <2>0. worker[Turn(p)].failed + 1 \in Nat
    BY <2>1 DEF Snapshot
  <2>2. s \in Snapshot
    BY <2>0, <2>1 DEF Snapshot
  <2>3. TypeOK'
    BY <1>10, StepType DEF FailSaved, Step
  <2>4. Publish(p, s, "reported")
    BY <1>10 DEF FailSaved
  <2>. HIDE DEF s
  <2>. QED  BY <2>1, <2>2, <2>3, <2>4, PublishType DEF Point
<1>. QED
  BY <1>1, <1>2, <1>3, <1>4, <1>5, <1>6, <1>7, <1>8, <1>9, <1>10 DEF CycleStep

LEMMA PoolStepType ==
  ASSUME PoolTypeOK, AtAWorker, [PoolNext]_allVars
  PROVE  PoolTypeOK' /\ AtAWorker'
<1>. USE CycleFields
<1>0. TypeOK
  BY DEF PoolTypeOK
<1>1. ASSUME NEW p \in Callers, StartCycle(p) PROVE PoolTypeOK' /\ AtAWorker'
  BY <1>0, <1>1, VisitType DEF StartCycle, TypeOK
<1>2. ASSUME NEW p \in Callers, CycleStep(p) PROVE PoolTypeOK' /\ AtAWorker'
  BY <1>2, CycleStepType
<1>3. ASSUME NEW p \in Callers, CycleRejects(p) PROVE PoolTypeOK' /\ AtAWorker'
  <2>1. TypeOK'
    BY <1>0, <1>3, ReturnType DEF CycleRejects, TypeOK
  <2>2. faults' \in 0..MaxFaults
    BY <1>3, WorkerPoolAssumption DEF CycleRejects, PoolTypeOK, WorkerPoolAssumption
  <2>3. cycle' = [cycle EXCEPT ![p] = Off] /\ worker' = worker
    BY <1>3 DEF CycleRejects
  <2>4. AtAWorker'
    BY <2>3 DEF AtAWorker, PoolTypeOK, Off
  <2>. QED  BY <2>1, <2>2, <2>3, <2>4, NewWorkerType DEF PoolTypeOK
<1>4. ASSUME NEW p \in Callers, FailFinished(p) PROVE PoolTypeOK' /\ AtAWorker'
  <2>1. TypeOK'
    BY <1>4, BeginType, CopyType DEF FailFinished, Stage
  <2>2. faults' \in 0..MaxFaults
    BY <1>4, WorkerPoolAssumption DEF FailFinished, PoolTypeOK, WorkerPoolAssumption
  <2>3. cycle' = [cycle EXCEPT ![p].point = "failing"] /\ worker' = worker
    BY <1>4 DEF FailFinished
  <2>4. cycle' \in [Callers -> Cycle]
    BY <2>3 DEF PoolTypeOK, Cycle, Point
  <2>5. AtAWorker'
    BY <1>4, <2>3 DEF FailFinished, AtAWorker, PoolTypeOK, Cycle
  <2>. QED  BY <2>1, <2>2, <2>3, <2>4, <2>5 DEF PoolTypeOK
<1>5. ASSUME NEW p \in Callers, Enqueueing(p) \/ Recovering(p) \/ Retrying(p)
      PROVE  PoolTypeOK' /\ AtAWorker'
  <2>1. Step(p)
    BY <1>5 DEF Enqueueing, Recovering, Retrying, Step
  <2>2. TypeOK'
    BY <1>0, <2>1, StepType
  <2>. QED  BY <1>5, <2>2 DEF Enqueueing, Recovering, Retrying, poolVars, PoolTypeOK, AtAWorker
<1>6. ASSUME NEW w \in Workers, RecordHeartbeat(w) PROVE PoolTypeOK' /\ AtAWorker'
  <2>1. worker' \in [Workers -> Snapshot]
    BY <1>0, <1>6 DEF RecordHeartbeat, PoolTypeOK, Snapshot, TypeOK
  <2>. QED  BY <1>6, <2>1 DEF RecordHeartbeat, vars, PoolTypeOK, TypeOK, AtAWorker
<1>7. ASSUME NEW w \in Workers, NEW t \in Instants, MonitorHeartbeat(w, t)
      PROVE  PoolTypeOK' /\ AtAWorker'
  <2>1. worker' \in [Workers -> Snapshot]
    BY <1>7 DEF MonitorHeartbeat, PoolTypeOK, Snapshot
  <2>. QED  BY <1>7, <2>1 DEF MonitorHeartbeat, vars, PoolTypeOK, TypeOK, AtAWorker
<1>8. CASE PoolRestart
  <2>1. TypeOK'
    BY <1>0, <1>8, IdleType DEF PoolRestart, Restart, TypeOK
  <2>. QED
    BY <1>8, <2>1, NewWorkerType DEF PoolRestart, PoolTypeOK, AtAWorker, Off
<1>9. CASE PoolTick
  <2>1. TypeOK'
    BY <1>0, <1>9 DEF PoolTick, Tick, TypeOK
  <2>. QED  BY <1>9, <2>1 DEF PoolTick, poolVars, PoolTypeOK, AtAWorker
<1>10. CASE UNCHANGED allVars
  BY <1>10 DEF allVars, vars, poolVars, PoolTypeOK, TypeOK, AtAWorker
<1>. QED
  BY <1>1, <1>2, <1>3, <1>4, <1>5, <1>6, <1>7, <1>8, <1>9, <1>10 DEF PoolNext

LEMMA PoolTypes == PoolSpec => [](PoolTypeOK /\ AtAWorker)
<1>1. PoolInit => PoolTypeOK /\ AtAWorker
  <2>1. Init => TypeOK
    BY AbsentType, IdleType DEF Init, TypeOK
  <2>2. 0 \in 0..MaxFaults
    BY WorkerPoolAssumption DEF WorkerPoolAssumption
  <2>. QED
    BY <2>1, <2>2, NewWorkerType DEF PoolInit, PoolTypeOK, AtAWorker, Off
<1>2. PoolTypeOK /\ AtAWorker /\ [PoolNext]_allVars => (PoolTypeOK /\ AtAWorker)'
  BY PoolStepType
<1>. QED  BY <1>1, <1>2, PTL DEF PoolSpec

(* Every variable of the queue and the pool keeps its type, however cycles *)
(* overlap, and no more saves reject than MaxFaults.                       *)
THEOREM PoolTypeCorrect == PoolSpec => []PoolTypeOK
BY PoolTypes, PTL

-----------------------------------------------------------------------------
(* The invariant is kept                                                   *)

(* A step of the only active caller that saves over no missing record      *)
(* leaves the others, enqueues at most, as they are.                       *)
LEMMA Bystanders ==
  ASSUME PoolTypeOK, AtAWorker, Alone, \A q \in Callers : Sane(q),
         NEW p \in Callers,
         \A q \in Callers \ {p} :
           ~Active(q) /\ call'[q] = call[q] /\ cycle'[q] = cycle[q],
         \A k \in Jobs : jobs[k].status = "absent" => jobs'[k] = jobs[k],
         call'[p].stage # "enqueue", Sane(p)'
  PROVE  Alone' /\ \A q \in Callers : Sane(q)'
<1>1. Alone'
  BY DEF Alone, Active
<1>2. ASSUME NEW q \in Callers \ {p} PROVE Sane(q)'
  <2>1. cycle[q].point = "off" /\ call[q].stage \in {"idle", "enqueue"}
    BY DEF Active
  <2>2. Coupled(q)' /\ Truthful(q)'
    BY <2>1 DEF Coupled, Truthful, Engaged
  <2>3. Stored(q)
    BY DEF Sane
  <2>4. Stored(q)'
    BY <2>1, <2>3 DEF Stored, Held
  <2>. QED  BY <2>2, <2>4 DEF Sane
<1>. QED  BY <1>1, <1>2

(* No worker is left busy by a step that takes the worker it makes or      *)
(* leaves busy on, or had nothing to do with it.                           *)
LEMMA Attended ==
  ASSUME NoneForgotten, NEW p \in Callers, faults' = faults,
         \A q \in Callers \ {p} : cycle'[q] = cycle[q],
         \A w \in Workers : worker'[w].status = "busy" =>
           Attends(p, w)' \/ (worker[w].status = "busy" /\ ~Attends(p, w))
  PROVE  NoneForgotten'
<1>. SUFFICES ASSUME NEW w \in Workers, worker'[w].status = "busy", faults' = 0
              PROVE  \E q \in Callers : Attends(q, w)'
  BY DEF NoneForgotten
<1>1. CASE Attends(p, w)'
  BY <1>1
<1>2. CASE worker[w].status = "busy" /\ ~Attends(p, w)
  <2>1. PICK q \in Callers : Attends(q, w)
    BY <1>2 DEF NoneForgotten
  <2>2. q # p
    BY <1>2, <2>1
  <2>3. Attends(q, w)'
    BY <2>1, <2>2 DEF Attends, Turn
  <2>. QED  BY <2>3
<1>. QED  BY <1>1, <1>2

(* The other callers while one is active.                                  *)
LEMMA OnlyOne ==
  ASSUME Alone, NEW p \in Callers, Active(p)
  PROVE  \A q \in Callers \ {p} : ~Active(q)
BY DEF Alone

(* A visit begins with no call in flight.                                  *)
LEMMA VisitSane ==
  ASSUME PoolTypeOK, AtAWorker, PoolInv, NEW p \in Callers, NEW n \in Nat \ {0}, NEW t,
         \A q \in Callers \ {p} : ~Active(q),
         cycle[p].point \in {"off", "ready", "finished", "reported"},
         call[p].stage = "idle", Visit(p, n, t), UNCHANGED <<vars, faults>>
  PROVE  PoolInv'
<1>1. call' = call /\ jobs' = jobs /\ faults' = faults
  BY DEF vars
<1>2. /\ \A q \in Callers \ {p} : cycle'[q] = cycle[q]
      /\ cycle'[p].point \in {"off", "ready"}
  BY DEF Visit, PoolTypeOK, Off
<1>3. Sane(p)'
  BY <1>1, <1>2 DEF Sane, Coupled, Stored, Truthful, Engaged
<1>4. \A w \in Workers : worker'[w].status = "busy" => worker[w].status = "busy"
  <2>1. CASE n <= Len(WorkerOrder)
    <3>. DEFINE ready == [worker[WorkerOrder[n]] EXCEPT !.status = "idle", !.job = NoJob, !.beat = t]
    <3>1. n \in 1..Len(WorkerOrder)
      BY <2>1, WorkerPoolAssumption DEF WorkerPoolAssumption
    <3>2. WorkerOrder[n] \in Workers
      BY <3>1, WorkerOfTurn
    <3>3. ready.status = "idle"
      BY <3>2 DEF PoolTypeOK, Snapshot
    <3>. HIDE DEF ready
    <3>4. worker' = [worker EXCEPT ![WorkerOrder[n]] = ready]
      BY <2>1 DEF Visit, ready
    <3>. QED  BY <3>3, <3>4 DEF PoolTypeOK
  <2>2. CASE ~(n <= Len(WorkerOrder))
    BY <2>2 DEF Visit
  <2>. QED  BY <2>1, <2>2
<1>5. \A w \in Workers : ~Attends(p, w)
  BY DEF Attends, Engaged
<1>6. NoneForgotten'
  BY <1>1, <1>2, <1>4, <1>5, Attended DEF PoolInv
<1>7. Alone' /\ \A q \in Callers : Sane(q)'
  BY <1>1, <1>2, <1>3, Bystanders DEF PoolInv
<1>. QED  BY <1>6, <1>7 DEF PoolInv

(* The steps of a visit, up to the end of its job.                         *)
LEMMA CycleStepSane ==
  ASSUME PoolTypeOK, AtAWorker, PoolInv, NEW p \in Callers, CycleStep(p)
  PROVE  PoolInv'
<1>. USE CycleFields, CallFields
<1>. DEFINE id == call[p].id
<1>a. Sane(p) /\ TypeOK
  BY DEF PoolInv
<1>b. Active(p) /\ \A q \in Callers \ {p} : ~Active(q)
  <2>1. Active(p)
    BY DEF CycleStep, NextWorker, NothingToClaim, StartClaim, ClaimSaved, NoHandler,
           TakeUp, CallHandler, HandlerResolves, HandlerThrows, CompleteSaved,
           FailSaved, Active
  <2>. QED  BY <2>1, OnlyOne DEF PoolInv
<1>1. ASSUME NextWorker(p) \/ NothingToClaim(p) PROVE PoolInv'
  <2>1. /\ cycle[p].point \in {"off", "ready", "finished", "reported"}
        /\ call[p].stage = "idle"
    BY <1>1, <1>a DEF NextWorker, NothingToClaim, Sane, Coupled
  <2>2. cycle[p].turn + 1 \in Nat \ {0}
    OBVIOUS
  <2>. QED  BY <1>1, <1>b, <2>1, <2>2, VisitSane DEF NextWorker, NothingToClaim
<1>2. ASSUME StartClaim(p) PROVE PoolInv'
  <2>1. PICK j \in Jobs : /\ IsNext(j, cycle[p].at)
                          /\ Begin(p, "claim", j, Turn(p), cycle[p].at, Copy(j))
    BY <1>2 DEF StartClaim, BeginClaim
  <2>2. /\ call'[p].stage = "claim" /\ call'[p].id = j /\ call'[p].by = Turn(p)
        /\ \A q \in Callers \ {p} : call'[q] = call[q]
        /\ jobs' = jobs
    BY <2>1, <1>a DEF Begin, TypeOK
  <2>3. /\ cycle'[p].point = "claiming" /\ cycle'[p].turn = cycle[p].turn
        /\ \A q \in Callers \ {p} : cycle'[q] = cycle[q]
        /\ worker' = worker /\ faults' = faults
    BY <1>2 DEF StartClaim, GoTo, PoolTypeOK, Cycle
  <2>4. jobs[j].status # "absent"
    BY <2>1 DEF IsNext, IsRunnable, Waiting
  <2>5. Sane(p)'
    BY <2>2, <2>3, <2>4 DEF Sane, Coupled, Stored, Truthful, Engaged, Turn
  <2>6. \A w \in Workers : ~Attends(p, w)
    BY <1>2 DEF StartClaim, Attends, Engaged
  <2>7. NoneForgotten'
    BY <2>3, <2>6, Attended DEF PoolInv
  <2>. QED  BY <1>b, <2>2, <2>3, <2>5, <2>7, Bystanders DEF PoolInv
<1>3. ASSUME ClaimSaved(p) PROVE PoolInv'
  <2>1. /\ cycle[p].point = "claiming" /\ call[p].stage = "claim"
        /\ call[p].by = Turn(p) /\ id \in Jobs /\ jobs[id].status # "absent"
    BY <1>3, <1>a DEF ClaimSaved, EndClaim, Sane, Coupled, Stored
  <2>2. /\ call'[p].stage = "claimed" /\ call'[p].id = id
        /\ \A q \in Callers \ {p} : call'[q] = call[q]
    BY <1>3, <1>a DEF ClaimSaved, EndClaim, TypeOK, Call
  <2>3. /\ cycle'[p].point = "claimed" /\ cycle'[p].job = id
        /\ cycle'[p].turn = cycle[p].turn
        /\ \A q \in Callers \ {p} : cycle'[q] = cycle[q]
        /\ worker' = worker /\ faults' = faults
    BY <1>3 DEF ClaimSaved, PoolTypeOK, Cycle
  <2>4. \A k \in Jobs : jobs'[k] = IF k = id THEN Claimed(Held(p), call[p].by, call[p].at)
                                             ELSE jobs[k]
    BY <1>3, <1>a DEF ClaimSaved, EndClaim, Save, TypeOK
  <2>5. jobs'[id].status = "running" /\ jobs'[id].claimedBy = Turn(p)
    BY <1>a, <2>1, <2>4 DEF Claimed, JobRec
  <2>6. Sane(p)'
    BY <2>1, <2>2, <2>3, <2>5 DEF Sane, Coupled, Stored, Truthful, Engaged, Turn
  <2>7. \A w \in Workers : ~Attends(p, w)
    BY <2>1 DEF Attends, Engaged
  <2>8. NoneForgotten'
    BY <2>3, <2>7, Attended DEF PoolInv
  <2>. QED  BY <1>b, <2>1, <2>2, <2>3, <2>4, <2>6, <2>8, Bystanders DEF PoolInv
<1>4. ASSUME NoHandler(p) \/ HandlerThrows(p) PROVE PoolInv'
  <2>1. /\ cycle[p].point \in {"claimed", "handling"}
        /\ call[p].stage \in {"claimed", "working"}
    BY <1>4 DEF NoHandler, HandlerThrows, BeginFail
  <2>2. /\ call'[p].stage = "fail" /\ call'[p].id = id
        /\ \A q \in Callers \ {p} : call'[q] = call[q]
        /\ jobs' = jobs
    BY <1>4, <1>a DEF NoHandler, HandlerThrows, BeginFail, TypeOK, Call
  <2>3. /\ cycle'[p].point = "failing" /\ cycle'[p].turn = cycle[p].turn
        /\ \A q \in Callers \ {p} : cycle'[q] = cycle[q]
        /\ worker' = worker /\ faults' = faults
    BY <1>4 DEF NoHandler, HandlerThrows, GoTo, PoolTypeOK, Cycle
  <2>4. Sane(p)'
    BY <1>a, <2>1, <2>2, <2>3 DEF Sane, Coupled, Stored, Truthful, Engaged, Turn
  <2>5. \A w \in Workers : Attends(p, w) => Attends(p, w)'
    BY <2>3 DEF Attends, Turn
  <2>6. NoneForgotten'
    BY <2>3, <2>5, Attended DEF PoolInv
  <2>. QED  BY <1>b, <2>2, <2>3, <2>4, <2>6, Bystanders DEF PoolInv
<1>5. ASSUME TakeUp(p) PROVE PoolInv'
  <2>. DEFINE s == [cycle[p].held EXCEPT !.status = "busy", !.job = cycle[p].job,
                                         !.beat = cycle[p].at]
  <2>1. /\ cycle[p].point = "claimed" /\ call[p].stage = "claimed"
        /\ call' = call /\ jobs' = jobs
    BY <1>5, <1>a DEF TakeUp, vars, Sane, Coupled
  <2>2. s.status = "busy" /\ s.job = cycle[p].job
    BY DEF Snapshot
  <2>3. Publish(p, s, "busy")
    BY <1>5 DEF TakeUp
  <2>. HIDE DEF s
  <2>4. /\ cycle'[p].point = "busy" /\ cycle'[p].turn = cycle[p].turn
        /\ cycle'[p].job = cycle[p].job
        /\ \A q \in Callers \ {p} : cycle'[q] = cycle[q]
        /\ faults' = faults
    BY <2>3 DEF Publish, PoolTypeOK, Cycle
  <2>5. /\ Turn(p) \in Workers
        /\ \A w \in Workers : worker'[w] = IF w = Turn(p) THEN s ELSE worker[w]
    BY <2>1, <2>3 DEF Publish, PoolTypeOK
  <2>6. Sane(p)'
    BY <1>a, <2>1, <2>2, <2>4, <2>5 DEF Sane, Coupled, Stored, Truthful, Engaged, Turn
  <2>7. \A w \in Workers : w = Turn(p) => Attends(p, w)'
    BY <2>4 DEF Attends, Engaged, Turn
  <2>8. \A w \in Workers : ~Attends(p, w)
    BY <2>1 DEF Attends, Engaged
  <2>9. NoneForgotten'
    BY <2>4, <2>5, <2>7, <2>8, Attended DEF PoolInv
  <2>. QED  BY <1>b, <2>1, <2>4, <2>6, <2>9, Bystanders DEF PoolInv
<1>6. ASSUME CallHandler(p) \/ HandlerResolves(p) PROVE PoolInv'
  <2>1. cycle[p].point \in {"busy", "handling"} /\ call[p].stage \in {"claimed", "working"}
    BY <1>6, <1>a DEF CallHandler, HandlerResolves, Sane, Coupled
  <2>2. /\ call'[p].id = id
        /\ \A q \in Callers \ {p} : call'[q] = call[q]
        /\ jobs' = jobs
    BY <1>6, <1>a DEF CallHandler, HandlerResolves, StartHandler, BeginComplete, TypeOK, Call
  <2>3. \/ call'[p].stage = "working" /\ cycle'[p].point = "handling"
        \/ call'[p].stage = "complete" /\ cycle'[p].point = "completing"
    BY <1>6, <1>a DEF CallHandler, HandlerResolves, StartHandler, BeginComplete, GoTo,
       TypeOK, Call, PoolTypeOK, Cycle
  <2>4. /\ cycle'[p].turn = cycle[p].turn /\ cycle'[p].job = cycle[p].job
        /\ \A q \in Callers \ {p} : cycle'[q] = cycle[q]
        /\ worker' = worker /\ faults' = faults
    BY <1>6 DEF CallHandler, HandlerResolves, GoTo, PoolTypeOK, Cycle
  <2>5. Sane(p)'
    BY <1>a, <2>1, <2>2, <2>3, <2>4 DEF Sane, Coupled, Stored, Truthful, Engaged, Turn
  <2>6. \A w \in Workers : Attends(p, w) => Attends(p, w)'
    BY <2>3, <2>4 DEF Attends, Engaged, Turn
  <2>7. NoneForgotten'
    BY <2>4, <2>6, Attended DEF PoolInv
  <2>. QED  BY <1>b, <2>2, <2>3, <2>4, <2>5, <2>7, Bystanders DEF PoolInv
<1>7. ASSUME CompleteSaved(p) PROVE PoolInv'
  <2>. DEFINE s == [cycle[p].held EXCEPT !.status = "idle", !.job = NoJob,
                                         !.processed = @ + 1, !.beat = cycle[p].at]
  <2>1. /\ cycle[p].point = "completing" /\ call[p].stage = "complete"
        /\ id \in Jobs /\ jobs[id].status # "absent" /\ cycle[p].job = id
    BY <1>7, <1>a DEF CompleteSaved, EndComplete, Sane, Coupled, Stored, Engaged
  <2>2. call'[p].stage = "idle" /\ \A q \in Callers \ {p} : call'[q] = call[q]
    BY <1>7, <1>a DEF CompleteSaved, EndComplete, Return, Idle, TypeOK
  <2>3. \A k \in Jobs : jobs'[k] = IF k = id THEN Completed(Held(p)) ELSE jobs[k]
    BY <1>7, <1>a DEF CompleteSaved, EndComplete, Save, TypeOK
  <2>4. jobs'[id].status # "absent"
    BY <1>a, <2>1, <2>3 DEF Completed, JobRec
  <2>5. s.status = "idle"
    BY DEF Snapshot
  <2>6. Publish(p, s, "finished")
    BY <1>7 DEF CompleteSaved
  <2>. HIDE DEF s
  <2>7. /\ cycle'[p].point = "finished" /\ cycle'[p].job = cycle[p].job
        /\ \A q \in Callers \ {p} : cycle'[q] = cycle[q]
        /\ faults' = faults
    BY <2>6 DEF Publish, PoolTypeOK, Cycle
  <2>8. \A w \in Workers : worker'[w] = IF w = Turn(p) THEN s ELSE worker[w]
    BY <2>6 DEF Publish, PoolTypeOK
  <2>9. Sane(p)'
    BY <2>1, <2>2, <2>4, <2>7 DEF Sane, Coupled, Stored, Truthful, Engaged
  <2>10. \A w \in Workers : worker'[w].status = "busy" =>
           worker[w].status = "busy" /\ ~Attends(p, w)
    BY <2>5, <2>8 DEF Attends
  <2>11. NoneForgotten'
    BY <2>7, <2>10, Attended DEF PoolInv
  <2>. QED  BY <1>b, <2>1, <2>2, <2>3, <2>7, <2>9, <2>11, Bystanders DEF PoolInv
<1>8. ASSUME FailSaved(p) PROVE PoolInv'
  <2>. DEFINE s == [worker[Turn(p)] EXCEPT !.status = "error", !.job = NoJob,
                                           !.failed = @ + 1, !.beat = cycle[p].at]
  <2>1. /\ cycle[p].point = "failing" /\ call[p].stage = "fail"
        /\ id \in Jobs /\ jobs[id].status # "absent"
    BY <1>8, <1>a DEF FailSaved, EndFail, Sane, Stored
  <2>2. call'[p].stage = "idle" /\ \A q \in Callers \ {p} : call'[q] = call[q]
    BY <1>8, <1>a DEF FailSaved, EndFail, Return, Idle, TypeOK
  <2>3. \A k \in Jobs : k # id => jobs'[k] = jobs[k]
    BY <1>8, <1>a DEF FailSaved, EndFail, Save, TypeOK
  <2>4. s.status = "error"
    BY <2>1 DEF Snapshot
  <2>5. Publish(p, s, "reported")
    BY <1>8 DEF FailSaved
  <2>. HIDE DEF s
  <2>6. /\ cycle'[p].point = "reported"
        /\ \A q \in Callers \ {p} : cycle'[q] = cycle[q]
        /\ faults' = faults
    BY <2>5 DEF Publish, PoolTypeOK, Cycle
  <2>7. \A w \in Workers : worker'[w] = IF w = Turn(p) THEN s ELSE worker[w]
    BY <2>5 DEF Publish, PoolTypeOK
  <2>8. Sane(p)'
    BY <2>2, <2>6 DEF Sane, Coupled, Stored, Truthful, Engaged
  <2>9. \A w \in Workers : worker'[w].status = "busy" =>
          worker[w].status = "busy" /\ ~Attends(p, w)
    BY <2>4, <2>7 DEF Attends
  <2>10. NoneForgotten'
    BY <2>6, <2>9, Attended DEF PoolInv
  <2>. QED  BY <1>b, <2>1, <2>2, <2>3, <2>6, <2>8, <2>10, Bystanders DEF PoolInv
<1>. QED  BY <1>1, <1>2, <1>3, <1>4, <1>5, <1>6, <1>7, <1>8 DEF CycleStep

(* A save that rejects ends the cycle, or has it fail its completed job.   *)
LEMMA RejectionSane ==
  ASSUME PoolTypeOK, AtAWorker, PoolInv, NEW p \in Callers,
         CycleRejects(p) \/ FailFinished(p)
  PROVE  PoolInv'
<1>. USE CycleFields
<1>a. Sane(p) /\ TypeOK
  BY DEF PoolInv
<1>b. \A q \in Callers \ {p} : ~Active(q)
  BY OnlyOne DEF PoolInv, CycleRejects, FailFinished, Active
<1>1. faults' # 0 /\ jobs' = jobs
  BY DEF CycleRejects, FailFinished, Begin, PoolTypeOK
<1>2. NoneForgotten'
  BY <1>1 DEF NoneForgotten
<1>3. CASE CycleRejects(p)
  <2>1. /\ call'[p].stage = "idle" /\ cycle'[p].point = "off"
        /\ \A q \in Callers \ {p} : call'[q] = call[q] /\ cycle'[q] = cycle[q]
    BY <1>3, <1>a DEF CycleRejects, Return, Idle, Off, TypeOK, PoolTypeOK
  <2>2. Sane(p)'
    BY <2>1 DEF Sane, Coupled, Stored, Truthful, Engaged
  <2>. QED  BY <1>1, <1>2, <1>b, <2>1, <2>2, Bystanders DEF PoolInv
<1>4. CASE FailFinished(p)
  <2>1. cycle[p].job \in Jobs /\ jobs[cycle[p].job].status # "absent"
    BY <1>4, <1>a DEF FailFinished, Sane, Stored
  <2>2. /\ call'[p].stage = "fail" /\ call'[p].id = cycle[p].job
        /\ \A q \in Callers \ {p} : call'[q] = call[q]
    BY <1>4, <1>a DEF FailFinished, Begin, TypeOK
  <2>3. /\ cycle'[p].point = "failing"
        /\ \A q \in Callers \ {p} : cycle'[q] = cycle[q]
    BY <1>4 DEF FailFinished, PoolTypeOK, Cycle
  <2>4. Sane(p)'
    BY <1>1, <2>1, <2>2, <2>3 DEF Sane, Coupled, Stored, Truthful, Engaged
  <2>. QED  BY <1>1, <1>2, <1>b, <2>2, <2>3, <2>4, Bystanders DEF PoolInv
<1>. QED  BY <1>3, <1>4

(* A producer's enqueue goes on beside the active caller.                  *)
LEMMA EnqueueSane ==
  ASSUME PoolTypeOK, AtAWorker, PoolInv, Discipline # "free",
         NEW p \in Callers, Enqueueing(p)
  PROVE  PoolInv'
<1>. USE CycleFields, CallFields
<1>a. (\A q \in Callers : Sane(q)) /\ Alone /\ TypeOK
  BY DEF PoolInv
<1>b. cycle[p].point = "off" /\ cycle' = cycle /\ worker' = worker /\ faults' = faults
  BY DEF Enqueueing, poolVars
<1>c. NoneForgotten'
  BY <1>b DEF PoolInv, NoneForgotten, Attends, Turn
<1>1. ASSUME NEW j \in Jobs, BeginEnqueue(p, j) PROVE PoolInv'
  <2>1. /\ call[p].stage = "idle"
        /\ \A q \in Callers : call[q].stage # "enqueue"
    BY <1>1 DEF BeginEnqueue, MayStart, Lane
  <2>2. /\ call'[p].stage = "enqueue" /\ call'[p].id = j /\ call'[p].seen = Copy(j)
        /\ \A q \in Callers \ {p} : call'[q] = call[q]
        /\ jobs' = jobs
    BY <1>1, <1>a DEF BeginEnqueue, Begin, TypeOK
  <2>3. Held(p)' = jobs[j]
    BY <2>2 DEF Held, Copy, NothingRead
  <2>4. Alone'
    BY <1>a, <1>b, <2>1, <2>2 DEF Alone, Active
  <2>5. Sane(p)'
    BY <1>b, <2>2, <2>3 DEF Sane, Coupled, Stored, Truthful, Engaged
  <2>6. ASSUME NEW q \in Callers \ {p} PROVE Sane(q)'
    BY <1>a, <1>b, <2>2 DEF Sane, Coupled, Stored, Truthful, Held, Listed, Turn
  <2>. QED  BY <1>c, <2>4, <2>5, <2>6 DEF PoolInv
<1>2. ASSUME EndEnqueue(p) PROVE PoolInv'
  <2>1. call[p].stage = "enqueue" /\ call[p].id \in Jobs
    BY <1>2, <1>a DEF EndEnqueue, Sane, Stored
  <2>2. /\ call'[p].stage = "idle"
        /\ \A q \in Callers \ {p} : call'[q] = call[q]
    BY <1>2, <1>a DEF EndEnqueue, Return, Idle, TypeOK
  <2>3. \A k \in Jobs : jobs[k].status # "absent" => jobs'[k] = jobs[k]
    BY <1>2, <1>a, <2>1 DEF EndEnqueue, Save, TypeOK, Sane, Stored
  <2>4. Alone'
    BY <1>a, <1>b, <2>1, <2>2 DEF Alone, Active
  <2>5. Sane(p)'
    BY <1>b, <2>2 DEF Sane, Coupled, Stored, Truthful, Engaged
  <2>6. ASSUME NEW q \in Callers \ {p} PROVE Sane(q)'
    <3>1. call[q].stage # "enqueue"
      BY <1>a, <2>1 DEF Alone
    <3>2. Coupled(q)'
      BY <1>a, <1>b, <2>2 DEF Sane, Coupled, Turn
    <3>3. Stored(q)'
      BY <1>a, <1>b, <2>2, <2>3, <3>1 DEF Sane, Stored, Listed
    <3>4. cycle[q].point \in Engaged \cup {"claimed"} =>
            cycle[q].job \in Jobs /\ jobs'[cycle[q].job] = jobs[cycle[q].job]
      BY <1>a, <2>3 DEF Sane, Coupled, Stored, Truthful, Engaged
    <3>5. Truthful(q)'
      BY <1>a, <1>b, <3>4 DEF Sane, Truthful, Turn
    <3>. QED  BY <3>2, <3>3, <3>5 DEF Sane
  <2>. QED  BY <1>c, <2>4, <2>5, <2>6 DEF PoolInv
<1>. QED  BY <1>1, <1>2 DEF Enqueueing

(* Recovery and operator retries are the loop's own.                       *)
LEMMA MaintenanceSane ==
  ASSUME PoolTypeOK, AtAWorker, PoolInv, Discipline # "free",
         NEW p \in Callers, Recovering(p) \/ Retrying(p)
  PROVE  PoolInv'
<1>. USE CycleFields, CallFields
<1>a. Sane(p) /\ Alone /\ TypeOK /\ cycle[p] \in Cycle
  BY DEF PoolInv
<1>b. cycle' = cycle /\ worker' = worker /\ faults' = faults
  BY DEF Recovering, Retrying, poolVars
<1>c. NoneForgotten'
  BY <1>b DEF PoolInv, NoneForgotten, Attends, Turn
<1>1. ASSUME LoopIsFree(p), BeginRecover(p) PROVE PoolInv'
  <2>1. cycle[p].point = "off" /\ \A q \in Callers \ {p} : ~Active(q)
    BY <1>1 DEF LoopIsFree, Active
  <2>2. /\ call'[p].stage = "recover" /\ jobs' = jobs
        /\ call'[p].seen = [j \in Jobs |-> IF IsStale(jobs[j], now) THEN jobs[j] ELSE Absent]
        /\ \A q \in Callers \ {p} : call'[q] = call[q]
    BY <1>1, <1>a DEF BeginRecover, Begin, TypeOK
  <2>3. \A j \in Listed(p)' : jobs'[j].status # "absent"
    BY <2>2 DEF Listed, IsStale, Absent
  <2>4. Sane(p)'
    BY <1>b, <2>1, <2>2, <2>3 DEF Sane, Coupled, Stored, Truthful, Engaged
  <2>. QED  BY <1>b, <1>c, <2>1, <2>2, <2>4, Bystanders DEF PoolInv
<1>2. ASSUME NEW j \in Jobs, RecoverOne(p, j) PROVE PoolInv'
  <2>1. call[p].stage = "recover" /\ cycle[p].point = "off"
    BY <1>2, <1>a DEF RecoverOne, Sane, Coupled, Cycle, Point
  <2>2. \A q \in Callers \ {p} : ~Active(q)
    BY <1>a, <2>1, OnlyOne DEF Active
  <2>3. jobs[j].status # "absent"
    BY <1>2, <1>a DEF RecoverOne, Sane, Stored
  <2>4. \A k \in Jobs : jobs'[k] =
          IF k = j THEN Recovered(j, call[p].seen[j], call[p].at) ELSE jobs[k]
    BY <1>2, <1>a DEF RecoverOne, Save, TypeOK
  <2>5. jobs'[j].status # "absent"
    <3>1. PICK r \in JobRec : r = call[p].seen[j]
      BY <1>a
    <3>2. Recovered(j, r, call[p].at).status # "absent"
      BY DEF Recovered, JobRec
    <3>. QED  BY <2>4, <3>1, <3>2
  <2>6. \A q \in Callers \ {p} : call'[q] = call[q]
    BY <1>2, <1>a DEF RecoverOne, Return, TypeOK
  <2>7. \/ call'[p].stage = "idle"
        \/ /\ call'[p].stage = "recover"
           /\ \A k \in Jobs : call'[p].seen[k] = IF k = j THEN Absent ELSE call[p].seen[k]
    BY <1>2, <1>a, <2>1 DEF RecoverOne, Return, Idle, TypeOK, Call
  <2>8. Sane(p)'
    BY <1>a, <1>b, <2>1, <2>4, <2>5, <2>7
       DEF Sane, Coupled, Stored, Truthful, Engaged, Listed, Absent
  <2>. QED  BY <1>a, <1>b, <1>c, <2>2, <2>3, <2>4, <2>6, <2>7, <2>8, Bystanders DEF PoolInv
<1>3. ASSUME NEW j \in Jobs, LoopIsFree(p), BeginRetry(p, j) PROVE PoolInv'
  <2>1. cycle[p].point = "off" /\ \A q \in Callers \ {p} : ~Active(q)
    BY <1>3 DEF LoopIsFree, Active
  <2>2. /\ call'[p].stage = "retry" /\ call'[p].id = j /\ jobs' = jobs
        /\ \A q \in Callers \ {p} : call'[q] = call[q]
    BY <1>3, <1>a DEF BeginRetry, Begin, TypeOK
  <2>3. Sane(p)'
    BY <1>3, <1>b, <2>1, <2>2 DEF Sane, Coupled, Stored, Truthful, Engaged, BeginRetry
  <2>. QED  BY <1>b, <1>c, <2>1, <2>2, <2>3, Bystanders DEF PoolInv
<1>4. ASSUME cycle[p].point = "off", EndRetry(p) PROVE PoolInv'
  <2>1. call[p].stage = "retry" /\ call[p].id \in Jobs /\ jobs[call[p].id].status # "absent"
    BY <1>4, <1>a DEF EndRetry, Sane, Stored
  <2>2. \A q \in Callers \ {p} : ~Active(q)
    BY <1>a, <2>1, OnlyOne DEF Active
  <2>3. /\ call'[p].stage = "idle"
        /\ \A q \in Callers \ {p} : call'[q] = call[q]
        /\ \A k \in Jobs : k # call[p].id => jobs'[k] = jobs[k]
    BY <1>4, <1>a DEF EndRetry, Return, Idle, Save, TypeOK
  <2>4. Sane(p)'
    BY <1>4, <1>b, <2>3 DEF Sane, Coupled, Stored, Truthful, Engaged
  <2>. QED  BY <1>b, <1>c, <2>1, <2>2, <2>3, <2>4, Bystanders DEF PoolInv
<1>. QED  BY <1>1, <1>2, <1>3, <1>4 DEF Recovering, Retrying

LEMMA PoolInvStep ==
  ASSUME PoolTypeOK, AtAWorker, PoolInv, Discipline # "free", [PoolNext]_allVars
  PROVE  PoolInv'
<1>. USE CycleFields
<1>1. ASSUME NEW p \in Callers, StartCycle(p) PROVE PoolInv'
  <2>1. /\ cycle[p].point = "off" /\ call[p].stage = "idle" /\ now \in Nat
        /\ \A q \in Callers \ {p} : ~Active(q)
    BY <1>1 DEF StartCycle, LoopIsFree, Active, TypeOK
  <2>. QED  BY <1>1, <2>1, VisitSane DEF StartCycle
<1>2. ASSUME NEW p \in Callers, CycleStep(p) PROVE PoolInv'
  BY <1>2, CycleStepSane
<1>3. ASSUME NEW p \in Callers, CycleRejects(p) \/ FailFinished(p) PROVE PoolInv'
  BY <1>3, RejectionSane
<1>4. ASSUME NEW p \in Callers, Enqueueing(p) PROVE PoolInv'
  BY <1>4, EnqueueSane
<1>5. ASSUME NEW p \in Callers, Recovering(p) \/ Retrying(p) PROVE PoolInv'
  BY <1>5, MaintenanceSane
<1>6. ASSUME NEW w \in Workers,
             RecordHeartbeat(w) \/ \E t \in Instants : MonitorHeartbeat(w, t)
      PROVE  PoolInv'
  <2>1. UNCHANGED <<vars, cycle, faults>>
    BY <1>6 DEF RecordHeartbeat, MonitorHeartbeat
  <2>2. \A v \in Workers :
          /\ worker'[v].job = worker[v].job
          /\ worker'[v].status = "busy" <=> worker[v].status = "busy"
    BY <1>6 DEF RecordHeartbeat, MonitorHeartbeat, PoolTypeOK, Snapshot
  <2>3. NoneForgotten'
    BY <2>1, <2>2 DEF PoolInv, NoneForgotten, Attends, Turn
  <2>4. Alone'
    BY <2>1 DEF PoolInv, Alone, Active, vars
  <2>5. ASSUME NEW q \in Callers PROVE Sane(q)'
    <3>1. Coupled(q)' /\ Stored(q)'
      BY <2>1 DEF PoolInv, Sane, Coupled, Stored, Held, Listed, Turn, vars
    <3>2. cycle[q].point \in Engaged => Turn(q) \in Workers
      BY DEF Engaged
    <3>3. Truthful(q)'
      BY <2>1, <2>2, <3>2 DEF PoolInv, Sane, Truthful, Turn, vars
    <3>. QED  BY <3>1, <3>3 DEF Sane
  <2>. QED  BY <2>3, <2>4, <2>5 DEF PoolInv
<1>7. CASE PoolRestart
  <2>1. \A p \in Callers : call'[p].stage = "idle" /\ cycle'[p].point = "off"
    BY <1>7 DEF PoolRestart, Restart, Idle, Off
  <2>2. \A w \in Workers : worker'[w].status = "idle"
    BY <1>7 DEF PoolRestart, NewWorker
  <2>. QED
    BY <2>1, <2>2 DEF PoolInv, Alone, Active, Sane, Coupled, Stored, Truthful, Engaged,
                      NoneForgotten
<1>8. CASE PoolTick \/ UNCHANGED allVars
  <2>1. UNCHANGED <<jobs, call, worker, cycle, faults>>
    BY <1>8 DEF PoolTick, Tick, poolVars, allVars, vars
  <2>2. Alone'
    BY <2>1 DEF PoolInv, Alone, Active
  <2>3. \A p \in Callers : Sane(p)'
    <3>1. \A p \in Callers : Sane(p) => Sane(p)'
      BY <2>1 DEF Sane, Coupled, Stored, Truthful, Held, Listed, Turn
    <3>. QED  BY <3>1 DEF PoolInv
  <2>4. NoneForgotten'
    BY <2>1 DEF PoolInv, NoneForgotten, Attends, Turn
  <2>. QED  BY <2>2, <2>3, <2>4 DEF PoolInv
<1>. QED  BY <1>1, <1>2, <1>3, <1>4, <1>5, <1>6, <1>7, <1>8 DEF PoolNext

LEMMA PoolInvariant == Discipline # "free" /\ PoolSpec => []PoolInv
<1>. SUFFICES ASSUME Discipline # "free" PROVE PoolSpec => []PoolInv
  OBVIOUS
<1>1. PoolInit => PoolInv
  BY DEF PoolInit, Init, Idle, Off, NewWorker, PoolInv, Alone, Active, Sane, Coupled,
         Stored, Truthful, Engaged, NoneForgotten
<1>2. PoolTypeOK /\ AtAWorker /\ PoolInv /\ [PoolNext]_allVars => PoolInv'
  BY PoolInvStep
<1>. QED  BY <1>1, <1>2, PoolTypes, PTL DEF PoolSpec

(* When cycles and maintenance await one another, whatever producers and   *)
(* heartbeats do beside them: a worker in the middle of a job has a busy   *)
(* snapshot of it and owns it in the repository, and no other snapshot is  *)
(* busy until a save is rejected.                                          *)
THEOREM BusyHolds == Discipline # "free" /\ PoolSpec => []BusyIsTrue
<1>1. PoolInv => BusyIsTrue
  BY DEF PoolInv, Sane, Truthful, NoneForgotten, Attends, BusyIsTrue
<1>. QED  BY <1>1, PoolInvariant, PTL

-----------------------------------------------------------------------------
(* Sums over a finite set: the fold of MapThenSumSet, seen as a function  *)
(* on the subsets.                                                         *)

Pick(s) == CHOOSE x \in s : TRUE

(* g sums f over the subsets of S, element by element as MapThenSumSet.    *)
IsSum(f, S, g) ==
  g = [s \in SUBSET S |-> IF s = {} THEN 0 ELSE f[Pick(s)] + g[s \ {Pick(s)}]]

LEMMA PickIn ==
  ASSUME NEW s, s # {}
  PROVE  Pick(s) \in s
BY DEF Pick

(* Of the subsets of a finite set, some are smallest.                      *)
LEMMA Smallest ==
  ASSUME NEW S, IsFiniteSet(S), NEW B, B \subseteq SUBSET S, B # {}
  PROVE  \E s \in B : \A t \in SUBSET s : t \in B => t = s
<1>1. B \subseteq FiniteSubsetsOf(S)
  BY FS_Subset DEF FiniteSubsetsOf
<1>2. PICK s \in B : \A t \in B : ~(<<t, s>> \in StrictSubsetOrdering(S))
  BY <1>1, FS_StrictSubsetOrderingWellFounded, WFMin
<1>3. \A t \in SUBSET s : t \in B => t = s
  BY <1>2 DEF StrictSubsetOrdering
<1>. QED  BY <1>3

(* The sums of functions that agree do.                                    *)
LEMMA SumsAgree ==
  ASSUME NEW S, NEW T, IsFiniteSet(S), IsFiniteSet(T), NEW f, NEW e, NEW g, NEW h,
         IsSum(f, S, g), IsSum(e, T, h),
         NEW U, U \subseteq S, U \subseteq T, \A x \in U : f[x] = e[x]
  PROVE  g[U] = h[U]
<1>. DEFINE B == {s \in SUBSET U : g[s] # h[s]}
<1>0. B \subseteq SUBSET U
  OBVIOUS
<1>1. IsFiniteSet(U)
  BY FS_Subset
<1>2. CASE B = {}
  BY <1>2
<1>3. CASE B # {}
  <2>. HIDE DEF B
  <2>1. PICK s \in B : \A t \in SUBSET s : t \in B => t = s
    BY <1>0, <1>1, <1>3, Smallest
  <2>. USE DEF B
  <2>2. s \in SUBSET S /\ s \in SUBSET T /\ s \in SUBSET U
    OBVIOUS
  <2>3. CASE s = {}
    BY <2>1, <2>2, <2>3 DEF IsSum
  <2>4. CASE s # {}
    <3>. DEFINE c == Pick(s)
    <3>1. c \in s /\ f[c] = e[c]
      BY <2>2, <2>4, PickIn
    <3>2. g[s \ {c}] = h[s \ {c}]
      BY <2>1, <2>2, <3>1
    <3>3. g[s] = f[c] + g[s \ {c}] /\ h[s] = e[c] + h[s \ {c}]
      BY <2>2, <2>4 DEF IsSum
    <3>. QED  BY <3>1, <3>2, <3>3
  <2>. QED  BY <2>3, <2>4
<1>. QED  BY <1>2, <1>3

(* There is a sum.                                                         *)
LEMMA SumExists ==
  ASSUME NEW S, IsFiniteSet(S), NEW f
  PROVE  \E g : IsSum(f, S, g)
<1>. DEFINE Summed(s) == \E g : IsSum(f, s, g)
           B == {s \in SUBSET S : ~Summed(s)}
<1>0. B \subseteq SUBSET S
  OBVIOUS
<1>1. CASE B = {}
  BY <1>1
<1>2. CASE B # {}
  <2>. HIDE DEF B
  <2>1. PICK s \in B : \A t \in SUBSET s : t \in B => t = s
    BY <1>0, <1>2, Smallest
  <2>. USE DEF B
  <2>2. \A t \in SUBSET s : t # s => Summed(t)
    BY <2>1
  <2>. DEFINE G(t) == (CHOOSE g : IsSum(f, t, g))
             v(t) == IF t # s THEN G(t)[t] ELSE 0
             c == Pick(s)
             g == [t \in SUBSET s |-> IF t # s THEN v(t)
                                      ELSE IF s = {} THEN 0 ELSE f[c] + v(s \ {c})]
  <2>3. \A t \in SUBSET s : t # s => IsSum(f, t, G(t))
    BY <2>2
  <2>. HIDE DEF G
  <2>4. ASSUME NEW t \in SUBSET s
        PROVE  g[t] = IF t = {} THEN 0 ELSE f[Pick(t)] + g[t \ {Pick(t)}]
    <3>. DEFINE d == Pick(t)
    <3>1. CASE t = {} /\ t # s
      BY <2>3, <3>1 DEF IsSum
    <3>2. CASE t = {} /\ t = s
      BY <3>2
    <3>3. CASE t # {} /\ t # s
      <4>1. d \in t
        BY <3>3, PickIn
      <4>2. G(t)[t] = f[d] + G(t)[t \ {d}]
        BY <2>3, <3>3 DEF IsSum
      <4>3. t \ {d} \in SUBSET s /\ t \ {d} # s /\ t \ {d} \subseteq t
        BY <4>1
      <4>4. IsFiniteSet(s) /\ IsFiniteSet(t) /\ IsFiniteSet(t \ {d})
        BY FS_Subset
      <4>5. G(t)[t \ {d}] = G(t \ {d})[t \ {d}]
        BY <2>3, <3>3, <4>3, <4>4, SumsAgree
      <4>. QED  BY <3>3, <4>2, <4>3, <4>5
    <3>4. CASE t # {} /\ t = s
      <4>1. c \in s /\ s \ {c} # s
        BY <3>4, PickIn
      <4>. QED  BY <3>4, <4>1
    <3>. QED  BY <3>1, <3>2, <3>3, <3>4
  <2>5. IsSum(f, s, g)
    BY <2>4 DEF IsSum
  <2>. QED  BY <2>1, <2>5
<1>. QED  BY <1>1, <1>2

(* A sum of numbers is one, and its order does not matter.                 *)
LEMMA SumIsNat ==
  ASSUME NEW S, IsFiniteSet(S), NEW f \in [S -> Nat], NEW g, IsSum(f, S, g),
         NEW U \in SUBSET S
  PROVE  g[U] \in Nat
<1>. DEFINE B == {s \in SUBSET S : g[s] \notin Nat}
<1>0. B \subseteq SUBSET S
  OBVIOUS
<1>1. CASE B = {}
  BY <1>1
<1>2. CASE B # {}
  <2>. HIDE DEF B
  <2>1. PICK s \in B : \A t \in SUBSET s : t \in B => t = s
    BY <1>0, <1>2, Smallest
  <2>. USE DEF B
  <2>2. s # {}
    BY <2>1 DEF IsSum
  <2>. DEFINE c == Pick(s)
  <2>3. c \in s
    BY <2>2, PickIn
  <2>4. g[s \ {c}] \in Nat
    BY <2>1, <2>3
  <2>5. g[s] = f[c] + g[s \ {c}] /\ f[c] \in Nat
    BY <2>2, <2>3 DEF IsSum
  <2>. QED  BY <2>1, <2>4, <2>5
<1>. QED  BY <1>1, <1>2

LEMMA SumWithout ==
  ASSUME NEW S, IsFiniteSet(S), NEW f \in [S -> Nat], NEW g, IsSum(f, S, g),
         NEW U \in SUBSET S, NEW x \in U
  PROVE  g[U] = f[x] + g[U \ {x}]
<1>. DEFINE Law(s) == \A y \in s : g[s] = f[y] + g[s \ {y}]
           B == {s \in SUBSET S : ~Law(s)}
<1>0. B \subseteq SUBSET S
  OBVIOUS
<1>1. CASE B = {}
  BY <1>1
<1>2. CASE B # {}
  <2>. HIDE DEF B
  <2>1. PICK s \in B : \A t \in SUBSET s : t \in B => t = s
    BY <1>0, <1>2, Smallest
  <2>. USE DEF B
  <2>2. PICK y \in s : g[s] # f[y] + g[s \ {y}]
    BY <2>1
  <2>. DEFINE c == Pick(s)
  <2>3. c \in s /\ g[s] = f[c] + g[s \ {c}]
    BY <2>2, PickIn DEF IsSum
  <2>4. c # y
    BY <2>2, <2>3
  <2>5. Law(s \ {c}) /\ Law(s \ {y})
    BY <2>1, <2>2, <2>3
  <2>6. (s \ {c}) \ {y} = (s \ {y}) \ {c}
    OBVIOUS
  <2>7. g[s \ {c}] = f[y] + g[(s \ {c}) \ {y}] /\ g[s \ {y}] = f[c] + g[(s \ {y}) \ {c}]
    BY <2>2, <2>3, <2>4, <2>5
  <2>8. f[c] \in Nat /\ f[y] \in Nat /\ g[(s \ {c}) \ {y}] \in Nat
    BY <2>3, SumIsNat
  <2>. QED  BY <2>2, <2>3, <2>6, <2>7, <2>8
<1>. QED  BY <1>1, <1>2

(* The sum follows a change of one element.                                *)
LEMMA SumChanges ==
  ASSUME NEW S, IsFiniteSet(S), NEW f \in [S -> Nat], NEW e \in [S -> Nat], NEW g, NEW h,
         IsSum(f, S, g), IsSum(e, S, h), NEW x \in S, NEW d \in Nat, e[x] = f[x] + d,
         \A y \in S : y # x => e[y] = f[y]
  PROVE  g[S] \in Nat /\ h[S] = g[S] + d
<1>0. S \in SUBSET S
  OBVIOUS
<1>1. g[S] = f[x] + g[S \ {x}]
  BY <1>0, SumWithout
<1>1a. h[S] = e[x] + h[S \ {x}]
  BY <1>0, SumWithout
<1>2. g[S \ {x}] = h[S \ {x}]
  BY SumsAgree
<1>3. g[S \ {x}] \in Nat /\ f[x] \in Nat
  BY SumIsNat
<1>. QED  BY <1>1, <1>1a, <1>2, <1>3

(* What adds up to nothing.                                                *)
LEMMA SumOfNone ==
  ASSUME NEW S, IsFiniteSet(S), NEW g, IsSum([x \in S |-> 0], S, g)
  PROVE  g[S] = 0
<1>. DEFINE B == {s \in SUBSET S : g[s] # 0}
<1>0. B \subseteq SUBSET S
  OBVIOUS
<1>1. CASE B = {}
  BY <1>1
<1>2. CASE B # {}
  <2>. HIDE DEF B
  <2>1. PICK s \in B : \A t \in SUBSET s : t \in B => t = s
    BY <1>0, <1>2, Smallest
  <2>. USE DEF B
  <2>2. s # {}
    BY <2>1 DEF IsSum
  <2>3. Pick(s) \in s
    BY <2>2, PickIn
  <2>4. g[s \ {Pick(s)}] = 0
    BY <2>1, <2>3
  <2>5. s \in SUBSET S /\ [x \in S |-> 0][Pick(s)] = 0
    BY <2>3
  <2>6. g[s] = [x \in S |-> 0][Pick(s)] + g[s \ {Pick(s)}]
    BY <2>2, <2>5 DEF IsSum
  <2>. QED  BY <2>1, <2>4, <2>5, <2>6
<1>. QED  BY <1>1, <1>2

-----------------------------------------------------------------------------
(* The totals of the account                                               *)

(* Attempts and Ended are such sums, before a step and after it.           *)
LEMMA AttemptsSum ==
  ASSUME IsFiniteSet(Jobs)
  PROVE  /\ \E g : IsSum([j \in Jobs |-> jobs[j].attempts], Jobs, g) /\ Attempts = g[Jobs]
         /\ \E g : IsSum([j \in Jobs |-> jobs'[j].attempts], Jobs, g) /\ Attempts' = g[Jobs]
<1>. DEFINE f == [j \in Jobs |-> jobs[j].attempts]
            Eq(g) == g = [s \in SUBSET Jobs |->
                            IF s = {} THEN 0
                            ELSE jobs[CHOOSE x \in s : TRUE].attempts
                                   + g[s \ {CHOOSE x \in s : TRUE}]]
<1>1. \A g : IsSum(f, Jobs, g) <=> Eq(g)
  BY DEF IsSum, Pick
<1>2. Attempts = (CHOOSE g : Eq(g))[Jobs]
  BY DEF Attempts, MapThenSumSet, MapThenFoldSet
<1>. HIDE DEF f, Eq
<1>3. \E g : IsSum(f, Jobs, g)
  BY SumExists
<1>4. Eq(CHOOSE g : Eq(g))
  BY <1>1, <1>3
<1>. USE DEF f
<1>5. \E g : IsSum(f, Jobs, g) /\ Attempts = g[Jobs]
  BY <1>1, <1>2, <1>4
<1>. DEFINE e == [j \in Jobs |-> jobs'[j].attempts]
            Eqn(g) == g = [s \in SUBSET Jobs |->
                             IF s = {} THEN 0
                             ELSE jobs'[CHOOSE x \in s : TRUE].attempts
                                    + g[s \ {CHOOSE x \in s : TRUE}]]
<1>6. \A g : IsSum(e, Jobs, g) <=> Eqn(g)
  BY DEF IsSum, Pick
<1>7. Attempts' = (CHOOSE g : Eqn(g))[Jobs]
  BY DEF Attempts, MapThenSumSet, MapThenFoldSet
<1>. HIDE DEF e, Eqn
<1>8. \E g : IsSum(e, Jobs, g)
  BY SumExists
<1>9. Eqn(CHOOSE g : Eqn(g))
  BY <1>6, <1>8
<1>. USE DEF e
<1>10. \E g : IsSum(e, Jobs, g) /\ Attempts' = g[Jobs]
  BY <1>6, <1>7, <1>9
<1>. QED  BY <1>5, <1>10

LEMMA FinitePool == IsFiniteSet(Workers)
<1>1. Len(WorkerOrder) \in Nat /\ WorkerOrder \in [1..Len(WorkerOrder) -> Workers]
  BY WorkerPoolAssumption, LenProperties DEF WorkerPoolAssumption
<1>2. \A w \in Workers : \E k \in 1..Len(WorkerOrder) : WorkerOrder[k] = w
  BY WorkerPoolAssumption DEF WorkerPoolAssumption
<1>3. WorkerOrder \in Surjection(1..Len(WorkerOrder), Workers)
  BY <1>1, <1>2 DEF Surjection
<1>. QED  BY <1>1, <1>3, FS_Interval, FS_Surjection

LEMMA EndedSum ==
  /\ \E g : /\ IsSum([w \in Workers |-> worker[w].processed + worker[w].failed], Workers, g)
            /\ Ended = g[Workers]
  /\ \E g : /\ IsSum([w \in Workers |-> worker'[w].processed + worker'[w].failed], Workers, g)
            /\ Ended' = g[Workers]
<1>. DEFINE f == [w \in Workers |-> worker[w].processed + worker[w].failed]
            Eq(g) == g = [s \in SUBSET Workers |->
                            IF s = {} THEN 0
                            ELSE (worker[CHOOSE x \in s : TRUE].processed
                                    + worker[CHOOSE x \in s : TRUE].failed)
                                   + g[s \ {CHOOSE x \in s : TRUE}]]
<1>1. \A g : IsSum(f, Workers, g) <=> Eq(g)
  BY DEF IsSum, Pick
<1>2. Ended = (CHOOSE g : Eq(g))[Workers]
  BY DEF Ended, MapThenSumSet, MapThenFoldSet
<1>. HIDE DEF f, Eq
<1>3. \E g : IsSum(f, Workers, g)
  BY SumExists, FinitePool
<1>4. Eq(CHOOSE g : Eq(g))
  BY <1>1, <1>3
<1>. USE DEF f
<1>5. \E g : IsSum(f, Workers, g) /\ Ended = g[Workers]
  BY <1>1, <1>2, <1>4
<1>. DEFINE e == [w \in Workers |-> worker'[w].processed + worker'[w].failed]
            Eqn(g) == g = [s \in SUBSET Workers |->
                             IF s = {} THEN 0
                             ELSE (worker'[CHOOSE x \in s : TRUE].processed
                                     + worker'[CHOOSE x \in s : TRUE].failed)
                                    + g[s \ {CHOOSE x \in s : TRUE}]]
<1>6. \A g : IsSum(e, Workers, g) <=> Eqn(g)
  BY DEF IsSum, Pick
<1>7. Ended' = (CHOOSE g : Eqn(g))[Workers]
  BY DEF Ended, MapThenSumSet, MapThenFoldSet
<1>. HIDE DEF e, Eqn
<1>8. \E g : IsSum(e, Workers, g)
  BY SumExists, FinitePool
<1>9. Eqn(CHOOSE g : Eqn(g))
  BY <1>6, <1>8
<1>. USE DEF e
<1>10. \E g : IsSum(e, Workers, g) /\ Ended' = g[Workers]
  BY <1>6, <1>7, <1>9
<1>. QED  BY <1>5, <1>10

(* A step that counts d attempts, of one job, adds d to their total.       *)
LEMMA AttemptsMove ==
  ASSUME IsFiniteSet(Jobs), TypeOK, TypeOK', NEW x \in Jobs, NEW d \in Nat,
         jobs'[x].attempts = jobs[x].attempts + d,
         \A k \in Jobs \ {x} : jobs'[k].attempts = jobs[k].attempts
  PROVE  Attempts \in Nat /\ Attempts' = Attempts + d
<1>. DEFINE f == [j \in Jobs |-> jobs[j].attempts]
            e == [j \in Jobs |-> jobs'[j].attempts]
<1>1. f \in [Jobs -> Nat] /\ e \in [Jobs -> Nat]
  BY DEF TypeOK, JobRec
<1>2. e[x] = f[x] + d /\ \A k \in Jobs : k # x => e[k] = f[k]
  OBVIOUS
<1>3. PICK g : IsSum(f, Jobs, g) /\ Attempts = g[Jobs]
  BY AttemptsSum
<1>4. PICK h : IsSum(e, Jobs, h) /\ Attempts' = h[Jobs]
  BY AttemptsSum
<1>. HIDE DEF f, e
<1>. QED  BY <1>1, <1>2, <1>3, <1>4, SumChanges

LEMMA AttemptsStay ==
  ASSUME IsFiniteSet(Jobs), TypeOK, \A k \in Jobs : jobs'[k].attempts = jobs[k].attempts
  PROVE  Attempts \in Nat /\ Attempts' = Attempts
<1>. DEFINE f == [j \in Jobs |-> jobs[j].attempts]
            e == [j \in Jobs |-> jobs'[j].attempts]
<1>1. f \in [Jobs -> Nat] /\ e = f
  BY DEF TypeOK, JobRec
<1>2. PICK g : IsSum(f, Jobs, g) /\ Attempts = g[Jobs]
  BY AttemptsSum
<1>3. PICK h : IsSum(e, Jobs, h) /\ Attempts' = h[Jobs]
  BY AttemptsSum
<1>. HIDE DEF f, e
<1>4. g[Jobs] \in Nat
  BY <1>1, <1>2, SumIsNat
<1>5. g[Jobs] = h[Jobs]
  BY <1>1, <1>2, <1>3, SumsAgree
<1>. QED  BY <1>2, <1>3, <1>4, <1>5

(* Likewise for what one worker, or none, enters into its books.           *)
LEMMA EndedMoves ==
  ASSUME PoolTypeOK, PoolTypeOK', NEW x \in Workers, NEW d \in Nat,
         worker'[x].processed + worker'[x].failed = (worker[x].processed + worker[x].failed) + d,
         \A w \in Workers \ {x} : worker'[w] = worker[w]
  PROVE  Ended \in Nat /\ Ended' = Ended + d
<1>. DEFINE f == [w \in Workers |-> worker[w].processed + worker[w].failed]
            e == [w \in Workers |-> worker'[w].processed + worker'[w].failed]
<1>1. f \in [Workers -> Nat] /\ e \in [Workers -> Nat]
  <2>1. \A w \in Workers : /\ worker[w].processed \in Nat /\ worker[w].failed \in Nat
                           /\ worker'[w].processed \in Nat /\ worker'[w].failed \in Nat
    BY DEF PoolTypeOK, Snapshot
  <2>. QED  BY <2>1
<1>2. e[x] = f[x] + d /\ \A w \in Workers : w # x => e[w] = f[w]
  OBVIOUS
<1>3. PICK g : IsSum(f, Workers, g) /\ Ended = g[Workers]
  BY EndedSum
<1>4. PICK h : IsSum(e, Workers, h) /\ Ended' = h[Workers]
  BY EndedSum
<1>. HIDE DEF f, e
<1>. QED  BY <1>1, <1>2, <1>3, <1>4, FinitePool, SumChanges

LEMMA EndedStays ==
  ASSUME PoolTypeOK,
         \A w \in Workers : /\ worker'[w].processed = worker[w].processed
                            /\ worker'[w].failed = worker[w].failed
  PROVE  Ended \in Nat /\ Ended' = Ended
<1>. DEFINE f == [w \in Workers |-> worker[w].processed + worker[w].failed]
            e == [w \in Workers |-> worker'[w].processed + worker'[w].failed]
<1>1. f \in [Workers -> Nat]
  <2>1. \A w \in Workers : worker[w].processed \in Nat /\ worker[w].failed \in Nat
    BY DEF PoolTypeOK, Snapshot
  <2>. QED  BY <2>1
<1>2. e = f
  OBVIOUS
<1>3. PICK g : IsSum(f, Workers, g) /\ Ended = g[Workers]
  BY EndedSum
<1>4. PICK h : IsSum(e, Workers, h) /\ Ended' = h[Workers]
  BY EndedSum
<1>. HIDE DEF f, e
<1>5. g[Workers] \in Nat
  BY <1>1, <1>3, FinitePool, SumIsNat
<1>6. g[Workers] = h[Workers]
  BY <1>2, <1>3, <1>4, FinitePool, SumsAgree
<1>. QED  BY <1>3, <1>4, <1>5, <1>6

-----------------------------------------------------------------------------
(* The books                                                               *)

(* Where a cycle stands while the attempt it claimed is under way.         *)
Attempting == Engaged \cup {"claimed", "failing"}

(* The snapshot a cycle holds has the worker's counts, and the copies a    *)
(* call has read have the attempts still stored.                           *)
InBooks(p) ==
  /\ cycle[p].point # "off" =>
       /\ cycle[p].held.processed = worker[Turn(p)].processed
       /\ cycle[p].held.failed = worker[Turn(p)].failed
  /\ call[p].stage \in {"claim", "complete", "fail", "retry"} =>
       Held(p).attempts = jobs[call[p].id].attempts
  /\ call[p].stage = "recover" =>
       \A j \in Listed(p) : call[p].seen[j].attempts = jobs[j].attempts

AbsentUnattempted ==
  \A j \in Jobs : jobs[j].status = "absent" => jobs[j].attempts = 0

(* No process died and no save was lost.                                   *)
Trusted == restarts = 0 /\ faults = 0

RunsInCycle ==
  /\ \A j \in Jobs : jobs[j].status = "running" =>
       \E p \in Callers : cycle[p].point \in Attempting /\ call[p].id = j
  /\ \A p \in Callers :
       cycle[p].point = "failing" => jobs[call[p].id].status = "running"

BooksInv ==
  /\ \A p \in Callers : InBooks(p)
  /\ AbsentUnattempted
  /\ Trusted => RunsInCycle
  /\ AttemptsAreAccounted

(* What is under way, seen from the one caller that can be active.         *)
LEMMA OneAttempt ==
  ASSUME PoolTypeOK, RunsInCycle, NEW p \in Callers, \A q \in Callers \ {p} : ~Active(q)
  PROVE  /\ UnderWay \subseteq {call[p].id}
         /\ cycle[p].point \notin Attempting => UnderWay = {}
<1>1. \A q \in Callers : cycle[q].point \in Attempting => Active(q)
  BY DEF Attempting, Engaged, Active
<1>. QED  BY <1>1 DEF RunsInCycle, UnderWay

(* The three ways a step keeps the account: it changes none of its terms,  *)
(* it counts an attempt that is now under way, or it enters one that was.  *)
LEMMA AccountKept ==
  ASSUME IsFiniteSet(Jobs), PoolTypeOK, AttemptsAreAccounted, Trusted' => Trusted,
         \A k \in Jobs : /\ jobs'[k].attempts = jobs[k].attempts
                         /\ Trusted => (jobs'[k].status = "running" <=> jobs[k].status = "running"),
         \A w \in Workers : /\ worker'[w].processed = worker[w].processed
                            /\ worker'[w].failed = worker[w].failed
  PROVE  AttemptsAreAccounted'
<1>. SUFFICES ASSUME Trusted' PROVE (Attempts = Ended + Cardinality(UnderWay))'
  BY DEF AttemptsAreAccounted, Trusted
<1>1. Attempts = Ended + Cardinality(UnderWay)
  BY DEF AttemptsAreAccounted, Trusted
<1>2. Attempts' = Attempts /\ Ended' = Ended
  BY AttemptsStay, EndedStays DEF PoolTypeOK
<1>3. UnderWay' = UnderWay
  BY DEF UnderWay
<1>. QED  BY <1>1, <1>2, <1>3

LEMMA AccountOpened ==
  ASSUME IsFiniteSet(Jobs), PoolTypeOK, PoolTypeOK', AttemptsAreAccounted, Trusted' => Trusted,
         NEW x \in Jobs, jobs'[x].attempts = jobs[x].attempts + 1,
         \A k \in Jobs \ {x} : jobs'[k] = jobs[k],
         worker' = worker,
         Trusted => UnderWay = {}, jobs'[x].status = "running"
  PROVE  AttemptsAreAccounted'
<1>. SUFFICES ASSUME Trusted' PROVE (Attempts = Ended + Cardinality(UnderWay))'
  BY DEF AttemptsAreAccounted, Trusted
<1>1. Attempts = Ended + Cardinality(UnderWay) /\ UnderWay = {}
  BY DEF AttemptsAreAccounted, Trusted
<1>2. Attempts \in Nat /\ Attempts' = Attempts + 1
  BY AttemptsMove DEF PoolTypeOK
<1>3. Ended \in Nat /\ Ended' = Ended
  BY EndedStays
<1>4. UnderWay' = {x}
  BY <1>1 DEF UnderWay
<1>5. Cardinality(UnderWay) = 0 /\ Cardinality(UnderWay') = 1
  BY <1>1, <1>4, FS_EmptySet, FS_Singleton
<1>. QED  BY <1>1, <1>2, <1>3, <1>5

LEMMA AccountClosed ==
  ASSUME IsFiniteSet(Jobs), PoolTypeOK, PoolTypeOK', AttemptsAreAccounted, Trusted' => Trusted,
         NEW x \in Jobs, jobs'[x].attempts = jobs[x].attempts,
         \A k \in Jobs \ {x} : jobs'[k] = jobs[k],
         NEW v \in Workers,
         worker'[v].processed + worker'[v].failed = (worker[v].processed + worker[v].failed) + 1,
         \A w \in Workers \ {v} : worker'[w] = worker[w],
         Trusted => UnderWay = {x}, jobs'[x].status # "running"
  PROVE  AttemptsAreAccounted'
<1>. SUFFICES ASSUME Trusted' PROVE (Attempts = Ended + Cardinality(UnderWay))'
  BY DEF AttemptsAreAccounted, Trusted
<1>1. Attempts = Ended + Cardinality(UnderWay) /\ UnderWay = {x}
  BY DEF AttemptsAreAccounted, Trusted
<1>2. Attempts \in Nat /\ Attempts' = Attempts
  BY AttemptsStay DEF PoolTypeOK
<1>3. Ended \in Nat /\ Ended' = Ended + 1
  BY EndedMoves
<1>4. UnderWay' = {}
  BY <1>1 DEF UnderWay
<1>5. Cardinality(UnderWay) = 1 /\ Cardinality(UnderWay') = 0
  BY <1>1, <1>4, FS_EmptySet, FS_Singleton
<1>. QED  BY <1>1, <1>2, <1>3, <1>5

(* An active caller's step that neither claims nor ends an attempt.        *)
LEMMA BooksKept ==
  ASSUME IsFiniteSet(Jobs), PoolTypeOK, BooksInv, NEW p \in Callers,
         \A q \in Callers \ {p} :
           ~Active(q) /\ call'[q] = call[q] /\ cycle'[q] = cycle[q],
         Trusted' => Trusted,
         \A k \in Jobs : /\ jobs'[k].attempts = jobs[k].attempts
                         /\ jobs'[k].status = "absent" => jobs[k].status = "absent"
                         /\ Trusted => (jobs'[k].status = "running" <=> jobs[k].status = "running"),
         \A w \in Workers : /\ worker'[w].processed = worker[w].processed
                            /\ worker'[w].failed = worker[w].failed,
         InBooks(p)',
         Trusted' /\ cycle[p].point \in Attempting =>
           cycle'[p].point \in Attempting /\ call'[p].id = call[p].id,
         Trusted' /\ cycle'[p].point = "failing" => jobs'[call'[p].id].status = "running"
  PROVE  BooksInv'
<1>1. ASSUME NEW q \in Callers \ {p} PROVE InBooks(q)' /\ cycle'[q].point = "off"
  BY DEF Active, InBooks
<1>2. AbsentUnattempted'
  BY DEF BooksInv, AbsentUnattempted
<1>3. ASSUME Trusted' PROVE RunsInCycle'
  <2>1. RunsInCycle /\ Trusted
    BY <1>3 DEF BooksInv
  <2>2. ASSUME NEW j \in Jobs, jobs'[j].status = "running"
        PROVE  \E q \in Callers : cycle'[q].point \in Attempting /\ call'[q].id = j
    <3>1. PICK q \in Callers : cycle[q].point \in Attempting /\ call[q].id = j
      BY <2>1, <2>2 DEF RunsInCycle
    <3>2. q = p
      BY <3>1 DEF Active, Attempting, Engaged
    <3>. QED  BY <1>3, <3>1, <3>2
  <2>3. \A q \in Callers :
          cycle'[q].point = "failing" => jobs'[call'[q].id].status = "running"
    BY <1>1, <1>3
  <2>. QED  BY <2>2, <2>3 DEF RunsInCycle
<1>4. AttemptsAreAccounted'
  BY AccountKept DEF BooksInv
<1>. QED  BY <1>1, <1>2, <1>3, <1>4 DEF BooksInv

(* The save that ends the attempt of the active caller.                    *)
LEMMA AttemptEnds ==
  ASSUME IsFiniteSet(Jobs), PoolTypeOK, PoolTypeOK', BooksInv, NEW p \in Callers,
         \A q \in Callers \ {p} : ~Active(q),
         \A q \in Callers \ {p} : call'[q] = call[q],
         \A q \in Callers \ {p} : cycle'[q] = cycle[q],
         NEW x \in Jobs, \A k \in Jobs \ {x} : jobs'[k] = jobs[k],
         jobs'[x].status \in {"completed", "retrying", "dead_lettered"},
         jobs'[x].attempts = jobs[x].attempts,
         NEW v \in Workers, \A w \in Workers \ {v} : worker'[w] = worker[w],
         worker'[v].processed + worker'[v].failed = (worker[v].processed + worker[v].failed) + 1,
         Trusted' => Trusted, Trusted => UnderWay = {x},
         InBooks(p)', cycle'[p].point # "failing"
  PROVE  BooksInv'
<1>1. \A k \in Jobs : k # x => jobs'[k] = jobs[k]
  OBVIOUS
<1>3. AttemptsAreAccounted'
  BY AccountClosed DEF BooksInv
<1>4. \A q \in Callers : InBooks(q)' /\ cycle'[q].point # "failing"
  BY DEF InBooks, Active
<1>5. AbsentUnattempted'
  BY DEF BooksInv, AbsentUnattempted
<1>6. Trusted' => RunsInCycle'
  BY <1>1, <1>4 DEF RunsInCycle, UnderWay
<1>. QED  BY <1>3, <1>4, <1>5, <1>6 DEF BooksInv

LEMMA VisitBooks ==
  ASSUME IsFiniteSet(Jobs), PoolTypeOK, AtAWorker, BooksInv,
         NEW p \in Callers, NEW n \in Nat \ {0}, NEW t,
         \A q \in Callers \ {p} : ~Active(q),
         cycle[p].point \in {"off", "ready", "finished", "reported"},
         call[p].stage = "idle", Visit(p, n, t), UNCHANGED <<vars, faults>>
  PROVE  BooksInv'
<1>1. call' = call /\ jobs' = jobs /\ faults' = faults /\ restarts' = restarts
  BY DEF vars
<1>2. \A q \in Callers \ {p} : cycle'[q] = cycle[q]
  BY DEF Visit, PoolTypeOK
<1>3. Trusted' => Trusted
  BY <1>1 DEF Trusted
<1>4. cycle[p].point \notin Attempting
  BY DEF Attempting, Engaged
<1>5. CASE n <= Len(WorkerOrder)
  <2>. DEFINE w == WorkerOrder[n]
              ready == [worker[w] EXCEPT !.status = "idle", !.job = NoJob, !.beat = t]
  <2>1. n \in 1..Len(WorkerOrder)
    BY <1>5, WorkerPoolAssumption DEF WorkerPoolAssumption
  <2>2. w \in Workers
    BY <2>1, WorkerOfTurn
  <2>3. ready.processed = worker[w].processed /\ ready.failed = worker[w].failed
    BY <2>2 DEF PoolTypeOK, Snapshot
  <2>. HIDE DEF ready
  <2>4. /\ worker' = [worker EXCEPT ![w] = ready]
        /\ cycle' = [cycle EXCEPT ![p] = [point |-> "ready", turn |-> n, at |-> t,
                                          job |-> NoJob, held |-> ready]]
    BY <1>5 DEF Visit, ready
  <2>5. \A v \in Workers : /\ worker'[v].processed = worker[v].processed
                           /\ worker'[v].failed = worker[v].failed
    BY <2>2, <2>3, <2>4 DEF PoolTypeOK
  <2>6. /\ cycle'[p].point = "ready" /\ Turn(p)' = w /\ cycle'[p].held = ready
        /\ worker'[w] = ready
    BY <2>2, <2>4 DEF PoolTypeOK, Turn
  <2>7. InBooks(p)'
    BY <1>1, <2>6 DEF InBooks
  <2>. QED  BY <1>1, <1>2, <1>3, <1>4, <2>5, <2>6, <2>7, BooksKept
<1>6. CASE ~(n <= Len(WorkerOrder))
  <2>1. worker' = worker /\ cycle'[p].point = "off"
    BY <1>6 DEF Visit, PoolTypeOK, Off
  <2>2. InBooks(p)'
    BY <1>1, <2>1 DEF InBooks
  <2>. QED  BY <1>1, <1>2, <1>3, <1>4, <2>1, <2>2, BooksKept
<1>. QED  BY <1>5, <1>6

(* The steps of a visit: a claim opens an attempt, its end closes it.      *)
LEMMA CycleStepBooks ==
  ASSUME IsFiniteSet(Jobs), PoolTypeOK, PoolTypeOK', AtAWorker, PoolInv, BooksInv,
         NEW p \in Callers, CycleStep(p)
  PROVE  BooksInv'
<1>. USE CycleFields, CallFields
<1>. DEFINE id == call[p].id
<1>a. Sane(p) /\ InBooks(p) /\ TypeOK
  BY DEF PoolInv, BooksInv
<1>b. Active(p) /\ \A q \in Callers \ {p} : ~Active(q)
  <2>1. Active(p)
    BY DEF CycleStep, NextWorker, NothingToClaim, StartClaim, ClaimSaved, NoHandler,
           TakeUp, CallHandler, HandlerResolves, HandlerThrows, CompleteSaved,
           FailSaved, Active
  <2>. QED  BY <2>1, OnlyOne DEF PoolInv
<1>c. Trusted => RunsInCycle
  BY DEF BooksInv
<1>1. ASSUME NextWorker(p) \/ NothingToClaim(p) PROVE BooksInv'
  <2>1. /\ cycle[p].point \in {"off", "ready", "finished", "reported"}
        /\ call[p].stage = "idle"
    BY <1>1, <1>a DEF NextWorker, NothingToClaim, Sane, Coupled
  <2>2. cycle[p].turn + 1 \in Nat \ {0}
    OBVIOUS
  <2>. QED  BY <1>1, <1>b, <2>1, <2>2, VisitBooks DEF NextWorker, NothingToClaim
<1>2. ASSUME StartClaim(p) PROVE BooksInv'
  <2>1. PICK j \in Jobs : Begin(p, "claim", j, Turn(p), cycle[p].at, Copy(j))
    BY <1>2 DEF StartClaim, BeginClaim
  <2>2. /\ call'[p].stage = "claim" /\ call'[p].id = j /\ call'[p].seen = Copy(j)
        /\ \A q \in Callers \ {p} : call'[q] = call[q]
        /\ jobs' = jobs /\ restarts' = restarts
    BY <2>1, <1>a DEF Begin, TypeOK
  <2>3. /\ cycle[p].point = "ready" /\ cycle'[p].point = "claiming"
        /\ cycle'[p].turn = cycle[p].turn /\ cycle'[p].held = cycle[p].held
        /\ \A q \in Callers \ {p} : cycle'[q] = cycle[q]
        /\ worker' = worker /\ faults' = faults
    BY <1>2 DEF StartClaim, GoTo, PoolTypeOK, Cycle
  <2>4. Held(p)' = jobs[j]
    BY <2>2 DEF Held, Copy, NothingRead
  <2>5. InBooks(p)'
    BY <1>a, <2>2, <2>3, <2>4 DEF InBooks, Turn
  <2>6. cycle[p].point \notin Attempting /\ (Trusted' => Trusted)
    BY <2>2, <2>3 DEF Attempting, Engaged, Trusted
  <2>. QED  BY <1>b, <2>2, <2>3, <2>5, <2>6, BooksKept
<1>3. ASSUME ClaimSaved(p) PROVE BooksInv'
  <2>1. /\ cycle[p].point = "claiming" /\ call[p].stage = "claim" /\ id \in Jobs
    BY <1>3, <1>a DEF ClaimSaved, EndClaim, Sane, Stored
  <2>2. /\ call'[p].stage = "claimed" /\ call'[p].id = id
        /\ \A q \in Callers \ {p} : call'[q] = call[q]
        /\ restarts' = restarts
    BY <1>3, <1>a DEF ClaimSaved, EndClaim, TypeOK, Call
  <2>3. /\ cycle'[p].point = "claimed" /\ cycle'[p].turn = cycle[p].turn
        /\ cycle'[p].held = cycle[p].held
        /\ \A q \in Callers \ {p} : cycle'[q] = cycle[q]
        /\ worker' = worker /\ faults' = faults
    BY <1>3 DEF ClaimSaved, PoolTypeOK, Cycle
  <2>4. \A k \in Jobs : jobs'[k] = IF k = id THEN Claimed(Held(p), call[p].by, call[p].at)
                                             ELSE jobs[k]
    BY <1>3, <1>a DEF ClaimSaved, EndClaim, Save, TypeOK
  <2>5. jobs'[id].status = "running" /\ jobs'[id].attempts = jobs[id].attempts + 1
    <3>1. Held(p) \in JobRec /\ Held(p).attempts = jobs[id].attempts
      BY <1>a, <2>1 DEF InBooks
    <3>2. jobs'[id] = Claimed(Held(p), call[p].by, call[p].at)
      BY <2>1, <2>4
    <3>. QED  BY <3>1, <3>2 DEF Claimed, JobRec
  <2>6. Trusted' => Trusted
    BY <2>2, <2>3 DEF Trusted
  <2>7. Trusted => UnderWay = {}
    BY <1>b, <1>c, <2>1, OneAttempt DEF Attempting, Engaged
  <2>8. AttemptsAreAccounted'
    BY <2>1, <2>3, <2>4, <2>5, <2>6, <2>7, AccountOpened DEF BooksInv
  <2>9. \A q \in Callers : InBooks(q)'
    <3>1. InBooks(p)'
      BY <1>a, <2>1, <2>2, <2>3 DEF InBooks, Turn
    <3>2. \A q \in Callers \ {p} : InBooks(q)'
      BY <1>b, <2>2, <2>3 DEF InBooks, Active
    <3>. QED  BY <3>1, <3>2
  <2>10. AbsentUnattempted'
    BY <2>4, <2>5 DEF BooksInv, AbsentUnattempted
  <2>11. ASSUME Trusted' PROVE RunsInCycle'
    <3>1. \A k \in Jobs : jobs'[k].status = "running" => k = id
      BY <2>4, <2>6, <2>7, <2>11 DEF UnderWay
    <3>2. cycle'[p].point \in Attempting /\ \A q \in Callers : cycle'[q].point # "failing"
      BY <1>b, <2>3 DEF Attempting, Active
    <3>. QED  BY <2>2, <3>1, <3>2 DEF RunsInCycle
  <2>. QED  BY <2>8, <2>9, <2>10, <2>11 DEF BooksInv
<1>4. ASSUME NoHandler(p) \/ HandlerThrows(p) PROVE BooksInv'
  <2>1. /\ cycle[p].point \in {"claimed", "handling"}
        /\ call[p].stage \in {"claimed", "working"}
    BY <1>4 DEF NoHandler, HandlerThrows, BeginFail
  <2>2. /\ call'[p].stage = "fail" /\ call'[p].id = id /\ call'[p].seen = Copy(id)
        /\ \A q \in Callers \ {p} : call'[q] = call[q]
        /\ jobs' = jobs /\ restarts' = restarts
    BY <1>4, <1>a DEF NoHandler, HandlerThrows, BeginFail, TypeOK, Call
  <2>3. /\ cycle'[p].point = "failing" /\ cycle'[p].turn = cycle[p].turn
        /\ cycle'[p].held = cycle[p].held
        /\ \A q \in Callers \ {p} : cycle'[q] = cycle[q]
        /\ worker' = worker /\ faults' = faults
    BY <1>4 DEF NoHandler, HandlerThrows, GoTo, PoolTypeOK, Cycle
  <2>4. /\ id \in Jobs /\ jobs[id].status = "running"
    BY <1>a, <2>1 DEF Sane, Coupled, Stored, Truthful, Engaged
  <2>5. Held(p)' = jobs[id]
    BY <2>2, <2>4 DEF Held, Copy, NothingRead
  <2>6. InBooks(p)'
    BY <1>a, <2>1, <2>2, <2>3, <2>5 DEF InBooks, Turn
  <2>7. cycle'[p].point \in Attempting /\ (Trusted' => Trusted)
    BY <2>2, <2>3 DEF Attempting, Trusted
  <2>. QED  BY <1>b, <2>2, <2>3, <2>4, <2>6, <2>7, BooksKept
<1>5. ASSUME TakeUp(p) PROVE BooksInv'
  <2>. DEFINE s == [cycle[p].held EXCEPT !.status = "busy", !.job = cycle[p].job,
                                         !.beat = cycle[p].at]
  <2>1. /\ cycle[p].point = "claimed" /\ call[p].stage = "claimed"
        /\ call' = call /\ jobs' = jobs /\ restarts' = restarts
    BY <1>5, <1>a DEF TakeUp, vars, Sane, Coupled
  <2>2. s.processed = cycle[p].held.processed /\ s.failed = cycle[p].held.failed
    BY DEF Snapshot
  <2>3. Publish(p, s, "busy")
    BY <1>5 DEF TakeUp
  <2>. HIDE DEF s
  <2>4. /\ cycle'[p].point = "busy" /\ cycle'[p].turn = cycle[p].turn
        /\ cycle'[p].held = s
        /\ \A q \in Callers \ {p} : cycle'[q] = cycle[q]
        /\ faults' = faults
    BY <2>3 DEF Publish, PoolTypeOK, Cycle
  <2>5. /\ Turn(p) \in Workers
        /\ \A w \in Workers : worker'[w] = IF w = Turn(p) THEN s ELSE worker[w]
    BY <2>1, <2>3 DEF Publish, PoolTypeOK
  <2>6. InBooks(p)'
    BY <2>1, <2>4, <2>5 DEF InBooks, Turn
  <2>7. \A w \in Workers : /\ worker'[w].processed = worker[w].processed
                           /\ worker'[w].failed = worker[w].failed
    BY <1>a, <2>1, <2>2, <2>5 DEF InBooks
  <2>8. cycle'[p].point \in Attempting /\ (Trusted' => Trusted)
    BY <2>1, <2>4 DEF Attempting, Engaged, Trusted
  <2>. QED  BY <1>b, <2>1, <2>4, <2>6, <2>7, <2>8, BooksKept
<1>6. ASSUME CallHandler(p) \/ HandlerResolves(p) PROVE BooksInv'
  <2>1. cycle[p].point \in {"busy", "handling"} /\ call[p].stage \in {"claimed", "working"}
    BY <1>6, <1>a DEF CallHandler, HandlerResolves, Sane, Coupled
  <2>2. /\ call'[p].id = id
        /\ \A q \in Callers \ {p} : call'[q] = call[q]
        /\ jobs' = jobs /\ restarts' = restarts
    BY <1>6, <1>a DEF CallHandler, HandlerResolves, StartHandler, BeginComplete, TypeOK, Call
  <2>3. \/ call'[p].stage = "working" /\ cycle'[p].point = "handling"
        \/ /\ call'[p].stage = "complete" /\ cycle'[p].point = "completing"
           /\ call'[p].seen = Copy(id)
    BY <1>6, <1>a DEF CallHandler, HandlerResolves, StartHandler, BeginComplete, GoTo,
       TypeOK, Call, PoolTypeOK, Cycle
  <2>4. /\ cycle'[p].turn = cycle[p].turn /\ cycle'[p].held = cycle[p].held
        /\ \A q \in Callers \ {p} : cycle'[q] = cycle[q]
        /\ worker' = worker /\ faults' = faults
    BY <1>6 DEF CallHandler, HandlerResolves, GoTo, PoolTypeOK, Cycle
  <2>5. id \in Jobs
    BY <1>a, <2>1 DEF Sane, Stored
  <2>6. call'[p].seen = Copy(id) => Held(p)' = jobs[id]
    BY <2>2, <2>5 DEF Held, Copy, NothingRead
  <2>7. InBooks(p)'
    BY <1>a, <2>1, <2>2, <2>3, <2>4, <2>6 DEF InBooks, Turn
  <2>8. /\ cycle'[p].point \in Attempting /\ cycle'[p].point # "failing"
        /\ (Trusted' => Trusted)
    BY <2>2, <2>3, <2>4 DEF Attempting, Engaged, Trusted
  <2>. QED  BY <1>b, <2>2, <2>4, <2>7, <2>8, BooksKept
<1>7. ASSUME CompleteSaved(p) PROVE BooksInv'
  <2>. DEFINE s == [cycle[p].held EXCEPT !.status = "idle", !.job = NoJob,
                                         !.processed = @ + 1, !.beat = cycle[p].at]
  <2>1. /\ cycle[p].point = "completing" /\ call[p].stage = "complete"
        /\ id \in Jobs /\ jobs[id].status = "running"
    BY <1>7, <1>a DEF CompleteSaved, EndComplete, Sane, Coupled, Stored, Truthful, Engaged
  <2>2. /\ call'[p].stage = "idle" /\ \A q \in Callers \ {p} : call'[q] = call[q]
        /\ restarts' = restarts
    BY <1>7, <1>a DEF CompleteSaved, EndComplete, Return, Idle, TypeOK
  <2>3. \A k \in Jobs : jobs'[k] = IF k = id THEN Completed(Held(p)) ELSE jobs[k]
    BY <1>7, <1>a DEF CompleteSaved, EndComplete, Save, TypeOK
  <2>4. jobs'[id].status = "completed" /\ jobs'[id].attempts = jobs[id].attempts
    BY <1>a, <2>1, <2>3 DEF Completed, JobRec, InBooks
  <2>5. s.processed = cycle[p].held.processed + 1 /\ s.failed = cycle[p].held.failed
    BY DEF Snapshot
  <2>6. Publish(p, s, "finished")
    BY <1>7 DEF CompleteSaved
  <2>. HIDE DEF s
  <2>7. /\ cycle'[p].point = "finished" /\ cycle'[p].turn = cycle[p].turn
        /\ cycle'[p].held = s
        /\ \A q \in Callers \ {p} : cycle'[q] = cycle[q]
        /\ faults' = faults
    BY <2>6 DEF Publish, PoolTypeOK, Cycle
  <2>8. /\ Turn(p) \in Workers
        /\ \A w \in Workers : worker'[w] = IF w = Turn(p) THEN s ELSE worker[w]
    BY <2>1, <2>6 DEF Publish, PoolTypeOK
  <2>9. InBooks(p)'
    BY <2>2, <2>7, <2>8 DEF InBooks, Turn
  <2>10. worker'[Turn(p)].processed + worker'[Turn(p)].failed
           = (worker[Turn(p)].processed + worker[Turn(p)].failed) + 1
    <3>1. worker[Turn(p)].processed \in Nat /\ worker[Turn(p)].failed \in Nat
      BY <2>8 DEF PoolTypeOK, Snapshot
    <3>2. /\ worker'[Turn(p)].processed = worker[Turn(p)].processed + 1
          /\ worker'[Turn(p)].failed = worker[Turn(p)].failed
      BY <1>a, <2>1, <2>5, <2>8 DEF InBooks
    <3>. QED  BY <3>1, <3>2
  <2>11. Trusted' => Trusted
    BY <2>2, <2>7 DEF Trusted
  <2>12. Trusted => UnderWay = {id}
    <3>1. id \in UnderWay
      BY <2>1 DEF UnderWay
    <3>. QED  BY <1>b, <1>c, <3>1, OneAttempt
  <2>13. /\ \A k \in Jobs \ {id} : jobs'[k] = jobs[k]
         /\ \A w \in Workers \ {Turn(p)} : worker'[w] = worker[w]
    BY <2>3, <2>8
  <2>. HIDE DEF id
  <2>. QED
    BY <1>b, <2>1, <2>2, <2>4, <2>7, <2>8, <2>9, <2>10, <2>11, <2>12, <2>13, AttemptEnds
<1>8. ASSUME FailSaved(p) PROVE BooksInv'
  <2>. DEFINE s == [worker[Turn(p)] EXCEPT !.status = "error", !.job = NoJob,
                                           !.failed = @ + 1, !.beat = cycle[p].at]
  <2>1. /\ cycle[p].point = "failing" /\ call[p].stage = "fail" /\ id \in Jobs
        /\ jobs[id].status # "absent"
    BY <1>8, <1>a DEF FailSaved, EndFail, Sane, Stored
  <2>2. /\ call'[p].stage = "idle" /\ \A q \in Callers \ {p} : call'[q] = call[q]
        /\ restarts' = restarts
    BY <1>8, <1>a DEF FailSaved, EndFail, Return, Idle, TypeOK
  <2>3. \A k \in Jobs : jobs'[k] = IF k = id THEN Failed(id, Held(p), call[p].at) ELSE jobs[k]
    BY <1>8, <1>a DEF FailSaved, EndFail, Save, TypeOK
  <2>4. /\ jobs'[id].status \in {"retrying", "dead_lettered"}
        /\ jobs'[id].attempts = jobs[id].attempts
    BY <1>a, <2>1, <2>3 DEF Failed, JobRec, InBooks
  <2>5. /\ Turn(p) \in Workers
        /\ s.processed = worker[Turn(p)].processed /\ s.failed = worker[Turn(p)].failed + 1
    BY <2>1 DEF Snapshot
  <2>6. Publish(p, s, "reported")
    BY <1>8 DEF FailSaved
  <2>. HIDE DEF s
  <2>7. /\ cycle'[p].point = "reported" /\ cycle'[p].turn = cycle[p].turn
        /\ cycle'[p].held = s
        /\ \A q \in Callers \ {p} : cycle'[q] = cycle[q]
        /\ faults' = faults
    BY <2>6 DEF Publish, PoolTypeOK, Cycle
  <2>8. \A w \in Workers : worker'[w] = IF w = Turn(p) THEN s ELSE worker[w]
    BY <2>6 DEF Publish, PoolTypeOK
  <2>9. InBooks(p)'
    BY <2>2, <2>5, <2>7, <2>8 DEF InBooks, Turn
  <2>10. worker'[Turn(p)].processed + worker'[Turn(p)].failed
           = (worker[Turn(p)].processed + worker[Turn(p)].failed) + 1
    <3>1. worker[Turn(p)].processed \in Nat /\ worker[Turn(p)].failed \in Nat
      BY <2>5 DEF PoolTypeOK, Snapshot
    <3>. QED  BY <2>5, <2>8, <3>1
  <2>11. Trusted' => Trusted
    BY <2>2, <2>7 DEF Trusted
  <2>12. Trusted => UnderWay = {id}
    <3>1. Trusted => id \in UnderWay
      BY <1>c, <2>1 DEF UnderWay, RunsInCycle
    <3>. QED  BY <1>b, <1>c, <3>1, OneAttempt
  <2>13. /\ \A k \in Jobs \ {id} : jobs'[k] = jobs[k]
         /\ \A w \in Workers \ {Turn(p)} : worker'[w] = worker[w]
    BY <2>3, <2>8
  <2>. HIDE DEF id
  <2>. QED
    BY <1>b, <2>1, <2>2, <2>4, <2>5, <2>7, <2>9, <2>10, <2>11, <2>12, <2>13, AttemptEnds
<1>. QED  BY <1>1, <1>2, <1>3, <1>4, <1>5, <1>6, <1>7, <1>8 DEF CycleStep

(* Where a save was lost the account is closed for good.                   *)
LEMMA RejectionBooks ==
  ASSUME IsFiniteSet(Jobs), PoolTypeOK, AtAWorker, PoolInv, BooksInv, NEW p \in Callers,
         CycleRejects(p) \/ FailFinished(p)
  PROVE  BooksInv'
<1>. USE CycleFields
<1>a. Sane(p) /\ InBooks(p) /\ TypeOK
  BY DEF PoolInv, BooksInv
<1>b. \A q \in Callers \ {p} : ~Active(q)
  BY OnlyOne DEF PoolInv, CycleRejects, FailFinished, Active
<1>1. ~Trusted' /\ jobs' = jobs /\ worker' = worker
  BY DEF CycleRejects, FailFinished, Begin, PoolTypeOK, Trusted
<1>2. \A q \in Callers \ {p} : call'[q] = call[q] /\ cycle'[q] = cycle[q]
  BY <1>a DEF CycleRejects, FailFinished, Begin, Return, TypeOK, PoolTypeOK
<1>3. CASE CycleRejects(p)
  <2>1. call'[p].stage = "idle" /\ cycle'[p].point = "off"
    BY <1>3, <1>a DEF CycleRejects, Return, Idle, Off, TypeOK, PoolTypeOK
  <2>2. InBooks(p)'
    BY <2>1 DEF InBooks
  <2>. QED  BY <1>1, <1>2, <1>b, <2>2, BooksKept
<1>4. CASE FailFinished(p)
  <2>1. cycle[p].point = "finished" /\ cycle[p].job \in Jobs
    BY <1>4, <1>a DEF FailFinished, Sane, Stored
  <2>2. /\ call'[p].stage = "fail" /\ call'[p].id = cycle[p].job
        /\ call'[p].seen = Copy(cycle[p].job)
    BY <1>4, <1>a DEF FailFinished, Begin, TypeOK
  <2>3. cycle'[p].turn = cycle[p].turn /\ cycle'[p].held = cycle[p].held
    BY <1>4 DEF FailFinished, PoolTypeOK, Cycle
  <2>4. Held(p)' = jobs[cycle[p].job]
    BY <2>1, <2>2 DEF Held, Copy, NothingRead
  <2>5. InBooks(p)'
    BY <1>1, <1>a, <2>1, <2>2, <2>3, <2>4 DEF InBooks, Turn
  <2>. QED  BY <1>1, <1>2, <1>b, <2>5, BooksKept
<1>. QED  BY <1>3, <1>4

(* An enqueue stores a job nobody has attempted, over none.                *)
LEMMA EnqueueBooks ==
  ASSUME IsFiniteSet(Jobs), PoolTypeOK, AtAWorker, PoolInv, BooksInv,
         NEW p \in Callers, Enqueueing(p)
  PROVE  BooksInv'
<1>. USE CycleFields, CallFields
<1>a. (\A q \in Callers : Sane(q)) /\ TypeOK
  BY DEF PoolInv
<1>b. cycle[p].point = "off" /\ cycle' = cycle /\ worker' = worker /\ faults' = faults
  BY DEF Enqueueing, poolVars
<1>1. /\ call'[p].stage \in {"idle", "enqueue"} /\ restarts' = restarts
      /\ \A q \in Callers \ {p} : call'[q] = call[q]
  BY <1>a DEF Enqueueing, BeginEnqueue, EndEnqueue, Begin, Return, Idle, TypeOK
<1>2. \A k \in Jobs : /\ jobs'[k].attempts = jobs[k].attempts
                      /\ jobs'[k].status = "absent" => jobs[k].status = "absent"
                      /\ jobs'[k].status = "running" <=> jobs[k].status = "running"
  <2>1. CASE jobs' = jobs
    BY <2>1
  <2>2. ASSUME EndEnqueue(p), Held(p).status = "absent",
               NEW d, Save(call[p].id, Created(call[p].at + d)), NEW k \in Jobs
        PROVE  /\ jobs'[k].attempts = jobs[k].attempts
               /\ jobs'[k].status = "absent" => jobs[k].status = "absent"
               /\ jobs'[k].status = "running" <=> jobs[k].status = "running"
    <3>1. CASE k = call[p].id
      <4>1. jobs[k].status = "absent"
        BY <1>a, <2>2, <3>1 DEF EndEnqueue, Sane, Stored
      <4>2. jobs[k].attempts = 0
        BY <4>1 DEF BooksInv, AbsentUnattempted
      <4>3. jobs'[k].status = "queued" /\ jobs'[k].attempts = 0
        BY <1>a, <2>2, <3>1 DEF Save, Created, Absent, TypeOK
      <4>. QED  BY <4>1, <4>2, <4>3
    <3>2. CASE k # call[p].id
      BY <1>a, <2>2, <3>2 DEF Save, TypeOK
    <3>. QED  BY <3>1, <3>2
  <2>. QED  BY <2>1, <2>2 DEF Enqueueing, EndEnqueue, BeginEnqueue, Begin
<1>3. ASSUME NEW q \in Callers PROVE InBooks(q)'
  <2>1. CASE q = p
    BY <1>b, <1>1, <2>1 DEF InBooks
  <2>2. CASE q # p
    <3>1. call[q].stage \in {"claim", "complete", "fail", "retry"} => call[q].id \in Jobs
      BY <1>a DEF Sane, Stored
    <3>. QED  BY <1>b, <1>1, <1>2, <2>2, <3>1 DEF BooksInv, InBooks, Held, Listed, Turn
  <2>. QED  BY <2>1, <2>2
<1>4. AbsentUnattempted'
  BY <1>2 DEF BooksInv, AbsentUnattempted
<1>5. Trusted' => Trusted
  BY <1>b, <1>1 DEF Trusted
<1>6. RunsInCycle => RunsInCycle'
  <2>1. \A q \in Callers : cycle[q].point \in Attempting => call'[q] = call[q]
    BY <1>b, <1>1 DEF Attempting, Engaged
  <2>2. \A q \in Callers : cycle[q].point = "failing" => call[q].id \in Jobs
    BY <1>a DEF Sane, Coupled, Stored
  <2>. QED  BY <1>b, <1>2, <2>1, <2>2 DEF RunsInCycle, Attempting
<1>7. AttemptsAreAccounted'
  BY <1>b, <1>2, <1>5, AccountKept DEF BooksInv
<1>. QED  BY <1>3, <1>4, <1>5, <1>6, <1>7 DEF BooksInv

(* Recovery and operator retries come when no attempt is under way, and    *)
(* put back the count they read.                                           *)
LEMMA MaintenanceBooks ==
  ASSUME IsFiniteSet(Jobs), PoolTypeOK, AtAWorker, PoolInv, BooksInv, Discipline # "free",
         NEW p \in Callers, Recovering(p) \/ Retrying(p)
  PROVE  BooksInv'
<1>. USE CycleFields, CallFields
<1>a. Sane(p) /\ InBooks(p) /\ Alone /\ TypeOK /\ cycle[p] \in Cycle
  BY DEF PoolInv, BooksInv
<1>b. cycle' = cycle /\ worker' = worker /\ faults' = faults /\ restarts' = restarts
  BY DEF Recovering, Retrying, poolVars, BeginRecover, RecoverOne, BeginRetry, EndRetry, Begin
<1>c. Trusted' => Trusted
  BY <1>b DEF Trusted
<1>d. cycle[p].point = "off"
  BY <1>a DEF Recovering, Retrying, LoopIsFree, RecoverOne, Sane, Coupled, Cycle, Point
<1>e. \A q \in Callers \ {p} : ~Active(q) /\ call'[q] = call[q]
  <2>1. \A q \in Callers \ {p} : call'[q] = call[q]
    BY <1>a DEF Recovering, Retrying, BeginRecover, RecoverOne, BeginRetry, EndRetry,
                Begin, Return, TypeOK
  <2>2. (LoopIsFree(p) \/ call[p].stage \in {"recover", "retry"})
          => \A q \in Callers \ {p} : ~Active(q)
    BY <1>a, OnlyOne DEF LoopIsFree, Active
  <2>. QED  BY <2>1, <2>2 DEF Recovering, Retrying, RecoverOne, EndRetry
<1>f. Trusted => \A k \in Jobs : jobs[k].status # "running"
  BY <1>d, <1>e, OneAttempt DEF BooksInv, UnderWay, Attempting, Engaged
<1>g. cycle[p].point \notin Attempting /\ cycle'[p].point # "failing"
  BY <1>b, <1>d DEF Attempting, Engaged
<1>1. ASSUME BeginRecover(p) PROVE BooksInv'
  <2>1. /\ jobs' = jobs /\ call'[p].stage = "recover"
        /\ call'[p].seen = [j \in Jobs |-> IF IsStale(jobs[j], now) THEN jobs[j] ELSE Absent]
    BY <1>1, <1>a DEF BeginRecover, Begin, TypeOK
  <2>2. InBooks(p)'
    BY <1>b, <1>d, <2>1 DEF InBooks, Listed, Absent
  <2>. QED  BY <1>b, <1>c, <1>e, <1>g, <2>1, <2>2, BooksKept
<1>2. ASSUME NEW j \in Jobs, RecoverOne(p, j) PROVE BooksInv'
  <2>1. call[p].stage = "recover" /\ j \in Listed(p)
    BY <1>2 DEF RecoverOne
  <2>2. \A k \in Jobs : jobs'[k] =
          IF k = j THEN Recovered(j, call[p].seen[j], call[p].at) ELSE jobs[k]
    BY <1>2, <1>a DEF RecoverOne, Save, TypeOK
  <2>3. /\ jobs'[j].status \in {"retrying", "dead_lettered"}
        /\ jobs'[j].attempts = jobs[j].attempts
    <3>1. call[p].seen[j].attempts = jobs[j].attempts
      BY <1>a, <2>1 DEF InBooks
    <3>2. PICK r \in JobRec : r = call[p].seen[j]
      BY <1>a
    <3>3. /\ Recovered(j, r, call[p].at).status \in {"retrying", "dead_lettered"}
          /\ Recovered(j, r, call[p].at).attempts = r.attempts
      BY DEF Recovered, JobRec
    <3>. QED  BY <2>2, <3>1, <3>2, <3>3
  <2>4. \A k \in Jobs : /\ jobs'[k].attempts = jobs[k].attempts
                        /\ jobs'[k].status = "absent" => jobs[k].status = "absent"
                        /\ Trusted => (jobs'[k].status = "running" <=> jobs[k].status = "running")
    BY <1>f, <2>2, <2>3
  <2>5. \/ call'[p].stage = "idle"
        \/ /\ call'[p].stage = "recover"
           /\ \A k \in Jobs : call'[p].seen[k] = IF k = j THEN Absent ELSE call[p].seen[k]
    BY <1>2, <1>a, <2>1 DEF RecoverOne, Return, Idle, TypeOK, Call
  <2>6. InBooks(p)'
    BY <1>a, <1>b, <1>d, <2>1, <2>4, <2>5 DEF InBooks, Listed, Absent
  <2>. QED  BY <1>b, <1>c, <1>e, <1>g, <2>4, <2>6, BooksKept
<1>3. ASSUME NEW j \in Jobs, BeginRetry(p, j) PROVE BooksInv'
  <2>1. /\ jobs' = jobs /\ call'[p].stage = "retry" /\ call'[p].id = j
        /\ call'[p].seen = Copy(j)
    BY <1>3, <1>a DEF BeginRetry, Begin, TypeOK
  <2>2. Held(p)' = jobs[j]
    BY <2>1 DEF Held, Copy, NothingRead
  <2>3. InBooks(p)'
    BY <1>b, <1>d, <2>1, <2>2 DEF InBooks
  <2>. QED  BY <1>b, <1>c, <1>e, <1>g, <2>1, <2>3, BooksKept
<1>4. ASSUME EndRetry(p) PROVE BooksInv'
  <2>1. call[p].stage = "retry" /\ call[p].id \in Jobs /\ jobs[call[p].id].status # "absent"
    BY <1>4, <1>a DEF EndRetry, Sane, Stored
  <2>2. \A k \in Jobs : jobs'[k] =
          IF k = call[p].id THEN Retried(Held(p), call[p].at) ELSE jobs[k]
    BY <1>4, <1>a DEF EndRetry, Save, TypeOK
  <2>3. /\ Held(p) \in JobRec /\ Held(p).attempts = jobs[call[p].id].attempts
    BY <1>a, <2>1 DEF InBooks
  <2>4. /\ Retried(Held(p), call[p].at).status = "retrying"
        /\ Retried(Held(p), call[p].at).attempts = jobs[call[p].id].attempts
    BY <2>3 DEF Retried, JobRec
  <2>5. \A k \in Jobs : /\ jobs'[k].attempts = jobs[k].attempts
                        /\ jobs'[k].status = "absent" => jobs[k].status = "absent"
                        /\ Trusted => (jobs'[k].status = "running" <=> jobs[k].status = "running")
    BY <1>f, <2>2, <2>4
  <2>6. call'[p].stage = "idle"
    BY <1>4, <1>a DEF EndRetry, Return, Idle, TypeOK
  <2>7. InBooks(p)'
    BY <1>b, <1>d, <2>6 DEF InBooks
  <2>. QED  BY <1>b, <1>c, <1>e, <1>g, <2>5, <2>7, BooksKept
<1>. QED  BY <1>1, <1>2, <1>3, <1>4 DEF Recovering, Retrying

LEMMA BooksStep ==
  ASSUME IsFiniteSet(Jobs), Discipline # "free", PoolTypeOK, PoolTypeOK', AtAWorker,
         PoolInv, BooksInv, [PoolNext]_allVars
  PROVE  BooksInv'
<1>. USE CycleFields
<1>1. ASSUME NEW p \in Callers, StartCycle(p) PROVE BooksInv'
  <2>1. /\ cycle[p].point = "off" /\ call[p].stage = "idle"
        /\ \A q \in Callers \ {p} : ~Active(q)
    BY <1>1 DEF StartCycle, LoopIsFree, Active
  <2>. QED  BY <1>1, <2>1, VisitBooks DEF StartCycle
<1>2. ASSUME NEW p \in Callers, CycleStep(p) PROVE BooksInv'
  BY <1>2, CycleStepBooks
<1>3. ASSUME NEW p \in Callers, CycleRejects(p) \/ FailFinished(p) PROVE BooksInv'
  BY <1>3, RejectionBooks
<1>4. ASSUME NEW p \in Callers, Enqueueing(p) PROVE BooksInv'
  BY <1>4, EnqueueBooks
<1>5. ASSUME NEW p \in Callers, Recovering(p) \/ Retrying(p) PROVE BooksInv'
  BY <1>5, MaintenanceBooks
<1>6. ASSUME UNCHANGED <<jobs, call, restarts, cycle, faults>>,
             \A w \in Workers : /\ worker'[w].processed = worker[w].processed
                                /\ worker'[w].failed = worker[w].failed
      PROVE  BooksInv'
  <2>1. \A q \in Callers : InBooks(q)'
    <3>1. ASSUME NEW q \in Callers PROVE InBooks(q)'
      <4>1. cycle[q].point # "off" => Turn(q) \in Workers /\ Turn(q)' = Turn(q)
        BY <1>6 DEF Turn
      <4>2. InBooks(q)
        BY DEF BooksInv
      <4>. QED  BY <1>6, <4>1, <4>2 DEF InBooks, Held, Listed
    <3>. QED  BY <3>1
  <2>2. AbsentUnattempted' /\ (Trusted' => Trusted) /\ (RunsInCycle => RunsInCycle')
    BY <1>6 DEF BooksInv, AbsentUnattempted, Trusted, RunsInCycle
  <2>3. AttemptsAreAccounted'
    BY <1>6, <2>2, AccountKept DEF BooksInv
  <2>. QED  BY <2>1, <2>2, <2>3 DEF BooksInv
<1>7. ASSUME NEW v \in Workers,
             RecordHeartbeat(v) \/ \E t \in Instants : MonitorHeartbeat(v, t)
      PROVE  BooksInv'
  <2>1. UNCHANGED <<jobs, call, restarts, cycle, faults>>
    BY <1>7 DEF RecordHeartbeat, MonitorHeartbeat, vars
  <2>2. \A w \in Workers : /\ worker'[w].processed = worker[w].processed
                           /\ worker'[w].failed = worker[w].failed
    BY <1>7 DEF RecordHeartbeat, MonitorHeartbeat, PoolTypeOK, Snapshot
  <2>. QED  BY <1>6, <2>1, <2>2
<1>8. CASE PoolRestart
  <2>1. /\ \A p \in Callers : call'[p].stage = "idle" /\ cycle'[p].point = "off"
        /\ jobs' = jobs /\ restarts' # 0
    BY <1>8 DEF PoolRestart, Restart, Idle, Off, PoolTypeOK, TypeOK
  <2>2. ~Trusted' /\ AbsentUnattempted' /\ AttemptsAreAccounted'
    BY <2>1 DEF BooksInv, AbsentUnattempted, AttemptsAreAccounted, Trusted
  <2>. QED  BY <2>1, <2>2 DEF BooksInv, InBooks
<1>9. CASE PoolTick \/ UNCHANGED allVars
  <2>1. UNCHANGED <<jobs, call, restarts, cycle, faults>> /\ worker' = worker
    BY <1>9 DEF PoolTick, Tick, poolVars, allVars, vars
  <2>. QED  BY <1>6, <2>1
<1>. QED  BY <1>1, <1>2, <1>3, <1>4, <1>5, <1>7, <1>8, <1>9 DEF PoolNext

LEMMA BooksInit ==
  ASSUME IsFiniteSet(Jobs), PoolInit
  PROVE  BooksInv
<1>. DEFINE f == [j \in Jobs |-> jobs[j].attempts]
            e == [w \in Workers |-> worker[w].processed + worker[w].failed]
            u == [x \in Jobs |-> 0]
            v == [x \in Workers |-> 0]
<1>1. f = u /\ e = v
  BY DEF PoolInit, Init, Absent, NewWorker
<1>2. UnderWay = {}
  BY DEF PoolInit, Init, Absent, UnderWay
<1>3. Attempts = 0
  <2>1. PICK g : IsSum(f, Jobs, g) /\ Attempts = g[Jobs]
    BY AttemptsSum
  <2>2. IsSum(u, Jobs, g)
    BY <1>1, <2>1
  <2>. QED  BY <2>1, <2>2, SumOfNone
<1>4. Ended = 0
  <2>1. PICK g : IsSum(e, Workers, g) /\ Ended = g[Workers]
    BY EndedSum
  <2>2. IsSum(v, Workers, g)
    BY <1>1, <2>1
  <2>. QED  BY <2>1, <2>2, FinitePool, SumOfNone
<1>5. AttemptsAreAccounted
  BY <1>2, <1>3, <1>4, FS_EmptySet DEF AttemptsAreAccounted
<1>. QED  BY <1>5 DEF PoolInit, Init, Absent, Idle, Off, BooksInv, InBooks, AbsentUnattempted,
                      RunsInCycle

LEMMA BooksInvariant ==
  IsFiniteSet(Jobs) /\ Discipline # "free" /\ PoolSpec => []BooksInv
<1>. SUFFICES ASSUME IsFiniteSet(Jobs), Discipline # "free"
              PROVE  PoolSpec => []BooksInv
  OBVIOUS
<1>1. PoolInit => BooksInv
  BY BooksInit
<1>2. PoolTypeOK /\ PoolTypeOK' /\ AtAWorker /\ PoolInv /\ BooksInv /\ [PoolNext]_allVars
        => BooksInv'
  BY BooksStep
<1>3. PoolSpec => []PoolInv
  BY PoolInvariant
<1>. QED  BY <1>1, <1>2, <1>3, PoolTypes, PTL DEF PoolSpec

(* When cycles and maintenance await one another and the process lives on, *)
(* every attempt the repository counted is in some worker's books as       *)
(* processed or failed, or is the one under way: heartbeats and monitoring *)
(* lose no count, recovery and retries add none.                           *)
THEOREM AttemptsHold ==
  IsFiniteSet(Jobs) /\ Discipline # "free" /\ PoolSpec => []AttemptsAreAccounted
<1>1. BooksInv => AttemptsAreAccounted
  BY DEF BooksInv
<1>. QED  BY <1>1, BooksInvariant, PTL

-----------------------------------------------------------------------------
(* The budget under the pool                                               *)

(* The pool's steps keep the copies of its calls as sound as the queue's.  *)
LEMMA PoolBudgetStep ==
  ASSUME PoolTypeOK, AtAWorker, PoolInv, BudgetInv, [PoolNext]_allVars
  PROVE  BudgetInv'
<1>. USE CycleFields
<1>a. TypeOK
  BY DEF PoolTypeOK
<1>1. ASSUME UNCHANGED <<jobs, call, retries>> PROVE BudgetInv'
  BY <1>1 DEF BudgetInv, CallShape, Held, Sound
<1>2. ASSUME NEW p \in Callers, StartClaim(p) PROVE BudgetInv'
  <2>1. PICK j \in Jobs : /\ IsNext(j, cycle[p].at)
                          /\ Begin(p, "claim", j, Turn(p), cycle[p].at, Copy(j))
    BY <1>2 DEF StartClaim, BeginClaim
  <2>2. Copy(j)[j].status \in Waiting
    BY <2>1 DEF IsNext, IsRunnable, Copy, NothingRead
  <2>3. \A k \in Jobs : Sound(k, Copy(j)[k])
    BY <1>a, SoundCopies
  <2>. QED  BY <1>a, <2>1, <2>2, <2>3, BeginSound DEF Stage
<1>3. ASSUME NEW p \in Callers, CycleRejects(p) PROVE BudgetInv'
  BY <1>a, <1>3, IdleSound, BudgetRead DEF CycleRejects
<1>4. ASSUME NEW p \in Callers, FailFinished(p) PROVE BudgetInv'
  <2>. DEFINE j == cycle[p].job
  <2>1. j \in Jobs
    BY <1>4 DEF FailFinished, PoolInv, Sane, Stored
  <2>2. \A k \in Jobs : Sound(k, Copy(j)[k])
    BY <1>a, <2>1, SoundCopies
  <2>3. Begin(p, "fail", j, Turn(p), cycle[p].at, Copy(j))
    BY <1>4 DEF FailFinished
  <2>. HIDE DEF j
  <2>. QED  BY <1>a, <2>1, <2>2, <2>3, BeginSound DEF Stage
<1>5. ASSUME NEW p \in Callers, Step(p) PROVE BudgetInv'
  BY <1>a, <1>5, BudgetInvStep
<1>6. ASSUME NEW p \in Callers,
             CycleStep(p) \/ Enqueueing(p) \/ Recovering(p) \/ Retrying(p)
      PROVE  BudgetInv'
  <2>1. StartClaim(p) \/ Step(p) \/ UNCHANGED vars
    BY <1>6 DEF CycleStep, NextWorker, NothingToClaim, ClaimSaved, NoHandler, TakeUp,
       CallHandler, HandlerResolves, HandlerThrows, CompleteSaved, FailSaved,
       Enqueueing, Recovering, Retrying, Step
  <2>. QED  BY <1>1, <1>2, <1>5, <2>1, <1>6 DEF vars
<1>7. CASE PoolRestart
  <2>1. \A j \in Jobs : Sound(j, Absent)
    BY <1>a, SoundNew
  <2>2. CallShape' /\ \A q \in Callers, j \in Jobs : Sound(j, call'[q].seen[j])
    BY <1>7, <2>1 DEF PoolRestart, Restart, CallShape, Held, Idle, NothingRead
  <2>. QED  BY <1>7, <2>2, BudgetRead DEF PoolRestart, Restart
<1>8. ASSUME \/ \E p \in Callers : StartCycle(p)
             \/ \E w \in Workers :
                  RecordHeartbeat(w) \/ \E t \in Instants : MonitorHeartbeat(w, t)
             \/ PoolTick
             \/ UNCHANGED allVars
      PROVE  UNCHANGED <<jobs, call, retries>>
  BY <1>8 DEF StartCycle, RecordHeartbeat, MonitorHeartbeat, PoolTick, Tick, allVars, vars
<1>. QED  BY <1>1, <1>3, <1>4, <1>6, <1>7, <1>8 DEF PoolNext

(* No step takes a counter back, a claim raises it before the handler it   *)
(* allows is started.                                                      *)
LEMMA StartsKept ==
  ASSUME TypeOK, TypeOK', StartsAreCounted, AbsentUnattempted', runs' = runs,
         \A k \in Jobs : jobs'[k].attempts >= jobs[k].attempts,
         \A q \in Callers : call'[q].stage = "claimed" =>
           /\ call'[q].id \in Jobs
           /\ \/ call[q].stage = "claimed" /\ call[q].id = call'[q].id
              \/ jobs'[call'[q].id].attempts > jobs[call'[q].id].attempts
  PROVE  StartsAreCounted'
<1>1. \A k \in Jobs : /\ runs[k] \in Nat /\ jobs[k].attempts \in Nat
                      /\ jobs'[k].attempts \in Nat
  BY DEF TypeOK, JobRec
<1>2. \A k \in Jobs : runs'[k] <= jobs'[k].attempts
  BY <1>1 DEF StartsAreCounted
<1>3. \A q \in Callers : call'[q].stage = "claimed" =>
        runs'[call'[q].id] < jobs'[call'[q].id].attempts
  BY <1>1 DEF StartsAreCounted
<1>. QED  BY <1>2, <1>3 DEF StartsAreCounted, AbsentUnattempted

LEMMA PoolStartsStep ==
  ASSUME PoolTypeOK, PoolTypeOK', AtAWorker, PoolInv, BooksInv, BooksInv', StartsAreCounted,
         [PoolNext]_allVars
  PROVE  StartsAreCounted'
<1>. USE CycleFields, CallFields
<1>a. TypeOK /\ TypeOK' /\ AbsentUnattempted'
  BY DEF PoolTypeOK, BooksInv
<1>b. \A q \in Callers : Sane(q) /\ InBooks(q)
  BY DEF PoolInv, BooksInv
<1>c. \A k \in Jobs : jobs[k].attempts \in Nat /\ runs[k] \in Nat
  BY <1>a DEF TypeOK, JobRec
<1>d. \A q \in Callers : call[q].stage = "claimed" => call[q].id \in Jobs
  BY <1>b DEF Sane, Stored
<1>e. \A k \in Jobs : jobs[k].attempts >= jobs[k].attempts
  BY <1>c
<1>1. ASSUME UNCHANGED <<jobs, runs>>,
             \A q \in Callers : call'[q].stage = "claimed" =>
               call[q].stage = "claimed" /\ call[q].id = call'[q].id
      PROVE  StartsAreCounted'
  BY <1>1, <1>a, <1>d, <1>e, StartsKept
<1>2. ASSUME NEW p \in Callers, ClaimSaved(p) PROVE StartsAreCounted'
  <2>. DEFINE id == call[p].id
  <2>1. /\ call[p].stage = "claim" /\ id \in Jobs /\ runs' = runs
    BY <1>2, <1>b DEF ClaimSaved, EndClaim, Sane, Stored
  <2>2. /\ call'[p].id = id /\ \A q \in Callers \ {p} : call'[q] = call[q]
    BY <1>2, <1>a DEF ClaimSaved, EndClaim, TypeOK, Call
  <2>3. \A k \in Jobs : jobs'[k] = IF k = id THEN Claimed(Held(p), call[p].by, call[p].at)
                                             ELSE jobs[k]
    BY <1>2, <1>a DEF ClaimSaved, EndClaim, Save, TypeOK
  <2>4. jobs'[id].attempts = jobs[id].attempts + 1
    <3>1. Held(p) \in JobRec /\ Held(p).attempts = jobs[id].attempts
      BY <1>a, <1>b, <2>1 DEF InBooks
    <3>2. jobs'[id] = Claimed(Held(p), call[p].by, call[p].at)
      BY <2>1, <2>3
    <3>. QED  BY <3>1, <3>2 DEF Claimed, JobRec
  <2>5. \A k \in Jobs : jobs'[k].attempts >= jobs[k].attempts
    BY <1>c, <2>3, <2>4
  <2>6. jobs'[id].attempts > jobs[id].attempts
    BY <1>c, <2>1, <2>4
  <2>. HIDE DEF id
  <2>. QED  BY <1>a, <1>d, <2>1, <2>2, <2>5, <2>6, StartsKept
<1>3. ASSUME NEW p \in Callers, CallHandler(p) PROVE StartsAreCounted'
  <2>. DEFINE id == call[p].id
  <2>1. /\ call[p].stage = "claimed" /\ id \in Jobs /\ jobs' = jobs
        /\ call'[p].stage = "working" /\ \A q \in Callers \ {p} : call'[q] = call[q]
    BY <1>3, <1>a, <1>d DEF CallHandler, StartHandler, TypeOK, Call
  <2>2. \A k \in Jobs : runs'[k] = runs[k] \/ (k = id /\ runs'[k] = runs[k] + 1)
    BY <1>3, <1>a DEF CallHandler, StartHandler, TypeOK
  <2>3. runs[id] < jobs[id].attempts
    BY <2>1 DEF StartsAreCounted
  <2>4. \A k \in Jobs : runs'[k] <= jobs'[k].attempts
    BY <1>c, <2>1, <2>2, <2>3 DEF StartsAreCounted
  <2>5. \A q \in Callers \ {p} : call'[q].stage # "claimed"
    <3>1. Active(p)
      BY <2>1 DEF Active
    <3>. QED  BY <2>1, <3>1, OnlyOne DEF PoolInv, Active
  <2>. QED  BY <1>a, <2>1, <2>4, <2>5 DEF StartsAreCounted, AbsentUnattempted
<1>4. ASSUME NEW p \in Callers, call'[p].stage # "claimed", runs' = runs,
             \A q \in Callers \ {p} : call'[q] = call[q],
             NEW x \in Jobs, \A k \in Jobs \ {x} : jobs'[k] = jobs[k],
             jobs'[x].attempts = jobs[x].attempts
      PROVE  StartsAreCounted'
  <2>1. \A k \in Jobs : jobs'[k].attempts >= jobs[k].attempts
    BY <1>4, <1>c
  <2>. QED  BY <1>4, <1>a, <1>d, <2>1, StartsKept
<1>5. ASSUME NEW p \in Callers, EndComplete(p) \/ EndFail(p) \/ EndRetry(p)
      PROVE  StartsAreCounted'
  <2>. DEFINE id == call[p].id
  <2>1. /\ call[p].stage \in {"complete", "fail", "retry"} /\ id \in Jobs /\ runs' = runs
    BY <1>5, <1>b DEF EndComplete, EndFail, EndRetry, Sane, Stored
  <2>2. call'[p].stage = "idle" /\ \A q \in Callers \ {p} : call'[q] = call[q]
    BY <1>5, <1>a DEF EndComplete, EndFail, EndRetry, Return, Idle, TypeOK
  <2>3. Held(p) \in JobRec /\ Held(p).attempts = jobs[id].attempts
    BY <1>a, <1>b, <2>1 DEF InBooks
  <2>4. \A k \in Jobs \ {id} : jobs'[k] = jobs[k]
    BY <1>5, <1>a DEF EndComplete, EndFail, EndRetry, Save, TypeOK
  <2>5. \/ jobs'[id] = Completed(Held(p))
        \/ jobs'[id] = Failed(id, Held(p), call[p].at)
        \/ jobs'[id] = Retried(Held(p), call[p].at)
    BY <1>5, <1>a, <2>1 DEF EndComplete, EndFail, EndRetry, Save, TypeOK
  <2>6. jobs'[id].attempts = jobs[id].attempts
    BY <2>3, <2>5 DEF Completed, Failed, Retried, JobRec
  <2>. HIDE DEF id
  <2>. QED  BY <1>4, <2>1, <2>2, <2>4, <2>6
<1>6. ASSUME NEW p \in Callers, NEW j \in Jobs, RecoverOne(p, j) PROVE StartsAreCounted'
  <2>1. call[p].stage = "recover" /\ j \in Listed(p) /\ runs' = runs
    BY <1>6 DEF RecoverOne
  <2>2. call'[p].stage # "claimed" /\ \A q \in Callers \ {p} : call'[q] = call[q]
    BY <1>6, <1>a, <2>1 DEF RecoverOne, Return, Idle, TypeOK, Call
  <2>3. PICK r \in JobRec : r = call[p].seen[j]
    BY <1>a
  <2>4. jobs'[j] = Recovered(j, r, call[p].at) /\ \A k \in Jobs \ {j} : jobs'[k] = jobs[k]
    BY <1>6, <1>a, <2>3 DEF RecoverOne, Save, TypeOK
  <2>5. r.attempts = jobs[j].attempts
    BY <1>b, <2>1, <2>3 DEF InBooks
  <2>6. jobs'[j].attempts = jobs[j].attempts
    BY <2>3, <2>4, <2>5 DEF Recovered, JobRec
  <2>. QED  BY <1>4, <2>1, <2>2, <2>4, <2>6
<1>7. ASSUME NEW p \in Callers, EndEnqueue(p) PROVE StartsAreCounted'
  <2>. DEFINE id == call[p].id
  <2>1. /\ id \in Jobs /\ runs' = runs /\ call'[p].stage = "idle"
        /\ \A q \in Callers \ {p} : call'[q] = call[q]
    BY <1>7, <1>a, <1>b DEF EndEnqueue, Return, Idle, TypeOK, Sane, Stored
  <2>2. \A k \in Jobs \ {id} : jobs'[k] = jobs[k]
    BY <1>7, <1>a DEF EndEnqueue, Save, TypeOK
  <2>3. jobs'[id].attempts = jobs[id].attempts
    <3>1. CASE UNCHANGED jobs
      BY <3>1
    <3>2. ASSUME NEW d, Held(p).status = "absent", Save(id, Created(call[p].at + d))
          PROVE  jobs'[id].attempts = jobs[id].attempts
      <4>1. jobs[id].attempts = 0
        BY <1>7, <1>b, <2>1, <3>2 DEF EndEnqueue, Sane, Stored, BooksInv, AbsentUnattempted
      <4>2. jobs'[id].attempts = 0
        BY <1>a, <2>1, <3>2 DEF Save, Created, Absent, TypeOK
      <4>. QED  BY <4>1, <4>2
    <3>. QED  BY <1>7, <3>1, <3>2 DEF EndEnqueue
  <2>. HIDE DEF id
  <2>. QED  BY <1>4, <2>1, <2>2, <2>3
<1>8. ASSUME NEW p \in Callers,
             \/ StartClaim(p) \/ NoHandler(p) \/ HandlerThrows(p) \/ HandlerResolves(p)
             \/ CycleRejects(p) \/ FailFinished(p)
             \/ \E j \in Jobs : BeginEnqueue(p, j) \/ BeginRetry(p, j)
             \/ BeginRecover(p)
      PROVE  StartsAreCounted'
  <2>1. /\ UNCHANGED <<jobs, runs>> /\ call'[p].stage # "claimed"
        /\ \A q \in Callers \ {p} : call'[q] = call[q]
    BY <1>8, <1>a DEF StartClaim, BeginClaim, NoHandler, HandlerThrows, HandlerResolves,
       CycleRejects, FailFinished, BeginEnqueue, BeginRetry, BeginRecover, BeginFail,
       BeginComplete, Begin, Return, Idle, TypeOK, Call
  <2>. QED  BY <1>1, <2>1
<1>9. CASE PoolRestart
  <2>1. UNCHANGED <<jobs, runs>> /\ \A q \in Callers : call'[q].stage # "claimed"
    BY <1>9 DEF PoolRestart, Restart, Idle
  <2>. QED  BY <1>1, <2>1
<1>10. ASSUME \/ \E p \in Callers :
                   StartCycle(p) \/ NextWorker(p) \/ NothingToClaim(p) \/ TakeUp(p)
              \/ \E w \in Workers :
                   RecordHeartbeat(w) \/ \E t \in Instants : MonitorHeartbeat(w, t)
              \/ PoolTick
              \/ UNCHANGED allVars
       PROVE  StartsAreCounted'
  <2>1. UNCHANGED <<jobs, runs, call>>
    BY <1>10 DEF StartCycle, NextWorker, NothingToClaim, TakeUp, RecordHeartbeat,
       MonitorHeartbeat, PoolTick, Tick, allVars, vars
  <2>. QED  BY <1>1, <2>1
<1>. QED
  BY <1>2, <1>3, <1>5, <1>6, <1>7, <1>8, <1>9, <1>10
     DEF PoolNext, CycleStep, CompleteSaved, FailSaved, Enqueueing, Recovering, Retrying

LEMMA PoolBudget ==
  IsFiniteSet(Jobs) /\ Discipline # "free" /\ PoolSpec => [](BudgetInv /\ StartsAreCounted)
<1>. SUFFICES ASSUME IsFiniteSet(Jobs), Discipline # "free"
              PROVE  PoolSpec => [](BudgetInv /\ StartsAreCounted)
  OBVIOUS
<1>1. PoolInit => BudgetInv /\ StartsAreCounted
  <2>. SUFFICES ASSUME PoolInit PROVE BudgetInv /\ StartsAreCounted
    OBVIOUS
  <2>1. TypeOK
    BY AbsentType, IdleType DEF PoolInit, Init, TypeOK
  <2>2. \A j \in Jobs : Sound(j, Absent)
    BY <2>1, SoundNew
  <2>. QED
    BY <2>2 DEF PoolInit, Init, BudgetInv, CallShape, Held, Idle, NothingRead,
                StartsAreCounted, Absent
<1>2. PoolTypeOK /\ AtAWorker /\ PoolInv /\ BudgetInv /\ [PoolNext]_allVars => BudgetInv'
  BY PoolBudgetStep
<1>3. /\ PoolTypeOK /\ PoolTypeOK' /\ AtAWorker /\ PoolInv /\ BooksInv /\ BooksInv'
      /\ StartsAreCounted /\ [PoolNext]_allVars
      => StartsAreCounted'
  BY PoolStartsStep
<1>4. PoolSpec => []PoolInv
  BY PoolInvariant
<1>5. PoolSpec => []BooksInv
  BY BooksInvariant
<1>. QED  BY <1>1, <1>2, <1>3, <1>4, <1>5, PoolTypes, PTL DEF PoolSpec

(* The budget bounds handler starts under the pool too, over restarts and  *)
(* recoveries, and also where a save that rejects has the cycle fail a job *)
(* it had completed.                                                       *)
THEOREM PoolRunsBounded ==
  IsFiniteSet(Jobs) /\ Discipline # "free" /\ PoolSpec => []RunsWithinBudget
<1>1. TypeOK /\ BudgetInv /\ StartsAreCounted => RunsWithinBudget
  <2>. SUFFICES ASSUME TypeOK, BudgetInv, StartsAreCounted, NEW j \in Jobs
                PROVE  runs[j] <= MaxAttempts[j] + retries[j]
    BY DEF RunsWithinBudget
  <2>1. runs[j] <= jobs[j].attempts /\ jobs[j].attempts <= MaxAttempts[j] + retries[j]
    BY DEF StartsAreCounted, BudgetInv, Sound
  <2>2. runs[j] \in Nat /\ retries[j] \in Nat /\ MaxAttempts[j] \in Nat
    BY JobRecordAssumption DEF TypeOK, JobRecordAssumption
  <2>. QED  BY <2>1, <2>2, AttemptsAreNat
<1>2. PoolTypeOK => TypeOK
  BY DEF PoolTypeOK
<1>. QED  BY <1>1, <1>2, PoolBudget, PoolTypes, PTL

-----------------------------------------------------------------------------
(* The pool as a user of the queue                                         *)

(* The instant a cycle took the time at is past.                           *)
InPast ==
  /\ now <= MaxTime
  /\ \A p \in Callers : cycle[p].at <= now

LEMMA InPastStep ==
  ASSUME PoolTypeOK, AtAWorker, InPast, [PoolNext]_allVars
  PROVE  InPast'
<1>. USE CycleFields
<1>a. now \in Nat /\ MaxTime \in Nat /\ \A q \in Callers : cycle[q].at \in Nat
  BY JobQueueAssumption DEF PoolTypeOK, TypeOK, JobQueueAssumption
<1>1. ASSUME now' = now \/ (now < MaxTime /\ now' = now + 1), NEW p \in Callers,
             \A q \in Callers : cycle'[q].at \in {cycle[q].at, 0, now}
      PROVE  InPast'
  BY <1>1, <1>a DEF InPast
<1>2. ASSUME NEW p \in Callers, NEW n, NEW t \in {cycle[p].at, now}, Visit(p, n, t), now' = now
      PROVE  InPast'
  <2>1. \A q \in Callers : cycle'[q].at \in {cycle[q].at, 0, now}
    BY <1>2 DEF Visit, Off, PoolTypeOK
  <2>. QED  BY <1>1, <1>2, <2>1
<1>3. ASSUME NEW p \in Callers, StartCycle(p) \/ NextWorker(p) \/ NothingToClaim(p)
      PROVE  InPast'
  BY <1>2, <1>3 DEF StartCycle, NextWorker, NothingToClaim, vars
<1>4. ASSUME NEW p \in Callers,
             \/ StartClaim(p) \/ ClaimSaved(p) \/ NoHandler(p) \/ TakeUp(p)
             \/ CallHandler(p) \/ HandlerResolves(p) \/ HandlerThrows(p)
             \/ CompleteSaved(p) \/ FailSaved(p) \/ CycleRejects(p) \/ FailFinished(p)
      PROVE  InPast'
  <2>1. now' = now
    BY <1>4 DEF StartClaim, ClaimSaved, NoHandler, TakeUp, CallHandler, HandlerResolves,
       HandlerThrows, CompleteSaved, FailSaved, CycleRejects, FailFinished, BeginClaim,
       EndClaim, BeginFail, StartHandler, BeginComplete, EndComplete, EndFail, Begin, vars
  <2>2. \A q \in Callers : cycle'[q].at \in {cycle[q].at, 0}
    <3>1. ASSUME NEW point, GoTo(p, point)
          PROVE  \A q \in Callers : cycle'[q].at = cycle[q].at
      BY <3>1 DEF GoTo, PoolTypeOK, Cycle
    <3>2. ASSUME NEW s, NEW point, Publish(p, s, point)
          PROVE  \A q \in Callers : cycle'[q].at = cycle[q].at
      BY <3>2 DEF Publish, PoolTypeOK, Cycle
    <3>3. ASSUME ClaimSaved(p) \/ FailFinished(p)
          PROVE  \A q \in Callers : cycle'[q].at = cycle[q].at
      BY <3>3 DEF ClaimSaved, FailFinished, PoolTypeOK, Cycle
    <3>4. ASSUME CycleRejects(p)
          PROVE  \A q \in Callers : cycle'[q].at \in {cycle[q].at, 0}
      BY <3>4 DEF CycleRejects, Off, PoolTypeOK
    <3>. QED
      BY <1>4, <3>1, <3>2, <3>3, <3>4 DEF StartClaim, NoHandler, TakeUp, CallHandler,
         HandlerResolves, HandlerThrows, CompleteSaved, FailSaved
  <2>. QED  BY <1>1, <2>1, <2>2
<1>5. ASSUME cycle' = cycle, now' = now \/ (now < MaxTime /\ now' = now + 1) PROVE InPast'
  BY <1>5, <1>a DEF InPast
<1>6. ASSUME NEW p \in Callers, Enqueueing(p) \/ Recovering(p) \/ Retrying(p) PROVE InPast'
  <2>1. cycle' = cycle /\ now' = now
    BY <1>6 DEF Enqueueing, Recovering, Retrying, poolVars, EndEnqueue, BeginEnqueue,
       BeginRecover, RecoverOne, BeginRetry, EndRetry, Begin
  <2>. QED  BY <1>5, <2>1
<1>7. CASE PoolRestart
  BY <1>7, <1>a DEF PoolRestart, Restart, InPast, Off
<1>8. ASSUME \/ \E w \in Workers :
                  RecordHeartbeat(w) \/ \E t \in Instants : MonitorHeartbeat(w, t)
             \/ PoolTick
             \/ UNCHANGED allVars
      PROVE  InPast'
  <2>1. cycle' = cycle /\ (now' = now \/ (now < MaxTime /\ now' = now + 1))
    BY <1>8 DEF RecordHeartbeat, MonitorHeartbeat, PoolTick, Tick, poolVars, allVars, vars
  <2>. QED  BY <1>5, <2>1
<1>. QED  BY <1>3, <1>4, <1>6, <1>7, <1>8 DEF PoolNext, CycleStep

(* A pool none of whose saves reject uses the queue as JobQueue lets its   *)
(* callers: whatever cycles, heartbeats and maintenance overlap, its steps *)
(* are steps of the queue or leave it alone, so what is proved of the      *)
(* queue holds of it.  (A lagging cycle passes an instant of the past: the *)
(* lag JobQueue allows must reach as far as the clock does.)               *)
THEOREM PoolUsesQueue ==
  ASSUME MaxFaults = 0, MaxTime <= MaxLag
  PROVE  PoolSpec => Spec
<1>1. PoolInit => Init
  BY DEF PoolInit
<1>2. PoolInit => InPast
  BY JobQueueAssumption DEF PoolInit, Init, InPast, Off, JobQueueAssumption
<1>3. PoolTypeOK /\ AtAWorker /\ InPast /\ [PoolNext]_allVars => InPast'
  BY InPastStep
<1>4. PoolTypeOK /\ AtAWorker /\ InPast /\ [PoolNext]_allVars => [Next]_vars
  <2>. SUFFICES ASSUME PoolTypeOK, AtAWorker, InPast, [PoolNext]_allVars PROVE [Next]_vars
    OBVIOUS
  <2>. USE CycleFields
  <2>1. ASSUME NEW p \in Callers, StartClaim(p) PROVE Step(p)
    <3>1. Turn(p) \in Workers
      BY <2>1 DEF StartClaim
    <3>2. cycle[p].at \in Instants
      BY JobQueueAssumption DEF InPast, Instants, JobQueueAssumption, PoolTypeOK, TypeOK
    <3>. QED  BY <2>1, <3>1, <3>2 DEF StartClaim, Step
  <2>2. ASSUME NEW p \in Callers,
               \/ CycleStep(p) \/ StartCycle(p) \/ Enqueueing(p) \/ Recovering(p) \/ Retrying(p)
        PROVE  Step(p) \/ UNCHANGED vars
    BY <2>1, <2>2 DEF CycleStep, StartCycle, NextWorker, NothingToClaim, ClaimSaved,
       NoHandler, TakeUp, CallHandler, HandlerResolves, HandlerThrows, CompleteSaved,
       FailSaved, Enqueueing, Recovering, Retrying, Step
  <2>3. ASSUME NEW p \in Callers PROVE ~CycleRejects(p) /\ ~FailFinished(p)
    <3>1. ~(faults < MaxFaults)
      BY DEF PoolTypeOK
    <3>. QED  BY <3>1 DEF CycleRejects, FailFinished
  <2>4. ASSUME NEW w \in Workers,
               RecordHeartbeat(w) \/ \E t \in Instants : MonitorHeartbeat(w, t)
        PROVE  UNCHANGED vars
    BY <2>4 DEF RecordHeartbeat, MonitorHeartbeat
  <2>. QED
    BY <2>2, <2>3, <2>4 DEF PoolNext, PoolRestart, PoolTick, Next, allVars
<1>. QED  BY <1>1, <1>2, <1>3, <1>4, PoolTypes, PTL DEF PoolSpec, Spec
=============================================================================
