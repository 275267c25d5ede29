---------------------------- MODULE JobQueueProofs ----------------------------
(***************************************************************************)
(* What JobQueue guarantees for every set of jobs and callers, every       *)
(* budget and every bound.  First, however calls overlap: types, and the   *)
(* stored attempts within their budget.  Then, when the callers await one  *)
(* another: the budget bounds handler starts, terminal jobs stay terminal, *)
(* and the queue implements JobLifecycle.                                  *)
(***************************************************************************)
EXTENDS JobQueue, TLAPS

-----------------------------------------------------------------------------
(* Records                                                                 *)

LEMMA AbsentType == Absent \in JobRec
BY DEF Absent, JobRec, Status

LEMMA RetryDelayType ==
  ASSUME NEW a \in Nat
  PROVE  RetryDelay(a) \in Nat
<1>. DEFINE exponent == IF a = 0 THEN 0 ELSE a - 1
            raw == IF Strategy = "fixed" THEN BaseDelay ELSE BaseDelay * 2^exponent
<1>1. RetryDelay(a) = IF raw \in 0..MaxDelay THEN raw ELSE MaxDelay
  BY DEF RetryDelay
<1>. HIDE DEF raw
<1>. QED  BY <1>1, JobRecordAssumption DEF JobRecordAssumption

LEMMA CreatedType ==
  ASSUME NEW t \in Nat
  PROVE  Created(t) \in JobRec
BY AbsentType DEF Created, Absent, JobRec, Status

(* Every operation turns a record into a record.                           *)
LEMMA OperationTypes ==
  ASSUME NEW j \in Jobs, NEW r \in JobRec, NEW t \in Nat, NEW w \in Workers \cup {NoWorker}
  PROVE  /\ Claimed(r, w, t) \in JobRec
         /\ Beaten(r, t) \in JobRec
         /\ Completed(r) \in JobRec
         /\ Failed(j, r, t) \in JobRec
         /\ Retried(r, t) \in JobRec
         /\ Recovered(j, r, t) \in JobRec
<1>1. r.attempts \in Nat /\ r.attempts + 1 \in Nat
  BY DEF JobRec
<1>2. t + RetryDelay(r.attempts) \in Nat
  BY <1>1, RetryDelayType
<1>3. Claimed(r, w, t) \in JobRec
  BY <1>1 DEF Claimed, JobRec, Status
<1>4. Beaten(r, t) \in JobRec
  BY DEF Beaten, JobRec
<1>5. Completed(r) \in JobRec
  BY DEF Completed, JobRec, Status
<1>6. Failed(j, r, t) \in JobRec
  BY <1>2 DEF Failed, JobRec, Status
<1>7. Retried(r, t) \in JobRec
  BY DEF Retried, JobRec, Status
<1>8. Recovered(j, r, t) \in JobRec
  BY DEF Recovered, JobRec, Status
<1>. QED  BY <1>3, <1>4, <1>5, <1>6, <1>7, <1>8

-----------------------------------------------------------------------------
(* Types                                                                   *)

LEMMA IdleType == Idle \in Call
BY AbsentType DEF Idle, Call, NothingRead, Stage

LEMMA CopyType ==
  ASSUME TypeOK, NEW j \in Jobs \cup {NoJob}
  PROVE  /\ NothingRead \in [Jobs -> JobRec]
         /\ Copy(j) \in [Jobs -> JobRec]
         /\ BeatenCopy(j) \in [Jobs -> JobRec]
<1>1. NothingRead \in [Jobs -> JobRec]
  BY AbsentType DEF NothingRead
<1>2. Copy(j) \in [Jobs -> JobRec]
  BY <1>1 DEF Copy, TypeOK
<1>3. j \in Jobs => Beaten(jobs[j], now) \in JobRec
  BY OperationTypes DEF TypeOK
<1>4. BeatenCopy(j) \in [Jobs -> JobRec]
  BY <1>1, <1>3 DEF BeatenCopy
<1>. QED  BY <1>1, <1>2, <1>4

(* A call that begins is well formed.                                      *)
LEMMA BeginType ==
  ASSUME TypeOK, NEW p \in Callers, NEW stage \in Stage,
         NEW j \in Jobs \cup {NoJob}, NEW w \in Workers \cup {NoWorker},
         NEW t \in Nat, NEW seen \in [Jobs -> JobRec],
         Begin(p, stage, j, w, t, seen)
  PROVE  TypeOK'
BY DEF Begin, TypeOK, Call

(* Moving a call to another stage with other copies keeps it well formed.  *)
LEMMA StageType ==
  ASSUME TypeOK, NEW p \in Callers, NEW stage \in Stage,
         NEW seen \in [Jobs -> JobRec]
  PROVE  [call EXCEPT ![p].stage = stage, ![p].seen = seen] \in [Callers -> Call]
BY DEF TypeOK, Call

LEMMA SaveType ==
  ASSUME TypeOK, NEW j, NEW r, j \in Jobs => r \in JobRec, Save(j, r)
  PROVE  jobs' \in [Jobs -> JobRec]
BY DEF Save, TypeOK

LEMMA ReturnType ==
  ASSUME TypeOK, NEW p \in Callers, Return(p)
  PROVE  call' \in [Callers -> Call]
BY IdleType DEF Return, TypeOK

LEMMA CallFields ==
  ASSUME TypeOK, NEW p \in Callers
  PROVE  /\ call[p].id \in Jobs \cup {NoJob}
         /\ call[p].by \in Workers \cup {NoWorker}
         /\ call[p].at \in Nat
         /\ call[p].stage \in Stage
         /\ call[p].seen \in [Jobs -> JobRec]
         /\ call[p].id \in Jobs => Held(p) \in JobRec
BY DEF TypeOK, Call, Held

LEMMA StepType ==
  ASSUME TypeOK, NEW p \in Callers, Step(p)
  PROVE  TypeOK'
<1>. USE CallFields
<1>1. ASSUME NEW j \in Jobs, BeginEnqueue(p, j) PROVE TypeOK'
  BY <1>1, BeginType, CopyType DEF BeginEnqueue, Stage, TypeOK
<1>2. CASE EndEnqueue(p)
  <2>1. jobs' \in [Jobs -> JobRec]
    <3>1. CASE UNCHANGED jobs
      BY <3>1 DEF TypeOK
    <3>2. ASSUME NEW d \in EnqueueDelay, Save(call[p].id, Created(call[p].at + d))
          PROVE  jobs' \in [Jobs -> JobRec]
      <4>1. call[p].at + d \in Nat
        BY JobQueueAssumption DEF JobQueueAssumption
      <4>. QED  BY <3>2, <4>1, CreatedType, SaveType
    <3>. QED  BY <1>2, <3>1, <3>2 DEF EndEnqueue
  <2>. QED  BY <1>2, <2>1, ReturnType DEF EndEnqueue, TypeOK
<1>3. ASSUME NEW w \in Workers, NEW t \in Instants, BeginClaim(p, w, t)
      PROVE  TypeOK'
  <2>1. t \in Nat
    BY DEF Instants, TypeOK
  <2>. QED  BY <1>3, <2>1, BeginType, CopyType DEF BeginClaim, Stage
<1>4. CASE EndClaim(p)
  <2>1. jobs' \in [Jobs -> JobRec]
    BY <1>4, SaveType, OperationTypes DEF EndClaim
  <2>2. call' \in [Callers -> Call]
    BY <1>4, StageType, CopyType DEF EndClaim, Stage
  <2>. QED  BY <1>4, <2>1, <2>2 DEF EndClaim, TypeOK
<1>5. CASE StartHandler(p)
  <2>1. call' \in [Callers -> Call]
    BY <1>5 DEF StartHandler, Stage, TypeOK, Call
  <2>2. runs' \in [Jobs -> Nat]
    <3>1. \A k \in Jobs : runs[k] + 1 \in Nat /\ runs[k] \in Nat
      BY DEF TypeOK
    <3>. QED  BY <1>5, <3>1 DEF StartHandler, TypeOK
  <2>. QED  BY <1>5, <2>1, <2>2 DEF StartHandler, TypeOK
<1>6. CASE BeginComplete(p)
  BY <1>6, StageType, CopyType DEF BeginComplete, Stage, TypeOK
<1>7. CASE EndComplete(p)
  <2>1. jobs' \in [Jobs -> JobRec]
    BY <1>7, SaveType, OperationTypes DEF EndComplete
  <2>. QED  BY <1>7, <2>1, ReturnType DEF EndComplete, TypeOK
<1>8. CASE BeginFail(p)
  BY <1>8, StageType, CopyType DEF BeginFail, Stage, TypeOK
<1>9. CASE EndFail(p)
  <2>1. jobs' \in [Jobs -> JobRec]
    BY <1>9, SaveType, OperationTypes DEF EndFail
  <2>. QED  BY <1>9, <2>1, ReturnType DEF EndFail, TypeOK
<1>10. CASE BeginWorkBeat(p)
  BY <1>10, StageType, CopyType DEF BeginWorkBeat, Stage, TypeOK
<1>11. CASE EndWorkBeat(p)
  <2>1. jobs' \in [Jobs -> JobRec]
    BY <1>11, SaveType DEF EndWorkBeat
  <2>2. call' \in [Callers -> Call]
    BY <1>11, StageType, CopyType DEF EndWorkBeat, Stage
  <2>. QED  BY <1>11, <2>1, <2>2 DEF EndWorkBeat, TypeOK
<1>12. ASSUME NEW j \in Jobs, BeginBeat(p, j) PROVE TypeOK'
  BY <1>12, BeginType, CopyType DEF BeginBeat, Stage, TypeOK
<1>13. CASE EndBeat(p)
  <2>1. jobs' \in [Jobs -> JobRec]
    BY <1>13, SaveType DEF EndBeat
  <2>. QED  BY <1>13, <2>1, ReturnType DEF EndBeat, TypeOK
<1>14. ASSUME NEW j \in Jobs, BeginRetry(p, j) PROVE TypeOK'
  BY <1>14, BeginType, CopyType DEF BeginRetry, Stage, TypeOK
<1>15. CASE EndRetry(p)
  <2>1. jobs' \in [Jobs -> JobRec]
    BY <1>15, SaveType, OperationTypes DEF EndRetry
  <2>2. retries' \in [Jobs -> Nat]
    <3>1. \A k \in Jobs : retries[k] + 1 \in Nat
      BY DEF TypeOK
    <3>. QED  BY <1>15, <3>1 DEF EndRetry, TypeOK
  <2>. QED  BY <1>15, <2>1, <2>2, ReturnType DEF EndRetry, TypeOK
<1>16. CASE BeginRecover(p)
  <2>1. [j \in Jobs |-> IF IsStale(jobs[j], now) THEN jobs[j] ELSE Absent]
          \in [Jobs -> JobRec]
    BY AbsentType DEF TypeOK
  <2>. QED  BY <1>16, <2>1, BeginType DEF BeginRecover, Stage, TypeOK
<1>17. ASSUME NEW j \in Jobs, RecoverOne(p, j) PROVE TypeOK'
  <2>1. jobs' \in [Jobs -> JobRec]
    BY <1>17, SaveType, OperationTypes DEF RecoverOne
  <2>2. call' \in [Callers -> Call]
    <3>1. CASE Return(p)
      BY <3>1, ReturnType
    <3>2. CASE call' = [call EXCEPT ![p].seen[j] = Absent]
      <4>1. [call[p].seen EXCEPT ![j] = Absent] \in [Jobs -> JobRec]
        BY AbsentType
      <4>2. [call[p] EXCEPT !.seen = [call[p].seen EXCEPT ![j] = Absent]] \in Call
        BY <4>1 DEF TypeOK, Call
      <4>3. call' = [call EXCEPT ![p] =
                       [call[p] EXCEPT !.seen = [call[p].seen EXCEPT ![j] = Absent]]]
        BY <3>2
      <4>. QED  BY <4>2, <4>3 DEF TypeOK
    <3>. QED  BY <1>17, <3>1, <3>2 DEF RecoverOne
  <2>. QED  BY <1>17, <2>1, <2>2 DEF RecoverOne, TypeOK
<1>. QED
  BY <1>1, <1>2, <1>3, <1>4, <1>5, <1>6, <1>7, <1>8, <1>9, <1>10, <1>11,
     <1>12, <1>13, <1>14, <1>15, <1>16, <1>17 DEF Step

(* Every variable keeps its type, whatever callers do.                     *)
THEOREM TypeCorrect == Spec => []TypeOK
<1>1. Init => TypeOK
  BY AbsentType, IdleType DEF Init, TypeOK
<1>2. TypeOK /\ [Next]_vars => TypeOK'
  <2>. SUFFICES ASSUME TypeOK, [Next]_vars PROVE TypeOK'
    OBVIOUS
  <2>1. ASSUME NEW p \in Callers, Step(p) PROVE TypeOK'
    BY <2>1, StepType
  <2>2. CASE Restart
    BY <2>2, IdleType DEF Restart, TypeOK
  <2>3. CASE Tick
    BY <2>3 DEF Tick, TypeOK
  <2>4. CASE UNCHANGED vars
    BY <2>4 DEF vars, TypeOK
  <2>. QED  BY <2>1, <2>2, <2>3, <2>4 DEF Next
<1>. QED  BY <1>1, <1>2, PTL DEF Spec

-----------------------------------------------------------------------------
(* The budget, however calls overlap                                       *)

LEMMA SoundOperations ==
  ASSUME TypeOK, NEW j \in Jobs, NEW r \in JobRec, NEW t \in Nat,
         NEW w \in Workers \cup {NoWorker}, Sound(j, r)
  PROVE  /\ r.status \in Waiting => Sound(j, Claimed(r, w, t))
         /\ Sound(j, Beaten(r, t))
         /\ Sound(j, Completed(r))
         /\ Sound(j, Failed(j, r, t))
         /\ Sound(j, Recovered(j, r, t))
<1>1. /\ r.attempts \in Nat
      /\ MaxAttempts[j] \in Nat
      /\ retries[j] \in Nat
  BY JobRecordAssumption DEF JobRec, TypeOK, JobRecordAssumption
<1>2. r.status \in Waiting => Sound(j, Claimed(r, w, t))
  BY <1>1 DEF Sound, Claimed, Waiting, JobRec
<1>3. Sound(j, Beaten(r, t))
  BY <1>1 DEF Sound, Beaten, JobRec
<1>4. Sound(j, Completed(r))
  BY <1>1 DEF Sound, Completed, Waiting, JobRec
<1>5. Sound(j, Failed(j, r, t))
  BY <1>1 DEF Sound, Failed, HasBudget, Waiting, JobRec
<1>6. Sound(j, Recovered(j, r, t))
  BY <1>1 DEF Sound, Recovered, HasBudget, Waiting, JobRec
<1>. QED  BY <1>2, <1>3, <1>4, <1>5, <1>6

LEMMA SoundNew ==
  ASSUME TypeOK, NEW j \in Jobs, NEW t \in Nat
  PROVE  Sound(j, Absent) /\ Sound(j, Created(t))
<1>1. MaxAttempts[j] \in Nat \ {0} /\ retries[j] \in Nat
  BY JobRecordAssumption DEF TypeOK, JobRecordAssumption
<1>. QED  BY <1>1 DEF Sound, Absent, Created, Waiting

(* What a call reads is as sound as what is stored.                        *)
LEMMA SoundCopies ==
  ASSUME TypeOK, BudgetInv, NEW i \in Jobs \cup {NoJob}, NEW j \in Jobs
  PROVE  /\ Sound(j, NothingRead[j])
         /\ Sound(j, Copy(i)[j])
         /\ Sound(j, BeatenCopy(i)[j])
<1>1. Sound(j, Absent)
  BY SoundNew
<1>2. Sound(j, Beaten(jobs[j], now))
  BY SoundOperations DEF BudgetInv, TypeOK
<1>. QED  BY <1>1, <1>2 DEF NothingRead, Copy, BeatenCopy, BudgetInv

(* A step that keeps the retries granted, saves at most one sound record   *)
(* and leaves the callers with sound copies preserves the invariant.       *)
LEMMA BudgetStep ==
  ASSUME TypeOK, BudgetInv, CallShape', retries' = retries,
         NEW i \in Jobs, NEW r, Sound(i, r),
         jobs' = jobs \/ Save(i, r),
         \A q \in Callers, j \in Jobs : Sound(j, call'[q].seen[j])
  PROVE  BudgetInv'
<1>1. \A j \in Jobs : Sound(j, jobs'[j])
  BY DEF BudgetInv, Save, TypeOK
<1>. QED  BY <1>1 DEF BudgetInv, Sound

LEMMA BudgetRead ==
  ASSUME BudgetInv, CallShape', UNCHANGED <<jobs, retries>>,
         \A q \in Callers, j \in Jobs : Sound(j, call'[q].seen[j])
  PROVE  BudgetInv'
BY DEF BudgetInv, Sound

LEMMA IdleSound ==
  ASSUME TypeOK, BudgetInv, NEW p \in Callers, Return(p)
  PROVE  /\ CallShape'
         /\ \A q \in Callers, j \in Jobs : Sound(j, call'[q].seen[j])
<1>1. \A j \in Jobs : Sound(j, Absent)
  BY SoundNew
<1>2. \A q \in Callers : call'[q] = IF q = p THEN Idle ELSE call[q]
  BY DEF Return, TypeOK
<1>. QED  BY <1>1, <1>2 DEF BudgetInv, CallShape, Held, Idle, NothingRead

(* A call that begins, or moves to another stage, with sound copies.       *)
LEMMA BeginSound ==
  ASSUME TypeOK, BudgetInv, NEW p \in Callers, NEW stage \in Stage, NEW j, NEW w,
         NEW t, NEW seen, Begin(p, stage, j, w, t, seen),
         stage \notin {"idle", "recover"} => j \in Jobs,
         stage = "claim" => seen[j].status \in Waiting,
         \A k \in Jobs : Sound(k, seen[k])
  PROVE  BudgetInv'
<1>1. \A q \in Callers : call'[q] =
        IF q = p THEN [stage |-> stage, id |-> j, by |-> w, at |-> t, seen |-> seen]
        ELSE call[q]
  BY DEF Begin, TypeOK
<1>2. CallShape'
  BY <1>1 DEF BudgetInv, CallShape, Held
<1>3. \A q \in Callers, k \in Jobs : Sound(k, call'[q].seen[k])
  BY <1>1 DEF BudgetInv
<1>. QED  BY <1>2, <1>3, BudgetRead DEF Begin

LEMMA StageSound ==
  ASSUME TypeOK, BudgetInv, NEW p \in Callers, NEW stage \in Stage, NEW seen,
         call' = [call EXCEPT ![p].stage = stage, ![p].seen = seen],
         call[p].stage \notin {"idle", "recover"}, stage # "claim",
         \A k \in Jobs : Sound(k, seen[k])
  PROVE  /\ CallShape'
         /\ \A q \in Callers, k \in Jobs : Sound(k, call'[q].seen[k])
<1>1. \A q \in Callers : q # p => call'[q] = call[q]
  BY DEF TypeOK
<1>2. /\ call'[p].stage = stage
      /\ call'[p].id = call[p].id
      /\ call'[p].seen = seen
  BY DEF TypeOK, Call
<1>. QED  BY <1>1, <1>2 DEF BudgetInv, CallShape, Held

LEMMA BudgetInvStep ==
  ASSUME TypeOK, BudgetInv, NEW p \in Callers, Step(p)
  PROVE  BudgetInv'
<1>. USE CallFields
<1>. DEFINE id == call[p].id
<1>a. \A k \in Jobs : /\ Sound(k, NothingRead[k])
                      /\ Sound(k, Copy(id)[k])
                      /\ Sound(k, BeatenCopy(id)[k])
  BY SoundCopies
<1>b. ASSUME call[p].stage \notin {"idle", "recover"}
      PROVE  id \in Jobs /\ Held(p) \in JobRec /\ Sound(id, Held(p))
  BY <1>b DEF BudgetInv, CallShape, Held
<1>1. ASSUME NEW j \in Jobs, BeginEnqueue(p, j) PROVE BudgetInv'
  BY <1>1, BeginSound, SoundCopies DEF BeginEnqueue, Stage
<1>2. CASE EndEnqueue(p)
  <2>1. id \in Jobs
    BY <1>2, <1>b DEF EndEnqueue
  <2>2. CASE UNCHANGED jobs
    BY <1>2, <2>2, IdleSound, BudgetRead DEF EndEnqueue
  <2>3. ASSUME NEW d \in EnqueueDelay, Save(id, Created(call[p].at + d))
        PROVE  BudgetInv'
    <3>1. Sound(id, Created(call[p].at + d))
      BY <2>1, SoundNew, JobQueueAssumption DEF JobQueueAssumption
    <3>. QED  BY <1>2, <2>1, <2>3, <3>1, IdleSound, BudgetStep DEF EndEnqueue
  <2>. QED  BY <1>2, <2>2, <2>3 DEF EndEnqueue
<1>3. ASSUME NEW w \in Workers, NEW t \in Instants, BeginClaim(p, w, t)
      PROVE  BudgetInv'
  <2>1. PICK j \in Jobs : IsNext(j, t) /\ Begin(p, "claim", j, w, t, Copy(j))
    BY <1>3 DEF BeginClaim
  <2>2. Copy(j)[j].status \in Waiting
    BY <2>1 DEF IsNext, IsRunnable, Copy, NothingRead
  <2>. QED  BY <2>1, <2>2, BeginSound, SoundCopies DEF Stage
<1>4. CASE EndClaim(p)
  <2>1. Sound(id, Claimed(Held(p), call[p].by, call[p].at))
    BY <1>4, <1>b, SoundOperations DEF EndClaim, BudgetInv, CallShape
  <2>2. /\ CallShape'
        /\ \A q \in Callers, k \in Jobs : Sound(k, call'[q].seen[k])
    BY <1>4, <1>a, StageSound DEF EndClaim, Stage
  <2>. QED  BY <1>4, <1>b, <2>1, <2>2, BudgetStep DEF EndClaim
<1>5. CASE StartHandler(p)
  <2>1. \A q \in Callers : /\ call'[q].seen = call[q].seen
                           /\ call'[q].id = call[q].id
                           /\ q # p => call'[q] = call[q]
    BY <1>5 DEF StartHandler, TypeOK, Call
  <2>2. call'[p].stage = "working"
    BY <1>5 DEF StartHandler, TypeOK, Call
  <2>3. CallShape'
    BY <1>5, <1>b, <2>1, <2>2 DEF StartHandler, BudgetInv, CallShape, Held
  <2>. QED  BY <1>5, <2>1, <2>3, BudgetRead DEF StartHandler, BudgetInv
<1>6. CASE BeginComplete(p)
  <2>1. /\ call' = [call EXCEPT ![p].stage = "complete", ![p].seen = Copy(id)]
        /\ call[p].stage \notin {"idle", "recover"}
    BY <1>6 DEF BeginComplete
  <2>2. /\ CallShape'
        /\ \A q \in Callers, k \in Jobs : Sound(k, call'[q].seen[k])
    BY <1>a, <2>1, StageSound DEF Stage
  <2>. QED  BY <1>6, <2>2, BudgetRead DEF BeginComplete
<1>7. CASE EndComplete(p)
  <2>1. id \in Jobs /\ Sound(id, Completed(Held(p)))
    BY <1>7, <1>b, SoundOperations DEF EndComplete
  <2>. QED  BY <1>7, <2>1, IdleSound, BudgetStep DEF EndComplete
<1>8. CASE BeginFail(p)
  <2>1. /\ call' = [call EXCEPT ![p].stage = "fail", ![p].seen = Copy(id)]
        /\ call[p].stage \notin {"idle", "recover"}
    BY <1>8 DEF BeginFail
  <2>2. /\ CallShape'
        /\ \A q \in Callers, k \in Jobs : Sound(k, call'[q].seen[k])
    BY <1>a, <2>1, StageSound DEF Stage
  <2>. QED  BY <1>8, <2>2, BudgetRead DEF BeginFail
<1>9. CASE EndFail(p)
  <2>1. id \in Jobs /\ Sound(id, Failed(id, Held(p), call[p].at))
    BY <1>9, <1>b, SoundOperations DEF EndFail
  <2>. QED  BY <1>9, <2>1, IdleSound, BudgetStep DEF EndFail
<1>10. CASE BeginWorkBeat(p)
  <2>1. /\ call' = [call EXCEPT ![p].stage = "workbeat", ![p].seen = BeatenCopy(id)]
        /\ call[p].stage \notin {"idle", "recover"}
    BY <1>10 DEF BeginWorkBeat
  <2>2. /\ CallShape'
        /\ \A q \in Callers, k \in Jobs : Sound(k, call'[q].seen[k])
    BY <1>a, <2>1, StageSound DEF Stage
  <2>. QED  BY <1>10, <2>2, BudgetRead DEF BeginWorkBeat
<1>11. CASE EndWorkBeat(p)
  <2>1. /\ CallShape'
        /\ \A q \in Callers, k \in Jobs : Sound(k, call'[q].seen[k])
    BY <1>11, <1>a, StageSound DEF EndWorkBeat, Stage
  <2>. QED  BY <1>11, <1>b, <2>1, BudgetStep DEF EndWorkBeat
<1>12. ASSUME NEW j \in Jobs, BeginBeat(p, j) PROVE BudgetInv'
  BY <1>12, BeginSound, SoundCopies DEF BeginBeat, Stage
<1>13. CASE EndBeat(p)
  BY <1>13, <1>b, IdleSound, BudgetStep DEF EndBeat
<1>14. ASSUME NEW j \in Jobs, BeginRetry(p, j) PROVE BudgetInv'
  BY <1>14, BeginSound, SoundCopies DEF BeginRetry, Stage
<1>15. CASE EndRetry(p)
  <2>1. id \in Jobs /\ Held(p) \in JobRec /\ Sound(id, Held(p))
    BY <1>15, <1>b DEF EndRetry
  <2>2. \A j \in Jobs : /\ retries[j] \in Nat
                        /\ retries'[j] = IF j = id THEN retries[j] + 1 ELSE retries[j]
                        /\ MaxAttempts[j] \in Nat
    BY <1>15, JobRecordAssumption DEF EndRetry, TypeOK, JobRecordAssumption
  <2>3. ASSUME NEW j \in Jobs, NEW r \in JobRec, Sound(j, r)
        PROVE  /\ r.attempts <= MaxAttempts[j] + retries'[j]
               /\ r.status \in Waiting => r.attempts < MaxAttempts[j] + retries'[j]
               /\ r.status = "dead_lettered" => r.attempts >= MaxAttempts[j]
    BY <2>2, <2>3 DEF Sound, JobRec
  <2>4. /\ Held(p).attempts <= MaxAttempts[id] + retries[id]
        /\ Held(p).attempts \in Nat
    BY <2>1 DEF Sound, JobRec
  <2>5. /\ Retried(Held(p), call[p].at).attempts = Held(p).attempts
        /\ Retried(Held(p), call[p].at).status = "retrying"
    BY <2>1 DEF Retried, JobRec
  <2>6. \A j \in Jobs :
          jobs'[j] = IF j = id THEN Retried(Held(p), call[p].at) ELSE jobs[j]
    BY <1>15 DEF EndRetry, Save, TypeOK
  <2>7. ASSUME NEW j \in Jobs
        PROVE  /\ jobs'[j].attempts <= MaxAttempts[j] + retries'[j]
               /\ jobs'[j].status \in Waiting =>
                    jobs'[j].attempts < MaxAttempts[j] + retries'[j]
               /\ jobs'[j].status = "dead_lettered" =>
                    jobs'[j].attempts >= MaxAttempts[j]
    <3>1. CASE j = id
      BY <2>1, <2>2, <2>4, <2>5, <2>6, <3>1
    <3>2. CASE j # id
      BY <2>3, <2>6, <3>2 DEF BudgetInv, TypeOK
    <3>. QED  BY <3>1, <3>2
  <2>8. CallShape'
    BY <1>15, IdleSound DEF EndRetry
  <2>9. \A q \in Callers, j \in Jobs :
          call'[q].seen[j] \in JobRec /\ Sound(j, call'[q].seen[j])
    BY <1>15, IdleSound, ReturnType DEF EndRetry, Call
  <2>. QED  BY <2>3, <2>7, <2>8, <2>9 DEF BudgetInv, Sound
<1>16. CASE BeginRecover(p)
  <2>. DEFINE listed == [j \in Jobs |-> IF IsStale(jobs[j], now) THEN jobs[j] ELSE Absent]
  <2>1. \A j \in Jobs : Sound(j, listed[j])
    BY SoundNew DEF BudgetInv
  <2>. HIDE DEF listed
  <2>2. Begin(p, "recover", NoJob, NoWorker, now, listed)
    BY <1>16 DEF BeginRecover, listed
  <2>. QED  BY <2>1, <2>2, BeginSound DEF Stage
<1>17. ASSUME NEW j \in Jobs, RecoverOne(p, j) PROVE BudgetInv'
  <2>1. Sound(j, Recovered(j, call[p].seen[j], call[p].at))
    BY SoundOperations DEF BudgetInv
  <2>2. /\ CallShape'
        /\ \A q \in Callers, k \in Jobs : Sound(k, call'[q].seen[k])
    <3>1. CASE Return(p)
      BY <3>1, IdleSound
    <3>2. CASE call' = [call EXCEPT ![p].seen[j] = Absent]
      <4>1. \A q \in Callers : /\ call'[q].stage = call[q].stage
                               /\ call'[q].id = call[q].id
                               /\ q # p => call'[q] = call[q]
        BY <3>2 DEF TypeOK, Call
      <4>2. \A k \in Jobs : call'[p].seen[k] =
              IF k = j THEN Absent ELSE call[p].seen[k]
        BY <3>2 DEF TypeOK, Call
      <4>3. call[p].stage = "recover"
        BY <1>17 DEF RecoverOne
      <4>4. CallShape'
        BY <4>1, <4>3 DEF BudgetInv, CallShape, Held
      <4>. QED  BY <4>1, <4>2, <4>4, SoundNew DEF BudgetInv
    <3>. QED  BY <1>17, <3>1, <3>2 DEF RecoverOne
  <2>. QED  BY <1>17, <2>1, <2>2, BudgetStep DEF RecoverOne
<1>. QED
  BY <1>1, <1>2, <1>3, <1>4, <1>5, <1>6, <1>7, <1>8, <1>9, <1>10, <1>11,
     <1>12, <1>13, <1>14, <1>15, <1>16, <1>17 DEF Step

LEMMA BudgetInvariant == Spec => []BudgetInv
<1>1. Init => BudgetInv
  <2>. SUFFICES ASSUME Init PROVE BudgetInv
    OBVIOUS
  <2>1. TypeOK
    BY AbsentType, IdleType DEF Init, TypeOK
  <2>2. \A j \in Jobs : Sound(j, Absent)
    BY <2>1, SoundNew
  <2>. QED  BY <2>2 DEF Init, BudgetInv, CallShape, Held, Idle, NothingRead
<1>2. TypeOK /\ BudgetInv /\ [Next]_vars => BudgetInv'
  <2>. SUFFICES ASSUME TypeOK, BudgetInv, [Next]_vars PROVE BudgetInv'
    OBVIOUS
  <2>1. ASSUME NEW p \in Callers, Step(p) PROVE BudgetInv'
    BY <2>1, BudgetInvStep
  <2>2. CASE Restart
    <3>1. \A j \in Jobs : Sound(j, Absent)
      BY SoundNew
    <3>2. CallShape' /\ \A q \in Callers, j \in Jobs : Sound(j, call'[q].seen[j])
      BY <2>2, <3>1 DEF Restart, CallShape, Held, Idle, NothingRead
    <3>. QED  BY <2>2, <3>2, BudgetRead DEF Restart
  <2>3. CASE Tick \/ UNCHANGED vars
    BY <2>3 DEF Tick, vars, BudgetInv, CallShape, Held, Sound
  <2>. QED  BY <2>1, <2>2, <2>3 DEF Next
<1>. QED  BY <1>1, <1>2, TypeCorrect, PTL DEF Spec

(* However calls overlap, no attempt counter passes its budget: a claim    *)
(* never raises a counter that fail or recovery would not have retried.    *)
THEOREM AttemptsBounded == Spec => []AttemptsWithinBudget
<1>1. BudgetInv => AttemptsWithinBudget
  BY DEF BudgetInv, Sound, AttemptsWithinBudget
<1>. QED  BY <1>1, BudgetInvariant, PTL

(* However calls overlap, no job is dead-lettered with budget left.        *)
THEOREM DeadLettersAreSpent == Spec => []DeadLetteredIsSpent
<1>1. BudgetInv => DeadLetteredIsSpent
  BY DEF BudgetInv, Sound, DeadLetteredIsSpent
<1>. QED  BY <1>1, BudgetInvariant, PTL

-----------------------------------------------------------------------------
(***************************************************************************)
(* From here on: what the queue guarantees when its callers await one      *)
(* another.                                                                *)
(***************************************************************************)

(* The save of a step: job j goes to the status given with d more attempts *)
(* and no other record changes.                                            *)
Moved(j, to, d) ==
  /\ \A k \in Jobs : k # j => jobs'[k] = jobs[k]
  /\ jobs'[j].status = to
  /\ jobs'[j].attempts = jobs[j].attempts + d

-----------------------------------------------------------------------------
(* The moves                                                               *)

LEMMA SavedRecord ==
  ASSUME TypeOK, NEW j \in Jobs, NEW r, Save(j, r)
  PROVE  /\ jobs'[j] = r
         /\ \A k \in Jobs : k # j => jobs'[k] = jobs[k]
BY DEF Save, TypeOK

LEMMA AttemptsAreNat ==
  ASSUME TypeOK, NEW j \in Jobs
  PROVE  jobs[j].attempts \in Nat
BY DEF TypeOK, JobRec

LEMMA HeldIsFresh ==
  ASSUME TypeOK, BudgetInv, SerialInv, NEW p \in Callers,
         call[p].stage \in {"claim", "complete", "fail", "workbeat", "beat", "retry"}
  PROVE  /\ call[p].id \in Jobs
         /\ Held(p) \in JobRec
         /\ jobs[call[p].id].status # "absent"
         /\ SameLife(Held(p), jobs[call[p].id])
BY CallFields DEF BudgetInv, CallShape, SerialInv, CopyIsFresh

LEMMA ClaimMoves ==
  ASSUME TypeOK, BudgetInv, SerialInv, NEW p \in Callers, EndClaim(p)
  PROVE  /\ jobs[call[p].id].status \in Waiting
         /\ Moved(call[p].id, "running", 1)
         /\ jobs'[call[p].id].claimedBy = call[p].by
<1>. DEFINE r == Claimed(Held(p), call[p].by, call[p].at)
<1>1. call[p].id \in Jobs /\ Held(p) \in JobRec /\ SameLife(Held(p), jobs[call[p].id])
  BY HeldIsFresh DEF EndClaim
<1>2. Held(p).status \in Waiting
  BY DEF EndClaim, BudgetInv, CallShape
<1>3. r.status = "running" /\ r.attempts = Held(p).attempts + 1 /\ r.claimedBy = call[p].by
  BY <1>1 DEF Claimed, JobRec
<1>4. jobs'[call[p].id] = r /\ \A k \in Jobs : k # call[p].id => jobs'[k] = jobs[k]
  BY <1>1, SavedRecord DEF EndClaim
<1>. QED  BY <1>1, <1>2, <1>3, <1>4 DEF Moved, SameLife

LEMMA CompleteMoves ==
  ASSUME TypeOK, BudgetInv, SerialInv, NEW p \in Callers, EndComplete(p)
  PROVE  /\ jobs[call[p].id].status = "running"
         /\ Moved(call[p].id, "completed", 0)
<1>. DEFINE r == Completed(Held(p))
<1>1. call[p].id \in Jobs /\ Held(p) \in JobRec /\ SameLife(Held(p), jobs[call[p].id])
  BY HeldIsFresh DEF EndComplete
<1>2. jobs[call[p].id].status = "running"
  BY DEF EndComplete, SerialInv, ExecutedIsRunning, Executing
<1>3. r.status = "completed" /\ r.attempts = Held(p).attempts
  BY <1>1 DEF Completed, JobRec
<1>4. jobs'[call[p].id] = r /\ \A k \in Jobs : k # call[p].id => jobs'[k] = jobs[k]
  BY <1>1, SavedRecord DEF EndComplete
<1>. QED  BY <1>1, <1>2, <1>3, <1>4, AttemptsAreNat DEF Moved, SameLife

(* fail and recovery alike end a run in another wait or in the dead        *)
(* letters, by the budget of the record as it is stored.                   *)
EndsRun(j) ==
  /\ jobs[j].status = "running"
  /\ \/ HasBudget(j, jobs[j]) /\ Moved(j, "retrying", 0)
     \/ ~HasBudget(j, jobs[j]) /\ Moved(j, "dead_lettered", 0)

LEMMA FailMoves ==
  ASSUME TypeOK, BudgetInv, SerialInv, NEW p \in Callers, EndFail(p)
  PROVE  EndsRun(call[p].id)
<1>. DEFINE r == Failed(call[p].id, Held(p), call[p].at)
<1>1. call[p].id \in Jobs /\ Held(p) \in JobRec /\ SameLife(Held(p), jobs[call[p].id])
  BY HeldIsFresh DEF EndFail
<1>2. jobs[call[p].id].status = "running"
  BY DEF EndFail, SerialInv, ExecutedIsRunning, Executing
<1>3. /\ r.attempts = Held(p).attempts
      /\ r.status = IF HasBudget(call[p].id, Held(p)) THEN "retrying" ELSE "dead_lettered"
  BY <1>1 DEF Failed, JobRec
<1>4. jobs'[call[p].id] = r /\ \A k \in Jobs : k # call[p].id => jobs'[k] = jobs[k]
  BY <1>1, SavedRecord DEF EndFail
<1>. QED
  BY <1>1, <1>2, <1>3, <1>4, AttemptsAreNat DEF EndsRun, Moved, SameLife, HasBudget

LEMMA RecoverMoves ==
  ASSUME TypeOK, BudgetInv, SerialInv, NEW p \in Callers, NEW j \in Jobs,
         RecoverOne(p, j)
  PROVE  EndsRun(j)
<1>. DEFINE s == call[p].seen[j]
            r == Recovered(j, s, call[p].at)
<1>1. s \in JobRec
  BY CallFields
<1>2. s.status = "running" /\ SameLife(s, jobs[j])
  BY DEF RecoverOne, SerialInv, CopyIsFresh
<1>3. /\ r.attempts = s.attempts
      /\ r.status = IF HasBudget(j, s) THEN "retrying" ELSE "dead_lettered"
  BY <1>1 DEF Recovered, JobRec
<1>4. jobs'[j] = r /\ \A k \in Jobs : k # j => jobs'[k] = jobs[k]
  BY SavedRecord DEF RecoverOne
<1>. QED
  BY <1>2, <1>3, <1>4, AttemptsAreNat DEF EndsRun, Moved, SameLife, HasBudget

(* A heartbeat moves nothing.                                              *)
LEMMA BeatMoves ==
  ASSUME TypeOK, BudgetInv, SerialInv, NEW p \in Callers, EndWorkBeat(p) \/ EndBeat(p)
  PROVE  /\ jobs[call[p].id].status # "absent"
         /\ Moved(call[p].id, jobs[call[p].id].status, 0)
         /\ jobs'[call[p].id].claimedBy = jobs[call[p].id].claimedBy
<1>1. /\ call[p].id \in Jobs
      /\ SameLife(Held(p), jobs[call[p].id])
      /\ jobs[call[p].id].status # "absent"
  BY HeldIsFresh DEF EndWorkBeat, EndBeat
<1>2. jobs'[call[p].id] = Held(p) /\ \A k \in Jobs : k # call[p].id => jobs'[k] = jobs[k]
  BY <1>1, SavedRecord DEF EndWorkBeat, EndBeat
<1>. QED  BY <1>1, <1>2, AttemptsAreNat DEF Moved, SameLife

LEMMA RetryMoves ==
  ASSUME TypeOK, BudgetInv, SerialInv, NEW p \in Callers, EndRetry(p)
  PROVE  /\ jobs[call[p].id].status # "absent"
         /\ Moved(call[p].id, "retrying", 0)
<1>. DEFINE r == Retried(Held(p), call[p].at)
<1>1. /\ call[p].id \in Jobs
      /\ Held(p) \in JobRec
      /\ SameLife(Held(p), jobs[call[p].id])
      /\ jobs[call[p].id].status # "absent"
  BY HeldIsFresh DEF EndRetry
<1>2. r.status = "retrying" /\ r.attempts = Held(p).attempts
  BY <1>1 DEF Retried, JobRec
<1>3. jobs'[call[p].id] = r /\ \A k \in Jobs : k # call[p].id => jobs'[k] = jobs[k]
  BY <1>1, SavedRecord DEF EndRetry
<1>. QED  BY <1>1, <1>2, <1>3, AttemptsAreNat DEF Moved, SameLife

(* An enqueue that saves creates a job that was absent.                    *)
LEMMA EnqueueMoves ==
  ASSUME TypeOK, BudgetInv, SerialInv, NEW p \in Callers, EndEnqueue(p)
  PROVE  \/ UNCHANGED jobs
         \/ /\ jobs[call[p].id].status = "absent"
            /\ Moved(call[p].id, "queued", 0)
<1>1. call[p].id \in Jobs
  BY DEF EndEnqueue, BudgetInv, CallShape
<1>2. ASSUME NEW d \in EnqueueDelay, Held(p).status = "absent",
             Save(call[p].id, Created(call[p].at + d))
      PROVE  /\ jobs[call[p].id].status = "absent"
             /\ Moved(call[p].id, "queued", 0)
  <2>1. jobs[call[p].id].status = "absent"
    BY <1>2 DEF EndEnqueue, SerialInv, CopyIsFresh
  <2>2. jobs[call[p].id].attempts = 0
    BY <1>1, <2>1 DEF SerialInv, StartsAreCounted
  <2>3. /\ Created(call[p].at + d).status = "queued"
        /\ Created(call[p].at + d).attempts = 0
    BY DEF Created, Absent
  <2>. QED  BY <1>1, <1>2, <2>1, <2>2, <2>3, SavedRecord DEF Moved
<1>. QED  BY <1>2 DEF EndEnqueue

-----------------------------------------------------------------------------
(* The invariant                                                           *)

(* The callers beside one in the work lane are idle or enqueueing.         *)
LEMMA WorksAlone ==
  ASSUME Discipline = "serial", SerialInv, NEW p \in Callers, NEW q \in Callers,
         q # p, call[p].stage \notin {"idle", "enqueue"}
  PROVE  call[q].stage \in {"idle", "enqueue"}
BY DEF SerialInv, LanesExclude, Lane

LEMMA StartsAlone ==
  ASSUME Discipline = "serial", NEW p \in Callers, NEW q \in Callers,
         NEW op \in Operations \ {"enqueue"}, MayStart(p, op), q # p
  PROVE  call[q].stage \in {"idle", "enqueue"}
BY DEF MayStart, Lane, Operations

(* A step of the one caller p of the work lane that touches at most the    *)
(* record of a job i that exists.                                          *)
LEMMA WorkStep ==
  ASSUME Discipline = "serial", TypeOK, BudgetInv, SerialInv,
         NEW p \in Callers, NEW i \in Jobs,
         \A q \in Callers : q # p => /\ call[q].stage \in {"idle", "enqueue"}
                                    /\ call'[q] = call[q],
         call'[p].stage # "enqueue",
         jobs[i].status # "absent", jobs'[i].status # "absent",
         \A k \in Jobs : k # i => jobs'[k] = jobs[k],
         \A k \in Jobs : runs'[k] <= jobs'[k].attempts,
         CopyIsFresh(p)',
         call'[p].stage \in Executing =>
           /\ jobs'[call'[p].id].status = "running"
           /\ jobs'[call'[p].id].claimedBy = call'[p].by,
         call'[p].stage = "claimed" => runs'[call'[p].id] < jobs'[call'[p].id].attempts
  PROVE  SerialInv'
<1>1. LanesExclude'
  BY DEF SerialInv, LanesExclude, Lane
<1>2. ASSUME NEW q \in Callers, q # p
      PROVE  CopyIsFresh(q)'
  <2>1. call[q].stage = "enqueue" => call[q].id \in Jobs
    BY DEF BudgetInv, CallShape
  <2>2. CopyIsFresh(q)
    BY DEF SerialInv
  <2>. QED  BY <1>2, <2>1, <2>2 DEF CopyIsFresh, Held
<1>3. ExecutedIsRunning'
  BY DEF ExecutedIsRunning, Executing
<1>4. StartsAreCounted'
  BY DEF SerialInv, StartsAreCounted
<1>. QED  BY <1>1, <1>2, <1>3, <1>4 DEF SerialInv

(* The instance of WorkStep for a step that ends the call.                 *)
LEMMA WorkEnds ==
  ASSUME Discipline = "serial", TypeOK, BudgetInv, SerialInv,
         NEW p \in Callers, NEW i \in Jobs, NEW to, to # "absent",
         call[p].stage \notin {"idle", "enqueue"},
         jobs[i].status # "absent", Moved(i, to, 0), Return(p), UNCHANGED runs
  PROVE  SerialInv'
<1>1. \A q \in Callers : q # p => /\ call[q].stage \in {"idle", "enqueue"}
                                 /\ call'[q] = call[q]
  BY WorksAlone DEF Return, TypeOK
<1>2. call'[p] = Idle
  BY DEF Return, TypeOK
<1>3. \A k \in Jobs : runs'[k] <= jobs'[k].attempts
  BY AttemptsAreNat DEF Moved, SerialInv, StartsAreCounted
<1>4. CopyIsFresh(p)'
  BY <1>2 DEF CopyIsFresh, Idle
<1>. QED  BY <1>1, <1>2, <1>3, <1>4, WorkStep DEF Moved, Idle, Executing

(* The instance of WorkStep for a step that reads job j and saves nothing. *)
LEMMA WorkReads ==
  ASSUME Discipline = "serial", TypeOK, BudgetInv, SerialInv,
         NEW p \in Callers, NEW j \in Jobs, jobs[j].status # "absent",
         \A q \in Callers : q # p => /\ call[q].stage \in {"idle", "enqueue"}
                                    /\ call'[q] = call[q],
         call'[p].stage \in {"claim", "complete", "fail", "workbeat", "beat", "retry"},
         call'[p].id = j,
         SameLife(call'[p].seen[j], jobs[j]),
         call'[p].stage \in Executing =>
           jobs[j].status = "running" /\ jobs[j].claimedBy = call'[p].by,
         UNCHANGED <<jobs, runs>>
  PROVE  SerialInv'
<1>1. CopyIsFresh(p)'
  BY DEF CopyIsFresh, Held, SameLife
<1>2. \A k \in Jobs : runs'[k] <= jobs'[k].attempts
  BY DEF SerialInv, StartsAreCounted
<1>. QED  BY <1>1, <1>2, WorkStep

LEMMA CopySame ==
  ASSUME TypeOK, NEW j \in Jobs
  PROVE  SameLife(Copy(j)[j], jobs[j]) /\ SameLife(BeatenCopy(j)[j], jobs[j])
BY DEF TypeOK, JobRec, SameLife, Copy, BeatenCopy, NothingRead, Beaten

(* A stage change of an execution that reads its job.                      *)
LEMMA ExecutionReads ==
  ASSUME Discipline = "serial", TypeOK, BudgetInv, SerialInv, NEW p \in Callers,
         call[p].stage \in {"claimed", "working"},
         NEW stage \in {"complete", "fail", "workbeat"}, NEW seen,
         seen = Copy(call[p].id) \/ seen = BeatenCopy(call[p].id),
         call' = [call EXCEPT ![p].stage = stage, ![p].seen = seen],
         UNCHANGED <<jobs, runs>>
  PROVE  SerialInv'
<1>1. call[p].id \in Jobs
  BY DEF BudgetInv, CallShape
<1>2. /\ jobs[call[p].id].status = "running"
      /\ jobs[call[p].id].claimedBy = call[p].by
  BY DEF SerialInv, ExecutedIsRunning, Executing
<1>3. \A q \in Callers : q # p => /\ call[q].stage \in {"idle", "enqueue"}
                                 /\ call'[q] = call[q]
  BY WorksAlone DEF TypeOK
<1>4. /\ call'[p].stage = stage
      /\ call'[p].id = call[p].id
      /\ call'[p].by = call[p].by
      /\ call'[p].seen = seen
  BY DEF TypeOK, Call
<1>5. SameLife(seen[call[p].id], jobs[call[p].id])
  BY <1>1, CopySame
<1>. QED  BY <1>1, <1>2, <1>3, <1>4, <1>5, WorkReads

LEMMA SerialStep ==
  ASSUME Discipline = "serial", TypeOK, BudgetInv, SerialInv,
         NEW p \in Callers, Step(p)
  PROVE  SerialInv'
<1>. DEFINE id == call[p].id
<1>a. ASSUME call[p].stage \notin {"idle", "recover"}
      PROVE  id \in Jobs
  BY <1>a DEF BudgetInv, CallShape
<1>b. ASSUME NEW stage, NEW j, NEW w, NEW t, NEW seen, Begin(p, stage, j, w, t, seen)
      PROVE  /\ call'[p] = [stage |-> stage, id |-> j, by |-> w, at |-> t, seen |-> seen]
             /\ \A q \in Callers : q # p => call'[q] = call[q]
             /\ UNCHANGED <<jobs, runs>>
  BY <1>b DEF Begin, TypeOK
<1>1. ASSUME NEW j \in Jobs, BeginEnqueue(p, j) PROVE SerialInv'
  <2>1. /\ call'[p] = [stage |-> "enqueue", id |-> j, by |-> NoWorker,
                       at |-> now, seen |-> Copy(j)]
        /\ \A q \in Callers : q # p => call'[q] = call[q]
        /\ UNCHANGED <<jobs, runs>>
    BY <1>1, <1>b DEF BeginEnqueue
  <2>2. \A q \in Callers : q # p => call[q].stage # "enqueue"
    BY <1>1 DEF BeginEnqueue, MayStart, Lane
  <2>3. LanesExclude'
    BY <2>1, <2>2 DEF SerialInv, LanesExclude, Lane
  <2>4. CopyIsFresh(p)'
    BY <2>1 DEF CopyIsFresh, Held, Copy, NothingRead
  <2>5. \A q \in Callers : q # p => CopyIsFresh(q)'
    BY <2>1 DEF SerialInv, CopyIsFresh, Held, Listed
  <2>6. ExecutedIsRunning' /\ StartsAreCounted'
    BY <2>1 DEF SerialInv, ExecutedIsRunning, StartsAreCounted, Executing
  <2>. QED  BY <2>3, <2>4, <2>5, <2>6 DEF SerialInv
<1>2. CASE EndEnqueue(p)
  <2>1. /\ call'[p] = Idle
        /\ \A q \in Callers : q # p => call'[q] = call[q]
        /\ UNCHANGED runs
    BY <1>2 DEF EndEnqueue, Return, TypeOK
  <2>2. \A q \in Callers : q # p => call[q].stage # "enqueue"
    BY <1>2 DEF EndEnqueue, SerialInv, LanesExclude
  <2>3. LanesExclude'
    BY <2>1 DEF SerialInv, LanesExclude, Idle
  <2>4. CopyIsFresh(p)'
    BY <2>1 DEF CopyIsFresh, Idle
  <2>5. id \in Jobs
    BY <1>2, <1>a DEF EndEnqueue
  <2>6. CASE UNCHANGED jobs
    <3>1. \A q \in Callers : q # p => CopyIsFresh(q)'
      BY <2>1, <2>6 DEF SerialInv, CopyIsFresh, Held, Listed
    <3>2. ExecutedIsRunning' /\ StartsAreCounted'
      BY <2>1, <2>6 DEF SerialInv, ExecutedIsRunning, StartsAreCounted, Executing, Idle
    <3>. QED  BY <2>3, <2>4, <3>1, <3>2 DEF SerialInv
  <2>7. CASE jobs[id].status = "absent" /\ Moved(id, "queued", 0)
    <3>1. ASSUME NEW q \in Callers, q # p PROVE CopyIsFresh(q)'
      <4>1. CopyIsFresh(q)
        BY DEF SerialInv
      <4>2. call[q].stage \notin {"idle", "recover"} => call[q].id \in Jobs
        BY DEF BudgetInv, CallShape
      <4>3. call[q].stage # "enqueue"
        BY <2>2, <3>1
      <4>4. call[q].stage = "recover" =>
              \A j \in Listed(q) : jobs'[j] = jobs[j]
        BY <2>7, <4>1 DEF CopyIsFresh, SameLife, Moved, Listed
      <4>5. call[q].stage \notin {"idle", "recover"} => jobs'[call[q].id] = jobs[call[q].id]
        BY <2>7, <4>1, <4>2, <4>3 DEF CopyIsFresh, Moved
      <4>. QED  BY <2>1, <3>1, <4>1, <4>3, <4>4, <4>5 DEF CopyIsFresh, Held, Listed
    <3>2. ExecutedIsRunning'
      <4>. SUFFICES ASSUME NEW q \in Callers, call'[q].stage \in Executing
                    PROVE  /\ jobs'[call'[q].id].status = "running"
                           /\ jobs'[call'[q].id].claimedBy = call'[q].by
        BY DEF ExecutedIsRunning
      <4>1. q # p /\ call'[q] = call[q]
        BY <2>1 DEF Executing, Idle
      <4>2. /\ call[q].id \in Jobs
            /\ jobs[call[q].id].status = "running"
            /\ jobs[call[q].id].claimedBy = call[q].by
        BY <4>1 DEF SerialInv, ExecutedIsRunning, Executing, BudgetInv, CallShape
      <4>. QED  BY <2>7, <4>1, <4>2 DEF Moved
    <3>3. StartsAreCounted'
      <4>1. \A k \in Jobs : jobs'[k].attempts = jobs[k].attempts
        BY <2>7, AttemptsAreNat DEF Moved
      <4>2. \A k \in Jobs : /\ runs[k] <= jobs[k].attempts
                            /\ jobs[k].status = "absent" => jobs[k].attempts = 0
        BY DEF SerialInv, StartsAreCounted
      <4>3. \A q \in Callers : call'[q].stage = "claimed" =>
              q # p /\ call'[q] = call[q] /\ call[q].id \in Jobs
        BY <2>1 DEF Idle, BudgetInv, CallShape
      <4>4. \A q \in Callers : call[q].stage = "claimed" =>
              runs[call[q].id] < jobs[call[q].id].attempts
        BY DEF SerialInv, StartsAreCounted
      <4>5. jobs'[id].status = "queued" /\ \A k \in Jobs : k # id => jobs'[k] = jobs[k]
        BY <2>7 DEF Moved
      <4>. QED  BY <2>1, <4>1, <4>2, <4>3, <4>4, <4>5 DEF StartsAreCounted
    <3>. QED  BY <2>3, <2>4, <3>1, <3>2, <3>3 DEF SerialInv
  <2>. QED  BY <1>2, <2>6, <2>7, EnqueueMoves
<1>3. ASSUME NEW w \in Workers, NEW t \in Instants, BeginClaim(p, w, t)
      PROVE  SerialInv'
  <2>1. PICK j \in Jobs : IsNext(j, t) /\ Begin(p, "claim", j, w, t, Copy(j))
    BY <1>3 DEF BeginClaim
  <2>2. jobs[j].status # "absent"
    BY <2>1 DEF IsNext, IsRunnable, Waiting
  <2>3. \A q \in Callers : q # p => call[q].stage \in {"idle", "enqueue"}
    BY <1>3, StartsAlone DEF BeginClaim, Operations
  <2>4. /\ call'[p] = [stage |-> "claim", id |-> j, by |-> w, at |-> t, seen |-> Copy(j)]
        /\ \A q \in Callers : q # p => call'[q] = call[q]
        /\ UNCHANGED <<jobs, runs>>
    BY <2>1, <1>b
  <2>. QED  BY <2>2, <2>3, <2>4, CopySame, WorkReads DEF Executing
<1>4. CASE EndClaim(p)
  <2>1. /\ jobs[id].status \in Waiting
        /\ Moved(id, "running", 1)
        /\ jobs'[id].claimedBy = call[p].by
    BY <1>4, ClaimMoves
  <2>2. /\ call'[p].stage = "claimed" /\ call'[p].id = id /\ call'[p].by = call[p].by
        /\ \A q \in Callers : q # p => call'[q] = call[q]
        /\ UNCHANGED runs
    BY <1>4 DEF EndClaim, TypeOK, Call
  <2>3. \A q \in Callers : q # p => call[q].stage \in {"idle", "enqueue"}
    BY <1>4, WorksAlone DEF EndClaim
  <2>4. id \in Jobs /\ call[p].stage = "claim"
    BY <1>4, <1>a DEF EndClaim
  <2>5. /\ \A k \in Jobs : runs[k] <= jobs[k].attempts
        /\ runs[id] \in Nat
    BY <2>4 DEF SerialInv, StartsAreCounted, TypeOK
  <2>6. /\ \A k \in Jobs : runs'[k] <= jobs'[k].attempts
        /\ runs'[id] < jobs'[id].attempts
    BY <2>1, <2>2, <2>4, <2>5, AttemptsAreNat DEF Moved
  <2>7. CopyIsFresh(p)'
    BY <2>1, <2>2 DEF CopyIsFresh, Moved
  <2>. QED
    BY <2>1, <2>2, <2>3, <2>4, <2>6, <2>7, WorkStep DEF Moved, Waiting
<1>5. CASE StartHandler(p)
  <2>1. /\ call'[p].stage = "working" /\ call'[p].id = id /\ call'[p].by = call[p].by
        /\ \A q \in Callers : q # p => call'[q] = call[q]
        /\ UNCHANGED jobs
    BY <1>5 DEF StartHandler, TypeOK, Call
  <2>2. \A q \in Callers : q # p => call[q].stage \in {"idle", "enqueue"}
    BY <1>5, WorksAlone DEF StartHandler
  <2>3. /\ id \in Jobs
        /\ jobs[id].status = "running"
        /\ jobs[id].claimedBy = call[p].by
        /\ runs[id] < jobs[id].attempts
    BY <1>5, <1>a
    DEF StartHandler, SerialInv, ExecutedIsRunning, Executing, StartsAreCounted
  <2>4. \A k \in Jobs :
          /\ runs'[k] <= IF k = id THEN runs[k] + 1 ELSE runs[k]
          /\ runs[k] \in Nat
          /\ runs[k] <= jobs[k].attempts
    <3>1. \A k \in Jobs : runs[k] \in Nat /\ runs[k] <= jobs[k].attempts
      BY DEF TypeOK, SerialInv, StartsAreCounted
    <3>. QED  BY <1>5, <3>1 DEF StartHandler, TypeOK
  <2>5. \A k \in Jobs : runs'[k] \in Nat
    BY <1>5, StepType DEF Step, TypeOK
  <2>6. \A k \in Jobs : runs'[k] <= jobs'[k].attempts
    BY <2>1, <2>3, <2>4, <2>5, AttemptsAreNat
  <2>7. CopyIsFresh(p)'
    BY <2>1, <2>3 DEF CopyIsFresh
  <2>. QED  BY <2>1, <2>2, <2>3, <2>6, <2>7, WorkStep DEF Executing
<1>6. CASE BeginComplete(p)
  BY <1>6, ExecutionReads DEF BeginComplete
<1>7. CASE EndComplete(p)
  BY <1>7, <1>a, CompleteMoves, WorkEnds DEF EndComplete
<1>8. CASE BeginFail(p)
  BY <1>8, ExecutionReads DEF BeginFail
<1>9. CASE EndFail(p)
  BY <1>9, <1>a, FailMoves, WorkEnds DEF EndFail, EndsRun
<1>10. CASE BeginWorkBeat(p)
  BY <1>10, ExecutionReads DEF BeginWorkBeat
<1>11. CASE EndWorkBeat(p)
  <2>1. /\ jobs[id].status # "absent"
        /\ Moved(id, jobs[id].status, 0)
        /\ jobs'[id].claimedBy = jobs[id].claimedBy
    BY <1>11, BeatMoves
  <2>2. /\ call'[p].stage = "working" /\ call'[p].id = id /\ call'[p].by = call[p].by
        /\ \A q \in Callers : q # p => call'[q] = call[q]
        /\ UNCHANGED runs
    BY <1>11 DEF EndWorkBeat, TypeOK, Call
  <2>3. \A q \in Callers : q # p => call[q].stage \in {"idle", "enqueue"}
    BY <1>11, WorksAlone DEF EndWorkBeat
  <2>4. /\ id \in Jobs
        /\ jobs[id].status = "running"
        /\ jobs[id].claimedBy = call[p].by
    BY <1>11, <1>a DEF EndWorkBeat, SerialInv, ExecutedIsRunning, Executing
  <2>5. \A k \in Jobs : runs'[k] <= jobs'[k].attempts
    BY <2>1, <2>2, AttemptsAreNat DEF Moved, SerialInv, StartsAreCounted
  <2>6. CopyIsFresh(p)'
    BY <2>1, <2>2 DEF CopyIsFresh, Moved
  <2>. QED  BY <2>1, <2>2, <2>3, <2>4, <2>5, <2>6, WorkStep DEF Moved
<1>12. ASSUME NEW j \in Jobs, BeginBeat(p, j) PROVE SerialInv'
  <2>1. Begin(p, "beat", j, NoWorker, now, BeatenCopy(j)) /\ jobs[j].status # "absent"
    BY <1>12 DEF BeginBeat
  <2>2. \A q \in Callers : q # p => call[q].stage \in {"idle", "enqueue"}
    BY <1>12, StartsAlone DEF BeginBeat, Operations
  <2>3. /\ call'[p] = [stage |-> "beat", id |-> j, by |-> NoWorker, at |-> now,
                       seen |-> BeatenCopy(j)]
        /\ \A q \in Callers : q # p => call'[q] = call[q]
        /\ UNCHANGED <<jobs, runs>>
    BY <2>1, <1>b
  <2>. QED  BY <2>1, <2>2, <2>3, CopySame, WorkReads DEF Executing
<1>13. CASE EndBeat(p)
  BY <1>13, <1>a, BeatMoves, WorkEnds DEF EndBeat
<1>14. ASSUME NEW j \in Jobs, BeginRetry(p, j) PROVE SerialInv'
  <2>1. Begin(p, "retry", j, NoWorker, now, Copy(j)) /\ jobs[j].status # "absent"
    BY <1>14 DEF BeginRetry
  <2>2. \A q \in Callers : q # p => call[q].stage \in {"idle", "enqueue"}
    BY <1>14, StartsAlone DEF BeginRetry, Operations
  <2>3. /\ call'[p] = [stage |-> "retry", id |-> j, by |-> NoWorker, at |-> now,
                       seen |-> Copy(j)]
        /\ \A q \in Callers : q # p => call'[q] = call[q]
        /\ UNCHANGED <<jobs, runs>>
    BY <2>1, <1>b
  <2>. QED  BY <2>1, <2>2, <2>3, CopySame, WorkReads DEF Executing
<1>15. CASE EndRetry(p)
  BY <1>15, <1>a, RetryMoves, WorkEnds DEF EndRetry
<1>16. CASE BeginRecover(p)
  <2>. DEFINE listed == [j \in Jobs |-> IF IsStale(jobs[j], now) THEN jobs[j] ELSE Absent]
  <2>1. PICK i \in Jobs : IsStale(jobs[i], now)
    BY <1>16 DEF BeginRecover
  <2>2. jobs[i].status # "absent"
    BY <2>1 DEF IsStale
  <2>3. \A q \in Callers : q # p => call[q].stage \in {"idle", "enqueue"}
    BY <1>16, StartsAlone DEF BeginRecover, Operations
  <2>a. Begin(p, "recover", NoJob, NoWorker, now, listed)
    BY <1>16 DEF BeginRecover
  <2>b. /\ call'[p] = [stage |-> "recover", id |-> NoJob, by |-> NoWorker,
                       at |-> now, seen |-> listed]
        /\ \A q \in Callers : q # p => call'[q] = call[q]
        /\ UNCHANGED <<jobs, runs>>
    <3>. HIDE DEF listed
    <3>. QED  BY <2>a, <1>b
  <2>4. call'[p].stage = "recover" /\ call'[p].seen = listed
    <3>. HIDE DEF listed
    <3>. QED  BY <2>b
  <2>5. \A j \in Jobs : listed[j].status # "absent" =>
          listed[j] = jobs[j] /\ listed[j].status = "running"
    BY DEF IsStale, Absent
  <2>. HIDE DEF listed
  <2>6. CopyIsFresh(p)'
    BY <2>b, <2>4, <2>5 DEF CopyIsFresh, Listed, SameLife
  <2>7. \A k \in Jobs : runs'[k] <= jobs'[k].attempts
    BY <2>b DEF SerialInv, StartsAreCounted
  <2>. QED  BY <2>b, <2>2, <2>3, <2>4, <2>6, <2>7, WorkStep DEF Executing
<1>17. ASSUME NEW j \in Jobs, RecoverOne(p, j) PROVE SerialInv'
  <2>1. PICK to : to # "absent" /\ jobs[j].status = "running" /\ Moved(j, to, 0)
    BY <1>17, RecoverMoves DEF EndsRun
  <2>2. CASE Return(p)
    BY <1>17, <2>1, <2>2, WorkEnds DEF RecoverOne
  <2>3. CASE call' = [call EXCEPT ![p].seen[j] = Absent]
    <3>1. /\ call'[p].stage = "recover"
          /\ \A k \in Jobs : call'[p].seen[k] =
               IF k = j THEN Absent ELSE call[p].seen[k]
          /\ \A q \in Callers : q # p => call'[q] = call[q]
          /\ UNCHANGED runs
      BY <1>17, <2>3 DEF RecoverOne, TypeOK, Call
    <3>2. \A q \in Callers : q # p => call[q].stage \in {"idle", "enqueue"}
      BY <1>17, WorksAlone DEF RecoverOne
    <3>3. \A k \in Listed(p) : /\ call[p].seen[k].status = "running"
                               /\ SameLife(call[p].seen[k], jobs[k])
      BY <1>17 DEF RecoverOne, SerialInv, CopyIsFresh
    <3>4. CopyIsFresh(p)'
      BY <2>1, <3>1, <3>3 DEF CopyIsFresh, Listed, SameLife, Moved, Absent
    <3>5. \A k \in Jobs : runs'[k] <= jobs'[k].attempts
      BY <2>1, <3>1, AttemptsAreNat DEF Moved, SerialInv, StartsAreCounted
    <3>. QED  BY <2>1, <3>1, <3>2, <3>4, <3>5, WorkStep DEF Moved, Executing
  <2>. QED  BY <1>17, <2>2, <2>3 DEF RecoverOne
<1>. QED
  BY <1>1, <1>2, <1>3, <1>4, <1>5, <1>6, <1>7, <1>8, <1>9, <1>10, <1>11,
     <1>12, <1>13, <1>14, <1>15, <1>16, <1>17 DEF Step

(* In serial use, SerialInv is an invariant.                               *)
LEMMA SerialInvariant ==
  ASSUME Discipline = "serial"
  PROVE  Spec => []SerialInv
<1>1. Init => SerialInv
  BY DEF Init, SerialInv, LanesExclude, CopyIsFresh, ExecutedIsRunning,
         StartsAreCounted, Idle, Executing, Absent
<1>2. TypeOK /\ BudgetInv /\ SerialInv /\ [Next]_vars => SerialInv'
  <2>. SUFFICES ASSUME TypeOK, BudgetInv, SerialInv, [Next]_vars PROVE SerialInv'
    OBVIOUS
  <2>1. ASSUME NEW p \in Callers, Step(p) PROVE SerialInv'
    BY <2>1, SerialStep
  <2>2. CASE Restart
    <3>1. \A p \in Callers : call'[p] = Idle
      BY <2>2 DEF Restart
    <3>. QED
      BY <2>2, <3>1 DEF Restart, SerialInv, LanesExclude, CopyIsFresh,
                        ExecutedIsRunning, StartsAreCounted, Idle, Executing
  <2>3. CASE Tick \/ UNCHANGED vars
    BY <2>3 DEF Tick, vars, SerialInv, LanesExclude, CopyIsFresh, Held, Listed,
                ExecutedIsRunning, StartsAreCounted
  <2>. QED  BY <2>1, <2>2, <2>3 DEF Next
<1>. QED  BY <1>1, <1>2, TypeCorrect, BudgetInvariant, PTL DEF Spec

-----------------------------------------------------------------------------
(* The theorems                                                            *)

(* In serial use no job's handler is started more often than its budget    *)
(* and the operator retries allow, over failures, restarts and recoveries. *)
THEOREM RunsBounded ==
  ASSUME Discipline = "serial"
  PROVE  Spec => []RunsWithinBudget
<1>1. TypeOK /\ BudgetInv /\ SerialInv => RunsWithinBudget
  <2>. SUFFICES ASSUME TypeOK, BudgetInv, SerialInv, NEW j \in Jobs
                PROVE  runs[j] <= MaxAttempts[j] + retries[j]
    BY DEF RunsWithinBudget
  <2>1. runs[j] <= jobs[j].attempts
    BY DEF SerialInv, StartsAreCounted
  <2>2. jobs[j].attempts <= MaxAttempts[j] + retries[j]
    BY DEF BudgetInv, Sound
  <2>3. /\ runs[j] \in Nat
        /\ retries[j] \in Nat
        /\ MaxAttempts[j] \in Nat
    BY JobRecordAssumption DEF TypeOK, JobRecordAssumption
  <2>. QED  BY <2>1, <2>2, <2>3, AttemptsAreNat
<1>. QED  BY <1>1, TypeCorrect, BudgetInvariant, SerialInvariant, PTL

(* In serial use the record of a job being executed is running and claimed *)
(* for the worker that executes it.                                        *)
THEOREM ExecutionOwned ==
  ASSUME Discipline = "serial"
  PROVE  Spec => []ExecutedIsRunning
<1>1. SerialInv => ExecutedIsRunning
  BY DEF SerialInv
<1>. QED  BY <1>1, SerialInvariant, PTL

(* What one step can do to the repository.                                 *)
Reopened(i) ==
  /\ jobs[i].status # "absent"
  /\ Moved(i, "retrying", 0)
  /\ retries' = [retries EXCEPT ![i] = @ + 1]

Moves(i) ==
  \/ /\ \/ jobs[i].status = "absent" /\ Moved(i, "queued", 0)
        \/ jobs[i].status \in Waiting /\ Moved(i, "running", 1)
        \/ jobs[i].status = "running" /\ Moved(i, "completed", 0)
        \/ EndsRun(i)
        \/ Moved(i, jobs[i].status, 0)
     /\ UNCHANGED retries
  \/ Reopened(i)

LEMMA NextMoves ==
  ASSUME TypeOK, BudgetInv, SerialInv, [Next]_vars
  PROVE  UNCHANGED <<jobs, retries>> \/ \E i \in Jobs : Moves(i)
<1>1. ASSUME NEW p \in Callers, Step(p)
      PROVE  UNCHANGED <<jobs, retries>> \/ \E i \in Jobs : Moves(i)
  <2>. DEFINE id == call[p].id
  <2>1. call[p].stage \notin {"idle", "recover"} => id \in Jobs
    BY DEF BudgetInv, CallShape
  <2>2. CASE EndEnqueue(p)
    BY <2>1, <2>2, EnqueueMoves DEF EndEnqueue, Moves
  <2>3. CASE EndClaim(p)
    BY <2>1, <2>3, ClaimMoves DEF EndClaim, Moves
  <2>4. CASE EndComplete(p)
    BY <2>1, <2>4, CompleteMoves DEF EndComplete, Moves
  <2>5. CASE EndFail(p)
    BY <2>1, <2>5, FailMoves DEF EndFail, Moves
  <2>6. CASE EndWorkBeat(p) \/ EndBeat(p)
    BY <2>1, <2>6, BeatMoves DEF EndWorkBeat, EndBeat, Moves
  <2>7. CASE EndRetry(p)
    BY <2>1, <2>7, RetryMoves DEF EndRetry, Moves, Reopened
  <2>8. ASSUME NEW j \in Jobs, RecoverOne(p, j)
        PROVE  \E i \in Jobs : Moves(i)
    BY <2>8, RecoverMoves DEF RecoverOne, Moves
  <2>9. CASE \/ StartHandler(p) \/ BeginComplete(p) \/ BeginFail(p)
             \/ BeginWorkBeat(p) \/ BeginRecover(p)
    BY <2>9 DEF StartHandler, BeginComplete, BeginFail, BeginWorkBeat,
                BeginRecover, Begin
  <2>10. ASSUME NEW j \in Jobs,
                BeginEnqueue(p, j) \/ BeginBeat(p, j) \/ BeginRetry(p, j)
         PROVE  UNCHANGED <<jobs, retries>>
    BY <2>10 DEF BeginEnqueue, BeginBeat, BeginRetry, Begin
  <2>11. ASSUME NEW w \in Workers, NEW t \in Instants, BeginClaim(p, w, t)
         PROVE  UNCHANGED <<jobs, retries>>
    BY <2>11 DEF BeginClaim, Begin
  <2>. QED
    BY <1>1, <2>2, <2>3, <2>4, <2>5, <2>6, <2>7, <2>8, <2>9, <2>10, <2>11 DEF Step
<1>2. CASE Restart \/ Tick \/ UNCHANGED vars
  BY <1>2 DEF Restart, Tick, vars
<1>. QED  BY <1>1, <1>2 DEF Next

(* In serial use a completed or dead-lettered job leaves its status only   *)
(* when the save of an operator retry takes it back.                       *)
THEOREM TerminalFinal ==
  ASSUME Discipline = "serial"
  PROVE  Spec => TerminalIsFinal
<1>. DEFINE Kept ==
       \A j \in Jobs : /\ jobs[j].status \in Terminal
                       /\ jobs'[j].status # jobs[j].status
                       => retries'[j] = retries[j] + 1
<1>1. TypeOK /\ BudgetInv /\ SerialInv /\ [Next]_vars => [Kept]_vars
  <2>. SUFFICES ASSUME TypeOK, BudgetInv, SerialInv, [Next]_vars,
                       NEW j \in Jobs, jobs[j].status \in Terminal,
                       jobs'[j].status # jobs[j].status
                PROVE  retries'[j] = retries[j] + 1
    OBVIOUS
  <2>1. PICK i \in Jobs : Moves(i)
    BY NextMoves
  <2>2. i = j
    BY <2>1 DEF Moves, EndsRun, Reopened, Moved
  <2>3. Reopened(i)
    BY <2>1, <2>2 DEF Moves, EndsRun, Moved, Terminal, Waiting
  <2>. QED  BY <2>2, <2>3 DEF Reopened, TypeOK
<1>. QED
  BY <1>1, TypeCorrect, BudgetInvariant, SerialInvariant, PTL
  DEF Spec, TerminalIsFinal

(* In serial use the queue implements JobLifecycle: every save is one of   *)
(* its moves, or changes neither a status nor an attempt counter.          *)
THEOREM LifecycleImplemented ==
  ASSUME Discipline = "serial"
  PROVE  Spec => ImplementsLifecycle
<1>1. Init => Lifecycle!Init
  BY DEF Init, Lifecycle!Init, Absent
<1>2. TypeOK /\ BudgetInv /\ SerialInv /\ [Next]_vars
        => [Lifecycle!Next]_<<[j \in Jobs |-> jobs[j].status],
                              [j \in Jobs |-> jobs[j].attempts], retries>>
  <2>. DEFINE phase == [j \in Jobs |-> jobs[j].status]
              tries == [j \in Jobs |-> jobs[j].attempts]
  <2>. SUFFICES ASSUME TypeOK, BudgetInv, SerialInv, [Next]_vars
                PROVE  [Lifecycle!Next]_<<phase, tries, retries>>
    OBVIOUS
  <2>1. CASE UNCHANGED <<jobs, retries>>
    BY <2>1
  <2>2. ASSUME NEW i \in Jobs, Moves(i)
        PROVE  Lifecycle!Next \/ UNCHANGED <<phase, tries, retries>>
    <3>1. ASSUME NEW to, Moved(i, to, 0)
          PROVE  phase' = [phase EXCEPT ![i] = to] /\ UNCHANGED tries
      <4>1. \A k \in Jobs : jobs'[k].attempts = jobs[k].attempts
        BY <3>1, AttemptsAreNat DEF Moved
      <4>2. \A k \in Jobs : jobs'[k].status = IF k = i THEN to ELSE jobs[k].status
        BY <3>1 DEF Moved
      <4>. QED  BY <4>1, <4>2
    <3>2. CASE jobs[i].status = "absent" /\ Moved(i, "queued", 0) /\ UNCHANGED retries
      <4>1. Lifecycle!Submit(i)
        BY <3>1, <3>2 DEF Lifecycle!Submit, Lifecycle!Move
      <4>. QED  BY <4>1 DEF Lifecycle!Next
    <3>3. CASE jobs[i].status \in Waiting /\ Moved(i, "running", 1) /\ UNCHANGED retries
      <4>1. /\ phase' = [phase EXCEPT ![i] = "running"]
            /\ tries' = [tries EXCEPT ![i] = @ + 1]
        BY <3>3 DEF Moved
      <4>2. Lifecycle!Run(i)
        BY <3>3, <4>1 DEF Lifecycle!Run, Lifecycle!Move, Waiting
      <4>. QED  BY <4>2 DEF Lifecycle!Next
    <3>4. CASE jobs[i].status = "running" /\ Moved(i, "completed", 0) /\ UNCHANGED retries
      <4>1. Lifecycle!Finish(i)
        BY <3>1, <3>4 DEF Lifecycle!Finish, Lifecycle!Move
      <4>. QED  BY <4>1 DEF Lifecycle!Next
    <3>5. CASE EndsRun(i) /\ UNCHANGED retries
      <4>1. CASE HasBudget(i, jobs[i]) /\ Moved(i, "retrying", 0)
        <5>1. Lifecycle!GiveBack(i)
          BY <3>1, <3>5, <4>1
          DEF EndsRun, HasBudget, Lifecycle!GiveBack, Lifecycle!Move
        <5>. QED  BY <5>1 DEF Lifecycle!Next
      <4>2. CASE ~HasBudget(i, jobs[i]) /\ Moved(i, "dead_lettered", 0)
        <5>1. jobs[i].attempts >= MaxAttempts[i]
          BY <4>2, AttemptsAreNat, JobRecordAssumption
          DEF HasBudget, JobRecordAssumption
        <5>2. Lifecycle!GiveUp(i)
          BY <3>1, <3>5, <4>2, <5>1 DEF EndsRun, Lifecycle!GiveUp, Lifecycle!Move
        <5>. QED  BY <5>2 DEF Lifecycle!Next
      <4>. QED  BY <3>5, <4>1, <4>2 DEF EndsRun
    <3>6. CASE Moved(i, jobs[i].status, 0) /\ UNCHANGED retries
      <4>1. phase' = [phase EXCEPT ![i] = jobs[i].status] /\ UNCHANGED tries
        BY <3>1, <3>6
      <4>. QED  BY <3>6, <4>1
    <3>7. CASE Reopened(i)
      <4>1. jobs[i].status \in Status \ {"absent"}
        BY <3>7 DEF Reopened, TypeOK, JobRec
      <4>2. Lifecycle!Reopen(i)
        BY <3>1, <3>7, <4>1
        DEF Reopened, Status, Lifecycle!Reopen, Lifecycle!Move
      <4>. QED  BY <4>2 DEF Lifecycle!Next
    <3>. QED  BY <2>2, <3>2, <3>3, <3>4, <3>5, <3>6, <3>7 DEF Moves
  <2>. QED  BY <2>1, <2>2, NextMoves
<1>. QED
  BY <1>1, <1>2, TypeCorrect, BudgetInvariant, SerialInvariant, PTL
  DEF Spec, ImplementsLifecycle, Lifecycle!Spec
=============================================================================
