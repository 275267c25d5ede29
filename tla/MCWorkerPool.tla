---------------------------- MODULE MCWorkerPool -----------------------------
(* Instances of WorkerPool small enough for TLC.                           *)
EXTENDS WorkerPool, TLC

CONSTANTS j1, j2, w1, w2, p1, p2

OneJob == {j1}
TwoJobs == {j1, j2}

(* The job whose first failure is its last. *)
SpentAtOnce == {j2}

OneWorker == {w1}
TwoWorkers == {w1, w2}
LoopAndProducer == {p1, p2}

OneAtATime == <<w1>>
InTurn == <<w1, w2>>

OneBudget == j1 :> 2
TwoBudgets == (j1 :> 2) @@ (j2 :> 1)

NoDelay == {0}
Deferred == {0, 1}

CallerSymmetry == Permutations(LoopAndProducer)

LoopOffers == Operations \ {"beat", "workbeat"}
=============================================================================
