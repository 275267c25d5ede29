----------------------------- MODULE MCJobQueue ------------------------------
(* Instances of JobQueue small enough for TLC.                             *)
EXTENDS JobQueue, TLC

CONSTANTS j1, j2, w1, p1, p2

MCJobs == {j1, j2}
OneJob == {j1}
MCWorkers == {w1}
MCCallers == {p1, p2}

(* One job with a retry in its budget and one without.                     *)
MCMaxAttempts == (j1 :> 2) @@ (j2 :> 1)

OneMaxAttempts == j1 :> 2

NoDelay == {0}

AllOffered == Operations
WithoutBeat == Operations \ {"beat"}

CallerSymmetry == Permutations(MCCallers)
=============================================================================
