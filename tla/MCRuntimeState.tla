-------------------------- MODULE MCRuntimeState ----------------------------
(* Instances of RuntimeState for TLC: requests of one project with the job *)
(* that waits for their answer, and a failed job.                          *)
EXTENDS RuntimeState, TLC

CONSTANTS acme, s1, s2

MCFirstStatus == <<"failed", "running">>
MCFollowUps == {2}
MCImmediate == {1}
MCProject == [x \in Requests \cup MCFollowUps |-> acme]
MCDecisions == {"approve", "reject"}
MCSavers == {s1, s2}

SaverSymmetry == Permutations(MCSavers)
=============================================================================
