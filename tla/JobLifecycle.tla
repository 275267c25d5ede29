----------------------------- MODULE JobLifecycle ----------------------------
(***************************************************************************)
(* What the durable queue promises about one job at a time, after the job  *)
(* state machine of .kiro/specs/production-readiness-hardening/design.md   *)
(* (its transient "failed" is one step here, as in the code): a job is     *)
(* submitted once, each run spends one try, a run ends in completion, in   *)
(* another wait while tries are left, or in the dead letters when none     *)
(* are, and only an operator takes a job back to waiting from elsewhere.   *)
(***************************************************************************)
EXTENDS Naturals

CONSTANTS Jobs, Budget

VARIABLES
  phase,  \* job -> status
  tries,  \* job -> runs begun, as counted
  asked   \* job -> times an operator reopened it

Init ==
  /\ phase = [j \in Jobs |-> "absent"]
  /\ tries = [j \in Jobs |-> 0]
  /\ asked = [j \in Jobs |-> 0]

Move(j, from, to) ==
  /\ phase[j] \in from
  /\ phase' = [phase EXCEPT ![j] = to]

Submit(j) == Move(j, {"absent"}, "queued") /\ UNCHANGED <<tries, asked>>

Run(j) ==
  /\ Move(j, {"queued", "retrying"}, "running")
  /\ tries' = [tries EXCEPT ![j] = @ + 1]
  /\ UNCHANGED asked

Finish(j) == Move(j, {"running"}, "completed") /\ UNCHANGED <<tries, asked>>

GiveBack(j) ==
  /\ tries[j] < Budget[j]
  /\ Move(j, {"running"}, "retrying")
  /\ UNCHANGED <<tries, asked>>

GiveUp(j) ==
  /\ tries[j] >= Budget[j]
  /\ Move(j, {"running"}, "dead_lettered")
  /\ UNCHANGED <<tries, asked>>

(* The operator's retry does not look at the phase and grants no tries;    *)
(* that it was asked for tells it from GiveBack.                           *)
Reopen(j) ==
  /\ Move(j, {"queued", "running", "retrying", "completed", "dead_lettered"},
          "retrying")
  /\ asked' = [asked EXCEPT ![j] = @ + 1]
  /\ UNCHANGED tries

Next ==
  \E j \in Jobs : \/ Submit(j) \/ Run(j) \/ Finish(j)
                  \/ GiveBack(j) \/ GiveUp(j) \/ Reopen(j)

Spec == Init /\ [][Next]_<<phase, tries, asked>>
=============================================================================
