---------------------------- MODULE RuntimeState ----------------------------
(***************************************************************************)
(* The operator's runtime state (runtime-app/state.ts): approvals and jobs *)
(* in memory, the save that every action starts and nobody awaits, and the *)
(* load at boot, which nobody awaits either: the server answers the owner  *)
(* from the seeds while the tables are read.                               *)
(*                                                                         *)
(* A save and a load are one step per row or table.  The repository, which *)
(* is not part of the source, is taken to carry out the calls in the order *)
(* they are made: a row is written with the value it has in memory at that *)
(* moment.  The runtime is one that seeds itself (env development or test).*)
(* Messages, audit, decisions and delegations, which neither gate nor      *)
(* follow what is modelled, are left out, and so are the attempts and the  *)
(* texts of a job.                                                         *)
(*                                                                         *)
(* Bounds: Savers, the saves under way at one time; MaxCrashes; MaxFaults  *)
(* writes that reject.                                                     *)
(***************************************************************************)
EXTENDS Naturals

CONSTANTS
  NumRequests,         \* the approval requests of the seed, in their order
  NumJobs,             \* the jobs of the seed, in their order
  FirstStatus,         \* and their status
  FollowUps,           \* the jobs of kind approval_followup
  Immediate,           \* handoff_retry and message_dispatch
  Project,             \* of a request and of a follow-up
  Decisions,
  Savers, MaxCrashes, MaxFaults

Requests == 1..NumRequests
Jobs == 1..NumJobs
Statuses == {"queued", "running", "retrying", "failed", "completed"}

ASSUME RuntimeAssumption ==
  /\ {NumRequests, NumJobs} \subseteq Nat \ {0}
  /\ {"none", "absent"} \cap Decisions = {}
  /\ FirstStatus \in [Jobs -> Statuses]
  /\ FollowUps \subseteq Jobs /\ Immediate \subseteq Jobs \ FollowUps
  /\ \A j \in FollowUps : FirstStatus[j] # "completed"
  /\ {MaxCrashes, MaxFaults} \subseteq Nat

VARIABLES
  decision,      \* the owner's answer to each request; "none" while it is pending
  listed,        \* the requests in approvalTimeline
  jobs,          \* status of each job; "absent" when it is not in the list
  saves,         \* each saveAllToPersistence under way
  boot,          \* initPersistence: where it is, and what it has read
  projectRows, approvalRows, jobRows,    \* the tables
  crashes, faults,
  raced,         \* history: the owner acted before this process's load was done
  spoiled        \* history: a save rejected and none that began later has ended

memory == <<decision, listed, jobs>>
tables == <<projectRows, approvalRows, jobRows>>
vars == <<memory, saves, boot, tables, crashes, faults, raced, spoiled>>

NoRequests == [r \in Requests |-> "none"]
NoRows == [r \in Requests |-> "absent"]
NoJobRows == [j \in Jobs |-> "absent"]

NotSaving == [at |-> "off", row |-> 1, late |-> FALSE]
Started == [at |-> "projects", row |-> 1, late |-> FALSE]
Booting == [at |-> "projects", projects |-> FALSE, approvals |-> NoRows, jobs |-> NoJobRows]

Init ==
  /\ decision = NoRequests /\ listed = Requests /\ jobs = FirstStatus
  /\ saves = [s \in Savers |-> NotSaving]
  /\ boot = Booting
  /\ projectRows = FALSE /\ approvalRows = NoRows /\ jobRows = NoJobRows
  /\ crashes = 0 /\ faults = 0
  /\ raced = FALSE /\ spoiled = FALSE

-----------------------------------------------------------------------------
(* What the owner does.  result, which every action ends with, starts a    *)
(* save and returns.                                                       *)

(* Slip: an action leaves it to the save that is under way.                *)
SaveUnlessSaving(s) ==
  /\ saves[s].at = "off"
  /\ saves' = IF \A t \in Savers : saves[t].at = "off"
              THEN [saves EXCEPT ![s] = Started] ELSE saves

Save(s) ==
  /\ saves[s].at = "off"
  /\ saves' = [saves EXCEPT ![s] = Started]

Acts(s) ==
  /\ Save(s)
  /\ raced' = (raced \/ boot.at # "done")
  /\ UNCHANGED <<listed, boot, tables, crashes, faults, spoiled>>

(* Slip: an approval can be answered again.                                *)
AtAnyTime(r) == TRUE

Pending(r) == decision[r] = "none"

(* respondToApproval: an open follow-up of the project is done (the code   *)
(* takes the first of its list, ordered as the repository loaded it).      *)
Respond(s, r, d) ==
  LET open == {j \in FollowUps : Project[j] = Project[r]
                                 /\ jobs[j] \notin {"completed", "absent"}} IN
  /\ Pending(r)
  /\ decision' = [decision EXCEPT ![r] = d]
  /\ \/ open = {} /\ UNCHANGED jobs
     \/ \E j \in open : jobs' = [jobs EXCEPT ![j] = "completed"]
  /\ Acts(s)

RetryJob(s, j) ==
  /\ jobs[j] = "failed"
  /\ jobs' = [jobs EXCEPT ![j] = IF j \in Immediate THEN "completed" ELSE "retrying"]
  /\ UNCHANGED decision
  /\ Acts(s)

(* Any other action, and one of these that is refused, saves as well.      *)
ActElsewhere(s) ==
  /\ Acts(s)
  /\ UNCHANGED <<decision, jobs>>

-----------------------------------------------------------------------------
(* saveAllToPersistence.                                                   *)

Unsaved == <<memory, boot, crashes, faults, raced>>

(* Slip: one row too many.                                                 *)
WroteRowTooMany(s, last, next) ==
  saves' = [saves EXCEPT ![s] =
    IF saves[s].row > last THEN [saves[s] EXCEPT !.at = next, !.row = 1]
    ELSE [saves[s] EXCEPT !.row = saves[s].row + 1]]

(* A save goes on to the next row, and from the last row to the next table.*)
WroteRow(s, last, next) ==
  saves' = [saves EXCEPT ![s] =
    IF saves[s].row = last THEN [saves[s] EXCEPT !.at = next, !.row = 1]
    ELSE [saves[s] EXCEPT !.row = saves[s].row + 1]]

SaveProjects(s) ==
  /\ saves[s].at = "projects"
  /\ projectRows' = TRUE
  /\ WroteRow(s, 1, "approvals")
  /\ UNCHANGED <<Unsaved, approvalRows, jobRows, spoiled>>

SaveApproval(s) ==
  LET r == saves[s].row IN
  /\ saves[s].at = "approvals"
  /\ approvalRows' = IF r \in listed THEN [approvalRows EXCEPT ![r] = decision[r]]
                     ELSE approvalRows
  /\ WroteRow(s, NumRequests, "jobs")
  /\ UNCHANGED <<Unsaved, projectRows, jobRows, spoiled>>

SaveJob(s) ==
  LET j == saves[s].row IN
  /\ saves[s].at = "jobs"
  /\ jobRows' = IF jobs[j] # "absent" THEN [jobRows EXCEPT ![j] = jobs[j]] ELSE jobRows
  /\ WroteRow(s, NumJobs, "others")
  /\ UNCHANGED <<Unsaved, projectRows, approvalRows, spoiled>>

(* The tables behind the jobs have been written.                           *)
SaveEnds(s) ==
  /\ saves[s].at = "others"
  /\ saves' = [saves EXCEPT ![s] = NotSaving]
  /\ spoiled' = (spoiled /\ saves[s].late)
  /\ UNCHANGED <<Unsaved, tables>>

(* A write rejects: the rest is not saved, and the error is only logged.   *)
SaveFails(s) ==
  /\ saves[s].at # "off" /\ faults < MaxFaults
  /\ faults' = faults + 1
  /\ saves' = [t \in Savers |->
       IF t = s THEN NotSaving ELSE [saves[t] EXCEPT !.late = TRUE]]
  /\ spoiled' = TRUE
  /\ UNCHANGED <<memory, boot, tables, crashes, raced>>

-----------------------------------------------------------------------------
(* The process dies, and another boots from the seeds and the tables.      *)

Crash ==
  /\ crashes < MaxCrashes
  /\ crashes' = crashes + 1
  /\ decision' = NoRequests /\ listed' = Requests /\ jobs' = FirstStatus
  /\ saves' = [s \in Savers |-> NotSaving]
  /\ boot' = Booting
  /\ raced' = FALSE /\ spoiled' = FALSE
  /\ UNCHANGED <<tables, faults>>

Unread == <<tables, crashes, faults, raced, spoiled>>

ReadProjects ==
  /\ boot.at = "projects"
  /\ boot' = [boot EXCEPT !.at = "approvals", !.projects = projectRows]
  /\ UNCHANGED <<memory, saves, Unread>>

ReadApprovals ==
  /\ boot.at = "approvals"
  /\ boot' = [boot EXCEPT !.at = "jobs", !.approvals = approvalRows]
  /\ UNCHANGED <<memory, saves, Unread>>

ReadJobs ==
  /\ boot.at = "jobs"
  /\ boot' = [boot EXCEPT !.at = "rebuild", !.jobs = jobRows]
  /\ UNCHANGED <<memory, saves, Unread>>

(* A table without rows leaves what is in memory.                          *)
Decided(rows, others) ==
  IF rows = NoRows THEN others
  ELSE [r \in Requests |-> IF rows[r] = "absent" THEN others[r] ELSE rows[r]]

Listed(rows) == IF rows = NoRows THEN listed ELSE {r \in Requests : rows[r] # "absent"}

LoadedJobs(rows, others) == IF rows = NoJobRows THEN others ELSE rows

Rebuild ==
  /\ boot.at = "rebuild" /\ boot.projects
  /\ boot' = [Booting EXCEPT !.at = "done"]
  /\ decision' = Decided(boot.approvals, decision)
  /\ listed' = Listed(boot.approvals)
  /\ jobs' = LoadedJobs(boot.jobs, jobs)
  /\ UNCHANGED <<saves, Unread>>

(* Without project rows the seeds are saved.                               *)
SaveSeeds(s) ==
  /\ boot.at = "rebuild" /\ ~boot.projects
  /\ boot' = [Booting EXCEPT !.at = "done"]
  /\ Save(s)
  /\ UNCHANGED <<memory, Unread>>

Next ==
  \/ \E s \in Savers :
       \/ \E r \in Requests, d \in Decisions : Respond(s, r, d)
       \/ \E j \in Jobs : RetryJob(s, j)
       \/ ActElsewhere(s)
       \/ SaveProjects(s) \/ SaveApproval(s) \/ SaveJob(s) \/ SaveEnds(s)
       \/ SaveFails(s) \/ SaveSeeds(s)
  \/ Crash \/ ReadProjects \/ ReadApprovals \/ ReadJobs \/ Rebuild

Spec == Init /\ [][Next]_vars

-----------------------------------------------------------------------------
(* Types of the variables.                                                 *)
TypeOK ==
  /\ decision \in [Requests -> Decisions \cup {"none"}]
  /\ listed \subseteq Requests
  /\ jobs \in [Jobs -> Statuses \cup {"absent"}]
  /\ saves \in [Savers -> [at : {"off", "projects", "approvals", "jobs", "others"},
                           row : Requests \cup Jobs, late : BOOLEAN]]
  /\ boot \in [at : {"projects", "approvals", "jobs", "rebuild", "done"},
               projects : BOOLEAN,
               approvals : [Requests -> Decisions \cup {"none", "absent"}],
               jobs : [Jobs -> Statuses \cup {"absent"}]]
  /\ projectRows \in BOOLEAN
  /\ approvalRows \in [Requests -> Decisions \cup {"none", "absent"}]
  /\ jobRows \in [Jobs -> Statuses \cup {"absent"}]
  /\ crashes \in 0..MaxCrashes
  /\ faults \in 0..MaxFaults
  /\ {raced, spoiled} \subseteq BOOLEAN

Quiet ==
  /\ boot.at = "done" /\ \A s \in Savers : saves[s].at = "off"
  /\ ~spoiled /\ ~raced

(* However the saves of several actions interleave, and after a save that  *)
(* rejected as soon as a later one has ended: when none is under way, a    *)
(* crash loses nothing, the load rebuilding from the tables what memory    *)
(* holds.  Two exceptions: a process in which the owner acted before the   *)
(* load was done, which may never hold what the tables do, and an answer   *)
(* to a request whose row a crash kept from the table, for it is not in    *)
(* the timeline of the load.                                               *)
CrashLosesNothing ==
  Quiet =>
    /\ projectRows
    /\ \A r \in listed : Decided(approvalRows, NoRequests)[r] = decision[r]
    /\ LoadedJobs(jobRows, FirstStatus) = jobs

(* What respondToApproval tells the owner, "Approval approve recorded.",   *)
(* stays true as long as the process lives, and from when it is in the     *)
(* table also after that: "approval dan job state tidak hilang setelah     *)
(* process restart" (requirements.md, 8.4).  The code breaks both.  The    *)
(* save of any action before the load is done writes the seeds over the    *)
(* rows of the process before, and the load then replaces what the owner   *)
(* answered meanwhile.                                                     *)
AnswersStay ==
  [][\A r \in Requests :
       /\ decision[r] # "none" => decision'[r] = decision[r] \/ crashes' # crashes
       /\ approvalRows[r] \in Decisions => approvalRows'[r] = approvalRows[r]]_vars

(* What remains of it: in a process whose owner does nothing before the    *)
(* load is done, an answer in the table is not changed or taken back.  The *)
(* load brings it into memory before anything is saved, whichever saves    *)
(* the crash cut off, and the owner is not asked the same again.           *)
DurableAnswersStay ==
  [][\A r \in Requests :
       ~raced' /\ approvalRows[r] \in Decisions => approvalRows'[r] = approvalRows[r]]_vars

=============================================================================
