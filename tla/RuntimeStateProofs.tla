------------------------- MODULE RuntimeStateProofs -------------------------
(***************************************************************************)
(* Proofs about RuntimeState, for any seeds, savers, crashes and faults.   *)
(*                                                                         *)
(* Both properties need to know what the tables hold while the runtime     *)
(* boots (LoadInv) and, once it has, who still owes them a row: a save     *)
(* that has yet to come to it, or nobody when a save rejected and every    *)
(* save under way began before (SavedInv).                                 *)
(***************************************************************************)
EXTENDS RuntimeState, TLAPS

Places == {"off", "projects", "approvals", "jobs", "others"}
SaveRec == [at : Places, row : Requests \cup Jobs, late : BOOLEAN]

Stages == {"projects", "approvals", "jobs", "rebuild", "done"}
ApprovalRows == [Requests -> Decisions \cup {"none", "absent"}]
JobRows == [Jobs -> Statuses \cup {"absent"}]
BootRec == [at : Stages, projects : BOOLEAN, approvals : ApprovalRows, jobs : JobRows]

(* The type invariant, the Boolean history apart.                          *)
Types ==
  /\ decision \in [Requests -> Decisions \cup {"none"}]
  /\ listed \subseteq Requests
  /\ jobs \in JobRows
  /\ saves \in [Savers -> SaveRec]
  /\ boot \in BootRec
  /\ projectRows \in BOOLEAN
  /\ approvalRows \in ApprovalRows
  /\ jobRows \in JobRows
  /\ crashes \in 0..MaxCrashes
  /\ faults \in 0..MaxFaults

Flags == raced \in BOOLEAN /\ spoiled \in BOOLEAN

(* A save's row is one of the table it is at.                              *)
RowsInv ==
  \A s \in Savers :
    /\ saves[s].at \in {"off", "projects", "others"} => saves[s].row = 1
    /\ saves[s].at = "approvals" => saves[s].row \in Requests
    /\ saves[s].at = "jobs" => saves[s].row \in Jobs

TypeInv == Types /\ RowsInv

LEMMA Sizes == 1 \in Requests /\ 1 \in Jobs
BY RuntimeAssumption DEF RuntimeAssumption, Requests, Jobs

LEMMA Shapes ==
  /\ Started \in SaveRec /\ Started.at = "projects" /\ Started.row = 1
  /\ NotSaving \in SaveRec /\ NotSaving.at = "off" /\ NotSaving.row = 1
  /\ Booting \in BootRec /\ Booting.at = "projects"
  /\ [Booting EXCEPT !.at = "done"] \in BootRec
  /\ [Booting EXCEPT !.at = "done"].at = "done"
BY Sizes DEF Started, NotSaving, Booting, NoRows, NoJobRows, SaveRec, Places, BootRec, Stages,
             ApprovalRows, JobRows

LEMMA LateRecord ==
  ASSUME NEW v \in SaveRec
  PROVE  /\ [v EXCEPT !.late = TRUE] \in SaveRec
         /\ [v EXCEPT !.late = TRUE].at = v.at
         /\ [v EXCEPT !.late = TRUE].row = v.row
         /\ [v EXCEPT !.late = TRUE].late = TRUE
BY DEF SaveRec

(* How a save goes on from its row: to the next, or to the next table.     *)
LEMMA WroteRowMoves ==
  ASSUME TypeInv, NEW s \in Savers, NEW last, NEW next \in Places, WroteRow(s, last, next),
         saves[s].row # last => saves[s].row + 1 \in Requests \cup Jobs
  PROVE  \E v \in SaveRec :
           /\ saves' = [saves EXCEPT ![s] = v]
           /\ v.late = saves[s].late
           /\ \/ saves[s].row = last /\ v.at = next /\ v.row = 1
              \/ /\ saves[s].row # last
                 /\ v.at = saves[s].at /\ v.row = saves[s].row + 1
<1>1. saves[s] \in SaveRec
  BY DEF TypeInv, Types
<1>2. CASE saves[s].row = last
  <2> DEFINE v == [saves[s] EXCEPT !.at = next, !.row = 1]
  <2>1. /\ v \in SaveRec /\ v.at = next /\ v.row = 1 /\ v.late = saves[s].late
    BY <1>1, Sizes DEF SaveRec
  <2>2. saves' = [saves EXCEPT ![s] = v]
    BY <1>2 DEF WroteRow
  <2> QED  BY <1>2, <2>1, <2>2
<1>3. CASE saves[s].row # last
  <2> DEFINE v == [saves[s] EXCEPT !.row = saves[s].row + 1]
  <2>1. /\ v \in SaveRec /\ v.at = saves[s].at /\ v.row = saves[s].row + 1
        /\ v.late = saves[s].late
    BY <1>1, <1>3 DEF SaveRec
  <2>2. saves' = [saves EXCEPT ![s] = v]
    BY <1>3 DEF WroteRow
  <2> QED  BY <1>3, <2>1, <2>2
<1> QED  BY <1>2, <1>3

(* Where a save may come from its place, row by row.                       *)
LEMMA SaveMoves ==
  ASSUME TypeInv, NEW s \in Savers, SaveProjects(s) \/ SaveApproval(s) \/ SaveJob(s)
  PROVE  \E v \in SaveRec :
           /\ saves' = [saves EXCEPT ![s] = v]
           /\ v.late = saves[s].late
           /\ \/ SaveProjects(s) /\ v.at = "approvals" /\ v.row = 1
              \/ /\ SaveApproval(s) /\ saves[s].row # NumRequests
                 /\ v.at = "approvals" /\ v.row = saves[s].row + 1 /\ v.row \in Requests
              \/ /\ SaveApproval(s) /\ saves[s].row = NumRequests
                 /\ v.at = "jobs" /\ v.row = 1
              \/ /\ SaveJob(s) /\ saves[s].row # NumJobs
                 /\ v.at = "jobs" /\ v.row = saves[s].row + 1 /\ v.row \in Jobs
              \/ /\ SaveJob(s) /\ saves[s].row = NumJobs
                 /\ v.at = "others" /\ v.row = 1
<1> USE RuntimeAssumption DEF RuntimeAssumption
<1>1. CASE SaveProjects(s)
  <2>1. saves[s].row = 1 /\ WroteRow(s, 1, "approvals")
    BY <1>1 DEF SaveProjects, TypeInv, RowsInv
  <2>2. \E v \in SaveRec :
          /\ saves' = [saves EXCEPT ![s] = v] /\ v.late = saves[s].late
          /\ v.at = "approvals" /\ v.row = 1
    BY <2>1, WroteRowMoves DEF Places
  <2> QED  BY <1>1, <2>2
<1>2. CASE SaveApproval(s)
  <2>1. /\ saves[s].at = "approvals" /\ saves[s].row \in Requests
        /\ WroteRow(s, NumRequests, "jobs")
    BY <1>2 DEF SaveApproval, TypeInv, RowsInv
  <2>2. saves[s].row # NumRequests => saves[s].row + 1 \in Requests
    BY <2>1 DEF Requests
  <2>3. PICK v \in SaveRec :
          /\ saves' = [saves EXCEPT ![s] = v] /\ v.late = saves[s].late
          /\ \/ saves[s].row = NumRequests /\ v.at = "jobs" /\ v.row = 1
             \/ /\ saves[s].row # NumRequests
                /\ v.at = saves[s].at /\ v.row = saves[s].row + 1
    BY <2>1, <2>2, WroteRowMoves DEF Places
  <2> QED  BY <1>2, <2>1, <2>2, <2>3
<1>3. CASE SaveJob(s)
  <2>1. /\ saves[s].at = "jobs" /\ saves[s].row \in Jobs
        /\ WroteRow(s, NumJobs, "others")
    BY <1>3 DEF SaveJob, TypeInv, RowsInv
  <2>2. saves[s].row # NumJobs => saves[s].row + 1 \in Jobs
    BY <2>1 DEF Jobs
  <2>3. PICK v \in SaveRec :
          /\ saves' = [saves EXCEPT ![s] = v] /\ v.late = saves[s].late
          /\ \/ saves[s].row = NumJobs /\ v.at = "others" /\ v.row = 1
             \/ /\ saves[s].row # NumJobs
                /\ v.at = saves[s].at /\ v.row = saves[s].row + 1
    BY <2>1, <2>2, WroteRowMoves DEF Places
  <2> QED  BY <1>3, <2>1, <2>2, <2>3
<1> QED  BY <1>1, <1>2, <1>3

LEMMA SaveMovesTypes ==
  ASSUME TypeInv, NEW s \in Savers, SaveProjects(s) \/ SaveApproval(s) \/ SaveJob(s)
  PROVE  saves' \in [Savers -> SaveRec] /\ RowsInv'
<1>1. PICK v \in SaveRec :
        /\ saves' = [saves EXCEPT ![s] = v]
        /\ v.at \in {"off", "projects", "others"} => v.row = 1
        /\ v.at = "approvals" => v.row \in Requests
        /\ v.at = "jobs" => v.row \in Jobs
  BY SaveMoves, Sizes
<1> QED  BY <1>1 DEF TypeInv, Types, RowsInv

LEMMA SaveStarts ==
  ASSUME TypeInv, NEW s \in Savers, Save(s)
  PROVE  saves' \in [Savers -> SaveRec] /\ RowsInv'
BY Shapes DEF Save, TypeInv, Types, RowsInv

LEMMA TypeStep ==
  ASSUME TypeInv, [Next]_vars
  PROVE  TypeInv'
<1> USE RuntimeAssumption DEF RuntimeAssumption
<1>1. ASSUME NEW s \in Savers, NEW r \in Requests, NEW d \in Decisions, Respond(s, r, d)
      PROVE  TypeInv'
  <2>1. jobs' \in JobRows
    BY <1>1 DEF Respond, TypeInv, Types, Statuses, JobRows
  <2>2. decision' \in [Requests -> Decisions \cup {"none"}]
    BY <1>1 DEF Respond, TypeInv, Types
  <2> QED  BY <1>1, <2>1, <2>2, SaveStarts DEF Respond, Acts, tables, TypeInv, Types
<1>2. ASSUME NEW s \in Savers, NEW j \in Jobs, RetryJob(s, j) PROVE TypeInv'
  <2>1. jobs' \in JobRows
    BY <1>2 DEF RetryJob, TypeInv, Types, Statuses, JobRows
  <2> QED  BY <1>2, <2>1, SaveStarts DEF RetryJob, Acts, tables, TypeInv, Types
<1>2a. ASSUME NEW s \in Savers, ActElsewhere(s) PROVE TypeInv'
  BY <1>2a, SaveStarts DEF ActElsewhere, Acts, tables, TypeInv, Types
<1>3. ASSUME NEW s \in Savers, SaveProjects(s) PROVE TypeInv'
  <2>1. saves' \in [Savers -> SaveRec] /\ RowsInv'
    BY <1>3, SaveMovesTypes
  <2> QED  BY <1>3, <2>1 DEF SaveProjects, Unsaved, memory, TypeInv, Types
<1>4. ASSUME NEW s \in Savers, SaveApproval(s) PROVE TypeInv'
  <2>1. saves' \in [Savers -> SaveRec] /\ RowsInv'
    BY <1>4, SaveMovesTypes
  <2>2. approvalRows' \in ApprovalRows
    <3>1. decision[saves[s].row] \in Decisions \cup {"none", "absent"} \/ saves[s].row \notin Requests
      BY DEF TypeInv, Types
    <3> QED  BY <1>4, <3>1 DEF SaveApproval, ApprovalRows, TypeInv, Types
  <2> QED  BY <1>4, <2>1, <2>2 DEF SaveApproval, Unsaved, memory, TypeInv, Types
<1>5. ASSUME NEW s \in Savers, SaveJob(s) PROVE TypeInv'
  <2>1. saves' \in [Savers -> SaveRec] /\ RowsInv'
    BY <1>5, SaveMovesTypes
  <2>2. saves[s].row \in Jobs
    BY <1>5 DEF SaveJob, TypeInv, RowsInv
  <2>3. jobRows' \in JobRows
    BY <1>5, <2>2 DEF SaveJob, JobRows, TypeInv, Types
  <2> QED  BY <1>5, <2>1, <2>3 DEF SaveJob, Unsaved, memory, TypeInv, Types
<1>6. ASSUME NEW s \in Savers, SaveEnds(s) PROVE TypeInv'
  BY <1>6, Shapes DEF SaveEnds, Unsaved, memory, tables, NotSaving, TypeInv, Types, RowsInv
<1>7. ASSUME NEW s \in Savers, SaveFails(s) PROVE TypeInv'
  <2>1. \A t \in Savers : /\ [saves[t] EXCEPT !.late = TRUE] \in SaveRec
                          /\ [saves[t] EXCEPT !.late = TRUE].at = saves[t].at
                          /\ [saves[t] EXCEPT !.late = TRUE].row = saves[t].row
    BY LateRecord DEF TypeInv, Types
  <2>2. saves' \in [Savers -> SaveRec]
    BY <1>7, <2>1, Shapes DEF SaveFails
  <2>3. \A t \in Savers : \/ saves'[t] = NotSaving
                          \/ saves'[t].at = saves[t].at /\ saves'[t].row = saves[t].row
    <3>1. \A t \in Savers : saves'[t] = IF t = s THEN NotSaving
                                        ELSE [saves[t] EXCEPT !.late = TRUE]
      BY <1>7 DEF SaveFails
    <3> TAKE t \in Savers
    <3>2. CASE t = s
      BY <3>1, <3>2
    <3>3. CASE t # s
      BY <2>1, <3>1, <3>3
    <3> QED  BY <3>2, <3>3
  <2>4. RowsInv'
    BY <2>3, Shapes DEF TypeInv, RowsInv
  <2> QED  BY <1>7, <2>2, <2>4 DEF SaveFails, memory, tables, TypeInv, Types
<1>8. ASSUME NEW s \in Savers, SaveSeeds(s) PROVE TypeInv'
  <2>1. boot' \in BootRec
    BY <1>8, Shapes DEF SaveSeeds
  <2> QED  BY <1>8, <2>1, SaveStarts DEF SaveSeeds, memory, Unread, tables, TypeInv, Types
<1>9. CASE Crash
  <2>1. decision' \in [Requests -> Decisions \cup {"none"}] /\ jobs' \in JobRows
    BY <1>9 DEF Crash, NoRequests, JobRows
  <2>2. saves' \in [Savers -> SaveRec] /\ RowsInv' /\ boot' \in BootRec
    BY <1>9, Shapes DEF Crash, RowsInv
  <2> QED  BY <1>9, <2>1, <2>2 DEF Crash, tables, TypeInv, Types
<1>10. CASE ReadProjects \/ ReadApprovals \/ ReadJobs
  <2>1. boot' \in BootRec
    BY <1>10 DEF ReadProjects, ReadApprovals, ReadJobs, TypeInv, Types, BootRec, Stages
  <2> QED  BY <1>10, <2>1 DEF ReadProjects, ReadApprovals, ReadJobs, memory, Unread, tables,
                              TypeInv, Types, RowsInv
<1>11. CASE Rebuild
  <2>1. boot' \in BootRec
    BY <1>11, Shapes DEF Rebuild
  <2>2. decision' \in [Requests -> Decisions \cup {"none"}]
    <3>1. boot.approvals \in ApprovalRows
      BY DEF TypeInv, Types, BootRec
    <3>2. CASE boot.approvals = NoRows
      BY <1>11, <3>2 DEF Rebuild, Decided, TypeInv, Types
    <3>3. CASE boot.approvals # NoRows
      <4>1. decision' = [r \in Requests |-> IF boot.approvals[r] = "absent" THEN decision[r]
                                            ELSE boot.approvals[r]]
        BY <1>11, <3>3 DEF Rebuild, Decided
      <4> QED  BY <3>1, <4>1 DEF ApprovalRows, TypeInv, Types
    <3> QED  BY <3>2, <3>3
  <2>3. listed' \subseteq Requests /\ jobs' \in JobRows
    BY <1>11 DEF Rebuild, Listed, LoadedJobs, TypeInv, Types, BootRec
  <2> QED  BY <1>11, <2>1, <2>2, <2>3 DEF Rebuild, Unread, tables, TypeInv, Types, RowsInv
<1>12. CASE UNCHANGED vars
  BY <1>12 DEF vars, memory, tables, TypeInv, Types, RowsInv
<1> QED  BY <1>1, <1>2, <1>2a, <1>3, <1>4, <1>5, <1>6, <1>7, <1>8, <1>9, <1>10, <1>11, <1>12 DEF Next

LEMMA FlagStep ==
  ASSUME Flags, [Next]_vars
  PROVE  Flags'
<1>1. ASSUME NEW s \in Savers, Acts(s) PROVE Flags'
  BY <1>1, Zenon DEF Acts, Flags
<1>2. ASSUME NEW s \in Savers,
             \/ \E r \in Requests, d \in Decisions : Respond(s, r, d)
             \/ \E j \in Jobs : RetryJob(s, j)
             \/ ActElsewhere(s)
      PROVE  Flags'
  BY <1>1, <1>2, Zenon DEF Respond, RetryJob, ActElsewhere
<1>3. ASSUME NEW s \in Savers,
             \/ SaveProjects(s) \/ SaveApproval(s) \/ SaveJob(s) \/ SaveEnds(s)
             \/ SaveFails(s) \/ SaveSeeds(s)
      PROVE  Flags'
  BY <1>3, Zenon DEF SaveProjects, SaveApproval, SaveJob, SaveEnds, SaveFails, SaveSeeds,
                     Unsaved, Unread, Flags
<1>4. CASE Crash \/ ReadProjects \/ ReadApprovals \/ ReadJobs \/ Rebuild
  BY <1>4, Zenon DEF Crash, ReadProjects, ReadApprovals, ReadJobs, Rebuild, Unread, Flags
<1>5. CASE UNCHANGED vars
  BY <1>5, Zenon DEF vars, Flags
<1> QED  BY <1>2, <1>3, <1>4, <1>5, Zenon DEF Next

LEMMA TypesCorrect == Spec => []TypeInv
<1>1. Init => TypeInv
  <2> SUFFICES ASSUME Init PROVE TypeInv
    OBVIOUS
  <2>1. /\ decision \in [Requests -> Decisions \cup {"none"}] /\ jobs \in JobRows
        /\ approvalRows \in ApprovalRows /\ jobRows \in JobRows
    BY RuntimeAssumption
       DEF RuntimeAssumption, Init, NoRequests, NoRows, NoJobRows, ApprovalRows, JobRows
  <2>2. saves \in [Savers -> SaveRec] /\ RowsInv /\ boot \in BootRec
    BY Shapes DEF Init, RowsInv
  <2>3. projectRows \in BOOLEAN /\ listed \subseteq Requests
    BY DEF Init
  <2>4. crashes \in 0..MaxCrashes /\ faults \in 0..MaxFaults
    BY RuntimeAssumption DEF RuntimeAssumption, Init
  <2> QED  BY <2>1, <2>2, <2>3, <2>4 DEF TypeInv, Types
<1> QED  BY <1>1, TypeStep, PTL DEF Spec

(* What memory, the tables, a save and a load hold has its type.           *)
THEOREM TypeCorrect == Spec => []TypeOK
<1>1. Init => Flags
  BY DEF Init, Flags
<1>2. TypeInv /\ Flags => TypeOK
  BY DEF TypeInv, Types, Flags, TypeOK, SaveRec, Places, BootRec, Stages, ApprovalRows, JobRows
<1> QED  BY <1>1, <1>2, TypesCorrect, FlagStep, PTL DEF Spec

-----------------------------------------------------------------------------
(* The tables and the load.                                                *)

Off == \A s \in Savers : saves[s].at = "off"

(* The project rows are written first.                                     *)
TableInv ==
  /\ \A s \in Savers : saves[s].at \in {"approvals", "jobs", "others"} => projectRows = TRUE
  /\ projectRows = FALSE => approvalRows = NoRows /\ jobRows = NoJobRows

(* Unless the owner acts, memory holds the seeds while the tables are read *)
(* and nobody writes them.                                                 *)
LoadInv ==
  ~raced /\ boot.at # "done" =>
    /\ Off
    /\ decision = NoRequests /\ listed = Requests /\ jobs = FirstStatus
    /\ boot.at # "projects" => boot.projects = projectRows
    /\ boot.at \in {"jobs", "rebuild"} => boot.approvals = approvalRows
    /\ boot.at = "rebuild" => boot.jobs = jobRows

LEMMA TableStep ==
  ASSUME TypeInv, TableInv, [Next]_vars
  PROVE  TableInv'
<1> USE DEF TypeInv, Types
<1>1. ASSUME NEW s \in Savers, Save(s), UNCHANGED tables PROVE TableInv'
  BY <1>1, Shapes DEF Save, tables, TableInv
<1>2. ASSUME NEW s \in Savers,
             \/ \E r \in Requests, d \in Decisions : Respond(s, r, d)
             \/ \E j \in Jobs : RetryJob(s, j)
             \/ ActElsewhere(s)
             \/ SaveSeeds(s)
      PROVE  TableInv'
  BY <1>1, <1>2 DEF Respond, RetryJob, ActElsewhere, SaveSeeds, Acts, Unread
<1>3. ASSUME NEW s \in Savers, SaveProjects(s) PROVE TableInv'
  BY <1>3 DEF SaveProjects, TableInv
<1>4. ASSUME NEW s \in Savers, SaveApproval(s) \/ SaveJob(s) PROVE TableInv'
  <2>1. projectRows = TRUE /\ projectRows' = projectRows
    BY <1>4 DEF SaveApproval, SaveJob, TableInv
  <2> QED  BY <2>1 DEF TableInv
<1>5. ASSUME NEW s \in Savers, SaveEnds(s) \/ SaveFails(s) PROVE TableInv'
  <2>1. \A t \in Savers : saves'[t].at \in {"off", saves[t].at}
    BY <1>5, LateRecord, Shapes DEF SaveEnds, SaveFails
  <2> QED  BY <1>5, <2>1 DEF SaveEnds, SaveFails, tables, TableInv
<1>6. CASE Crash
  BY <1>6, Shapes DEF Crash, tables, TableInv
<1>7. CASE ReadProjects \/ ReadApprovals \/ ReadJobs \/ Rebuild
  BY <1>7 DEF ReadProjects, ReadApprovals, ReadJobs, Rebuild, Unread, tables, TableInv
<1>8. CASE UNCHANGED vars
  BY <1>8 DEF vars, tables, TableInv
<1> QED  BY <1>2, <1>3, <1>4, <1>5, <1>6, <1>7, <1>8 DEF Next

(* The history variable raced stays TRUE while a process lives, and        *)
(* becomes it when the owner acts too early.                               *)
LEMMA RacedStays ==
  ASSUME [Next]_vars, ~Crash, ~raced'
  PROVE  /\ ~raced
         /\ \A s \in Savers : Acts(s) => boot.at = "done"
<1>1. ASSUME NEW s \in Savers, Acts(s) PROVE ~raced /\ boot.at = "done"
  BY <1>1, Zenon DEF Acts
<1>2. ASSUME NEW s \in Savers,
             \/ \E r \in Requests, d \in Decisions : Respond(s, r, d)
             \/ \E j \in Jobs : RetryJob(s, j)
             \/ ActElsewhere(s)
      PROVE  ~raced
  BY <1>1, <1>2, Zenon DEF Respond, RetryJob, ActElsewhere
<1>3. ASSUME NEW s \in Savers,
             \/ SaveProjects(s) \/ SaveApproval(s) \/ SaveJob(s) \/ SaveEnds(s)
             \/ SaveFails(s) \/ SaveSeeds(s)
      PROVE  ~raced
  BY <1>3, Zenon DEF SaveProjects, SaveApproval, SaveJob, SaveEnds, SaveFails, SaveSeeds,
                     Unsaved, Unread
<1>4. ASSUME ReadProjects \/ ReadApprovals \/ ReadJobs \/ Rebuild PROVE ~raced
  BY <1>4, Zenon DEF ReadProjects, ReadApprovals, ReadJobs, Rebuild, Unread
<1>5. ASSUME UNCHANGED vars PROVE ~raced
  BY <1>5, Zenon DEF vars
<1> QED  BY <1>1, <1>2, <1>3, <1>4, <1>5, Zenon DEF Next

LEMMA LoadStep ==
  ASSUME TypeInv, LoadInv, [Next]_vars
  PROVE  LoadInv'
<1>0. CASE Crash
  BY <1>0, Shapes DEF Crash, LoadInv, Off
<1> SUFFICES ASSUME ~raced', boot'.at # "done", ~Crash PROVE LoadInv'
  BY <1>0 DEF LoadInv
<1>1. ~raced
  BY RacedStays
<1>2. boot \in BootRec
  BY DEF TypeInv, Types
<1>3. ASSUME NEW s \in Savers,
             \/ \E r \in Requests, d \in Decisions : Respond(s, r, d)
             \/ \E j \in Jobs : RetryJob(s, j)
             \/ ActElsewhere(s)
      PROVE  FALSE
  <2>1. Acts(s)
    BY <1>3 DEF Respond, RetryJob, ActElsewhere
  <2> QED  BY <2>1, RacedStays DEF Acts
<1>4. ASSUME NEW s \in Savers,
             \/ SaveProjects(s) \/ SaveApproval(s) \/ SaveJob(s) \/ SaveEnds(s)
             \/ SaveFails(s)
      PROVE  FALSE
  <2>1. boot' = boot /\ saves[s].at # "off"
    BY <1>4 DEF SaveProjects, SaveApproval, SaveJob, SaveEnds, SaveFails, Unsaved
  <2> QED  BY <1>1, <2>1 DEF LoadInv, Off
<1>5. ASSUME NEW s \in Savers, SaveSeeds(s) PROVE FALSE
  BY <1>5, Shapes DEF SaveSeeds
<1>6. CASE ReadProjects
  BY <1>1, <1>2, <1>6 DEF ReadProjects, memory, Unread, tables, LoadInv, Off, BootRec
<1>7. CASE ReadApprovals
  BY <1>1, <1>2, <1>7 DEF ReadApprovals, memory, Unread, tables, LoadInv, Off, BootRec
<1>8. CASE ReadJobs
  BY <1>1, <1>2, <1>8 DEF ReadJobs, memory, Unread, tables, LoadInv, Off, BootRec
<1>9. CASE Rebuild
  BY <1>9, Shapes DEF Rebuild
<1>10. CASE UNCHANGED vars
  BY <1>10 DEF vars, memory, tables, LoadInv, Off
<1> QED  BY <1>3, <1>4, <1>5, <1>6, <1>7, <1>8, <1>9, <1>10 DEF Next

LEMMA TablesCorrect == Spec => [](TypeInv /\ TableInv /\ LoadInv)
<1>1. Init => TableInv /\ LoadInv
  BY Shapes DEF Init, TableInv, LoadInv, Off
<1> QED  BY <1>1, TypesCorrect, TableStep, LoadStep, PTL DEF Spec

-----------------------------------------------------------------------------
(* Answers that have reached the table.                                    *)

DurableInv ==
  ~raced /\ boot.at = "done" =>
    \A r \in Requests : approvalRows[r] \in Decisions => decision[r] = approvalRows[r]

LEMMA SavesWhenDone ==
  ASSUME LoadInv, ~raced, NEW s \in Savers, saves[s].at # "off"
  PROVE  boot.at = "done"
BY DEF LoadInv, Off

LEMMA DurableStep ==
  ASSUME TypeInv, TableInv, LoadInv, DurableInv, [Next]_vars
  PROVE  DurableInv'
<1> SUFFICES ASSUME ~raced', boot'.at = "done" PROVE DurableInv'
  BY DEF DurableInv
<1>0. ~Crash
  BY Shapes DEF Crash
<1> USE RuntimeAssumption DEF RuntimeAssumption
<1>1. ~raced
  BY <1>0, RacedStays
<1>2. ASSUME NEW s \in Savers, NEW r \in Requests, NEW d \in Decisions, Respond(s, r, d)
      PROVE  DurableInv'
  <2>1. /\ boot.at = "done" /\ decision[r] = "none" /\ decision' = [decision EXCEPT ![r] = d]
        /\ approvalRows' = approvalRows
    BY <1>0, <1>2, RacedStays DEF Respond, Pending, Acts, tables
  <2>2. approvalRows[r] \notin Decisions
    BY <1>1, <2>1 DEF DurableInv
  <2> QED  BY <1>1, <2>1, <2>2 DEF DurableInv, TypeInv, Types
<1>3. ASSUME NEW s \in Savers, NEW j \in Jobs, RetryJob(s, j) PROVE DurableInv'
  BY <1>0, <1>1, <1>3, RacedStays DEF RetryJob, Acts, tables, DurableInv
<1>3a. ASSUME NEW s \in Savers, ActElsewhere(s) PROVE DurableInv'
  BY <1>0, <1>1, <1>3a, RacedStays DEF ActElsewhere, Acts, tables, DurableInv
<1>4. ASSUME NEW s \in Savers, SaveApproval(s) PROVE DurableInv'
  <2>1. boot.at = "done" /\ UNCHANGED <<decision, boot>>
    BY <1>1, <1>4, SavesWhenDone DEF SaveApproval, Unsaved, memory
  <2> QED  BY <1>1, <1>4, <2>1 DEF SaveApproval, DurableInv, TypeInv, Types, ApprovalRows
<1>5. ASSUME NEW s \in Savers,
             SaveProjects(s) \/ SaveJob(s) \/ SaveEnds(s) \/ SaveFails(s)
      PROVE  DurableInv'
  BY <1>1, <1>5 DEF SaveProjects, SaveJob, SaveEnds, SaveFails, Unsaved, memory, tables, DurableInv
<1>6. ASSUME NEW s \in Savers, SaveSeeds(s) PROVE DurableInv'
  <2>1. projectRows = FALSE
    BY <1>1, <1>6 DEF SaveSeeds, LoadInv, TypeInv, Types, BootRec
  <2>2. approvalRows' = NoRows
    BY <1>6, <2>1 DEF SaveSeeds, Unread, tables, TableInv
  <2> QED  BY <2>2 DEF NoRows, DurableInv
<1>7. CASE Rebuild
  <2>1. boot.approvals = approvalRows /\ approvalRows' = approvalRows
    BY <1>1, <1>7 DEF Rebuild, Unread, tables, LoadInv
  <2>2. CASE approvalRows = NoRows
    BY <2>1, <2>2 DEF NoRows, DurableInv
  <2>3. CASE approvalRows # NoRows
    <3>1. decision' = [r \in Requests |-> IF approvalRows[r] = "absent" THEN decision[r]
                                          ELSE approvalRows[r]]
      BY <1>7, <2>1, <2>3 DEF Rebuild, Decided
    <3> QED  BY <2>1, <3>1 DEF DurableInv
  <2> QED  BY <2>2, <2>3
<1>8. CASE ReadProjects \/ ReadApprovals \/ ReadJobs
  BY <1>8 DEF ReadProjects, ReadApprovals, ReadJobs, TypeInv, Types, BootRec
<1>9. CASE UNCHANGED vars
  BY <1>9 DEF vars, memory, tables, DurableInv
<1> QED  BY <1>0, <1>2, <1>3, <1>3a, <1>4, <1>5, <1>6, <1>7, <1>8, <1>9 DEF Next

LEMMA DurableNow ==
  ASSUME TypeInv, LoadInv, DurableInv, [Next]_vars
  PROVE  \A r \in Requests :
           ~raced' /\ approvalRows[r] \in Decisions => approvalRows'[r] = approvalRows[r]
<1> SUFFICES ASSUME ~raced', NEW r \in Requests, approvalRows[r] \in Decisions
             PROVE  approvalRows'[r] = approvalRows[r]
  OBVIOUS
<1>0. CASE Crash
  BY <1>0 DEF Crash, tables
<1> SUFFICES ASSUME ~Crash PROVE approvalRows'[r] = approvalRows[r]
  BY <1>0
<1>1. ~raced
  BY RacedStays
<1>2. ASSUME NEW s \in Savers, SaveApproval(s) PROVE approvalRows'[r] = approvalRows[r]
  <2>1. boot.at = "done"
    BY <1>1, <1>2, SavesWhenDone DEF SaveApproval
  <2> QED  BY <1>1, <1>2, <2>1 DEF SaveApproval, DurableInv, TypeInv, Types, ApprovalRows
<1>3. ASSUME NEW s \in Savers,
             \/ \E q \in Requests, d \in Decisions : Respond(s, q, d)
             \/ \E j \in Jobs : RetryJob(s, j)
             \/ ActElsewhere(s)
             \/ SaveProjects(s) \/ SaveJob(s) \/ SaveEnds(s) \/ SaveFails(s) \/ SaveSeeds(s)
      PROVE  approvalRows' = approvalRows
  BY <1>3 DEF Respond, RetryJob, ActElsewhere, Acts, SaveProjects, SaveJob, SaveEnds, SaveFails,
              SaveSeeds, Unread, tables
<1>4. CASE ReadProjects \/ ReadApprovals \/ ReadJobs \/ Rebuild
  BY <1>4 DEF ReadProjects, ReadApprovals, ReadJobs, Rebuild, Unread, tables
<1>5. CASE UNCHANGED vars
  BY <1>5 DEF vars, tables
<1> QED  BY <1>2, <1>3, <1>4, <1>5 DEF Next

(* An answer that has reached the table stays, in every process in which   *)
(* the owner does nothing before the load is done: the load leaves it in   *)
(* memory before a save writes the row again, and the owner cannot answer  *)
(* the same once more.  Without that condition it is false.                *)
THEOREM AnswersAreDurable == Spec => DurableAnswersStay
<1>1. Init => DurableInv
  BY Shapes DEF Init, DurableInv
<1> DEFINE Stays ==
      \A r \in Requests :
        ~raced' /\ approvalRows[r] \in Decisions => approvalRows'[r] = approvalRows[r]
<1>2. TypeInv /\ LoadInv /\ DurableInv /\ [Next]_vars => [Stays]_vars
  BY DurableNow
<1>3. Spec => [](TypeInv /\ TableInv /\ LoadInv /\ DurableInv)
  BY <1>1, TablesCorrect, DurableStep, PTL DEF Spec
<1> QED  BY <1>2, <1>3, PTL DEF Spec, DurableAnswersStay

-----------------------------------------------------------------------------
(* What a crash would lose, and who is going to save it.                   *)

(* A save rejected, and every save under way was under way then.           *)
Excused == spoiled /\ \A s \in Savers : saves[s].at # "off" => saves[s].late

(* A save is to come to a row, or has been there.                          *)
ToApproval(s, r) ==
  \/ saves[s].at = "projects"
  \/ saves[s].at = "approvals" /\ saves[s].row <= r

ToJob(s, j) ==
  \/ saves[s].at = "projects"
  \/ saves[s].at = "approvals"
  \/ saves[s].at = "jobs" /\ saves[s].row <= j

PastJob(s, j) ==
  \/ saves[s].at = "others"
  \/ saves[s].at = "jobs" /\ saves[s].row > j

Loaded(r) == IF approvalRows[r] = "absent" THEN "none" ELSE approvalRows[r]

OwedProjects == projectRows = FALSE => (\E s \in Savers : saves[s].at = "projects") \/ Excused

OwedApprovals ==
  \A r \in listed : Loaded(r) # decision[r] => (\E s \in Savers : ToApproval(s, r)) \/ Excused

(* Before a first job is saved a load keeps the seeds.                     *)
OwedJobs ==
  \/ jobRows = NoJobRows /\ jobs = FirstStatus
  \/ \A j \in Jobs : jobRows[j] # jobs[j] => (\E s \in Savers : ToJob(s, j)) \/ Excused

JobsKept ==
  /\ \A j \in Jobs : jobs[j] = "absent" => jobRows[j] = "absent"
  /\ jobs # NoJobRows
  /\ \A s \in Savers, j \in Jobs : jobs[j] # "absent" /\ PastJob(s, j) => jobRows[j] # "absent"

Saved == OwedProjects /\ OwedApprovals /\ OwedJobs /\ JobsKept

SavedInv == ~raced /\ boot.at = "done" => Saved

(* A save that begins is to come to every row.                             *)
LEMMA SavedByNewSave ==
  ASSUME TypeInv, NEW s \in Savers, Save(s), jobRows' = jobRows, jobs' # NoJobRows,
         \A j \in Jobs : jobs'[j] = "absent" => jobRows[j] = "absent",
         \A t \in Savers, j \in Jobs : jobs'[j] # "absent" /\ PastJob(t, j) => jobRows[j] # "absent"
  PROVE  Saved'
<1>1. saves' = [saves EXCEPT ![s] = Started] /\ saves \in [Savers -> SaveRec]
  BY DEF Save, TypeInv, Types
<1>2. saves'[s].at = "projects" /\ \A t \in Savers : t # s => saves'[t] = saves[t]
  <2>1. saves'[s] = Started
    BY <1>1
  <2>2. \A t \in Savers : t # s => saves'[t] = saves[t]
    BY <1>1
  <2> QED  BY <2>1, <2>2, Shapes
<1>3. OwedProjects' /\ OwedApprovals' /\ OwedJobs'
  BY <1>2 DEF OwedProjects, OwedApprovals, OwedJobs, ToApproval, ToJob
<1>4. \A t \in Savers, j \in Jobs : PastJob(t, j)' => PastJob(t, j)
  BY <1>2 DEF PastJob
<1> QED  BY <1>3, <1>4 DEF Saved, JobsKept

(* A rejected save excuses what none that begins later has made good.      *)
LEMMA SavedByExcuse ==
  ASSUME TypeInv, JobsKept, NEW s \in Savers, SaveFails(s)
  PROVE  Saved'
<1>1. UNCHANGED <<jobs, jobRows>>
  BY DEF SaveFails, memory, tables
<1>2. \A t \in Savers : saves'[t] = IF t = s THEN NotSaving ELSE [saves[t] EXCEPT !.late = TRUE]
  BY DEF SaveFails
<1>3. \A t \in Savers : /\ saves'[t].at # "off" => saves'[t].late = TRUE
                        /\ \/ saves'[t].at = "off"
                           \/ saves'[t].at = saves[t].at /\ saves'[t].row = saves[t].row
  <2> TAKE t \in Savers
  <2>1. CASE t = s
    <3>1. saves'[t] = NotSaving
      BY <1>2, <2>1
    <3>2. saves'[t].at = "off"
      BY <3>1, Shapes
    <3> QED  BY <3>2
  <2>2. CASE t # s
    <3>1. saves'[t] = [saves[t] EXCEPT !.late = TRUE]
      BY <1>2, <2>2
    <3>2. /\ saves'[t].at = saves[t].at /\ saves'[t].row = saves[t].row
          /\ saves'[t].late = TRUE
      BY <3>1, LateRecord DEF TypeInv, Types
    <3> QED  BY <3>2
  <2> QED  BY <2>1, <2>2
<1>4. Excused'
  <2>1. spoiled' = TRUE
    BY DEF SaveFails
  <2> QED  BY <1>3, <2>1 DEF Excused
<1>5. \A t \in Savers, j \in Jobs : PastJob(t, j)' => PastJob(t, j)
  BY <1>3 DEF PastJob
<1>6. JobsKept'
  BY <1>1, <1>5 DEF JobsKept
<1> QED  BY <1>4, <1>6 DEF Saved, OwedProjects, OwedApprovals, OwedJobs

(* The rest of a step of a save: lateness and the other saves stay.        *)
LEMMA ExcuseStays ==
  ASSUME TypeInv, NEW s \in Savers, NEW v \in SaveRec, saves' = [saves EXCEPT ![s] = v],
         v.late = saves[s].late, saves[s].at # "off", spoiled' = spoiled, Excused
  PROVE  Excused'
<1>1. saves \in [Savers -> SaveRec]
  BY DEF TypeInv, Types
<1>2. saves'[s] = v /\ \A t \in Savers : t # s => saves'[t] = saves[t]
  BY <1>1
<1>3. saves'[s].late
  BY <1>2, Zenon DEF Excused
<1>4. \A t \in Savers : saves'[t].at # "off" => saves'[t].late
  BY <1>2, <1>3, Zenon DEF Excused
<1> QED  BY <1>4, Zenon DEF Excused

LEMMA SavedByProjects ==
  ASSUME TypeInv, Saved, NEW s \in Savers, SaveProjects(s)
  PROVE  Saved'
<1>1. PICK v \in SaveRec :
        /\ saves' = [saves EXCEPT ![s] = v] /\ v.late = saves[s].late
        /\ v.at = "approvals" /\ v.row = 1
  BY SaveMoves DEF SaveProjects, SaveApproval, SaveJob
<1>2. saves'[s] = v /\ \A t \in Savers : t # s => saves'[t] = saves[t]
  BY <1>1 DEF TypeInv, Types
<1>3. /\ projectRows' = TRUE /\ saves[s].at = "projects"
      /\ UNCHANGED <<decision, listed, jobs, approvalRows, jobRows, spoiled>>
  BY DEF SaveProjects, Unsaved, memory
<1>4. Excused => Excused'
  BY <1>1, <1>3, ExcuseStays
<1>5. \A r \in Requests : r \in Nat /\ 1 <= r
  BY RuntimeAssumption DEF RuntimeAssumption, Requests
<1>6. OwedProjects'
  BY <1>3 DEF OwedProjects
<1>7. OwedApprovals'
  <2>1. \A r \in Requests, t \in Savers : ToApproval(t, r) => ToApproval(t, r)'
    BY <1>1, <1>2, <1>3, <1>5 DEF ToApproval
  <2> QED  BY <1>3, <1>4, <2>1 DEF Saved, OwedApprovals, Loaded, TypeInv, Types
<1>8. OwedJobs'
  <2>1. \A j \in Jobs, t \in Savers : ToJob(t, j) => ToJob(t, j)'
    BY <1>1, <1>2, <1>3 DEF ToJob
  <2> QED  BY <1>3, <1>4, <2>1 DEF Saved, OwedJobs
<1>9. JobsKept'
  <2>1. \A j \in Jobs, t \in Savers : PastJob(t, j)' => PastJob(t, j)
    BY <1>1, <1>2 DEF PastJob
  <2> QED  BY <1>3, <2>1 DEF Saved, JobsKept
<1> QED  BY <1>6, <1>7, <1>8, <1>9 DEF Saved

LEMMA SavedByApproval ==
  ASSUME TypeInv, Saved, NEW s \in Savers, SaveApproval(s)
  PROVE  Saved'
<1> DEFINE q == saves[s].row
<1>1. PICK v \in SaveRec :
        /\ saves' = [saves EXCEPT ![s] = v] /\ v.late = saves[s].late
        /\ \/ v.at = "approvals" /\ v.row = q + 1
           \/ q = NumRequests /\ v.at = "jobs" /\ v.row = 1
  BY SaveMoves DEF SaveProjects, SaveApproval, SaveJob
<1>2. saves'[s] = v /\ \A t \in Savers : t # s => saves'[t] = saves[t]
  BY <1>1 DEF TypeInv, Types
<1>3. /\ saves[s].at = "approvals" /\ q \in Requests
      /\ UNCHANGED <<decision, listed, jobs, projectRows, jobRows, spoiled>>
  BY DEF SaveApproval, Unsaved, memory, TypeInv, RowsInv
<1>4. Excused => Excused'
  BY <1>1, <1>3, ExcuseStays
<1>5. /\ \A r \in Requests : r \in Nat /\ r <= NumRequests
      /\ \A j \in Jobs : j \in Nat /\ 1 <= j
      /\ NumRequests \in Nat
  BY RuntimeAssumption DEF RuntimeAssumption, Requests, Jobs
<1>6. OwedProjects'
  BY <1>1, <1>2, <1>3, <1>4 DEF Saved, OwedProjects
<1>7. OwedApprovals'
  <2>1. \A r \in Requests, t \in Savers : r # q /\ ToApproval(t, r) => ToApproval(t, r)'
    BY <1>1, <1>2, <1>3, <1>5 DEF ToApproval
  <2>2. \A r \in Requests : r # q => approvalRows'[r] = approvalRows[r]
    BY <1>3 DEF SaveApproval, TypeInv, Types, ApprovalRows
  <2>3. q \in listed => approvalRows'[q] = decision[q] /\ decision[q] # "absent"
    BY <1>3, RuntimeAssumption
       DEF RuntimeAssumption, SaveApproval, TypeInv, Types, ApprovalRows
  <2>4. listed \subseteq Requests
    BY DEF TypeInv, Types
  <2> QED  BY <1>3, <1>4, <2>1, <2>2, <2>3, <2>4 DEF Saved, OwedApprovals, Loaded
<1>8. OwedJobs'
  <2>1. \A j \in Jobs, t \in Savers : ToJob(t, j) => ToJob(t, j)'
    BY <1>1, <1>2, <1>3, <1>5 DEF ToJob
  <2> QED  BY <1>3, <1>4, <2>1 DEF Saved, OwedJobs
<1>9. JobsKept'
  <2>1. \A j \in Jobs, t \in Savers : PastJob(t, j)' => PastJob(t, j)
    BY <1>1, <1>2, <1>5 DEF PastJob
  <2> QED  BY <1>3, <2>1 DEF Saved, JobsKept
<1> QED  BY <1>6, <1>7, <1>8, <1>9 DEF Saved

LEMMA SavedByJob ==
  ASSUME TypeInv, Saved, NEW s \in Savers, SaveJob(s)
  PROVE  Saved'
<1> DEFINE q == saves[s].row
<1>1. PICK v \in SaveRec :
        /\ saves' = [saves EXCEPT ![s] = v] /\ v.late = saves[s].late
        /\ \/ v.at = "jobs" /\ v.row = q + 1
           \/ q = NumJobs /\ v.at = "others" /\ v.row = 1
  BY SaveMoves DEF SaveProjects, SaveApproval, SaveJob
<1>2. saves'[s] = v /\ \A t \in Savers : t # s => saves'[t] = saves[t]
  BY <1>1 DEF TypeInv, Types
<1>3. /\ saves[s].at = "jobs" /\ q \in Jobs
      /\ UNCHANGED <<decision, listed, jobs, projectRows, approvalRows, spoiled>>
  BY DEF SaveJob, Unsaved, memory, TypeInv, RowsInv
<1>4. Excused => Excused'
  BY <1>1, <1>3, ExcuseStays
<1>5. /\ \A j \in Jobs : j \in Nat /\ 1 <= j /\ j <= NumJobs
      /\ NumJobs \in Nat
  BY RuntimeAssumption DEF RuntimeAssumption, Jobs
<1>6. OwedProjects'
  BY <1>1, <1>2, <1>3, <1>4 DEF Saved, OwedProjects
<1>7. OwedApprovals'
  <2>1. \A r \in Requests, t \in Savers : ToApproval(t, r) => ToApproval(t, r)'
    BY <1>1, <1>2, <1>3 DEF ToApproval
  <2> QED  BY <1>3, <1>4, <2>1 DEF Saved, OwedApprovals, Loaded, TypeInv, Types
<1>8. \A j \in Jobs : j # q => jobRows'[j] = jobRows[j]
  BY <1>3 DEF SaveJob, TypeInv, Types, JobRows
<1>9. /\ jobs[q] # "absent" => jobRows'[q] = jobs[q]
      /\ jobs[q] = "absent" => jobRows'[q] = jobRows[q]
  BY <1>3 DEF SaveJob, TypeInv, Types, JobRows
<1>10. \A j \in Jobs, t \in Savers : j # q /\ ToJob(t, j) => ToJob(t, j)'
  BY <1>1, <1>2, <1>3, <1>5 DEF ToJob
<1>11. jobs[q] = "absent" => jobRows'[q] = jobs[q]
  BY <1>3, <1>9 DEF Saved, JobsKept
<1>12. OwedJobs'
  <2>1. CASE jobRows = NoJobRows /\ jobs = FirstStatus
    <3>1. \A j \in Jobs : jobs[j] # "absent" /\ jobRows[j] = "absent"
      BY <2>1, RuntimeAssumption DEF RuntimeAssumption, Statuses, NoJobRows
    <3>2. q = 1
      BY <1>3, <1>5, <3>1, Sizes DEF PastJob, Saved, JobsKept
    <3>3. \A j \in Jobs : j # q => ToJob(s, j)'
      BY <1>1, <1>2, <1>5, <3>2 DEF ToJob
    <3> QED  BY <1>3, <1>9, <1>11, <3>3 DEF OwedJobs
  <2>2. CASE \A j \in Jobs : jobRows[j] # jobs[j] => (\E t \in Savers : ToJob(t, j)) \/ Excused
    BY <1>3, <1>4, <1>8, <1>9, <1>10, <1>11, <2>2 DEF OwedJobs
  <2> QED  BY <2>1, <2>2 DEF Saved, OwedJobs
<1>13. JobsKept'
  <2>1. \A j \in Jobs, t \in Savers : PastJob(t, j)' => PastJob(t, j) \/ j = q
    BY <1>1, <1>2, <1>3, <1>5 DEF PastJob
  <2> QED  BY <1>3, <1>8, <1>9, <1>11, <2>1 DEF Saved, JobsKept
<1> QED  BY <1>6, <1>7, <1>12, <1>13 DEF Saved

LEMMA SavedByEnd ==
  ASSUME TypeInv, Saved, NEW s \in Savers, SaveEnds(s)
  PROVE  Saved'
<1>1. saves' = [saves EXCEPT ![s] = NotSaving] /\ saves \in [Savers -> SaveRec]
  BY DEF SaveEnds, TypeInv, Types
<1>2. saves'[s].at = "off" /\ \A t \in Savers : t # s => saves'[t] = saves[t]
  BY <1>1, Shapes
<1>3. /\ saves[s].at = "others"
      /\ UNCHANGED <<decision, listed, jobs, projectRows, approvalRows, jobRows>>
  BY DEF SaveEnds, Unsaved, memory, tables
<1>4. Excused => Excused'
  <2> SUFFICES ASSUME Excused PROVE Excused'
    OBVIOUS
  <2>1. spoiled /\ saves[s].late
    BY <1>3, Zenon DEF Excused
  <2>2. spoiled' = (spoiled /\ saves[s].late)
    BY DEF SaveEnds
  <2>3. spoiled'
    BY <2>1, <2>2, Zenon
  <2>4. \A t \in Savers : saves'[t].at # "off" => saves'[t].late
    BY <1>2, Zenon DEF Excused
  <2> QED  BY <2>3, <2>4, Zenon DEF Excused
<1>5. OwedProjects'
  BY <1>2, <1>3, <1>4 DEF Saved, OwedProjects
<1>6. OwedApprovals'
  <2>1. \A r \in Requests, t \in Savers : ToApproval(t, r) => ToApproval(t, r)'
    BY <1>2, <1>3 DEF ToApproval
  <2> QED  BY <1>3, <1>4, <2>1 DEF Saved, OwedApprovals, Loaded, TypeInv, Types
<1>7. OwedJobs'
  <2>1. \A j \in Jobs, t \in Savers : ToJob(t, j) => ToJob(t, j)'
    BY <1>2, <1>3 DEF ToJob
  <2> QED  BY <1>3, <1>4, <2>1 DEF Saved, OwedJobs
<1>8. JobsKept'
  <2>1. \A j \in Jobs, t \in Savers : PastJob(t, j)' => PastJob(t, j)
    BY <1>2 DEF PastJob
  <2> QED  BY <1>3, <2>1 DEF Saved, JobsKept
<1> QED  BY <1>5, <1>6, <1>7, <1>8 DEF Saved

(* A load leaves in memory what the tables hold.                           *)
LEMMA SavedByLoad ==
  ASSUME TypeInv, LoadInv, ~raced, Rebuild
  PROVE  Saved'
<1>1. /\ boot.approvals = approvalRows /\ boot.jobs = jobRows /\ boot.projects = projectRows
      /\ Off /\ decision = NoRequests /\ listed = Requests /\ jobs = FirstStatus
      /\ projectRows = TRUE
  BY DEF Rebuild, LoadInv, TypeInv, Types
<1>2. UNCHANGED <<saves, projectRows, approvalRows, jobRows>>
  BY DEF Rebuild, Unread, tables
<1>3. OwedProjects'
  BY <1>1, <1>2 DEF OwedProjects
<1>4. OwedApprovals'
  <2>1. CASE approvalRows = NoRows
    BY <1>1, <1>2, <2>1 DEF Rebuild, Decided, Listed, OwedApprovals, Loaded, NoRows, NoRequests
  <2>2. CASE approvalRows # NoRows
    <3>1. decision' = [r \in Requests |-> IF approvalRows[r] = "absent" THEN NoRequests[r]
                                          ELSE approvalRows[r]]
      BY <1>1, <2>2 DEF Rebuild, Decided
    <3>2. listed' \subseteq Requests
      BY <1>1, <2>2 DEF Rebuild, Listed
    <3> QED  BY <1>2, <3>1, <3>2 DEF OwedApprovals, Loaded, NoRequests
  <2> QED  BY <2>1, <2>2
<1>5. FirstStatus \in [Jobs -> Statuses] /\ "absent" \notin Statuses
  BY RuntimeAssumption DEF RuntimeAssumption, Statuses
<1>6. jobs' = IF jobRows = NoJobRows THEN FirstStatus ELSE jobRows
  BY <1>1 DEF Rebuild, LoadedJobs
<1>7. OwedJobs'
  BY <1>2, <1>6 DEF OwedJobs
<1>8. JobsKept'
  <2>1. jobs' # NoJobRows
    BY <1>5, <1>6, Sizes DEF NoJobRows
  <2>2. \A j \in Jobs : jobs'[j] = "absent" => jobRows[j] = "absent"
    BY <1>5, <1>6
  <2>3. \A s \in Savers, j \in Jobs : ~PastJob(s, j)'
    BY <1>1, <1>2 DEF Off, PastJob
  <2> QED  BY <1>2, <2>1, <2>2, <2>3 DEF JobsKept
<1> QED  BY <1>3, <1>4, <1>7, <1>8 DEF Saved

LEMMA SavedStep ==
  ASSUME TypeInv, TableInv, LoadInv, SavedInv, [Next]_vars
  PROVE  SavedInv'
<1> SUFFICES ASSUME ~raced', boot'.at = "done" PROVE Saved'
  BY DEF SavedInv
<1>0. ~Crash
  BY Shapes DEF Crash
<1>1. ~raced
  BY <1>0, RacedStays
<1>2. ASSUME NEW s \in Savers, NEW r \in Requests, NEW d \in Decisions, Respond(s, r, d)
      PROVE  Saved'
  <2>1. Saved /\ Save(s) /\ jobRows' = jobRows
    BY <1>0, <1>1, <1>2, RacedStays DEF Respond, Acts, tables, SavedInv
  <2>2. \A j \in Jobs : jobs'[j] = "absent" <=> jobs[j] = "absent"
    BY <1>2 DEF Respond, TypeInv, Types, JobRows
  <2>3. jobs' # NoJobRows
    BY <2>1, <2>2 DEF Saved, JobsKept, NoJobRows, TypeInv, Types, JobRows
  <2> QED  BY <2>1, <2>2, <2>3, SavedByNewSave DEF Saved, JobsKept
<1>3. ASSUME NEW s \in Savers, NEW j \in Jobs, RetryJob(s, j) PROVE Saved'
  <2>1. Saved /\ Save(s) /\ jobRows' = jobRows
    BY <1>0, <1>1, <1>3, RacedStays DEF RetryJob, Acts, tables, SavedInv
  <2>2. \A k \in Jobs : jobs'[k] = "absent" <=> jobs[k] = "absent"
    BY <1>3 DEF RetryJob, TypeInv, Types, JobRows
  <2>3. jobs' # NoJobRows
    BY <2>1, <2>2 DEF Saved, JobsKept, NoJobRows, TypeInv, Types, JobRows
  <2> QED  BY <2>1, <2>2, <2>3, SavedByNewSave DEF Saved, JobsKept
<1>3a. ASSUME NEW s \in Savers, ActElsewhere(s) PROVE Saved'
  <2>1. Saved /\ Save(s) /\ UNCHANGED <<jobs, jobRows>>
    BY <1>0, <1>1, <1>3a, RacedStays DEF ActElsewhere, Acts, tables, SavedInv
  <2> QED  BY <2>1, SavedByNewSave DEF Saved, JobsKept
<1>4. ASSUME NEW s \in Savers,
             \/ SaveProjects(s) \/ SaveApproval(s) \/ SaveJob(s) \/ SaveEnds(s)
             \/ SaveFails(s)
      PROVE  Saved'
  <2>1. boot.at = "done"
    BY <1>4 DEF SaveProjects, SaveApproval, SaveJob, SaveEnds, SaveFails, Unsaved
  <2>2. Saved
    BY <1>1, <2>1 DEF SavedInv
  <2> QED  BY <1>4, <2>2, SavedByProjects, SavedByApproval, SavedByJob, SavedByEnd, SavedByExcuse
           DEF Saved
<1>5. ASSUME NEW s \in Savers, SaveSeeds(s) PROVE Saved'
  <2>1. boot.projects = projectRows /\ boot.projects = FALSE /\ Off /\ jobs = FirstStatus
    BY <1>1, <1>5 DEF SaveSeeds, LoadInv, TypeInv, Types, BootRec
  <2>2. jobRows = NoJobRows /\ jobRows' = jobRows /\ jobs' = FirstStatus
    BY <1>5, <2>1 DEF SaveSeeds, memory, Unread, tables, TableInv
  <2>3. FirstStatus # NoJobRows
    BY RuntimeAssumption, Sizes DEF RuntimeAssumption, Statuses, NoJobRows
  <2>4. \A j \in Jobs : jobRows[j] = "absent"
    BY <2>2 DEF NoJobRows
  <2>5. \A t \in Savers, j \in Jobs : ~PastJob(t, j)
    BY <2>1 DEF Off, PastJob
  <2> QED  BY <1>5, <2>2, <2>3, <2>4, <2>5, SavedByNewSave DEF SaveSeeds
<1>6. CASE Rebuild
  BY <1>1, <1>6, SavedByLoad
<1>7. CASE ReadProjects \/ ReadApprovals \/ ReadJobs
  BY <1>7 DEF ReadProjects, ReadApprovals, ReadJobs, TypeInv, Types, BootRec
<1>8. CASE UNCHANGED vars
  <2>1. Saved
    BY <1>1, <1>8 DEF vars, SavedInv
  <2>2. UNCHANGED <<saves, decision, listed, jobs, projectRows, approvalRows, jobRows, spoiled>>
    BY <1>8 DEF vars, memory, tables
  <2> QED  BY <2>1, <2>2 DEF Saved, OwedProjects, OwedApprovals, OwedJobs, JobsKept, Excused,
                             ToApproval, ToJob, PastJob, Loaded
<1> QED  BY <1>0, <1>2, <1>3, <1>3a, <1>4, <1>5, <1>6, <1>7, <1>8 DEF Next

LEMMA SavedIsEnough ==
  ASSUME TypeInv, SavedInv
  PROVE  CrashLosesNothing
<1> SUFFICES ASSUME Quiet
             PROVE  /\ projectRows
                    /\ \A r \in listed : Decided(approvalRows, NoRequests)[r] = decision[r]
                    /\ LoadedJobs(jobRows, FirstStatus) = jobs
  BY DEF CrashLosesNothing
<1>1. Saved /\ Off /\ ~Excused
  <2>1. ~raced /\ boot.at = "done" /\ Off
    BY DEF Quiet, Off
  <2>2. ~spoiled
    BY DEF Quiet
  <2>3. ~Excused
    BY <2>2, Zenon DEF Excused
  <2> QED  BY <2>1, <2>3 DEF SavedInv
<1>2. projectRows
  <2>1. projectRows # FALSE /\ projectRows \in BOOLEAN
    BY <1>1 DEF Saved, OwedProjects, Off, TypeInv, Types
  <2> QED  BY <2>1
<1>3. \A r \in listed : Loaded(r) = decision[r] /\ r \in Requests
  BY <1>1 DEF Saved, OwedApprovals, Off, ToApproval, TypeInv, Types
<1>4. \A r \in Requests : Decided(approvalRows, NoRequests)[r] = Loaded(r)
  BY DEF Decided, Loaded, NoRequests, NoRows
<1>5. LoadedJobs(jobRows, FirstStatus) = jobs
  <2>1. CASE jobRows = NoJobRows /\ jobs = FirstStatus
    BY <2>1 DEF LoadedJobs
  <2>2. CASE \A j \in Jobs : jobRows[j] = jobs[j]
    <3>1. jobRows = jobs
      BY <2>2 DEF TypeInv, Types, JobRows
    <3> QED  BY <1>1, <3>1 DEF Saved, JobsKept, LoadedJobs
  <2> QED  BY <1>1, <2>1, <2>2 DEF Saved, OwedJobs, Off, ToJob
<1> QED  BY <1>2, <1>3, <1>4, <1>5

(* However the saves of any number of actions interleave and fail: when    *)
(* none is under way and one has ended that began after the last failure,  *)
(* a load rebuilds what memory holds.                                      *)
THEOREM TablesFollowMemory == Spec => []CrashLosesNothing
<1>1. Init => SavedInv
  BY Shapes DEF Init, SavedInv
<1> QED  BY <1>1, TablesCorrect, SavedStep, SavedIsEnough, PTL DEF Spec

=============================================================================
