--------------------------- MODULE LspServerProofs ---------------------------
(***************************************************************************)
(* Proofs about LspServer, for any number of callers, files, restarts,     *)
(* faults and processes.                                                   *)
(*                                                                         *)
(* The guarantees share one invariant.  As long as no start has failed,    *)
(* the processes that live or whose exit event is due are at most one, it  *)
(* is the client's, and there is none when the instance may be started:    *)
(* only its exit event, which ends it, leads there (ProcessInv).  Each     *)
(* restart is then paid for by a crash (CapInv), and a process that ended  *)
(* was watched, or is known to have ended quietly (ServedInv).             *)
(***************************************************************************)
EXTENDS LspServer, TLAPS

(* The type invariant without the Boolean variables, and with them.        *)
CountInv ==
  /\ state \in {"stopped", "starting", "running", "error"}
  /\ crashes \in Nat
  /\ {process, connection} \subseteq Processes \cup {0}
  /\ process = 0 => connection = 0
  /\ UNION {alive, open, watched, closes} \subseteq Processes
  /\ exits \subseteq Processes \X {"crash", "kill"}
  /\ starts \in [Callers -> StartPoints]
  /\ stops \in [StopPoints -> Nat]
  /\ opened \subseteq Files
  /\ posted \subseteq Files \X {"didOpen", "didClose"}
  /\ told \in [Processes -> SUBSET Files]
  /\ spawned \in 0..MaxSpawns
  /\ faults \in 0..MaxFaults
  /\ streak \in 0..spawned
  /\ quiet \subseteq Processes /\ overtaken \subseteq Processes

FlagInv ==
  /\ initialized \in BOOLEAN /\ startFailed \in BOOLEAN /\ stopping \in BOOLEAN
  /\ sound \in BOOLEAN /\ blind \in BOOLEAN

(* sound is a Boolean that becomes FALSE when a start fails, never TRUE.   *)
CapInv ==
  sound =>
    /\ streak <= MaxRestarts + 1
    /\ state \in {"stopped", "running"} => streak = 0
    /\ state = "starting" => streak <= crashes + 1
    /\ state = "error" => streak <= crashes

ProcessInv ==
  sound =>
    /\ state \in {"stopped", "error"} => alive = {} /\ exits = {}
    /\ \A i \in alive : i = process
    /\ \A e \in exits : alive = {} /\ e[1] = process /\ exits = {e}

-----------------------------------------------------------------------------
(* The cap on crash recovery.                                              *)

(* The steps that end neither a start nor a crash, and start nothing.      *)
LEMMA BookSteps ==
  ASSUME Next
  PROVE  \/ \E c \in Callers : Start(c)
         \/ \E c \in Callers : Initialized(c)
         \/ \E e \in exits : Exit(e)
         \/ ~sound'
         \/ UNCHANGED <<state, crashes, streak, sound>>
<1>1. ASSUME NEW c \in Callers,
             \/ SpawnDone(c) \/ SpawnFails(c) \/ Answered(c)
             \/ InitializeFails(c) \/ NotifyFails(c)
      PROVE  ~sound' \/ UNCHANGED <<state, crashes, streak, sound>>
  BY <1>1 DEF SpawnDone, SpawnFails, Answered, InitializeFails, NotifyFails, FailStart
<1>2. ASSUME NEW i \in Processes,
             \/ StopAnswered(i) \/ StopRejected(i) \/ ExitSent(i)
             \/ Close(i) \/ StreamError(i)
             \/ \E kind \in {"crash", "kill"} : Die(i, kind)
      PROVE  UNCHANGED <<state, crashes, streak, sound>>
  BY <1>2 DEF StopAnswered, StopRejected, ExitSent, EndStop, Others, Close, StreamError, Die
<1>3. ASSUME NEW f \in Files,
             \/ OpenFile(f) \/ ChangeFile(f) \/ CloseFile(f)
             \/ \E note \in {"didOpen", "didClose"} : Posted(f, note)
      PROVE  UNCHANGED <<state, crashes, streak, sound>>
  BY <1>3 DEF OpenFile, ChangeFile, CloseFile, Post, Posted
<1> QED  BY <1>1, <1>2, <1>3 DEF Next

LEMMA CountStep ==
  ASSUME CountInv, [Next]_vars
  PROVE  CountInv'
<1> USE LspAssumption DEF LspAssumption
<1>1. ASSUME NEW c \in Callers, Start(c) PROVE CountInv'
  <2>1. starts' \in [Callers -> StartPoints]
    BY <1>1 DEF Start, StartPoints, Processes, CountInv
  <2> QED  BY <1>1, <2>1 DEF Start, documents, Processes, CountInv
<1>2. ASSUME NEW i \in Processes, StopRejected(i) \/ ExitSent(i) PROVE CountInv'
  <2>1. PICK point \in {"shutdown", "exit"}, failed \in BOOLEAN : EndStop(i, point, failed)
    BY <1>2 DEF StopRejected, ExitSent
  <2>2. /\ UNCHANGED <<state, crashes, starts, opened, posted, told, spawned, faults,
                       streak, quiet, overtaken>>
        /\ process' = 0 /\ connection' = 0
    BY <2>1 DEF EndStop, Others, Cleanup, documents
  <2>3. UNION {alive', open', watched', closes'} \subseteq Processes
    BY <2>1 DEF EndStop, Cleanup, CountInv
  <2>4. exits' \subseteq Processes \X {"crash", "kill"}
    BY <2>1 DEF EndStop, Cleanup, CountInv
  <2>5. stops' \in [StopPoints -> Nat]
    BY <2>1 DEF EndStop, StopPoints, CountInv
  <2> QED  BY <2>2, <2>3, <2>4, <2>5 DEF CountInv, Processes
<1>stop. ASSUME NEW i \in Processes, StopAnswered(i) PROVE CountInv'
  <2>1. stops' \in [StopPoints -> Nat]
    <3>1. stops[<<i, "shutdown">>] > 0
      BY <1>stop DEF StopAnswered
    <3>2. \A p \in StopPoints : stops[p] \in Nat
      BY DEF CountInv
    <3> QED  BY <1>stop, <3>1, <3>2 DEF StopAnswered
  <2>2. UNCHANGED <<state, crashes, process, connection, alive, open, watched, exits, closes,
                    starts, opened, posted, told, spawned, faults, streak, quiet, overtaken>>
    BY <1>stop DEF StopAnswered, Others, client, children, documents
  <2> QED  BY <2>1, <2>2 DEF CountInv, Processes
<1>3. ASSUME NEW c \in Callers, NEW conn \in {process, connection},
             FailStart(c, conn), faults' \in 0..MaxFaults
      PROVE  CountInv'
  <2>1. /\ starts' \in [Callers -> StartPoints]
        /\ state' = "error"
        /\ UNCHANGED <<crashes, opened, posted, told, spawned, streak, quiet, overtaken>>
    BY <1>3 DEF FailStart, None, StartPoints, documents, CountInv
  <2>2. CASE conn # 0
    <3>1. conn \in Processes /\ process \in Processes
      BY <2>2 DEF CountInv, Processes
    <3>2. /\ stops' = [stops EXCEPT ![<<conn, "shutdown">>] = stops[<<conn, "shutdown">>] + 1]
          /\ connection' = conn
          /\ open' = open \cup {conn} /\ watched' = watched \cup {process}
          /\ UNCHANGED <<process, alive, exits, closes>>
      BY <1>3, <2>2 DEF FailStart, BeginStop
    <3>3. stops' \in [StopPoints -> Nat]
      BY <3>1, <3>2 DEF StopPoints, CountInv
    <3> QED  BY <1>3, <2>1, <3>1, <3>2, <3>3 DEF CountInv, Processes
  <2>3. CASE conn = 0
    <3>1. Cleanup(conn, FALSE) /\ stops' = stops
      BY <1>3, <2>3 DEF FailStart, BeginStop
    <3> QED  BY <1>3, <2>1, <3>1 DEF Cleanup, CountInv, Processes
  <2> QED  BY <2>2, <2>3
<1>4. ASSUME NEW c \in Callers, SpawnDone(c) PROVE CountInv'
  <2>1. CASE Connects
    <3>1. process \in Processes
      BY <2>1 DEF Connects, CountInv
    <3>2. /\ connection' = process /\ open' = open \cup {process}
          /\ watched' = watched \cup {process}
          /\ starts' = [starts EXCEPT ![c] = [at |-> "initialize", on |-> process]]
          /\ UNCHANGED <<state, crashes, process, alive, exits, closes, stops, documents,
                         spawned, faults, streak, quiet, overtaken>>
      BY <1>4, <2>1 DEF SpawnDone, Connects
    <3>3. starts' \in [Callers -> StartPoints]
      BY <3>1, <3>2 DEF StartPoints, CountInv
    <3> QED  BY <3>1, <3>2, <3>3 DEF documents, Processes, CountInv
  <2>2. CASE ~Connects
    <3>1. faults' \in 0..MaxFaults
      BY <1>4 DEF SpawnDone, CountInv
    <3> QED  BY <1>3, <1>4, <2>2, <3>1 DEF SpawnDone, Connects
  <2> QED  BY <2>1, <2>2
<1>5. ASSUME NEW c \in Callers, SpawnFails(c) \/ InitializeFails(c) \/ NotifyFails(c)
      PROVE  CountInv'
  BY <1>3, <1>5 DEF SpawnFails, InitializeFails, NotifyFails, Fault, CountInv
<1>6. ASSUME NEW c \in Callers, Answered(c) \/ Initialized(c) PROVE CountInv'
  <2>1. starts' \in [Callers -> StartPoints]
    BY <1>6 DEF Answered, Initialized, None, StartPoints, CountInv
  <2>2. /\ state' \in {state, "running"} /\ crashes' \in {crashes, 0}
        /\ streak' \in {streak, 0}
        /\ UNCHANGED <<process, connection, alive, open, watched, exits, closes, stops,
                       opened, posted, told, spawned, faults, quiet, overtaken>>
    BY <1>6 DEF Answered, Initialized, client, children, documents
  <2>3. crashes' \in Nat /\ streak' \in 0..spawned
    BY <2>2 DEF CountInv
  <2> QED  BY <2>1, <2>2, <2>3 DEF Processes, CountInv
<1>7. ASSUME NEW i \in Processes, NEW kind \in {"crash", "kill"}, Die(i, kind)
      PROVE  CountInv'
  BY <1>7 DEF Die, Fault, client, documents, Processes, CountInv
<1>8. ASSUME NEW e \in exits, Exit(e) PROVE CountInv'
  <2>1. /\ state' \in {state, "error"}
        /\ crashes' \in {crashes, crashes + 1}
        /\ exits' \subseteq exits
        /\ UNCHANGED <<process, connection, alive, open, watched, closes, starts, stops,
                       opened, posted, told, spawned, faults, streak, quiet>>
    BY <1>8 DEF Exit, documents
  <2>2. crashes' \in Nat /\ exits' \subseteq Processes \X {"crash", "kill"}
    BY <2>1 DEF CountInv
  <2>3. overtaken' \subseteq Processes
    <3>1. e[1] \in Processes
      BY DEF CountInv
    <3>2. overtaken' \subseteq overtaken \cup {e[1]}
      BY <1>8 DEF Exit
    <3> QED  BY <3>1, <3>2 DEF CountInv
  <2> QED  BY <2>1, <2>2, <2>3 DEF Processes, CountInv
<1>9. ASSUME NEW i \in Processes, Close(i) \/ StreamError(i) PROVE CountInv'
  <2>1. /\ closes' \subseteq closes /\ faults' \in 0..MaxFaults
        /\ UNCHANGED <<state, crashes, process, connection, alive, open, watched, exits, starts,
                       stops, opened, posted, told, spawned, streak, quiet, overtaken>>
    BY <1>9 DEF Close, StreamError, Fault, children, documents, CountInv
  <2> QED  BY <2>1 DEF Processes, CountInv
<1>10. ASSUME NEW f \in Files,
              \/ OpenFile(f) \/ ChangeFile(f) \/ CloseFile(f)
              \/ \E note \in {"didOpen", "didClose"} : Posted(f, note)
       PROVE  CountInv'
  <2>1. UNCHANGED <<state, crashes, process, connection, alive, open, watched, exits, closes,
                    starts, stops, spawned, faults, streak, quiet, overtaken>>
    BY <1>10 DEF OpenFile, ChangeFile, CloseFile, Post, Posted, client, children
  <2>2. opened' \subseteq Files /\ posted' \subseteq Files \X {"didOpen", "didClose"}
    BY <1>10 DEF OpenFile, ChangeFile, CloseFile, Post, Posted, CountInv
  <2>3. told' \in [Processes -> SUBSET Files]
    BY <1>10 DEF OpenFile, ChangeFile, CloseFile, Post, Posted, CountInv
  <2> QED  BY <2>1, <2>2, <2>3 DEF CountInv
<1>11. CASE UNCHANGED vars
  BY <1>11 DEF vars, client, children, documents, Processes, CountInv
<1> QED  BY <1>1, <1>2, <1>stop, <1>4, <1>5, <1>6, <1>7, <1>8, <1>9, <1>10, <1>11 DEF Next

LEMMA FlagStep ==
  ASSUME FlagInv, [Next]_vars
  PROVE  FlagInv'
<1>1. ASSUME NEW c \in Callers, Start(c) PROVE FlagInv'
  BY <1>1, Zenon DEF Start, documents, FlagInv
<1>2. ASSUME NEW i \in Processes, NEW point, NEW failed \in BOOLEAN, EndStop(i, point, failed)
      PROVE  FlagInv'
  BY <1>2, Zenon DEF EndStop, Others, Cleanup, documents, FlagInv
<1>stop. ASSUME NEW i \in Processes, StopAnswered(i) \/ StopRejected(i) \/ ExitSent(i)
         PROVE  FlagInv'
  <2>1. CASE StopAnswered(i)
    BY <2>1, Zenon DEF StopAnswered, Others, client, documents, FlagInv
  <2>2. CASE StopRejected(i)
    BY <1>2, <2>2, Zenon DEF StopRejected
  <2>3. CASE ExitSent(i)
    BY <1>2, <2>3, Zenon DEF ExitSent
  <2> QED  BY <1>stop, <2>1, <2>2, <2>3, Zenon
<1>3. ASSUME NEW c \in Callers, NEW conn, FailStart(c, conn) PROVE FlagInv'
  BY <1>3, Zenon DEF FailStart, BeginStop, Cleanup, documents, FlagInv
<1>4. ASSUME NEW c \in Callers, SpawnDone(c) PROVE FlagInv'
  BY <1>3, <1>4, Zenon DEF SpawnDone, documents, FlagInv
<1>5. ASSUME NEW c \in Callers, SpawnFails(c) \/ InitializeFails(c) \/ NotifyFails(c)
      PROVE  FlagInv'
  BY <1>3, <1>5, Zenon DEF SpawnFails, InitializeFails, NotifyFails, FlagInv
<1>6. ASSUME NEW c \in Callers, Answered(c) \/ Initialized(c) PROVE FlagInv'
  BY <1>6, Zenon DEF Answered, Initialized, client, documents, FlagInv
<1>7. ASSUME NEW i \in Processes, NEW kind \in {"crash", "kill"}, Die(i, kind)
      PROVE  FlagInv'
  BY <1>7, Zenon DEF Die, client, documents, FlagInv
<1>8. ASSUME NEW e \in exits, Exit(e) PROVE FlagInv'
  BY <1>8, Zenon DEF Exit, documents, FlagInv
<1>9. ASSUME NEW i \in Processes, Close(i) \/ StreamError(i) PROVE FlagInv'
  BY <1>9, Zenon DEF Close, StreamError, documents, FlagInv
<1>10. ASSUME NEW f \in Files,
              \/ OpenFile(f) \/ ChangeFile(f) \/ CloseFile(f)
              \/ \E note \in {"didOpen", "didClose"} : Posted(f, note)
       PROVE  FlagInv'
  BY <1>10, Zenon DEF OpenFile, ChangeFile, CloseFile, Post, Posted, client, FlagInv
<1>11. CASE UNCHANGED vars
  BY <1>11, Zenon DEF vars, client, documents, FlagInv
<1> QED  BY <1>1, <1>stop, <1>4, <1>5, <1>6, <1>7, <1>8, <1>9, <1>10, <1>11, Zenon DEF Next

LEMMA CountersCorrect == Spec => []CountInv
<1>1. Init => CountInv
  BY LspAssumption DEF Init, None, StartPoints, StopPoints, Processes, CountInv, LspAssumption
<1> QED  BY <1>1, CountStep, PTL DEF Spec

(* Every variable of the instance, the client and the manager has its      *)
(* type; no more processes were started in a row than at all.              *)
THEOREM TypeCorrect == Spec => []TypeOK
<1>1. Init => FlagInv
  BY DEF Init, FlagInv
<1>2. CountInv /\ FlagInv => TypeOK
  BY DEF CountInv, FlagInv, TypeOK
<1> QED  BY <1>1, <1>2, CountersCorrect, FlagStep, PTL DEF Spec

LEMMA CapStep ==
  ASSUME CountInv, CountInv', CapInv, [Next]_vars
  PROVE  CapInv'
<1> USE LspAssumption DEF LspAssumption
<1>0. state \in {"stopped", "starting", "running", "error"} /\ streak \in Nat /\ crashes \in Nat /\ crashes' \in Nat /\ streak' \in Nat
  BY DEF CountInv
<1>1. ASSUME NEW c \in Callers, Start(c) PROVE CapInv'
  <2>1. CASE state = "stopped"
    BY <1>0, <1>1, <2>1 DEF Start, CapInv
  <2>2. CASE state = "error" /\ crashes <= MaxRestarts
    BY <1>0, <1>1, <2>2 DEF Start, CapInv
  <2> QED  BY <1>1, <2>1, <2>2 DEF Start, MayStart
<1>2. ASSUME NEW c \in Callers, Initialized(c) PROVE CapInv'
  BY <1>2 DEF Initialized, CapInv
<1>3. ASSUME NEW e \in exits, Exit(e) PROVE CapInv'
  <2>1. CASE IsCrash(e)
    BY <1>0, <1>3, <2>1 DEF Exit, CapInv
  <2>2. CASE ~IsCrash(e)
    BY <1>3, <2>2 DEF Exit, CapInv
  <2> QED  BY <2>1, <2>2
<1>4. CASE ~sound' \/ UNCHANGED <<state, crashes, streak, sound>>
  BY <1>4 DEF CapInv
<1>5. CASE UNCHANGED vars
  BY <1>5 DEF vars, CapInv
<1> QED  BY <1>1, <1>2, <1>3, <1>4, <1>5, BookSteps

(* ensureServerStarted cannot restart a crashing server for ever: until a  *)
(* start fails, a server that does not come to run is spawned at most      *)
(* MaxRestarts + 1 times, whichever operations ask for it and wherever     *)
(* its crashes fall.                                                       *)
THEOREM RestartCap == Spec => []RestartsAreCapped
<1>1. Init => CapInv
  BY LspAssumption DEF Init, CapInv, LspAssumption
<1>2. CountInv /\ CountInv' /\ CapInv /\ [Next]_vars => CapInv'
  BY CapStep
<1>3. CapInv => RestartsAreCapped
  BY DEF CapInv, RestartsAreCapped
<1> QED  BY <1>1, <1>2, <1>3, CountersCorrect, PTL DEF Spec

-----------------------------------------------------------------------------
(* One server at a time.                                                   *)

LEMMA ProcessStep ==
  ASSUME ProcessInv, [Next]_vars
  PROVE  ProcessInv'
<1>1. ASSUME NEW c \in Callers, Start(c) PROVE ProcessInv'
  BY <1>1 DEF Start, MayStart, ProcessInv
<1>2. ASSUME NEW c \in Callers,
             \/ SpawnDone(c) \/ SpawnFails(c) \/ InitializeFails(c) \/ NotifyFails(c)
      PROVE  ProcessInv'
  BY <1>2 DEF SpawnDone, SpawnFails, InitializeFails, NotifyFails, FailStart, ProcessInv
<1>3. ASSUME NEW c \in Callers, Answered(c) \/ Initialized(c) PROVE ProcessInv'
  BY <1>3 DEF Answered, Initialized, client, children, ProcessInv
<1>4. ASSUME NEW e \in exits, Exit(e) PROVE ProcessInv'
  <2>1. CASE IsCrash(e)
    BY <1>4, <2>1 DEF Exit, ProcessInv
  <2>2. CASE ~IsCrash(e)
    BY <1>4, <2>2 DEF Exit, ProcessInv
  <2> QED  BY <2>1, <2>2
<1>5. ASSUME NEW i \in Processes, NEW kind \in {"crash", "kill"}, Die(i, kind)
      PROVE  ProcessInv'
  <2>1. UNCHANGED <<state, process, sound>> /\ alive' = alive \ {i} /\ i \in alive
    BY <1>5 DEF Die, client
  <2>2. CASE ~sound
    BY <2>1, <2>2 DEF ProcessInv
  <2>3. CASE sound
    <3>1. exits = {} /\ i = process /\ alive' = {}
      BY <2>1, <2>3 DEF ProcessInv
    <3>2. exits' \subseteq {<<i, kind>>}
      BY <1>5, <3>1 DEF Die
    <3>3. \A e \in exits' : e[1] = i /\ exits' = {e}
      BY <3>2
    <3>4. state \notin {"stopped", "error"}
      BY <2>1, <2>3 DEF ProcessInv
    <3> QED  BY <2>1, <3>1, <3>3, <3>4 DEF ProcessInv
  <2> QED  BY <2>2, <2>3
<1>6. ASSUME NEW i \in Processes, StopRejected(i) \/ ExitSent(i) PROVE ProcessInv'
  <2>1. /\ UNCHANGED <<state, sound>> /\ alive' = alive \ {process}
        /\ exits' = {e \in exits : e[1] # process}
    BY <1>6 DEF StopRejected, ExitSent, EndStop, Others, Cleanup
  <2>2. sound => alive' = {} /\ exits' = {}
    BY <2>1 DEF ProcessInv
  <2> QED  BY <2>1, <2>2 DEF ProcessInv
<1>7. ASSUME NEW i \in Processes, StopAnswered(i) \/ Close(i) \/ StreamError(i)
      PROVE  ProcessInv'
  BY <1>7 DEF StopAnswered, Others, Close, StreamError, client, children, ProcessInv
<1>8. ASSUME NEW f \in Files,
             \/ OpenFile(f) \/ ChangeFile(f) \/ CloseFile(f)
             \/ \E note \in {"didOpen", "didClose"} : Posted(f, note)
      PROVE  ProcessInv'
  BY <1>8 DEF OpenFile, ChangeFile, CloseFile, Post, Posted, client, children, ProcessInv
<1>9. CASE UNCHANGED vars
  BY <1>9 DEF vars, client, children, ProcessInv
<1> QED  BY <1>1, <1>2, <1>3, <1>4, <1>5, <1>6, <1>7, <1>8, <1>9 DEF Next

LEMMA ProcessesCorrect == Spec => []ProcessInv
<1>1. Init => ProcessInv
  BY DEF Init, ProcessInv
<1> QED  BY <1>1, ProcessStep, PTL DEF Spec

(* ensureServerStarted of any number of operations never puts a second     *)
(* server beside a live one, until a start fails.                          *)
THEOREM NoSecondServer == Spec => []OneServer
<1>1. ProcessInv => OneServer
  BY DEF ProcessInv, OneServer
<1> QED  BY <1>1, ProcessesCorrect, PTL

-----------------------------------------------------------------------------
(* The zombie state.                                                       *)

ServedInv ==
  sound =>
    /\ stopping = FALSE /\ \A p \in StopPoints : stops[p] = 0
    /\ \A i \in alive : i \in watched \/ \E c \in Callers : starts[c] = [at |-> "spawn", on |-> i]
    /\ \A e \in exits : e[2] = "kill" => e[1] \in quiet
    /\ state \in {"starting", "running"} =>
         process \in alive \cup quiet \cup overtaken \/ \E e \in exits : e[1] = process
    /\ \A c \in Callers :
         starts[c].at = "notify" /\ starts[c].on # 0 /\ state \notin {"starting", "running"} =>
           process \in overtaken

(* No stop is under way while no start has failed.                         *)
LEMMA NoStopYet ==
  ASSUME ServedInv, NEW i \in Processes,
         StopAnswered(i) \/ StopRejected(i) \/ ExitSent(i)
  PROVE  ~sound /\ ~sound'
<1>1. sound' = sound
  BY DEF StopAnswered, StopRejected, ExitSent, EndStop, Others
<1>2. \E point \in {"shutdown", "exit"} : stops[<<i, point>>] > 0
  BY DEF StopAnswered, StopRejected, ExitSent, EndStop
<1>3. \A point \in {"shutdown", "exit"} : <<i, point>> \in StopPoints
  BY DEF StopPoints
<1> QED  BY <1>1, <1>2, <1>3 DEF ServedInv

LEMMA ServedStep ==
  ASSUME CountInv, ProcessInv, ServedInv, [Next]_vars
  PROVE  ServedInv'
<1>1. ASSUME NEW c \in Callers, Start(c) PROVE ServedInv'
  <2>1. \A d \in Callers : d # c => starts'[d] = starts[d]
    BY <1>1 DEF Start, CountInv
  <2>2. starts'[c] = [at |-> "spawn", on |-> spawned']
    BY <1>1 DEF Start, CountInv
  <2>3. \A i \in alive : starts[c] # [at |-> "spawn", on |-> i]
    BY <1>1 DEF Start, None
  <2>4. /\ state' = "starting" /\ alive' = alive \cup {spawned'} /\ process' = spawned'
        /\ UNCHANGED <<watched, exits, stops, stopping, quiet, sound>>
    BY <1>1 DEF Start
  <2> QED  BY <2>1, <2>2, <2>3, <2>4 DEF ServedInv
<1>2. ASSUME NEW c \in Callers, FailStart(c, connection) \/ FailStart(c, process)
      PROVE  ServedInv'
  BY <1>2 DEF FailStart, ServedInv
<1>3. ASSUME NEW c \in Callers, SpawnDone(c) PROVE ServedInv'
  <2>1. CASE Connects
    <3>1. /\ watched' = watched \cup {process}
          /\ starts' = [starts EXCEPT ![c] = [at |-> "initialize", on |-> process]]
          /\ UNCHANGED <<state, process, alive, exits, stops, stopping, quiet, overtaken, sound>>
      BY <1>3, <2>1 DEF SpawnDone, Connects
    <3>2. \A i \in alive : sound => i = process
      BY DEF ProcessInv
    <3>3. \A d \in Callers : starts'[d].at = "notify" => starts'[d] = starts[d]
      BY <3>1 DEF CountInv
    <3> QED  BY <3>1, <3>2, <3>3 DEF ServedInv
  <2>2. CASE ~Connects
    BY <1>2, <1>3, <2>2 DEF SpawnDone, Connects
  <2> QED  BY <2>1, <2>2
<1>4. ASSUME NEW c \in Callers, SpawnFails(c) \/ InitializeFails(c) \/ NotifyFails(c)
      PROVE  ServedInv'
  BY <1>2, <1>4 DEF SpawnFails, InitializeFails, NotifyFails
<1>answer. ASSUME NEW c \in Callers, Answered(c) PROVE ServedInv'
  <2>1. \A d \in Callers : d # c => starts'[d] = starts[d]
    BY <1>answer DEF Answered, CountInv
  <2>2. /\ starts'[c].at = "notify"
        /\ starts'[c].on = IF connection \in alive THEN connection ELSE 0
    BY <1>answer DEF Answered, CountInv
  <2>3. \A i \in alive : starts[c] # [at |-> "spawn", on |-> i]
    BY <1>answer DEF Answered
  <2>4. UNCHANGED <<state, process, alive, exits, watched, stops, stopping, quiet, overtaken,
                    sound>>
    BY <1>answer DEF Answered, client, children
  <2>5. sound /\ connection \in alive => state \in {"starting", "running"}
    BY DEF ProcessInv, CountInv
  <2> QED  BY <2>1, <2>2, <2>3, <2>4, <2>5 DEF ServedInv
<1>5. ASSUME NEW c \in Callers, Initialized(c) PROVE ServedInv'
  <2>1. \A d \in Callers : d # c => starts'[d] = starts[d]
    BY <1>5 DEF Initialized, CountInv
  <2>2. \A i \in alive : starts[c] # [at |-> "spawn", on |-> i]
    BY <1>5 DEF Initialized
  <2>3. /\ state' = "running"
        /\ UNCHANGED <<process, alive, exits, watched, stops, stopping, quiet, overtaken, sound>>
    BY <1>5 DEF Initialized, children
  <2>4. sound => process \in alive \cup quiet \cup overtaken \/ \E e \in exits : e[1] = process
    BY <1>5 DEF Initialized, ServedInv
  <2> QED  BY <2>1, <2>2, <2>3, <2>4 DEF ServedInv
<1>6. ASSUME NEW i \in Processes, StopAnswered(i) \/ StopRejected(i) \/ ExitSent(i)
      PROVE  ServedInv'
  BY <1>6, NoStopYet DEF ServedInv
<1>7. ASSUME NEW i \in Processes, NEW kind \in {"crash", "kill"}, Die(i, kind)
      PROVE  ServedInv'
  <2>1. /\ i \in alive /\ alive' = alive \ {i}
        /\ ~\E c \in Callers : starts[c] = [at |-> "spawn", on |-> i]
        /\ exits' = IF i \in watched THEN exits \cup {<<i, kind>>} ELSE exits
        /\ quiet' = IF kind = "kill" THEN quiet \cup {i} ELSE quiet
        /\ UNCHANGED <<state, process, starts, watched, stops, stopping, overtaken, sound>>
    BY <1>7 DEF Die, client
  <2>2. CASE ~sound
    BY <2>1, <2>2 DEF ServedInv
  <2>3. CASE sound
    <3>1. i = process /\ exits = {} /\ i \in watched /\ alive' = {}
      BY <2>1, <2>3 DEF ProcessInv, ServedInv
    <3>2. exits' = {<<i, kind>>}
      BY <2>1, <3>1
    <3>3. <<i, kind>>[1] = i /\ <<i, kind>>[2] = kind
      OBVIOUS
    <3> QED  BY <2>1, <2>3, <3>1, <3>2, <3>3 DEF ServedInv
  <2> QED  BY <2>2, <2>3
<1>8. ASSUME NEW e \in exits, Exit(e) PROVE ServedInv'
  <2>1. e[2] \in {"crash", "kill"}
    BY DEF CountInv
  <2>2. /\ exits' = exits \ {e}
        /\ UNCHANGED <<process, alive, watched, starts, stops, stopping, quiet, sound>>
    BY <1>8 DEF Exit
  <2>3. CASE IsCrash(e)
    <3>1. /\ state' = "error" /\ overtaken \subseteq overtaken'
          /\ (\E c \in Callers : starts[c].at = "notify") => e[1] \in overtaken'
      BY <1>8, <2>3 DEF Exit
    <3>2. sound => e[1] = process
      BY DEF ProcessInv
    <3> QED  BY <2>2, <3>1, <3>2 DEF ServedInv
  <2>4. CASE ~IsCrash(e)
    <3>1. state' = state /\ overtaken' = overtaken
      BY <1>8, <2>4 DEF Exit
    <3>2. sound => e[1] = process /\ process \in quiet
      BY <2>1, <2>4 DEF IsCrash, ProcessInv, ServedInv
    <3> QED  BY <2>2, <3>1, <3>2 DEF ServedInv
  <2> QED  BY <2>3, <2>4
<1>9. ASSUME NEW i \in Processes, Close(i) \/ StreamError(i) PROVE ServedInv'
  BY <1>9 DEF Close, StreamError, children, ServedInv
<1>10. ASSUME NEW f \in Files,
              \/ OpenFile(f) \/ ChangeFile(f) \/ CloseFile(f)
              \/ \E note \in {"didOpen", "didClose"} : Posted(f, note)
       PROVE  ServedInv'
  BY <1>10 DEF OpenFile, ChangeFile, CloseFile, Post, Posted, client, children, ServedInv
<1>11. CASE UNCHANGED vars
  BY <1>11 DEF vars, client, children, ServedInv
<1> QED  BY <1>1, <1>3, <1>4, <1>answer, <1>5, <1>6, <1>7, <1>8, <1>9, <1>10, <1>11 DEF Next

(* Until a start fails, an instance that counts as running has a server,   *)
(* or will hear of its crash, but for two ways into the zombie state of    *)
(* the comment above onCrash: the server ended by a signal or with code 0, *)
(* which the exit listener passes over, or its crash was handled while a   *)
(* start awaited the writing of initialized and then set running.          *)
THEOREM OnlyKnownZombies == Spec => []RunningIsServed
<1>1. Init => ServedInv
  BY DEF Init, None, ServedInv
<1>2. ServedInv => RunningIsServed
  BY DEF ServedInv, RunningIsServed
<1> QED  BY <1>1, <1>2, ServedStep, CountersCorrect, ProcessesCorrect, PTL DEF Spec

-----------------------------------------------------------------------------
(* The files of the first server.                                          *)

SpawnedInv ==
  /\ alive \subseteq 1..spawned
  /\ process \in 0..spawned /\ connection \in 0..spawned

LEMMA SpawnedStep ==
  ASSUME CountInv, SpawnedInv, [Next]_vars
  PROVE  SpawnedInv'
<1>0. spawned \in Nat
  BY LspAssumption DEF CountInv, LspAssumption
<1>shrinks. ASSUME alive' \subseteq alive, spawned' = spawned, process' \in {0, process},
             connection' \in {0, connection, process}
      PROVE  SpawnedInv'
  BY <1>0, <1>shrinks DEF SpawnedInv
<1>1. ASSUME NEW c \in Callers, Start(c) PROVE SpawnedInv'
  BY <1>0, <1>1 DEF Start, SpawnedInv
<1>2. ASSUME NEW c \in Callers, FailStart(c, connection) \/ FailStart(c, process)
      PROVE  SpawnedInv'
  <2>1. alive' \subseteq alive /\ spawned' = spawned /\ process' \in {0, process}
        /\ connection' \in {0, connection, process}
    BY <1>2 DEF FailStart, BeginStop, Cleanup
  <2> QED  BY <1>shrinks, <2>1
<1>3. ASSUME NEW c \in Callers,
             \/ SpawnDone(c) \/ SpawnFails(c) \/ InitializeFails(c) \/ NotifyFails(c)
      PROVE  SpawnedInv'
  BY <1>2, <1>3 DEF SpawnDone, SpawnFails, InitializeFails, NotifyFails, documents, SpawnedInv
<1>4. ASSUME NEW c \in Callers, Answered(c) \/ Initialized(c) PROVE SpawnedInv'
  BY <1>4 DEF Answered, Initialized, client, children, SpawnedInv
<1>5. ASSUME NEW i \in Processes,
             \/ StopAnswered(i) \/ StopRejected(i) \/ ExitSent(i)
             \/ Close(i) \/ StreamError(i)
             \/ \E kind \in {"crash", "kill"} : Die(i, kind)
      PROVE  SpawnedInv'
  <2>1. alive' \subseteq alive /\ spawned' = spawned /\ process' \in {0, process}
        /\ connection' \in {0, connection, process}
    BY <1>5 DEF StopAnswered, StopRejected, ExitSent, EndStop, Others, Cleanup, Close,
                StreamError, Die, client, children
  <2> QED  BY <1>shrinks, <2>1
<1>6. ASSUME NEW e \in exits, Exit(e) PROVE SpawnedInv'
  BY <1>6 DEF Exit, SpawnedInv
<1>7. ASSUME NEW f \in Files,
             \/ OpenFile(f) \/ ChangeFile(f) \/ CloseFile(f)
             \/ \E note \in {"didOpen", "didClose"} : Posted(f, note)
      PROVE  SpawnedInv'
  BY <1>7 DEF OpenFile, ChangeFile, CloseFile, Post, Posted, client, children, SpawnedInv
<1>8. CASE UNCHANGED vars
  BY <1>8 DEF vars, client, children, SpawnedInv
<1> QED  BY <1>1, <1>3, <1>4, <1>5, <1>6, <1>7, <1>8 DEF Next

OpenInv ==
  /\ spawned = 0 => opened = {} /\ posted = {}
  /\ spawned <= 1 /\ 1 \in alive =>
       \A f \in Files : f \in opened \/ <<f, "didOpen">> \in posted => f \in told[1]
  /\ spawned <= 1 => ~blind

LEMMA OpenStep ==
  ASSUME CountInv, SpawnedInv, OpenInv, [Next]_vars
  PROVE  OpenInv'
<1>0. spawned \in Nat
  BY LspAssumption DEF CountInv, LspAssumption
<1>1. ASSUME NEW c \in Callers, Start(c) PROVE OpenInv'
  BY <1>0, <1>1 DEF Start, documents, OpenInv
<1>2. ASSUME UNCHANGED <<documents, spawned>>, alive' \subseteq alive PROVE OpenInv'
  BY <1>2 DEF documents, OpenInv
<1>3. ASSUME NEW c \in Callers, NEW conn, FailStart(c, conn)
      PROVE  UNCHANGED <<documents, spawned>> /\ alive' \subseteq alive
  BY <1>3 DEF FailStart, BeginStop, Cleanup
<1>4. ASSUME NEW c \in Callers,
             \/ SpawnDone(c) \/ SpawnFails(c) \/ InitializeFails(c) \/ NotifyFails(c)
      PROVE  OpenInv'
  BY <1>2, <1>3, <1>4 DEF SpawnDone, SpawnFails, InitializeFails, NotifyFails
<1>5. ASSUME NEW c \in Callers, Answered(c) \/ Initialized(c) PROVE OpenInv'
  BY <1>2, <1>5 DEF Answered, Initialized, children
<1>6. ASSUME NEW i \in Processes,
             \/ StopAnswered(i) \/ StopRejected(i) \/ ExitSent(i)
             \/ Close(i) \/ StreamError(i)
             \/ \E kind \in {"crash", "kill"} : Die(i, kind)
      PROVE  OpenInv'
  BY <1>2, <1>6 DEF StopAnswered, StopRejected, ExitSent, EndStop, Others, Cleanup, Close,
                    StreamError, Die, children
<1>7. ASSUME NEW e \in exits, Exit(e) PROVE OpenInv'
  BY <1>2, <1>7 DEF Exit
<1>8. ASSUME Healthy PROVE spawned # 0 /\ (spawned <= 1 => connection = 1)
  BY <1>0, <1>8 DEF Healthy, SpawnedInv
<1>9. ASSUME NEW f \in Files, OpenFile(f) PROVE OpenInv'
  <2>1. /\ Healthy /\ posted' = posted \cup {<<f, "didOpen">>}
        /\ UNCHANGED <<opened, blind, alive, spawned>>
        /\ told' = IF connection \in alive
                   THEN [told EXCEPT ![connection] = told[connection] \cup {f}]
                   ELSE told
    BY <1>9 DEF OpenFile, Post, children
  <2>2. spawned # 0
    BY <1>8, <2>1
  <2>3. ASSUME spawned <= 1, 1 \in alive,
               NEW g \in Files, g \in opened \/ <<g, "didOpen">> \in posted'
        PROVE  g \in told'[1]
    <3>1. connection = 1 /\ 1 \in Processes
      BY <1>8, <2>1, <2>3 DEF CountInv
    <3>2. told'[1] = told[1] \cup {f}
      BY <2>1, <2>3, <3>1 DEF CountInv
    <3>3. g = f \/ g \in opened \/ <<g, "didOpen">> \in posted
      BY <2>1, <2>3
    <3> QED  BY <2>3, <3>2, <3>3 DEF OpenInv
  <2> QED  BY <2>1, <2>2, <2>3 DEF OpenInv
<1>10. ASSUME NEW f \in Files, ChangeFile(f) PROVE OpenInv'
  <2>1. /\ Healthy /\ f \in opened
        /\ UNCHANGED <<opened, posted, told, alive, spawned>>
    BY <1>10 DEF ChangeFile, children
  <2>2. spawned <= 1 /\ connection \in alive => f \in told[connection]
    BY <1>8, <2>1 DEF OpenInv
  <2>3. blind' = (blind \/ (connection \in alive /\ f \notin told[connection]))
    BY <1>10 DEF ChangeFile
  <2>4. spawned <= 1 => ~blind'
    BY <2>2, <2>3, Zenon DEF OpenInv
  <2> QED  BY <2>1, <2>4 DEF OpenInv
<1>11. ASSUME NEW f \in Files, CloseFile(f) PROVE OpenInv'
  <2>1. /\ Healthy /\ posted' = posted \cup {<<f, "didClose">>}
        /\ UNCHANGED <<opened, told, blind, alive, spawned>>
    BY <1>11 DEF CloseFile, Post, children
  <2>2. \A g \in Files : <<g, "didOpen">> \in posted' => <<g, "didOpen">> \in posted
    BY <2>1
  <2> QED  BY <1>8, <2>1, <2>2 DEF OpenInv
<1>12. ASSUME NEW f \in Files, NEW note \in {"didOpen", "didClose"}, Posted(f, note)
       PROVE  OpenInv'
  BY <1>12 DEF Posted, children, OpenInv
<1>13. CASE UNCHANGED vars
  BY <1>2, <1>13 DEF vars, children
<1> QED  BY <1>1, <1>4, <1>5, <1>6, <1>7, <1>9, <1>10, <1>11, <1>12, <1>13 DEF Next

(* The first server gets no didChange of a file before its didOpen,        *)
(* however the awaits of openFile and closeFile end.                       *)
THEOREM FirstServerKnowsFiles == Spec => []ChangesFollowOpen
<1>1. Init => SpawnedInv /\ OpenInv
  BY DEF Init, SpawnedInv, OpenInv
<1>2. OpenInv => ChangesFollowOpen
  BY DEF OpenInv, ChangesFollowOpen
<1> QED  BY <1>1, <1>2, SpawnedStep, OpenStep, CountersCorrect, PTL DEF Spec

=============================================================================
