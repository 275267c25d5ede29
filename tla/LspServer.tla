------------------------------ MODULE LspServer ------------------------------
(***************************************************************************)
(* One language server: the instance with its states and its cap on crash  *)
(* recovery (LSPServerInstance.ts) over the client that owns the child     *)
(* process and the connection (LSPClient.ts), and the manager's record of  *)
(* the files open on it (LSPServerManager.ts).                             *)
(*                                                                         *)
(* A child process is known by the number of its spawn.  The client's      *)
(* variables are shared by all of them: a start or a stop that resumes     *)
(* finds whatever process and connection are there by then.  A request     *)
(* that awaits an answer of a dead server waits for ever, or is rejected   *)
(* as it could not be written; one on a connection that is disposed is     *)
(* rejected (vscode-jsonrpc).                                              *)
(*                                                                         *)
(* Faults: "crash", exit with a code; "kill", exit by a signal or with     *)
(* code 0; "spawn", the command cannot be started; "refuse", the server    *)
(* answers initialize with an error; "error", a stream of a live server    *)
(* fails.                                                                  *)
(* Bounds: MaxSpawns processes, MaxFaults faults.                          *)
(***************************************************************************)
EXTENDS Naturals

CONSTANTS
  Callers,        \* the operations that may need the server at one time
  Files,
  MaxRestarts,    \* maxRestarts of the configuration
  Faults, MaxFaults, MaxSpawns

ASSUME LspAssumption ==
  /\ {MaxRestarts, MaxFaults, MaxSpawns} \subseteq Nat
  /\ Faults \subseteq {"crash", "kill", "spawn", "refuse", "error"}

VARIABLES
  state,         \* state of the instance
  crashes,       \* crashRecoveryCount
  initialized,   \* isInitialized
  startFailed,
  stopping,      \* isStopping
  process,       \* the client's process; 0: undefined
  connection,    \* the process its connection leads to; 0: undefined
  alive,         \* the processes that run
  open,          \* the processes whose connection is not disposed
  watched,       \* the processes with an exit listener
  exits,         \* dead processes whose exit event is due, with its kind
  closes,        \* dead processes whose connection's close event is due
  starts,        \* where each caller is in start, and with which process
  stops,         \* how many stops await the answer to shutdown, and the
                 \* writing of exit, of each process
  opened,        \* openedFiles: the files that count as open on the server
  posted,        \* didOpen and didClose notifications still awaited
  told,          \* history: the files each process was sent a didOpen for
  spawned, faults,
  streak,        \* history: processes spawned since the server last ran
  sound,         \* history: no start has failed yet
  quiet,         \* history: processes that ended without an error code
  overtaken,     \* history: processes whose crash was put on record while a
                 \* start awaited the writing of initialized
  blind          \* history: a didChange reached a server before its didOpen

client == <<initialized, startFailed, stopping, process, connection>>
children == <<alive, open, watched, exits, closes>>
documents == <<opened, posted, told, blind>>
vars == <<state, crashes, client, children, starts, stops, documents, spawned, faults,
          streak, sound, quiet, overtaken>>

Processes == 1..MaxSpawns
None == [at |-> "none", on |-> 0]
StartPoints == [at : {"none", "spawn", "initialize", "notify"}, on : Processes \cup {0}]
StopPoints == Processes \X {"shutdown", "exit"}

TypeOK ==
  /\ state \in {"stopped", "starting", "running", "error"}
  /\ crashes \in Nat
  /\ {initialized, startFailed, stopping} \subseteq BOOLEAN
  /\ {process, connection} \subseteq Processes \cup {0}
  /\ UNION {alive, open, watched, closes} \subseteq Processes
  /\ exits \subseteq Processes \X {"crash", "kill"}
  /\ starts \in [Callers -> StartPoints]
  /\ stops \in [StopPoints -> Nat]
  /\ opened \subseteq Files
  /\ posted \subseteq Files \X {"didOpen", "didClose"}
  /\ told \in [Processes -> SUBSET Files]
  /\ spawned \in 0..MaxSpawns
  /\ faults \in 0..MaxFaults
  /\ streak \in 0..spawned
  /\ {sound, blind} \subseteq BOOLEAN
  /\ quiet \cup overtaken \subseteq Processes

Init ==
  /\ state = "stopped"
  /\ crashes = 0
  /\ initialized = FALSE /\ startFailed = FALSE /\ stopping = FALSE
  /\ process = 0 /\ connection = 0
  /\ alive = {} /\ open = {} /\ watched = {} /\ exits = {} /\ closes = {}
  /\ starts = [c \in Callers |-> None]
  /\ stops = [p \in StopPoints |-> 0]
  /\ opened = {} /\ posted = {} /\ told = [i \in Processes |-> {}]
  /\ spawned = 0 /\ faults = 0
  /\ streak = 0 /\ sound = TRUE /\ quiet = {} /\ overtaken = {} /\ blind = FALSE

Fault(kind) ==
  /\ kind \in Faults /\ faults < MaxFaults
  /\ faults' = faults + 1

(* The connections neither disposed nor closed.  What a server wrote       *)
(* before it died can be read until its connection closes.                 *)
Listening == open \cap (alive \cup closes)

-----------------------------------------------------------------------------
(* stop of the client.                                                     *)

(* Its end: whatever process and connection there are now are done with,   *)
(* and their listeners are gone.                                           *)
Cleanup(conn, failed) ==
  /\ alive' = alive \ {process}
  /\ watched' = watched \ {process}
  /\ exits' = {e \in exits : e[1] # process}
  /\ open' = open \ {conn}
  /\ closes' = closes \ {conn}
  /\ process' = 0 /\ connection' = 0
  /\ initialized' = FALSE /\ stopping' = FALSE
  /\ startFailed' = (startFailed \/ failed)

(* Its beginning: a server there is a connection to is asked to shut down, *)
(* and the answer awaited.                                                 *)
BeginStop(conn) ==
  \/ /\ conn # 0
     /\ stopping' = TRUE
     /\ stops' = [stops EXCEPT ![<<conn, "shutdown">>] = stops[<<conn, "shutdown">>] + 1]
     /\ connection' = conn
     /\ open' = open \cup {conn}
     /\ watched' = watched \cup {process}
     /\ UNCHANGED <<initialized, startFailed, process, alive, exits, closes>>
  \/ /\ conn = 0
     /\ Cleanup(conn, FALSE)
     /\ UNCHANGED stops

Others == <<state, crashes, starts, documents, spawned, faults, streak, sound, quiet, overtaken>>

EndStop(i, point, failed) ==
  /\ stops[<<i, point>>] > 0
  /\ stops' = [stops EXCEPT ![<<i, point>>] = stops[<<i, point>>] - 1]
  /\ Cleanup(connection, failed)
  /\ UNCHANGED Others

(* The answer arrives; exit is written on the connection there is now.     *)
StopAnswered(i) ==
  /\ i \in Listening /\ connection \in Listening
  /\ stops[<<i, "shutdown">>] > 0
  /\ stops' = [p \in StopPoints |->
       stops[p] - (IF p = <<i, "shutdown">> THEN 1 ELSE 0)
                + (IF p = <<connection, "exit">> THEN 1 ELSE 0)]
  /\ UNCHANGED <<client, children, Others>>

(* The request could not be written, another stop has disposed of the      *)
(* connection on which the answer is due, or the answer finds none.        *)
StopRejected(i) ==
  /\ i \notin alive \cap open \/ connection \notin Listening
  /\ EndStop(i, "shutdown", TRUE)

(* exit has been written, or has failed to be.                             *)
ExitSent(i) == \E failed \in BOOLEAN : EndStop(i, "exit", failed)

-----------------------------------------------------------------------------
(* start of the instance, which every use of the server comes to when the  *)
(* server is not running or starting.                                      *)

(* Slip: a start that is under way is not noticed.                         *)
MayStartAgain == state # "running" /\ crashes <= MaxRestarts

(* Slip: the cap on crash recovery is missing.                             *)
MayStartAnyway == state \in {"stopped", "error"}

MayStart ==
  \/ state = "stopped"
  \/ state = "error" /\ crashes <= MaxRestarts

Start(c) ==
  /\ starts[c] = None /\ spawned < MaxSpawns
  /\ MayStart
  /\ state' = "starting"
  /\ spawned' = spawned + 1
  /\ streak' = streak + 1
  /\ process' = spawned'
  /\ alive' = alive \cup {spawned'}
  /\ starts' = [starts EXCEPT ![c] = [at |-> "spawn", on |-> spawned']]
  /\ UNCHANGED <<crashes, initialized, startFailed, stopping, connection, open,
                 watched, exits, closes, stops, documents, faults, sound, quiet, overtaken>>

(* The catch of start: the stop it begins is not awaited.                  *)
FailStart(c, conn) ==
  /\ state' = "error"
  /\ starts' = [starts EXCEPT ![c] = None]
  /\ BeginStop(conn)
  /\ sound' = FALSE
  /\ UNCHANGED <<crashes, documents, spawned, streak, quiet, overtaken>>

(* Slip: the process is taken for granted once its spawn is done.          *)
ConnectsBlindly == ~startFailed

Connects == process # 0 /\ ~startFailed

(* The process has been spawned: the process there is now is connected,    *)
(* and asked to initialize unless a failure is on record.                  *)
SpawnDone(c) ==
  /\ starts[c].at = "spawn"
  /\ \/ /\ Connects
        /\ connection' = process
        /\ open' = open \cup {process}
        /\ watched' = watched \cup {process}
        /\ starts' = [starts EXCEPT ![c] = [at |-> "initialize", on |-> process]]
        /\ UNCHANGED <<state, crashes, initialized, startFailed, stopping, process,
                       alive, exits, closes, stops, documents, spawned, streak, sound,
                       quiet, overtaken>>
     \/ /\ process # 0 /\ startFailed
        /\ FailStart(c, process)
     \/ /\ process = 0
        /\ FailStart(c, connection)
  /\ UNCHANGED faults

SpawnFails(c) ==
  /\ starts[c].at = "spawn"
  /\ Fault("spawn")
  /\ FailStart(c, connection)

(* initialize is answered, and initialized written on the connection there *)
(* is now: in vain (on = 0) if its process has died.                       *)
Answered(c) ==
  /\ starts[c].at = "initialize" /\ starts[c].on \in Listening
  /\ connection \in Listening
  /\ starts' = [starts EXCEPT ![c] =
       [at |-> "notify", on |-> IF connection \in alive THEN connection ELSE 0]]
  /\ UNCHANGED <<state, crashes, client, children, stops, documents, spawned, faults, streak,
                 sound, quiet, overtaken>>

(* initialized has been written.  Nobody looks at the state again, whatever*)
(* has been handled since the answer.                                      *)
Initialized(c) ==
  /\ starts[c].at = "notify" /\ starts[c].on # 0
  /\ initialized' = TRUE
  /\ state' = "running"
  /\ crashes' = 0
  /\ streak' = 0
  /\ starts' = [starts EXCEPT ![c] = None]
  /\ UNCHANGED <<startFailed, stopping, process, connection, children, stops,
                 documents, spawned, faults, sound, quiet, overtaken>>

(* initialize is refused by the server, could not be written to it, is     *)
(* rejected as a stop disposed of the connection, or its answer finds none.*)
InitializeFails(c) ==
  /\ starts[c].at = "initialize"
  /\ \/ starts[c].on \in Listening /\ Fault("refuse")
     \/ /\ starts[c].on \notin alive \cap open \/ connection \notin Listening
        /\ UNCHANGED faults
  /\ FailStart(c, connection)

(* initialized could not be written.                                       *)
NotifyFails(c) ==
  /\ starts[c].at = "notify"
  /\ \/ starts[c].on \in alive \cap open /\ Fault("error")
     \/ starts[c].on \notin alive \cap open /\ UNCHANGED faults
  /\ FailStart(c, connection)

-----------------------------------------------------------------------------
(* The processes.                                                          *)

Die(i, kind) ==
  /\ i \in alive /\ ~\E c \in Callers : starts[c] = [at |-> "spawn", on |-> i]
  /\ Fault(kind)
  /\ alive' = alive \ {i}
  /\ exits' = IF i \in watched THEN exits \cup {<<i, kind>>} ELSE exits
  /\ closes' = IF i \in open THEN closes \cup {i} ELSE closes
  /\ quiet' = IF kind = "kill" THEN quiet \cup {i} ELSE quiet
  /\ UNCHANGED <<state, crashes, client, open, watched, starts, stops, documents, spawned,
                 streak, sound, overtaken>>

(* Slip: only a crash before the server is initialized is passed on.       *)
IsEarlyCrash(e) == e[2] = "crash" /\ ~stopping /\ ~initialized

IsCrash(e) == e[2] = "crash" /\ ~stopping

(* The exit event; onCrash puts the instance into error.                   *)
Exit(e) ==
  /\ e \in exits
  /\ exits' = exits \ {e}
  /\ \/ /\ IsCrash(e)
        /\ initialized' = FALSE
        /\ startFailed' = FALSE
        /\ state' = "error"
        /\ crashes' = crashes + 1
        /\ overtaken' = IF \E c \in Callers : starts[c].at = "notify"
                        THEN overtaken \cup {e[1]} ELSE overtaken
     \/ /\ ~IsCrash(e)
        /\ UNCHANGED <<initialized, startFailed, state, crashes, overtaken>>
  /\ UNCHANGED <<stopping, process, connection, alive, open, watched, closes, starts,
                 stops, documents, spawned, faults, streak, sound, quiet>>

(* The connection closes, which may be long after the exit.                *)
Close(i) ==
  /\ i \in closes
  /\ closes' = closes \ {i}
  /\ initialized' = (initialized /\ stopping)
  /\ UNCHANGED <<state, crashes, startFailed, stopping, process, connection, alive, open,
                 watched, exits, starts, stops, documents, spawned, faults, streak, sound,
                 quiet, overtaken>>

(* The error listeners of the process and of its connection.  The streams  *)
(* of a dead process may fail at any time.                                 *)
StreamError(i) ==
  /\ i \in open \cup watched /\ ~stopping
  /\ \/ i \in alive /\ Fault("error")
     \/ i \notin alive /\ UNCHANGED faults
  /\ startFailed' = TRUE
  /\ UNCHANGED <<state, crashes, initialized, stopping, process, connection, children, starts,
                 stops, documents, spawned, streak, sound, quiet, overtaken>>

-----------------------------------------------------------------------------
(* The manager's files.  A failed write of the client is swallowed, so a   *)
(* notification that is awaited always ends well.                          *)

(* Slip: a server that is starting is spoken to.                           *)
HealthyOrStarting == state \in {"starting", "running"} /\ ~startFailed

Healthy == state = "running" /\ initialized /\ connection # 0 /\ ~startFailed

Post(f, note) ==
  /\ Healthy
  /\ posted' = posted \cup {<<f, note>>}
  /\ UNCHANGED <<state, crashes, client, children, starts, stops, opened, spawned, faults,
                 streak, sound, quiet, overtaken>>

(* openFile, and changeFile of a file that does not count as open.         *)
OpenFile(f) ==
  /\ f \notin opened
  /\ Post(f, "didOpen")
  /\ told' = IF connection \in alive
             THEN [told EXCEPT ![connection] = told[connection] \cup {f}]
             ELSE told
  /\ UNCHANGED blind

ChangeFile(f) ==
  /\ f \in opened
  /\ Healthy
  /\ blind' = (blind \/ (connection \in alive /\ f \notin told[connection]))
  /\ UNCHANGED <<state, crashes, client, children, starts, stops, opened, posted, told,
                 spawned, faults, streak, sound, quiet, overtaken>>

CloseFile(f) ==
  /\ Post(f, "didClose")
  /\ UNCHANGED <<told, blind>>

(* The notification has been written, or has failed to be.                 *)
Posted(f, note) ==
  /\ <<f, note>> \in posted
  /\ posted' = posted \ {<<f, note>>}
  /\ opened' = IF note = "didOpen" THEN opened \cup {f} ELSE opened \ {f}
  /\ UNCHANGED <<state, crashes, client, children, starts, stops, told, blind, spawned,
                 faults, streak, sound, quiet, overtaken>>

Next ==
  \/ \E c \in Callers :
       \/ Start(c) \/ SpawnDone(c) \/ SpawnFails(c) \/ Answered(c) \/ Initialized(c)
       \/ InitializeFails(c) \/ NotifyFails(c)
  \/ \E i \in Processes :
       \/ StopAnswered(i) \/ StopRejected(i) \/ ExitSent(i)
       \/ Close(i) \/ StreamError(i)
       \/ \E kind \in {"crash", "kill"} : Die(i, kind)
  \/ \E e \in exits : Exit(e)
  \/ \E f \in Files :
       \/ OpenFile(f) \/ ChangeFile(f) \/ CloseFile(f)
       \/ \E note \in {"didOpen", "didClose"} : Posted(f, note)

Spec == Init /\ [][Next]_vars

-----------------------------------------------------------------------------
(* The guarantees below hold until the first start fails: the stop it      *)
(* leaves behind may then dispose of whatever a later start has built.     *)

(* "Without this, state stays 'running' after crash and the server is never*)
(* restarted (zombie state)", the comment above onCrash: an instance that  *)
(* is running has a server, or is about to hear that it crashed.  There are*)
(* two exceptions.  One is a server that ended by a signal or with code 0, *)
(* which the exit listener passes over.  The other is one whose crash was  *)
(* handled while a start awaited the writing of initialized: the start     *)
(* then sets running over the error.  A crash handled at any other point   *)
(* of any operation ends the running.                                      *)
RunningIsServed ==
  sound /\ state = "running" =>
    \/ process \in alive \cup quiet \cup overtaken
    \/ \E e \in exits : e[1] = process

(* However many operations need the server at once, and however crashes    *)
(* fall between their steps, no second server is started beside a live one.*)
OneServer == sound => \A i, j \in alive : i = j

(* A server that keeps crashing before it answers initialize is started    *)
(* once and restarted MaxRestarts times, by whichever operations.          *)
RestartsAreCapped == sound => streak <= MaxRestarts + 1

(* The first server gets no didChange for a file it was not sent a didOpen *)
(* for ("LSP servers require didOpen before didChange", changeFile),       *)
(* whichever notifications are still awaited.  One that is started after a *)
(* crash can: openedFiles outlives the server it speaks of.                *)
ChangesFollowOpen == spawned <= 1 => ~blind

=============================================================================
