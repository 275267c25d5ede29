--------------------------- MODULE TeamMemorySync ----------------------------
(***************************************************************************)
(* Team memory synchronisation (memory/team-sync/index.ts): the sessions   *)
(* of several teammates, each over its own directory, and the server they  *)
(* push to with If-Match and pull from.                                    *)
(*                                                                         *)
(* A content is a number that stands for the text and for its hash; the    *)
(* server's checksum of all entries is the entries themselves.  A request  *)
(* and the handling of its answer are one step, since nothing that others  *)
(* could see of the client happens between; when the answer is lost the    *)
(* effect stays.  A push reads its files in one step, and batches are cut  *)
(* by a number of keys instead of bytes.  The secret scan, the caps on     *)
(* sizes and entries, failing file writes and the 304 answer (no caller in *)
(* the repository pulls with a checksum) are left out.                     *)
(*                                                                         *)
(* Bounds: MaxEdits local edits, MaxFaults failing requests, MaxSessions   *)
(* sessions ended.                                                         *)
(***************************************************************************)
EXTENDS Naturals, FiniteSets, SequencesExt

CONSTANTS
  Clients,
  KeyOrder,            \* the keys, sorted
  Seeds,               \* what the server may hold at first
  BatchLimit,          \* keys in one PUT
  MaxConflictRetries,
  Faulty,              \* requests that may fail: see Fault
  MaxEdits, MaxFaults, MaxSessions,
  NoTag

Keys == ToSet(KeyOrder)

None == 0
Content == Nat

ASSUME SyncAssumption ==
  /\ KeyOrder \in Seq(Keys)
  /\ Seeds \subseteq [Keys -> Content]
  /\ BatchLimit \in Nat \ {0}
  /\ MaxConflictRetries \in Nat
  /\ Faulty \subseteq {"pull", "put", "reply", "probe"}
  /\ MaxEdits \in Nat
  /\ MaxFaults \in Nat
  /\ MaxSessions \in Nat
  /\ NoTag \notin [Keys -> Content]

VARIABLES
  server,    \* key -> content, None when absent
  disk,      \* client -> key -> content
  tag,       \* client -> lastKnownChecksum
  known,     \* client -> serverChecksums
  op,        \* client -> the operation in flight, or how the last ended
  open,      \* clients whose watcher has started
  edits, faults, sessions,
  onServer,  \* history: contents a key has had on the server
  base       \* history: content a client and the server last agreed on

vars == <<server, disk, tag, known, op, open, edits, faults, sessions,
          onServer, base>>

session == <<tag, known, open>>
counters == <<edits, faults, sessions>>
history == <<onServer, base>>

-----------------------------------------------------------------------------
Entries == [Keys -> Content]
NoEntries == [k \in Keys |-> None]

(* "write": a pull writes the entries it fetched, todo is what is left.    *)
(* "read": a pull is done and a push follows.  "put" and "probe": a push   *)
(* sends the keys of todo, or asks for hashes after a 412.                 *)
(* ok tells that the last operation was a push that reported success.      *)
Op ==
  [stage : {"idle", "write", "read", "put", "probe"}, local : Entries,
   todo : SUBSET Keys, attempt : 0..MaxConflictRetries, push : BOOLEAN,
   ok : BOOLEAN]

Rest ==
  [stage |-> "idle", local |-> NoEntries, todo |-> {}, attempt |-> 0,
   push |-> FALSE, ok |-> FALSE]

TypeOK ==
  /\ server \in Entries
  /\ disk \in [Clients -> Entries]
  /\ tag \in [Clients -> Entries \cup {NoTag}]
  /\ known \in [Clients -> Entries]
  /\ op \in [Clients -> Op]
  /\ open \subseteq Clients
  /\ edits \in Nat
  /\ faults \in Nat
  /\ sessions \in Nat
  /\ onServer \in [Keys -> SUBSET Content]
  /\ base \in [Clients -> Entries]

Present(entries) == {k \in Keys : entries[k] # None}

Init ==
  /\ server \in Seeds
  /\ disk = [c \in Clients |-> NoEntries]
  /\ tag = [c \in Clients |-> NoTag]
  /\ known = [c \in Clients |-> NoEntries]
  /\ op = [c \in Clients |-> Rest]
  /\ open = {}
  /\ edits = 0
  /\ faults = 0
  /\ sessions = 0
  /\ onServer = [k \in Keys |-> {server[k]}]
  /\ base = [c \in Clients |-> NoEntries]

-----------------------------------------------------------------------------
(* A user or an agent writes a memory file with a text nobody wrote yet.   *)
Fresh == 1 + edits + Cardinality(Keys)

Edit(c, k) ==
  /\ edits < MaxEdits
  /\ edits' = edits + 1
  /\ disk' = [disk EXCEPT ![c][k] = Fresh]
  /\ UNCHANGED <<server, session, op, faults, sessions, history>>

(* The session ends wherever it is; the next one begins with a new         *)
(* SyncState over the same directory.                                      *)
EndSession(c) ==
  /\ c \in open
  /\ sessions < MaxSessions
  /\ sessions' = sessions + 1
  /\ open' = open \ {c}
  /\ tag' = [tag EXCEPT ![c] = NoTag]
  /\ known' = [known EXCEPT ![c] = NoEntries]
  /\ op' = [op EXCEPT ![c] = Rest]
  /\ UNCHANGED <<server, disk, edits, faults, history>>

Resting(c) == op[c].stage = "idle"

(* One request of a kind that may fail does.                               *)
Fault(kind) ==
  /\ kind \in Faulty
  /\ faults < MaxFaults
  /\ faults' = faults + 1
  /\ UNCHANGED <<edits, sessions>>

-----------------------------------------------------------------------------
(* pullTeamMemory, at the start of a session or as the first half of       *)
(* syncTeamMemory: then tells whether a push follows.                      *)
MayPull(c, push) == Resting(c) /\ (push <=> c \in open)

PullEntries(c, push) ==
  /\ MayPull(c, push)
  /\ server # NoEntries
  /\ tag' = [tag EXCEPT ![c] = server]
  /\ known' = [known EXCEPT ![c] = server]
  /\ op' = [op EXCEPT ![c] = [Rest EXCEPT !.stage = "write", !.local = server,
                                         !.todo = Present(server), !.push = push]]
  /\ UNCHANGED <<server, disk, open, counters, history>>

(* 404: nothing there yet.                                                 *)
PullNothing(c, push) ==
  /\ MayPull(c, push)
  /\ server = NoEntries
  /\ tag' = [tag EXCEPT ![c] = NoTag]
  /\ known' = [known EXCEPT ![c] = NoEntries]
  /\ op' = [op EXCEPT ![c] = IF push THEN [Rest EXCEPT !.stage = "read"] ELSE Rest]
  /\ open' = open \cup {c}
  /\ UNCHANGED <<server, disk, counters, history>>

(* The watcher starts all the same.                                        *)
PullFails(c, push) ==
  /\ MayPull(c, push)
  /\ Fault("pull")
  /\ op' = [op EXCEPT ![c] = Rest]
  /\ open' = open \cup {c}
  /\ UNCHANGED <<server, disk, tag, known, history>>

(* writeRemoteEntriesToLocal, in any order.                                *)
WriteKey(c, k) ==
  /\ op[c].stage = "write"
  /\ k \in op[c].todo
  /\ disk' = [disk EXCEPT ![c][k] = op[c].local[k]]
  /\ base' = [base EXCEPT ![c][k] = op[c].local[k]]
  /\ LET rest == op[c].todo \ {k}
     IN  /\ op' = [op EXCEPT ![c] =
                     IF rest # {} THEN [op[c] EXCEPT !.todo = rest]
                     ELSE IF op[c].push THEN [Rest EXCEPT !.stage = "read"]
                     ELSE Rest]
         /\ open' = IF rest = {} THEN open \cup {c} ELSE open
  /\ UNCHANGED <<server, tag, known, counters, onServer>>

-----------------------------------------------------------------------------
(* pushTeamMemory.                                                         *)

(* The delta: what was read and differs from what the server is believed   *)
(* to hold.                                                                *)
Delta(local, hashes) == {k \in Present(local) : hashes[k] # local[k]}

Succeeded(local) == [Rest EXCEPT !.local = local, !.ok = TRUE]

(* An iteration of the conflict loop up to its first PUT.                  *)
Plan(c, local, hashes, attempt) ==
  op' = [op EXCEPT ![c] =
           IF Delta(local, hashes) = {}
           THEN Succeeded(local)
           ELSE [Rest EXCEPT !.stage = "put", !.local = local,
                             !.todo = Delta(local, hashes), !.attempt = attempt]]

StartPush(c) ==
  /\ \/ op[c].stage = "idle" /\ c \in open
     \/ op[c].stage = "read"
  /\ Plan(c, disk[c], known[c], 0)
  /\ UNCHANGED <<server, disk, session, counters, history>>

(* batchDeltaByBytes: the first keys, in order, that fit.                  *)
Batch(c) ==
  LET keys == SelectSeq(KeyOrder, LAMBDA k : k \in op[c].todo)
  IN  {keys[i] : i \in {n \in 1..Len(keys) : n <= BatchLimit}}

(* PUT carries If-Match only when there is a checksum to send.             *)
Matches(c) == tag[c] = NoTag \/ tag[c] = server

(* Entries, or hashes, with the batch put over them.                       *)
Sent(c, entries) ==
  [k \in Keys |-> IF k \in Batch(c) THEN op[c].local[k] ELSE entries[k]]

Merged(c) == Sent(c, server)

(* The server upserts a batch whose condition holds.                       *)
Upsert(c) ==
  /\ op[c].stage = "put"
  /\ Matches(c)
  /\ server' = Merged(c)
  /\ onServer' = [k \in Keys |-> onServer[k] \cup {Merged(c)[k]}]

(* Slips: one batch is taken for the whole delta, in the hashes or in the  *)
(* outcome.                                                                *)
PutAcceptedForAll(c) ==
  /\ Upsert(c)
  /\ tag' = [tag EXCEPT ![c] = Merged(c)]
  /\ known' = [known EXCEPT ![c] =
                 [k \in Keys |-> IF k \in op[c].todo THEN op[c].local[k] ELSE @[k]]]
  /\ base' = [base EXCEPT ![c] = Sent(c, @)]
  /\ op' = [op EXCEPT ![c] =
              IF op[c].todo = Batch(c) THEN Succeeded(op[c].local)
              ELSE [op[c] EXCEPT !.todo = @ \ Batch(c)]]
  /\ UNCHANGED <<disk, open, counters>>

PutAcceptedOnce(c) ==
  /\ Upsert(c)
  /\ tag' = [tag EXCEPT ![c] = Merged(c)]
  /\ known' = [known EXCEPT ![c] = Sent(c, @)]
  /\ base' = [base EXCEPT ![c] = Sent(c, @)]
  /\ op' = [op EXCEPT ![c] = Succeeded(op[c].local)]
  /\ UNCHANGED <<disk, open, counters>>

PutAccepted(c) ==
  /\ Upsert(c)
  /\ tag' = [tag EXCEPT ![c] = Merged(c)]
  /\ known' = [known EXCEPT ![c] = Sent(c, @)]
  /\ base' = [base EXCEPT ![c] = Sent(c, @)]
  /\ op' = [op EXCEPT ![c] =
              IF op[c].todo = Batch(c) THEN Succeeded(op[c].local)
              ELSE [op[c] EXCEPT !.todo = @ \ Batch(c)]]
  /\ UNCHANGED <<disk, open, counters>>

(* Any other answer than 200 and 412 ends the push.                        *)
PushEnds(c) ==
  /\ op' = [op EXCEPT ![c] = Rest]
  /\ UNCHANGED <<disk, session>>

PutFails(c) ==
  /\ op[c].stage = "put"
  /\ Fault("put")
  /\ PushEnds(c)
  /\ UNCHANGED <<server, history>>

(* The batch is stored, the answer times out.                              *)
PutReplyLost(c) ==
  /\ Upsert(c)
  /\ Fault("reply")
  /\ PushEnds(c)
  /\ UNCHANGED base

(* Slip: one retry too many.                                               *)
PutConflictLate(c) ==
  /\ op[c].stage = "put"
  /\ ~Matches(c)
  /\ \/ /\ op[c].attempt > MaxConflictRetries
        /\ PushEnds(c)
     \/ /\ op[c].attempt <= MaxConflictRetries
        /\ op' = [op EXCEPT ![c].stage = "probe", ![c].todo = {}]
        /\ UNCHANGED <<disk, session>>
  /\ UNCHANGED <<server, counters, history>>

(* 412.                                                                    *)
PutConflict(c) ==
  /\ op[c].stage = "put"
  /\ ~Matches(c)
  /\ \/ /\ op[c].attempt >= MaxConflictRetries
        /\ PushEnds(c)
     \/ /\ op[c].attempt < MaxConflictRetries
        /\ op' = [op EXCEPT ![c].stage = "probe", ![c].todo = {}]
        /\ UNCHANGED <<disk, session>>
  /\ UNCHANGED <<server, counters, history>>

(* Slip: the probe refreshes the checksum alone.                           *)
ProbeForChecksum(c) ==
  /\ op[c].stage = "probe"
  /\ tag' = [tag EXCEPT ![c] = server]
  /\ Plan(c, op[c].local, known[c], op[c].attempt + 1)
  /\ UNCHANGED <<server, disk, known, open, counters, history>>

(* fetchTeamMemoryHashes, and the next iteration with its answer.          *)
Probe(c) ==
  /\ op[c].stage = "probe"
  /\ tag' = [tag EXCEPT ![c] = server]
  /\ known' = [known EXCEPT ![c] = server]
  /\ Plan(c, op[c].local, server, op[c].attempt + 1)
  /\ UNCHANGED <<server, disk, open, counters, history>>

ProbeFails(c) ==
  /\ op[c].stage = "probe"
  /\ Fault("probe")
  /\ PushEnds(c)
  /\ UNCHANGED <<server, history>>

-----------------------------------------------------------------------------
Pull(c, push) == PullEntries(c, push) \/ PullNothing(c, push) \/ PullFails(c, push)

Next ==
  \E c \in Clients :
    \/ \E k \in Keys : Edit(c, k) \/ WriteKey(c, k)
    \/ EndSession(c)
    \/ \E push \in BOOLEAN : Pull(c, push)
    \/ StartPush(c)
    \/ PutAccepted(c)
    \/ PutFails(c)
    \/ PutReplyLost(c)
    \/ PutConflict(c)
    \/ Probe(c)
    \/ ProbeFails(c)

Spec == Init /\ [][Next]_vars

-----------------------------------------------------------------------------
(* A push that reports success has had every file it read on the server:   *)
(* the batches it sent were stored, and the files it left out were there,  *)
(* through conflicts, lost answers, failed batches and new sessions.       *)
DeliveredIsThere ==
  \A c \in Clients :
    op[c].ok => \A k \in Present(op[c].local) : op[c].local[k] \in onServer[k]

(* A checksum that lets a PUT through comes with no wrong hash: over        *)
(* batches, lost answers, probes and failing pulls, the delta of a push    *)
(* that meets no conflict leaves out only what the server holds.  (Hashes  *)
(* may be missing: a session whose pull failed learns the checksum from    *)
(* its first PUT and the hashes of that batch only.)                       *)
ChecksumImpliesHashes ==
  \A c \in Clients :
    tag[c] = server => \A k \in Keys : known[c][k] \in {None, server[k]}

(* Everything a session believes to be on the server has been there.       *)
KnownWasThere ==
  \A c \in Clients, k \in Keys : known[c][k] # None => known[c][k] \in onServer[k]

-----------------------------------------------------------------------------
(* What a comment of the module says and its pushes break                  *)

(* index.ts: a delta holds local edits; content that came from the server  *)
(* is never uploaded again.                                                *)
UploadsOnlyEdits ==
  \A c \in Clients :
    op[c].stage = "put" => \A k \in op[c].todo : op[c].local[k] # base[c][k]
=============================================================================
