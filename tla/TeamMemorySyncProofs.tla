------------------------- MODULE TeamMemorySyncProofs -------------------------
(***************************************************************************)
(* What TLAPS proves of TeamMemorySync, for every number of teammates,     *)
(* keys, edits, batches, failing requests and sessions.                    *)
(***************************************************************************)
EXTENDS TeamMemorySync, FiniteSetTheorems, TLAPS

-----------------------------------------------------------------------------
(* The inductive invariant                                                 *)

(* A push probes only while it has a retry left.                           *)
ProbesInBudget ==
  \A c \in Clients : op[c].stage = "probe" => op[c].attempt < MaxConflictRetries

(* What the server holds it has had.                                       *)
ServerWasThere == \A k \in Keys : server[k] \in onServer[k]

(* What a push read and does not mean to send is on the server: its delta  *)
(* left it out, or one of its batches was stored.                          *)
LeftOutWasThere ==
  \A c \in Clients :
    op[c].stage = "put" =>
      \A k \in Present(op[c].local) \ op[c].todo : op[c].local[k] \in onServer[k]

(* Only a push that is over reports.                                       *)
ReportsAtRest == \A c \in Clients : op[c].ok => Resting(c)

SyncInvariant ==
  /\ TypeOK
  /\ ProbesInBudget
  /\ ReportsAtRest
  /\ ServerWasThere
  /\ LeftOutWasThere
  /\ KnownWasThere
  /\ DeliveredIsThere

-----------------------------------------------------------------------------
(* Types                                                                   *)

(* Fresh is a content: there are only finitely many keys.                  *)
LEMMA FreshContent ==
  ASSUME edits \in Nat
  PROVE  Fresh \in Content
<1>1. IsFiniteSet(Keys)
  <2>1. IsFiniteSet(DOMAIN KeyOrder)
    <3>1. DOMAIN KeyOrder = 1..Len(KeyOrder) /\ Len(KeyOrder) \in Nat
      BY SyncAssumption DEF SyncAssumption
    <3> QED BY <3>1, FS_Interval
  <2>2. Keys = {KeyOrder[i] : i \in DOMAIN KeyOrder}
    BY DEF Keys, ToSet
  <2>3. KeyOrder \in Surjection(DOMAIN KeyOrder, Keys)
    <3>1. KeyOrder \in [DOMAIN KeyOrder -> Keys]
      BY SyncAssumption DEF SyncAssumption
    <3> QED BY <3>1, <2>2 DEF Surjection
  <2> QED BY <2>1, <2>3, FS_Surjection
<1>2. Cardinality(Keys) \in Nat
  BY <1>1, FS_CardinalityType
<1> QED BY <1>2 DEF Fresh, Content

LEMMA RestType == Rest \in Op
BY SyncAssumption DEF SyncAssumption, Rest, Op, NoEntries, Entries, Content, None

LEMMA PresentKeys == ASSUME NEW e PROVE Present(e) \subseteq Keys
BY DEF Present

LEMMA SentType ==
  ASSUME NEW c \in Clients, op[c].local \in Entries, NEW e \in Entries
  PROVE  Sent(c, e) \in Entries
BY DEF Sent, Entries

LEMMA SucceededType ==
  ASSUME NEW local \in Entries
  PROVE  Succeeded(local) \in Op
BY RestType DEF Succeeded, Op

(* The operation a push goes on as.                                        *)
LEMMA PlanType ==
  ASSUME TypeOK, NEW c \in Clients, NEW local \in Entries, NEW hashes \in Entries,
         NEW attempt \in 0..MaxConflictRetries, Plan(c, local, hashes, attempt)
  PROVE  op' \in [Clients -> Op]
<1>1. Delta(local, hashes) \subseteq Keys
  BY PresentKeys DEF Delta
<1>2. [Rest EXCEPT !.stage = "put", !.local = local,
                   !.todo = Delta(local, hashes), !.attempt = attempt] \in Op
  BY <1>1, RestType DEF Op
<1> QED BY <1>2, SucceededType DEF Plan, TypeOK

(* Every step keeps the types.                                             *)
LEMMA TypesKept ==
  ASSUME TypeOK, ProbesInBudget, [Next]_vars
  PROVE  TypeOK'
<1>. USE DEF TypeOK, session, counters, history
<1>1. ASSUME NEW c \in Clients, NEW k \in Keys, Edit(c, k)
      PROVE  TypeOK'
  BY <1>1, FreshContent DEF Edit, Entries
<1>2. ASSUME NEW c \in Clients, NEW k \in Keys, WriteKey(c, k)
      PROVE  TypeOK'
  <2>. DEFINE rest == op[c].todo \ {k}
  <2>1. op[c] \in Op /\ op[c].local[k] \in Content
    BY DEF Op, Entries
  <2>2. [op[c] EXCEPT !.todo = rest] \in Op /\ [Rest EXCEPT !.stage = "read"] \in Op
    BY <2>1, RestType DEF Op
  <2>3. op' \in [Clients -> Op]
    BY <1>2, <2>2, RestType DEF WriteKey
  <2>4. disk' \in [Clients -> Entries] /\ base' \in [Clients -> Entries]
    BY <1>2, <2>1 DEF WriteKey, Entries
  <2> QED BY <1>2, <2>3, <2>4 DEF WriteKey
<1>3. ASSUME NEW c \in Clients, EndSession(c)
      PROVE  TypeOK'
  BY <1>3, RestType DEF EndSession, NoEntries, Entries, Content, None
<1>4. ASSUME NEW c \in Clients, NEW push \in BOOLEAN, PullEntries(c, push)
      PROVE  TypeOK'
  <2>1. [Rest EXCEPT !.stage = "write", !.local = server,
                     !.todo = Present(server), !.push = push] \in Op
    BY RestType, PresentKeys DEF Op
  <2> QED BY <1>4, <2>1 DEF PullEntries
<1>5. ASSUME NEW c \in Clients, NEW push \in BOOLEAN, PullNothing(c, push)
      PROVE  TypeOK'
  <2>1. [Rest EXCEPT !.stage = "read"] \in Op
    BY RestType DEF Op
  <2>2. NoEntries \in Entries
    BY DEF NoEntries, Entries, Content, None
  <2> QED BY <1>5, <2>1, <2>2, RestType DEF PullNothing
<1>6. ASSUME NEW c \in Clients, NEW push \in BOOLEAN, PullFails(c, push)
      PROVE  TypeOK'
  BY <1>6, RestType DEF PullFails, Fault
<1>7. ASSUME NEW c \in Clients, StartPush(c)
      PROVE  TypeOK'
  <2>1. op' \in [Clients -> Op]
    BY <1>7, PlanType, SyncAssumption DEF SyncAssumption, StartPush
  <2> QED BY <1>7, <2>1 DEF StartPush
<1>8. ASSUME NEW c \in Clients, Upsert(c)
      PROVE  /\ server' \in Entries
             /\ onServer' \in [Keys -> SUBSET Content]
             /\ Merged(c) \in Entries
             /\ op[c].local \in Entries
  <2>1. op[c].local \in Entries
    BY DEF Op
  <2>2. Merged(c) \in Entries
    BY <2>1, SentType DEF Merged
  <2> QED BY <1>8, <2>1, <2>2 DEF Upsert, Entries
<1>9. ASSUME NEW c \in Clients, PutAccepted(c)
      PROVE  TypeOK'
  <2>1. Upsert(c)
    BY <1>9 DEF PutAccepted
  <2>2. [op[c] EXCEPT !.todo = @ \ Batch(c)] \in Op
    BY DEF Op
  <2>3. op' \in [Clients -> Op]
    BY <1>8, <1>9, <2>1, <2>2, SucceededType DEF PutAccepted
  <2>4. Sent(c, known[c]) \in Entries /\ Sent(c, base[c]) \in Entries
    BY <1>8, <2>1, SentType
  <2> QED BY <1>8, <1>9, <2>1, <2>3, <2>4 DEF PutAccepted
<1>10. ASSUME NEW c \in Clients, PushEnds(c)
       PROVE  op' \in [Clients -> Op]
  BY <1>10, RestType DEF PushEnds
<1>11. ASSUME NEW c \in Clients, PutFails(c)
       PROVE  TypeOK'
  <2>1. op' \in [Clients -> Op]
    BY <1>10, <1>11 DEF PutFails
  <2> QED BY <1>11, <2>1 DEF PutFails, PushEnds, Fault
<1>12. ASSUME NEW c \in Clients, PutReplyLost(c)
       PROVE  TypeOK'
  <2>1. op' \in [Clients -> Op] /\ Upsert(c)
    BY <1>10, <1>12 DEF PutReplyLost
  <2> QED BY <1>8, <1>12, <2>1 DEF PutReplyLost, PushEnds, Fault
<1>13. ASSUME NEW c \in Clients, PutConflict(c)
       PROVE  TypeOK'
  <2>1. op' \in [Clients -> Op]
    <3>1. CASE PushEnds(c)
      BY <1>10, <3>1
    <3>2. CASE op' = [op EXCEPT ![c].stage = "probe", ![c].todo = {}]
      <4>1. op[c] \in Op
        OBVIOUS
      <4>2. [op[c] EXCEPT !.stage = "probe", !.todo = {}] \in Op
        BY <4>1 DEF Op
      <4>3. op' = [op EXCEPT ![c] = [op[c] EXCEPT !.stage = "probe", !.todo = {}]]
        BY <3>2, Zenon
      <4> HIDE DEF TypeOK
      <4> QED BY <4>2, <4>3 DEF TypeOK
    <3> QED BY <1>13, <3>1, <3>2 DEF PutConflict
  <2> QED BY <1>13, <2>1 DEF PutConflict, PushEnds
<1>14. ASSUME NEW c \in Clients, Probe(c)
       PROVE  TypeOK'
  <2>1. op[c].local \in Entries /\ op[c].attempt \in 0..MaxConflictRetries
    BY DEF Op
  <2>2. op[c].attempt + 1 \in 0..MaxConflictRetries
    BY <1>14, <2>1, SyncAssumption DEF SyncAssumption, Probe, ProbesInBudget
  <2>3. op' \in [Clients -> Op]
    BY <1>14, <2>1, <2>2, PlanType DEF Probe
  <2> QED BY <1>14, <2>3 DEF Probe
<1>15. ASSUME NEW c \in Clients, ProbeFails(c)
       PROVE  TypeOK'
  <2>1. op' \in [Clients -> Op]
    BY <1>10, <1>15 DEF ProbeFails
  <2> QED BY <1>15, <2>1 DEF ProbeFails, PushEnds, Fault
<1>16. CASE UNCHANGED vars
  BY <1>16 DEF vars
<1> QED BY <1>1, <1>2, <1>3, <1>4, <1>5, <1>6, <1>7, <1>9, <1>11, <1>12,
           <1>13, <1>14, <1>15, <1>16 DEF Next, Pull

-----------------------------------------------------------------------------
(* What was there                                                          *)

(* The part of the invariant that is about one session.                    *)
Sound(c) ==
  /\ op[c].stage = "probe" => op[c].attempt < MaxConflictRetries
  /\ op[c].stage = "put" =>
       \A k \in Present(op[c].local) \ op[c].todo : op[c].local[k] \in onServer[k]
  /\ \A k \in Keys : known[c][k] # None => known[c][k] \in onServer[k]
  /\ op[c].ok =>
       /\ op[c].stage = "idle"
       /\ \A k \in Present(op[c].local) : op[c].local[k] \in onServer[k]

LEMMA InvariantBySession ==
  SyncInvariant <=> TypeOK /\ ServerWasThere /\ \A c \in Clients : Sound(c)
BY DEF SyncInvariant, Sound, ProbesInBudget, ReportsAtRest, Resting, LeftOutWasThere,
       KnownWasThere, DeliveredIsThere

(* A session that stands still stays sound while the server's past grows.  *)
LEMMA StaysSound ==
  ASSUME NEW d \in Clients, Sound(d), op'[d] = op[d], known'[d] = known[d],
         \A k \in Keys : onServer[k] \subseteq onServer'[k]
  PROVE  Sound(d)'
BY DEF Sound, Present

(* So does one whose operation ends with nothing to report.                *)
LEMMA RestIsSound ==
  ASSUME NEW d \in Clients, op'[d] = Rest, Sound(d), known'[d] = known[d],
         \A k \in Keys : onServer[k] \subseteq onServer'[k]
  PROVE  Sound(d)'
BY DEF Sound, Rest

(* A push planned against hashes that were there is sound.                 *)
LEMMA PlanIsSound ==
  ASSUME TypeOK, NEW c \in Clients, NEW local \in Entries, NEW attempt \in Nat,
         NEW hashes \in Entries, Plan(c, local, hashes, attempt),
         \A k \in Keys : hashes[k] # None => hashes[k] \in onServer[k],
         known'[c] = hashes, onServer' = onServer
  PROVE  Sound(c)'
<1>1. \A k \in Present(local) \ Delta(local, hashes) : local[k] \in onServer[k]
  BY DEF Present, Delta
<1>2. CASE Delta(local, hashes) = {}
  <2>1. op'[c] = Succeeded(local)
    BY <1>2 DEF Plan, TypeOK
  <2>2. op'[c].ok /\ op'[c].local = local /\ op'[c].stage = "idle"
    BY <2>1 DEF Succeeded, Rest
  <2> QED BY <1>1, <1>2, <2>2 DEF Sound, Present
<1>3. CASE Delta(local, hashes) # {}
  <2>1. op'[c] = [Rest EXCEPT !.stage = "put", !.local = local,
                              !.todo = Delta(local, hashes), !.attempt = attempt]
    BY <1>3 DEF Plan, TypeOK
  <2>2. /\ op'[c].stage = "put"
        /\ op'[c].local = local
        /\ op'[c].todo = Delta(local, hashes)
        /\ ~op'[c].ok
    BY <2>1 DEF Rest
  <2> QED BY <1>1, <2>2 DEF Sound, Present
<1> QED BY <1>2, <1>3

(* A stored batch adds to the server's past.                               *)
LEMMA UpsertGrows ==
  ASSUME TypeOK, NEW c \in Clients, Upsert(c)
  PROVE  /\ \A k \in Keys : onServer[k] \subseteq onServer'[k]
         /\ ServerWasThere'
         /\ \A k \in Batch(c) \cap Keys : op[c].local[k] \in onServer'[k]
BY DEF Upsert, Merged, Sent, ServerWasThere, TypeOK

(* An action of one session leaves the others sound.                       *)
LEMMA OthersSound ==
  ASSUME NEW c \in Clients, Sound(c)', \A d \in Clients : Sound(d),
         \A d \in Clients \ {c} : op'[d] = op[d] /\ known'[d] = known[d],
         \A k \in Keys : onServer[k] \subseteq onServer'[k]
  PROVE  \A d \in Clients : Sound(d)'
BY StaysSound

(* Every step keeps the server's past true, and each session sound.        *)
LEMMA SoundnessKept ==
  ASSUME SyncInvariant, [Next]_vars
  PROVE  ServerWasThere' /\ \A c \in Clients : Sound(c)'
<1>1. TypeOK /\ ServerWasThere /\ \A c \in Clients : Sound(c)
  BY InvariantBySession
<1>. USE DEF session, counters, history
<1>. DEFINE Kept == ServerWasThere' /\ \A c \in Clients : Sound(c)'
<1>2. ASSUME UNCHANGED <<server, onServer>>
      PROVE  ServerWasThere' /\ \A k \in Keys : onServer[k] \subseteq onServer'[k]
  BY <1>1, <1>2 DEF ServerWasThere
<1>3. ASSUME UNCHANGED <<server, onServer, known, op>>
      PROVE  Kept
  BY <1>1, <1>2, <1>3, StaysSound
<1>4. ASSUME NEW c \in Clients, NEW k \in Keys, WriteKey(c, k)
      PROVE  Kept
  <2>1. UNCHANGED <<server, onServer, known>>
    BY <1>4 DEF WriteKey
  <2>2. op'[c].stage \in {"idle", "read", "write"} /\ ~op'[c].ok
    <3>1. op[c].stage = "write" /\ op[c] \in Op
      BY <1>1, <1>4 DEF WriteKey, TypeOK
    <3>2. ~op[c].ok
      BY <1>1, <3>1 DEF Sound
    <3> QED BY <1>1, <1>4, <3>1, <3>2 DEF WriteKey, TypeOK, Op, Rest
  <2>3. Sound(c)'
    BY <1>1, <2>1, <2>2 DEF Sound
  <2>4. \A d \in Clients \ {c} : op'[d] = op[d]
    BY <1>1, <1>4 DEF WriteKey, TypeOK
  <2> QED BY <1>1, <1>2, <2>1, <2>3, <2>4, OthersSound
<1>5. ASSUME NEW c \in Clients, NEW push \in BOOLEAN, PullEntries(c, push)
      PROVE  Kept
  <2>1. /\ UNCHANGED <<server, onServer>>
        /\ known'[c] = server
        /\ \A d \in Clients \ {c} : op'[d] = op[d] /\ known'[d] = known[d]
    BY <1>1, <1>5 DEF PullEntries, TypeOK
  <2>2. op'[c].stage = "write" /\ ~op'[c].ok
    BY <1>1, <1>5 DEF PullEntries, TypeOK, Rest
  <2>3. Sound(c)'
    BY <1>1, <2>1, <2>2 DEF Sound, ServerWasThere
  <2> QED BY <1>1, <1>2, <2>1, <2>3, OthersSound
<1>6. ASSUME NEW c \in Clients, NEW push \in BOOLEAN, PullNothing(c, push)
      PROVE  Kept
  <2>1. /\ UNCHANGED <<server, onServer>>
        /\ known'[c] = NoEntries
        /\ \A d \in Clients \ {c} : op'[d] = op[d] /\ known'[d] = known[d]
    BY <1>1, <1>6 DEF PullNothing, TypeOK
  <2>2. op'[c].stage \in {"idle", "read"} /\ ~op'[c].ok
    BY <1>1, <1>6 DEF PullNothing, TypeOK, Rest
  <2>3. Sound(c)'
    BY <2>1, <2>2 DEF Sound, NoEntries
  <2> QED BY <1>1, <1>2, <2>1, <2>3, OthersSound
<1>7. ASSUME NEW c \in Clients, op' = [op EXCEPT ![c] = Rest],
             UNCHANGED <<server, onServer, known>>
      PROVE  Kept
  <2>1. op'[c] = Rest /\ \A d \in Clients \ {c} : op'[d] = op[d]
    BY <1>1, <1>7 DEF TypeOK
  <2> QED BY <1>1, <1>2, <1>7, <2>1, RestIsSound, OthersSound
<1>8. ASSUME NEW c \in Clients, EndSession(c)
      PROVE  Kept
  <2>1. /\ UNCHANGED <<server, onServer>>
        /\ known'[c] = NoEntries
        /\ op'[c] = Rest
        /\ \A d \in Clients \ {c} : op'[d] = op[d] /\ known'[d] = known[d]
    BY <1>1, <1>8 DEF EndSession, TypeOK
  <2>2. Sound(c)'
    BY <2>1 DEF Sound, NoEntries, Rest
  <2> QED BY <1>1, <1>2, <2>1, <2>2, OthersSound
<1>9. ASSUME NEW c \in Clients, NEW local \in Entries, NEW hashes \in Entries,
             NEW attempt \in Nat, Plan(c, local, hashes, attempt),
             \A k \in Keys : hashes[k] # None => hashes[k] \in onServer[k],
             known' = [known EXCEPT ![c] = hashes], UNCHANGED <<server, onServer>>
      PROVE  Kept
  <2>1. /\ known'[c] = hashes
        /\ \A d \in Clients \ {c} : op'[d] = op[d] /\ known'[d] = known[d]
    BY <1>1, <1>9 DEF Plan, TypeOK
  <2>2. Sound(c)'
    BY <1>1, <1>9, <2>1, PlanIsSound
  <2> QED BY <1>1, <1>2, <1>9, <2>1, <2>2, OthersSound
<1>10. ASSUME NEW c \in Clients, StartPush(c)
       PROVE  Kept
  <2>1. disk[c] \in Entries /\ known[c] \in Entries /\ known = [known EXCEPT ![c] = known[c]]
    BY <1>1 DEF TypeOK
  <2>2. \A k \in Keys : known[c][k] # None => known[c][k] \in onServer[k]
    BY <1>1 DEF Sound
  <2>3. Plan(c, disk[c], known[c], 0) /\ UNCHANGED <<server, onServer, known>>
    BY <1>10 DEF StartPush
  <2> QED BY <1>9, <2>1, <2>2, <2>3
<1>11. ASSUME NEW c \in Clients, Probe(c)
       PROVE  Kept
  <2>1. server \in Entries /\ op[c].local \in Entries /\ op[c].attempt + 1 \in Nat
    BY <1>1, SyncAssumption DEF SyncAssumption, TypeOK, Op
  <2>2. \A k \in Keys : server[k] # None => server[k] \in onServer[k]
    BY <1>1 DEF ServerWasThere
  <2>3. /\ Plan(c, op[c].local, server, op[c].attempt + 1)
        /\ known' = [known EXCEPT ![c] = server]
        /\ UNCHANGED <<server, onServer>>
    BY <1>11 DEF Probe
  <2> QED BY <1>9, <2>1, <2>2, <2>3
<1>12. ASSUME NEW c \in Clients, PutAccepted(c)
       PROVE  Kept
  <2>1. Upsert(c) /\ op[c].stage = "put"
    BY <1>12 DEF PutAccepted, Upsert
  <2>2. /\ \A k \in Keys : onServer[k] \subseteq onServer'[k]
        /\ ServerWasThere'
        /\ \A k \in Batch(c) \cap Keys : op[c].local[k] \in onServer'[k]
    BY <1>1, <2>1, UpsertGrows
  <2>3. /\ known'[c] = Sent(c, known[c])
        /\ \A d \in Clients \ {c} : op'[d] = op[d] /\ known'[d] = known[d]
    BY <1>1, <1>12 DEF PutAccepted, TypeOK
  <2>4. \A k \in Keys : known'[c][k] # None => known'[c][k] \in onServer'[k]
    BY <1>1, <2>2, <2>3 DEF Sent, Sound
  <2>5. \A k \in Present(op[c].local) \ (op[c].todo \ Batch(c)) :
          op[c].local[k] \in onServer'[k]
    BY <1>1, <2>1, <2>2 DEF Sound, Present
  <2>6. CASE op[c].todo = Batch(c)
    <3>1. op'[c] = Succeeded(op[c].local)
      BY <1>1, <1>12, <2>6 DEF PutAccepted, TypeOK
    <3>2. op'[c].local = op[c].local /\ op'[c].stage = "idle"
      BY <3>1 DEF Succeeded, Rest
    <3> QED BY <1>1, <2>2, <2>3, <2>4, <2>5, <2>6, <3>2, OthersSound DEF Sound, Present
  <2>7. CASE op[c].todo # Batch(c)
    <3>1. op'[c] = [op[c] EXCEPT !.todo = @ \ Batch(c)] /\ op[c] \in Op
      BY <1>1, <1>12, <2>7 DEF PutAccepted, TypeOK
    <3>2. /\ op'[c].local = op[c].local
          /\ op'[c].stage = "put"
          /\ op'[c].todo = op[c].todo \ Batch(c)
          /\ op'[c].ok = op[c].ok
      BY <2>1, <3>1 DEF Op
    <3>3. ~op'[c].ok
      BY <1>1, <2>1, <3>2 DEF Sound
    <3> QED BY <1>1, <2>2, <2>3, <2>4, <2>5, <3>2, <3>3, OthersSound DEF Sound, Present
  <2> QED BY <2>6, <2>7
<1>13. ASSUME NEW c \in Clients, PutReplyLost(c)
       PROVE  Kept
  <2>1. \A k \in Keys : onServer[k] \subseteq onServer'[k]
    BY <1>1, <1>13, UpsertGrows DEF PutReplyLost
  <2>2. ServerWasThere'
    BY <1>1, <1>13, UpsertGrows DEF PutReplyLost
  <2>3. op'[c] = Rest /\ known' = known /\ \A d \in Clients \ {c} : op'[d] = op[d]
    BY <1>1, <1>13 DEF PutReplyLost, PushEnds, TypeOK
  <2> QED BY <1>1, <2>1, <2>2, <2>3, RestIsSound, OthersSound
<1>14. ASSUME NEW c \in Clients, PutConflict(c), ~PushEnds(c)
       PROVE  Kept
  <2>1. /\ op[c].attempt < MaxConflictRetries
        /\ op[c].stage = "put"
        /\ op' = [op EXCEPT ![c].stage = "probe", ![c].todo = {}]
        /\ UNCHANGED <<server, onServer, known>>
    BY <1>14 DEF PutConflict
  <2>2. op[c] \in Op /\ ~op[c].ok
    BY <1>1, <2>1 DEF TypeOK, Sound
  <2>3. /\ op'[c].stage = "probe"
        /\ op'[c].attempt = op[c].attempt
        /\ op'[c].ok = op[c].ok
        /\ \A d \in Clients \ {c} : op'[d] = op[d]
    BY <1>1, <2>1, <2>2 DEF TypeOK, Op
  <2>4. Sound(c)'
    BY <1>1, <2>1, <2>2, <2>3 DEF Sound
  <2> QED BY <1>1, <1>2, <2>1, <2>3, <2>4, OthersSound
<1>15. ASSUME NEW c \in Clients, PutConflict(c)
       PROVE  Kept
  BY <1>7, <1>14, <1>15 DEF PutConflict, PushEnds
<1>16. ASSUME NEW c \in Clients, PutFails(c) \/ ProbeFails(c)
       PROVE  Kept
  BY <1>7, <1>16 DEF PutFails, ProbeFails, PushEnds
<1>17. ASSUME NEW c \in Clients, NEW push \in BOOLEAN, PullFails(c, push)
       PROVE  Kept
  BY <1>7, <1>17 DEF PullFails
<1>18. ASSUME NEW c \in Clients, NEW k \in Keys, Edit(c, k)
       PROVE  Kept
  BY <1>3, <1>18 DEF Edit
<1>19. CASE UNCHANGED vars
  BY <1>3, <1>19 DEF vars
<1> QED BY <1>4, <1>5, <1>6, <1>8, <1>10, <1>11, <1>12, <1>13, <1>15, <1>16,
           <1>17, <1>18, <1>19 DEF Next, Pull

-----------------------------------------------------------------------------
(* Why hashes are never wrong under a current checksum: with the checksum  *)
(* a session keeps, the hashes it keeps beside it are right or missing.    *)
HashesAgree ==
  \A c \in Clients :
    /\ tag[c] = NoTag => known[c] = NoEntries
    /\ tag[c] # NoTag => \A k \in Keys : known[c][k] \in {None, tag[c][k]}

LEMMA AgreementKept ==
  ASSUME TypeOK, HashesAgree, [Next]_vars
  PROVE  HashesAgree'
<1>. USE DEF session, counters, history
<1>. DEFINE Agrees(c) == /\ tag[c] = NoTag => known[c] = NoEntries
                         /\ tag[c] # NoTag => \A k \in Keys : known[c][k] \in {None, tag[c][k]}
<1>1. \A c \in Clients : Agrees(c)
  BY DEF HashesAgree
<1>2. server \in Entries /\ server # NoTag
  BY SyncAssumption DEF SyncAssumption, TypeOK, Entries
<1>3. ASSUME UNCHANGED <<tag, known>>
      PROVE  HashesAgree'
  BY <1>3 DEF HashesAgree
<1>4. ASSUME NEW c \in Clients, NEW t, NEW hashes,
             tag' = [tag EXCEPT ![c] = t], known' = [known EXCEPT ![c] = hashes],
             t = NoTag => hashes = NoEntries,
             t # NoTag => \A k \in Keys : hashes[k] \in {None, t[k]}
      PROVE  HashesAgree'
  <2>1. tag'[c] = t /\ known'[c] = hashes
    BY <1>4 DEF TypeOK
  <2>2. \A d \in Clients \ {c} : tag'[d] = tag[d] /\ known'[d] = known[d]
    BY <1>4 DEF TypeOK
  <2> QED BY <1>1, <1>4, <2>1, <2>2 DEF HashesAgree
<1>5. ASSUME NEW c \in Clients, NEW push \in BOOLEAN, PullEntries(c, push)
      PROVE  HashesAgree'
  BY <1>2, <1>4, <1>5 DEF PullEntries
<1>6. ASSUME NEW c \in Clients, NEW push \in BOOLEAN, PullNothing(c, push)
      PROVE  HashesAgree'
  BY <1>4, <1>6 DEF PullNothing
<1>7. ASSUME NEW c \in Clients, EndSession(c)
      PROVE  HashesAgree'
  BY <1>4, <1>7 DEF EndSession
<1>8. ASSUME NEW c \in Clients, Probe(c)
      PROVE  HashesAgree'
  BY <1>2, <1>4, <1>8 DEF Probe
<1>9. ASSUME NEW c \in Clients, PutAccepted(c)
      PROVE  HashesAgree'
  <2>1. /\ Matches(c)
        /\ tag' = [tag EXCEPT ![c] = Merged(c)]
        /\ known' = [known EXCEPT ![c] = Sent(c, known[c])]
    BY <1>9 DEF PutAccepted, Upsert
  <2>2. \A k \in Keys : known[c][k] \in {None, server[k]}
    BY <1>1, <2>1 DEF Matches, NoEntries
  <2>3. \A k \in Keys : Sent(c, known[c])[k] \in {None, Merged(c)[k]}
    BY <2>2 DEF Sent, Merged
  <2>4. Merged(c) # NoTag
    <3>1. Merged(c) \in Entries
      BY SentType, <1>2 DEF Merged, TypeOK, Op
    <3> QED BY <3>1, SyncAssumption DEF SyncAssumption, Entries
  <2> QED BY <1>4, <2>1, <2>3, <2>4
<1>10. ASSUME NEW c \in Clients,
              \/ StartPush(c) \/ PutFails(c) \/ PutReplyLost(c)
              \/ PutConflict(c) \/ ProbeFails(c)
       PROVE  HashesAgree'
  BY <1>3, <1>10 DEF StartPush, PutFails, PutReplyLost, PutConflict, ProbeFails, PushEnds
<1>11. ASSUME NEW c \in Clients, NEW push \in BOOLEAN, PullFails(c, push)
       PROVE  HashesAgree'
  BY <1>3, <1>11 DEF PullFails
<1>12. ASSUME NEW c \in Clients, NEW k \in Keys, Edit(c, k) \/ WriteKey(c, k)
       PROVE  HashesAgree'
  BY <1>3, <1>12 DEF Edit, WriteKey
<1>13. CASE UNCHANGED vars
  BY <1>3, <1>13 DEF vars
<1> QED BY <1>5, <1>6, <1>7, <1>8, <1>9, <1>10, <1>11, <1>12, <1>13 DEF Next, Pull

-----------------------------------------------------------------------------
(* The theorems                                                            *)

LEMMA InvariantInit == Init => SyncInvariant
<1>. SUFFICES ASSUME Init
              PROVE  SyncInvariant
  OBVIOUS
<1>1. TypeOK
  BY RestType, SyncAssumption
     DEF SyncAssumption, Init, TypeOK, NoEntries, Entries, Content, None
<1>2. ServerWasThere
  BY DEF Init, ServerWasThere
<1>3. \A c \in Clients : Sound(c)
  BY DEF Init, Sound, Rest, NoEntries
<1> QED BY <1>1, <1>2, <1>3, InvariantBySession

LEMMA InvariantKept == SyncInvariant /\ [Next]_vars => SyncInvariant'
<1>. SUFFICES ASSUME SyncInvariant, [Next]_vars
              PROVE  SyncInvariant'
  OBVIOUS
<1>1. TypeOK'
  BY TypesKept DEF SyncInvariant
<1>2. ServerWasThere' /\ \A c \in Clients : Sound(c)'
  BY SoundnessKept
<1> QED BY <1>1, <1>2
        DEF SyncInvariant, Sound, ProbesInBudget, ReportsAtRest, Resting,
            LeftOutWasThere, KnownWasThere, DeliveredIsThere

LEMMA InvariantAlways == Spec => []SyncInvariant
BY InvariantInit, InvariantKept, PTL DEF Spec

(* Type correctness; with it no push retries a conflict more often than    *)
(* MAX_CONFLICT_RETRIES.                                                   *)
THEOREM TypeCorrect == Spec => []TypeOK
<1>1. SyncInvariant => TypeOK
  BY DEF SyncInvariant
<1> QED BY <1>1, InvariantAlways, PTL

(* serverChecksums is never ahead of the server: what a session believes   *)
(* it holds it has held, over batches, lost answers, conflicts and probes. *)
THEOREM KnownIsPast == Spec => []KnownWasThere
<1>1. SyncInvariant => KnownWasThere
  BY DEF SyncInvariant
<1> QED BY <1>1, InvariantAlways, PTL

(* A push that reports success has delivered every file it read.           *)
THEOREM SuccessIsDelivery == Spec => []DeliveredIsThere
<1>1. SyncInvariant => DeliveredIsThere
  BY DEF SyncInvariant
<1> QED BY <1>1, InvariantAlways, PTL

(* A push whose checksum the server accepts leaves out of its delta only   *)
(* what the server holds: no hash it was computed from is wrong.           *)
THEOREM ChecksumsAreHonest == Spec => []ChecksumImpliesHashes
<1>1. Init => HashesAgree
  BY DEF Init, HashesAgree
<1>2. TypeOK /\ HashesAgree /\ [Next]_vars => HashesAgree'
  BY AgreementKept
<1>3. TypeOK /\ HashesAgree => ChecksumImpliesHashes
  BY SyncAssumption DEF SyncAssumption, HashesAgree, ChecksumImpliesHashes, TypeOK, Entries
<1> QED BY <1>1, <1>2, <1>3, TypeCorrect, PTL DEF Spec
=============================================================================
