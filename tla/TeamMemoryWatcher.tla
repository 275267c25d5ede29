-------------------------- MODULE TeamMemoryWatcher --------------------------
(***************************************************************************)
(* The watcher of the team memory directory (memory/team-sync/watcher.ts): *)
(* file events and hooks arm a debounce timer, the timer starts a push,    *)
(* stopping awaits the push in flight and flushes.                         *)
(*                                                                         *)
(* A version counts the writes to the directory so far.  A push is what    *)
(* TeamMemorySync shows of one: it reads the directory once, and when it   *)
(* reports success the server has had what it read.  pushInProgress and    *)
(* currentPushPromise are set and reset together with push["timer"].       *)
(* The session starts after its initial pull; the test hooks are left out. *)
(*                                                                         *)
(* Bounds: MaxWrites writes, MaxEvents deletions and hook calls together,  *)
(* MaxFaults failing pushes.                                               *)
(***************************************************************************)
EXTENDS Naturals

CONSTANTS
  MaxWrites, MaxEvents, MaxFaults,
  Off, Unread   \* no push; a push that has not read the directory yet

Versions == 0..MaxWrites

ASSUME WatcherAssumption ==
  /\ MaxWrites \in Nat
  /\ MaxEvents \in Nat
  /\ MaxFaults \in Nat
  /\ {Off, Unread} \cap Versions = {}
  /\ Off # Unread

VARIABLES
  disk,        \* version of the directory
  unseen,      \* kinds of file events not delivered yet
  timer,       \* debounceTimer is armed
  pending,     \* hasPendingChanges
  suppressed,  \* pushSuppressedReason is set
  push,        \* the push of the timer, and the one of the final flush
  stage,       \* how far stopTeamMemoryWatcher is
  events, faults,
  noted,       \* history: version when a push was last scheduled
  delivered,   \* history: newest version the server has had
  spoiled,     \* history: version when a push last failed
  retries      \* history: pushes started since suppressed

vars == <<disk, unseen, timer, pending, suppressed, push, stage, events,
          faults, noted, delivered, spoiled, retries>>

TypeOK ==
  /\ disk \in Versions
  /\ unseen \subseteq {"write", "unlink"}
  /\ timer \in BOOLEAN
  /\ pending \in BOOLEAN
  /\ suppressed \in BOOLEAN
  /\ push \in [{"timer", "flush"} -> Versions \cup {Off, Unread}]
  /\ stage \in {"live", "awaiting", "flushing", "stopped"}
  /\ events \in 0..MaxEvents
  /\ faults \in 0..MaxFaults
  /\ noted \in Versions
  /\ delivered \in Versions
  /\ spoiled \in Versions
  /\ retries \in Nat
  /\ stage = "awaiting" => push["timer"] # Off
  /\ stage = "flushing" <=> push["flush"] # Off

Init ==
  /\ disk = 0
  /\ unseen = {}
  /\ timer = FALSE
  /\ pending = FALSE
  /\ suppressed = FALSE
  /\ push = [s \in {"timer", "flush"} |-> Off]
  /\ stage = "live"
  /\ events = 0
  /\ faults = 0
  /\ noted = 0
  /\ delivered = 0
  /\ spoiled = 0
  /\ retries = 0

-----------------------------------------------------------------------------
(* The user, an agent or another session changes the directory.            *)
Write ==
  /\ disk < MaxWrites
  /\ disk' = disk + 1
  /\ unseen' = IF stage = "live" THEN unseen \cup {"write"} ELSE unseen
  /\ UNCHANGED <<timer, pending, suppressed, push, stage, events, faults,
                 noted, delivered, spoiled, retries>>

Event == events < MaxEvents /\ events' = events + 1

Unlink ==
  /\ Event
  /\ stage = "live"
  /\ unseen' = unseen \cup {"unlink"}
  /\ UNCHANGED <<disk, timer, pending, suppressed, push, stage, faults,
                 noted, delivered, spoiled, retries>>

(* schedulePush, with pushSuppressedReason set or not.                     *)
SchedulePush(reason) ==
  IF reason
  THEN UNCHANGED <<timer, pending, noted>>
  ELSE /\ timer' = TRUE
       /\ pending' = TRUE
       /\ noted' = disk

(* The callback of fs.watch: a deletion lifts the suppression.             *)
Notice(kind) ==
  /\ kind \in unseen
  /\ unseen' = unseen \ {kind}
  /\ suppressed' = (suppressed /\ kind # "unlink")
  /\ retries' = IF suppressed' THEN retries ELSE 0
  /\ SchedulePush(suppressed')
  /\ UNCHANGED <<disk, push, stage, events, faults, delivered, spoiled>>

(* notifyTeamMemoryWrite.                                                  *)
Notify ==
  /\ Event
  /\ SchedulePush(suppressed)
  /\ UNCHANGED <<disk, unseen, suppressed, push, stage, faults, delivered,
                 spoiled, retries>>

(* Slip: a timer that finds a push under way is forgotten.                 *)
TimerFiresOnce ==
  /\ timer
  /\ timer' = FALSE
  /\ push' = [push EXCEPT !["timer"] = IF @ = Off THEN Unread ELSE @]
  /\ retries' = IF suppressed /\ push["timer"] = Off THEN retries + 1 ELSE retries
  /\ UNCHANGED <<disk, unseen, pending, suppressed, stage, events, faults,
                 noted, delivered, spoiled>>

TimerFires ==
  /\ timer
  /\ \/ /\ push["timer"] # Off
        /\ pending' = (pending \/ ~suppressed)
        /\ timer' = ~suppressed
        /\ noted' = IF suppressed THEN noted ELSE disk
        /\ UNCHANGED <<push, retries>>
     \/ /\ push["timer"] = Off
        /\ timer' = FALSE
        /\ push' = [push EXCEPT !["timer"] = Unread]
        /\ retries' = IF suppressed THEN retries + 1 ELSE retries
        /\ UNCHANGED <<pending, noted>>
  /\ UNCHANGED <<disk, unseen, suppressed, stage, events, faults, delivered,
                 spoiled>>

PushReads(s) ==
  /\ push[s] = Unread
  /\ push' = [push EXCEPT ![s] = disk]
  /\ UNCHANGED <<disk, unseen, timer, pending, suppressed, stage, events,
                 faults, noted, delivered, spoiled, retries>>

-----------------------------------------------------------------------------
(* stopTeamMemoryWatcher from where the timer's push is over.              *)
Flush(wanted) ==
  /\ stage' = IF wanted THEN "flushing" ELSE "stopped"
  /\ push' = [push EXCEPT !["timer"] = Off,
                          !["flush"] = IF wanted THEN Unread ELSE Off]

Stop ==
  /\ stage = "live"
  /\ timer' = FALSE
  /\ unseen' = {}
  /\ IF push["timer"] # Off
     THEN stage' = "awaiting" /\ UNCHANGED push
     ELSE Flush(pending /\ ~suppressed)
  /\ UNCHANGED <<disk, pending, suppressed, events, faults, noted, delivered,
                 spoiled, retries>>

(* Slip: nobody goes on when the push is over.                             *)
SettleAlone(s) == push' = [push EXCEPT ![s] = Off] /\ UNCHANGED stage

(* The push is over: whoever waits for it goes on.                         *)
Settle(s) ==
  IF s = "timer" /\ stage = "awaiting"
  THEN Flush(pending' /\ ~suppressed')
  ELSE /\ push' = [push EXCEPT ![s] = Off]
       /\ stage' = IF s = "flush" THEN "stopped" ELSE stage

Read(s) == push[s] \in Versions

Newer(v, w) == IF v < w THEN w ELSE v

PushSucceeds(s) ==
  /\ Read(s)
  /\ delivered' = Newer(delivered, push[s])
  /\ pending' = (pending /\ s = "flush")
  /\ UNCHANGED suppressed
  /\ Settle(s)
  /\ UNCHANGED <<disk, unseen, timer, events, faults, noted, spoiled, retries>>

(* Slip: a push that failed is tried again.                                *)
PushFailsAgain(s, permanent) ==
  /\ Read(s)
  /\ faults < MaxFaults
  /\ faults' = faults + 1
  /\ spoiled' = disk
  /\ suppressed' = (suppressed \/ (permanent /\ s = "timer"))
  /\ timer' = TRUE
  /\ UNCHANGED pending
  /\ Settle(s)
  /\ UNCHANGED <<disk, unseen, events, noted, delivered, retries>>

(* A failure may leave the files on the server all the same; only one that *)
(* no retry would heal suppresses further pushes.                          *)
PushFails(s, permanent) ==
  /\ Read(s)
  /\ faults < MaxFaults
  /\ faults' = faults + 1
  /\ spoiled' = disk
  /\ \/ UNCHANGED delivered
     \/ delivered' = Newer(delivered, push[s])
  /\ suppressed' = (suppressed \/ (permanent /\ s = "timer"))
  /\ UNCHANGED pending
  /\ Settle(s)
  /\ UNCHANGED <<disk, unseen, timer, events, noted, retries>>

Proceed ==
  \/ \E kind \in unseen : Notice(kind)
  \/ TimerFires
  \/ \E s \in {"timer", "flush"} : PushReads(s) \/ PushSucceeds(s)

Next ==
  \/ Write
  \/ Unlink
  \/ Notify
  \/ Stop
  \/ \E s \in {"timer", "flush"}, permanent \in BOOLEAN : PushFails(s, permanent)
  \/ Proceed

Spec == Init /\ [][Next]_vars

(* Events are delivered, timers fire and pushes settle.                    *)
FairSpec == Spec /\ WF_vars(Proceed)

-----------------------------------------------------------------------------
(* Of a live session's changes that a push was scheduled for, the newest   *)
(* is never forgotten: the server has had it, a timer is armed, a push     *)
(* under way carries it, or a push has failed since, for only the next     *)
(* change brings another push then.                                        *)
NothingForgotten ==
  stage = "live" =>
    \/ delivered >= noted
    \/ timer
    \/ push["timer"] = Unread
    \/ Read("timer") /\ push["timer"] >= noted
    \/ spoiled >= noted

(* A failure that no retry would heal is retried at most once, by a timer  *)
(* that was armed before it.                                               *)
SuppressedIsQuiet == retries <= 1

(* Liveness: every change of a live session comes to be on the server,     *)
(* unless a push fails after it or pushes are suppressed.                  *)
WritesAreDelivered ==
  \A v \in Versions :
    disk = v /\ stage = "live" ~>
      delivered >= v \/ spoiled >= v \/ suppressed \/ stage # "live"

=============================================================================
