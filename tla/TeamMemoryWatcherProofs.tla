------------------------ MODULE TeamMemoryWatcherProofs -----------------------
(***************************************************************************)
(* What TLAPS proves of TeamMemoryWatcher, for every number of writes,     *)
(* events and failing pushes.                                              *)
(***************************************************************************)
EXTENDS TeamMemoryWatcher, TLAPS

(* Scheduling looks at the directory as it is, and a push that runs while  *)
(* pushes are suppressed was the last a timer will start: whatever is      *)
(* armed under suppression was armed before it.                            *)
WatcherInvariant ==
  /\ TypeOK
  /\ noted <= disk
  /\ suppressed /\ push["timer"] # Off => ~timer
  /\ ~suppressed \/ timer => retries = 0
  /\ SuppressedIsQuiet
  /\ NothingForgotten

LEMMA InvariantInit == Init => WatcherInvariant
<1>. SUFFICES ASSUME Init
              PROVE  WatcherInvariant
  OBVIOUS
<1>1. 0 \in Versions
  BY WatcherAssumption DEF WatcherAssumption, Versions
<1>2. TypeOK
  <2>1. push["timer"] = Off /\ push["flush"] = Off /\ stage = "live"
    BY DEF Init
  <2>2. 0 \in 0..MaxEvents /\ 0 \in 0..MaxFaults
    BY WatcherAssumption DEF WatcherAssumption
  <2> QED BY <1>1, <2>1, <2>2 DEF Init, TypeOK
<1>3. NothingForgotten
  BY DEF Init, NothingForgotten
<1>4. /\ noted <= disk
      /\ suppressed /\ push["timer"] # Off => ~timer
      /\ ~suppressed \/ timer => retries = 0
      /\ SuppressedIsQuiet
  BY DEF Init, SuppressedIsQuiet
<1> QED BY <1>2, <1>3, <1>4 DEF WatcherInvariant

-----------------------------------------------------------------------------
LEMMA InvariantKept == WatcherInvariant /\ [Next]_vars => WatcherInvariant'
<1>. SUFFICES ASSUME WatcherInvariant, [Next]_vars
              PROVE  WatcherInvariant'
  OBVIOUS
<1>. USE WatcherAssumption
     DEF WatcherAssumption, WatcherInvariant, TypeOK, Versions, SuppressedIsQuiet,
         NothingForgotten, Read
<1>1. CASE Write
  BY <1>1 DEF Write
<1>2. CASE Unlink
  BY <1>2 DEF Unlink, Event
<1>3. CASE Notify
  <2>1. CASE suppressed
    BY <1>3, <2>1 DEF Notify, Event, SchedulePush
  <2>2. CASE ~suppressed
    <3>1. timer' = TRUE /\ pending' = TRUE /\ noted' = disk
      BY <1>3, <2>2 DEF Notify, SchedulePush
    <3> QED BY <1>3, <2>2, <3>1 DEF Notify, Event
  <2> QED BY <2>1, <2>2
<1>4. CASE Stop
  BY <1>4 DEF Stop, Flush
<1>5. ASSUME NEW kind \in unseen, Notice(kind)
      PROVE  WatcherInvariant'
  <2>1. CASE suppressed'
    <3>1. suppressed /\ UNCHANGED <<timer, pending, noted, retries>>
      BY <1>5, <2>1 DEF Notice, SchedulePush
    <3> QED BY <1>5, <2>1, <3>1 DEF Notice
  <2>2. CASE ~suppressed'
    <3>1. timer' = TRUE /\ pending' = TRUE /\ noted' = disk /\ retries' = 0
      BY <1>5, <2>2 DEF Notice, SchedulePush
    <3>2. suppressed' = FALSE
      BY <1>5, <2>2 DEF Notice
    <3> QED BY <1>5, <2>2, <3>1, <3>2 DEF Notice
  <2> QED BY <2>1, <2>2
<1>6. CASE TimerFires
  <2>1. CASE push["timer"] = Off
    <3>1. timer' = FALSE /\ noted' = noted /\ push' = [push EXCEPT !["timer"] = Unread]
      BY <1>6, <2>1 DEF TimerFires
    <3>2. push'["timer"] = Unread /\ push'["flush"] = push["flush"]
      BY <3>1
    <3>3. retries' \in {0, 1} /\ (~suppressed => retries' = 0)
      BY <1>6, <2>1 DEF TimerFires
    <3>4. TypeOK'
      <4>1. UNCHANGED <<disk, unseen, pending, suppressed, stage, events, faults,
                        noted, delivered, spoiled>>
        BY <1>6, <2>1 DEF TimerFires
      <4>2. push' \in [{"timer", "flush"} -> Versions \cup {Off, Unread}]
        BY <3>1
      <4>3. stage' = "awaiting" => push'["timer"] # Off
        BY <2>1, <4>1
      <4>4. stage' = "flushing" <=> push'["flush"] # Off
        BY <3>2, <4>1
      <4>5. retries' \in Nat
        BY <3>3
      <4>6. timer' \in BOOLEAN /\ pending' \in BOOLEAN /\ suppressed' \in BOOLEAN
        BY <3>1, <4>1
      <4>7. /\ disk' \in Versions /\ noted' \in Versions
            /\ delivered' \in Versions /\ spoiled' \in Versions
        BY <4>1
      <4>8. /\ stage' \in {"live", "awaiting", "flushing", "stopped"}
            /\ unseen' \subseteq {"write", "unlink"}
            /\ events' \in 0..MaxEvents /\ faults' \in 0..MaxFaults
        BY <4>1
      <4> QED BY <4>2, <4>3, <4>4, <4>5, <4>6, <4>7, <4>8
    <3> QED BY <1>6, <2>1, <3>1, <3>2, <3>3, <3>4 DEF TimerFires
  <2>2. CASE push["timer"] # Off
    <3>1. ~suppressed
      BY <1>6, <2>2 DEF TimerFires
    <3>2. timer' = TRUE /\ pending' = TRUE /\ noted' = disk
      BY <1>6, <2>2, <3>1 DEF TimerFires
    <3> QED BY <1>6, <2>2, <3>1, <3>2 DEF TimerFires
  <2> QED BY <2>1, <2>2
<1>7. ASSUME NEW s \in {"timer", "flush"}, PushReads(s)
      PROVE  WatcherInvariant'
  BY <1>7 DEF PushReads
<1>8. ASSUME NEW s \in {"timer", "flush"}, PushSucceeds(s)
      PROVE  WatcherInvariant'
  BY <1>8 DEF PushSucceeds, Settle, Flush, Newer
<1>9. ASSUME NEW s \in {"timer", "flush"}, NEW permanent \in BOOLEAN, PushFails(s, permanent)
      PROVE  WatcherInvariant'
  BY <1>9 DEF PushFails, Settle, Flush, Newer
<1>10. CASE UNCHANGED vars
  BY <1>10 DEF vars
<1> QED BY <1>1, <1>2, <1>3, <1>4, <1>5, <1>6, <1>7, <1>8, <1>9, <1>10 DEF Next, Proceed

LEMMA InvariantAlways == Spec => []WatcherInvariant
BY InvariantInit, InvariantKept, PTL DEF Spec

-----------------------------------------------------------------------------
(* No change a live session's watcher was told of is lost sight of: see    *)
(* NothingForgotten.                                                       *)
THEOREM ChangesAreCarried == Spec => []NothingForgotten
<1>1. WatcherInvariant => NothingForgotten
  BY DEF WatcherInvariant
<1> QED BY <1>1, InvariantAlways, PTL

(* After a failure that no retry would heal at most one push is started    *)
(* until a file is deleted, however many events arrive.                    *)
THEOREM SuppressionHolds == Spec => []SuppressedIsQuiet
<1>1. WatcherInvariant => SuppressedIsQuiet
  BY DEF WatcherInvariant
<1> QED BY <1>1, InvariantAlways, PTL

(* The state keeps its types, and stopping waits only for a push that      *)
(* exists.                                                                 *)
THEOREM TypeCorrect == Spec => []TypeOK
<1>1. WatcherInvariant => TypeOK
  BY DEF WatcherInvariant
<1> QED BY <1>1, InvariantAlways, PTL
=============================================================================
