------------------------- MODULE VirtualDisplayProofs -------------------------
(***************************************************************************)
(* Proofs about VirtualDisplay: its types, and that the driver never drops *)
(* the program's display, whatever the interval, the driver's timeout, the *)
(* lateness of threads and the number of displays are, so long as          *)
(* TimingAssumption holds.  Time makes NeverDropped non-inductive: Timing  *)
(* bounds the age of the display by where the two threads are and how late *)
(* they are.                                                               *)
(*                                                                         *)
(* And about the choice of a mode: what PickBestMode's loops keep of the   *)
(* modes they have seen is what its declaration promises of all of them.   *)
(***************************************************************************)
EXTENDS VirtualDisplay, SequenceLemmas, TLAPS

Running == {"check", "update", "sleep"}

\* The keep-alive thread lives only while there is a display to keep.
Life ==
  /\ main \in {"remove", "close", "open", "version", "add", "spawn"} => keeper = "none"
  /\ keeper # "none" => index # NoIndex
  /\ keeper \in Running => keepRun \/ main = "join"
  /\ keeper = "ended" => main = "join"
  /\ index # NoIndex => handle /\ (keeper # "none" \/ main \in {"spawn", "remove"})
  /\ main \in {"version", "add", "spawn", "wait", "mode", "apply"} => handle
  /\ main \in {"spawn", "wait", "mode", "apply"} => index # NoIndex

\* The driver's display is the program's own exactly if index_ names it.
Own == \A i \in Index : slot[i] = "ours" <=> i = index

\* How old the display may have become.
Timing ==
  \A i \in Index : i = index =>
    /\ main = "spawn" => age[i] <= late.main
    /\ keeper \in {"check", "update"} => age[i] <= Interval + late.keeper
    /\ keeper = "sleep" => age[i] + sleep <= Interval + late.keeper
    /\ keeper = "sleep" /\ sleep > 0 => late.keeper = 0
    /\ keeper = "ended" \/ main = "remove" => age[i] <= Interval + Lateness + late.main

Reported ==
  /\ main \in {"mode", "apply"} => device # NoName
  /\ alive => main \in {"idle", "stop", "join", "remove", "close"} 

IInv == TypeOK /\ Life /\ Own /\ Timing /\ Reported

-------------------------------------------------------------------------------

LEMMA AttachedAreNamed ==
  ASSUME TypeOK
  PROVE  AttachedDisplayNames \subseteq Names
BY DEF TypeOK, AttachedDisplayNames

\* Timing's bounds stay below the driver's timeout, wherever the threads are.
LEMMA OwnIsFresh ==
  ASSUME TypeOK, Life, Own, Timing
  PROVE  NeverDropped
<1> SUFFICES ASSUME NEW i \in Index, slot[i] = "ours"
             PROVE  age[i] <= Timeout
  BY DEF NeverDropped
<1>1. i = index /\ index # NoIndex
  BY DisplayAssumption DEF Own
<1>2. late.main \in 0..Lateness /\ late.keeper \in 0..Lateness /\ sleep \in 0..Interval
      /\ age[i] \in 0..Timeout + 1
  BY DEF TypeOK
<1>3. keeper \in {"check", "update", "sleep", "ended"} \/ main \in {"spawn", "remove"}
  BY <1>1 DEF Life, TypeOK
<1>4. CASE main = "spawn"
  BY <1>1, <1>2, <1>4, TimingAssumption DEF Timing
<1>5. CASE keeper \in {"check", "update", "sleep"}
  BY <1>1, <1>2, <1>5, TimingAssumption DEF Timing
<1>6. CASE keeper = "ended" \/ main = "remove"
  BY <1>1, <1>2, <1>6, TimingAssumption DEF Timing
<1>7. QED
  BY <1>3, <1>4, <1>5, <1>6

LEMMA InvInit == Init => IInv
<1> SUFFICES ASSUME Init PROVE IInv
  OBVIOUS
<1> USE TimingAssumption, DisplayAssumption DEF Init
<1>1. TypeOK
  <2>1. slot \in [Index -> {"free", "ours", "theirs", "orphan"}]
    OBVIOUS
  <2>2. age \in [Index -> 0..Timeout + 1] /\ name \in [Index -> Names \cup {NoName}]
    OBVIOUS
  <2>3. late \in [{"main", "keeper"} -> 0..Lateness]
    OBVIOUS
  <2>4. handle \in BOOLEAN /\ alive \in BOOLEAN /\ keepRun \in BOOLEAN
    OBVIOUS
  <2>5. alive => device # NoName /\ mode # NoMode
    OBVIOUS
  <2>6. sleep \in 0..Interval /\ before \subseteq Names /\ screens \subseteq Names
    OBVIOUS
  <2>7. QED
    BY <2>1, <2>2, <2>3, <2>4, <2>5, <2>6 DEF TypeOK
<1>2. Life /\ Own /\ Timing /\ Reported
  BY DEF Life, Own, Timing, Reported, Running
<1>3. QED
  BY <1>1, <1>2 DEF IInv

\* Types: no thread is later than it may be, for Tick would not happen.
LEMMA TypeStep ==
  ASSUME IInv, [Next]_vars
  PROVE  TypeOK'
<1> USE TimingAssumption, DisplayAssumption DEF IInv, TypeOK, Life, Reported
<1>1. CASE CallRemove \/ CallAdd
  BY <1>1 DEF CallRemove, CallAdd, ownVars, keepVars, sysVars
<1>2. CASE OpenVddDevice
  BY <1>2 DEF OpenVddDevice, ownVars, keepVars, sysVars
<1>3. CASE TakeBefore
  BY <1>3, AttachedAreNamed DEF TakeBefore, ownVars, keepVars, sysVars
<1>4. CASE AddFails
  BY <1>4 DEF AddFails, Refresh, ownVars, keepVars, sysVars
<1>5. CASE AddDisplay
  BY <1>5 DEF AddDisplay, VacantSlots, Refresh, ownVars, keepVars, sysVars
<1>6. CASE StartKeepAlive
  BY <1>6 DEF StartKeepAlive, ownVars, keepVars, sysVars
<1>7. CASE WaitForNewDisplay
  BY <1>7, AttachedAreNamed DEF WaitForNewDisplay, NewDisplays, ownVars, keepVars, sysVars
<1>8. CASE GiveUpWaiting
  BY <1>8 DEF GiveUpWaiting, NewDisplays, ownVars, keepVars, sysVars
<1>9. CASE ApplyMode
  BY <1>9 DEF ApplyMode, ownVars, keepVars, sysVars
<1>10. CASE ModeUnavailable
  BY <1>10 DEF ModeUnavailable, ownVars, keepVars, sysVars
<1>11. CASE OpenFails \/ VersionFails \/ EnumModes
  BY <1>11 DEF OpenFails, VersionFails, EnumModes, ownVars, keepVars, sysVars
<1>12. CASE StopKeepAlive
  BY <1>12 DEF StopKeepAlive, ownVars, keepVars, sysVars
<1>13. CASE RemoveDisplay
  BY <1>13 DEF RemoveDisplay, Refresh, ownVars, keepVars, sysVars
<1>14. CASE CloseDevice
  BY <1>14 DEF CloseDevice, ownVars, keepVars, sysVars
<1>15. CASE JoinKeepAlive
  BY <1>15 DEF JoinKeepAlive, ownVars, keepVars, sysVars
<1>16. CASE KeeperUpdates
  BY <1>16 DEF KeeperUpdates, Refresh, ownVars, keepVars, sysVars
<1>17. CASE KeeperChecks \/ KeeperWakes
  BY <1>17 DEF KeeperChecks, KeeperWakes, ownVars, keepVars, sysVars
<1>18. CASE MonitorAttaches
  BY <1>18 DEF MonitorAttaches, ownVars, keepVars, sysVars
<1>19. CASE DriverDrops \/ OtherClientAdds \/ OtherClientRemoves \/
        MonitorDetaches \/ ScreenPlugged \/ ScreenUnplugged
  BY <1>19 DEF DriverDrops, Perishable, OtherClientAdds, VacantSlots, OtherClientRemoves,
     MonitorDetaches, ScreenPlugged, ScreenUnplugged, ownVars, keepVars, sysVars
<1>20. CASE Crash
  <2>1. slot' \in [Index -> {"free", "ours", "theirs", "orphan"}]
    BY <1>20 DEF Crash
  <2>2. late' \in [{"main", "keeper"} -> 0..Lateness]
    BY <1>20 DEF Crash
  <2>3. handle' \in BOOLEAN /\ alive' \in BOOLEAN /\ keepRun' \in BOOLEAN
    BY <1>20 DEF Crash
  <2>4. (alive => device # NoName /\ mode # NoMode)'
    BY <1>20 DEF Crash
  <2>5. QED
    BY <1>20, <2>1, <2>2, <2>3, <2>4 DEF Crash
<1>21. CASE Tick
  BY <1>21 DEF Tick, Perishable, Urgent, ownVars, keepVars, sysVars
<1>22. CASE UNCHANGED vars
  BY <1>22 DEF vars, ownVars, keepVars, sysVars
<1>23. QED
  BY <1>1, <1>2, <1>3, <1>4, <1>5, <1>6, <1>7, <1>8, <1>9, <1>10, <1>11, <1>12,
     <1>13, <1>14, <1>15, <1>16, <1>17, <1>18, <1>19, <1>20, <1>21, <1>22
  DEF Next, Adding, Removing, KeepAlive, System

\* The keep-alive thread is started with a display and joined before its display is removed.
LEMMA LifeStep ==
  ASSUME IInv, [Next]_vars
  PROVE  Life'
<1> USE TimingAssumption, DisplayAssumption DEF IInv, Life, TypeOK, Running
<1>1. CASE CallRemove \/ CallAdd
  BY <1>1 DEF CallRemove, CallAdd, ownVars, keepVars, sysVars
<1>2. CASE StartKeepAlive
  BY <1>2 DEF StartKeepAlive, ownVars, keepVars, sysVars
<1>3. CASE GiveUpWaiting
  BY <1>3 DEF GiveUpWaiting, NewDisplays, ownVars, keepVars, sysVars
<1>4. CASE OpenFails \/ OpenVddDevice \/ VersionFails \/
        TakeBefore \/ AddFails \/ AddDisplay \/
        WaitForNewDisplay \/ EnumModes \/ ApplyMode \/ ModeUnavailable
  BY <1>4 DEF OpenFails, OpenVddDevice, VersionFails, TakeBefore, AddFails, Refresh,
     AddDisplay, VacantSlots, WaitForNewDisplay, NewDisplays, EnumModes, ApplyMode,
     ModeUnavailable, ownVars, keepVars, sysVars
<1>5. CASE StopKeepAlive
  BY <1>5 DEF StopKeepAlive, ownVars, keepVars, sysVars
<1>6. CASE JoinKeepAlive
  BY <1>6 DEF JoinKeepAlive, ownVars, keepVars, sysVars
<1>7. CASE RemoveDisplay
  BY <1>7 DEF RemoveDisplay, Refresh, ownVars, keepVars, sysVars
<1>8. CASE CloseDevice
  BY <1>8 DEF CloseDevice, ownVars, keepVars, sysVars
<1>9. CASE KeeperChecks
  BY <1>9 DEF KeeperChecks, ownVars, keepVars, sysVars
<1>10. CASE KeeperUpdates \/ KeeperWakes
  BY <1>10 DEF KeeperUpdates, Refresh, KeeperWakes, ownVars, keepVars, sysVars
<1>11. CASE DriverDrops \/ OtherClientAdds \/ OtherClientRemoves \/
        MonitorAttaches \/ MonitorDetaches \/ ScreenPlugged \/ ScreenUnplugged
  BY <1>11 DEF DriverDrops, Perishable, OtherClientAdds, VacantSlots, OtherClientRemoves,
     MonitorAttaches, MonitorDetaches, ScreenPlugged, ScreenUnplugged, ownVars,
     keepVars, sysVars
<1>12. CASE Crash
  BY <1>12 DEF Crash, ownVars, keepVars, sysVars
<1>13. CASE Tick
  BY <1>13 DEF Tick, Perishable, Urgent, ownVars, keepVars, sysVars
<1>14. CASE UNCHANGED vars
  BY <1>14 DEF vars, ownVars, keepVars, sysVars
<1>15. QED
  BY <1>1, <1>2, <1>3, <1>4, <1>5, <1>6, <1>7, <1>8, <1>9, <1>10, <1>11, <1>12,
     <1>13, <1>14
  DEF Next, Adding, Removing, KeepAlive, System

\* The driver would drop the program's display only if it were too old.
LEMMA OwnStep ==
  ASSUME IInv, [Next]_vars
  PROVE  Own'
<1> USE TimingAssumption, DisplayAssumption DEF IInv, Own, TypeOK, Life
<1>1. CASE CallRemove \/ CallAdd
  BY <1>1 DEF CallRemove, CallAdd, ownVars, keepVars, sysVars
<1>2. CASE AddDisplay
  BY <1>2 DEF AddDisplay, VacantSlots, Refresh, ownVars, keepVars, sysVars
<1>3. CASE OpenFails \/ OpenVddDevice \/ VersionFails \/
        TakeBefore \/ AddFails \/ StartKeepAlive \/
        WaitForNewDisplay \/ GiveUpWaiting \/ EnumModes \/ ApplyMode \/ ModeUnavailable
  BY <1>3 DEF OpenFails, OpenVddDevice, VersionFails, TakeBefore, AddFails, Refresh,
     StartKeepAlive, WaitForNewDisplay, NewDisplays, GiveUpWaiting, EnumModes, ApplyMode,
     ModeUnavailable, ownVars, keepVars, sysVars
<1>4. CASE RemoveDisplay
  BY <1>4 DEF RemoveDisplay, Refresh, ownVars, keepVars, sysVars
<1>5. CASE StopKeepAlive \/ JoinKeepAlive \/ CloseDevice
  BY <1>5 DEF StopKeepAlive, JoinKeepAlive, CloseDevice, ownVars, keepVars, sysVars
<1>6. CASE KeeperChecks \/ KeeperUpdates \/ KeeperWakes
  BY <1>6 DEF KeeperChecks, KeeperUpdates, Refresh, KeeperWakes, ownVars, keepVars, sysVars
<1>7. CASE DriverDrops
  <2>1. PICK i \in Index : age[i] > Timeout /\ slot' = [slot EXCEPT ![i] = "free"]
    BY <1>7 DEF DriverDrops
  <2>2. slot[i] # "ours"
    BY <2>1, OwnIsFresh DEF NeverDropped
  <2>3. QED
    BY <1>7, <2>1, <2>2 DEF DriverDrops, ownVars
<1>8. CASE OtherClientAdds \/ OtherClientRemoves \/ MonitorAttaches \/
        MonitorDetaches \/ ScreenPlugged \/ ScreenUnplugged
  BY <1>8 DEF OtherClientAdds, VacantSlots, OtherClientRemoves, MonitorAttaches,
     MonitorDetaches, ScreenPlugged, ScreenUnplugged, ownVars, keepVars, sysVars
<1>9. CASE Crash
  BY <1>9 DEF Crash, ownVars, keepVars, sysVars
<1>10. CASE Tick
  BY <1>10 DEF Tick, Perishable, Urgent, ownVars, keepVars, sysVars
<1>11. CASE UNCHANGED vars
  BY <1>11 DEF vars, ownVars, keepVars, sysVars
<1>12. QED
  BY <1>1, <1>2, <1>3, <1>4, <1>5, <1>6, <1>7, <1>8, <1>9, <1>10, <1>11
  DEF Next, Adding, Removing, KeepAlive, System

\* An UPDATE makes the display new; from one to the next it ages by a sleep and the
\* lateness of the keep-alive thread, and at the end of the owner's.
LEMMA TimingStep ==
  ASSUME IInv, [Next]_vars
  PROVE  Timing'
<1> USE TimingAssumption, DisplayAssumption DEF IInv, Own, TypeOK, Life, Timing, Running
<1>1. CASE CallRemove \/ CallAdd
  BY <1>1 DEF CallRemove, CallAdd, ownVars, keepVars, sysVars
<1>2. CASE AddDisplay
  BY <1>2 DEF AddDisplay, VacantSlots, Refresh, ownVars, keepVars, sysVars
<1>3. CASE StartKeepAlive
  BY <1>3 DEF StartKeepAlive, ownVars, keepVars, sysVars
<1>4. CASE OpenFails \/ OpenVddDevice \/ VersionFails \/
        TakeBefore \/ AddFails \/ WaitForNewDisplay \/
        GiveUpWaiting \/ EnumModes \/ ApplyMode \/ ModeUnavailable
  BY <1>4 DEF OpenFails, OpenVddDevice, VersionFails, TakeBefore, AddFails, Refresh,
     WaitForNewDisplay, NewDisplays, GiveUpWaiting, EnumModes, ApplyMode, ModeUnavailable,
     ownVars, keepVars, sysVars
<1>5. CASE StopKeepAlive
  BY <1>5 DEF StopKeepAlive, ownVars, keepVars, sysVars
<1>6. CASE JoinKeepAlive
  BY <1>6 DEF JoinKeepAlive, ownVars, keepVars, sysVars
<1>7. CASE RemoveDisplay
  BY <1>7 DEF RemoveDisplay, Refresh, ownVars, keepVars, sysVars
<1>8. CASE CloseDevice
  BY <1>8 DEF CloseDevice, ownVars, keepVars, sysVars
<1>9. CASE KeeperChecks
  BY <1>9 DEF KeeperChecks, ownVars, keepVars, sysVars
<1>10. CASE KeeperUpdates
  BY <1>10 DEF KeeperUpdates, Refresh, ownVars, keepVars, sysVars
<1>11. CASE KeeperWakes
  BY <1>11 DEF KeeperWakes, ownVars, keepVars, sysVars
<1>12. CASE DriverDrops
  BY <1>12 DEF DriverDrops, Perishable, ownVars, keepVars, sysVars
<1>13. CASE OtherClientAdds \/ OtherClientRemoves \/ MonitorAttaches \/
        MonitorDetaches \/ ScreenPlugged \/ ScreenUnplugged
  BY <1>13 DEF OtherClientAdds, VacantSlots, OtherClientRemoves, MonitorAttaches,
     MonitorDetaches, ScreenPlugged, ScreenUnplugged, ownVars, keepVars, sysVars
<1>14. CASE Crash
  BY <1>14 DEF Crash, ownVars, keepVars, sysVars
<1>15. CASE Tick
  BY <1>15 DEF Tick, Perishable, Urgent, ownVars, keepVars, sysVars
<1>16. CASE UNCHANGED vars
  BY <1>16 DEF vars, ownVars, keepVars, sysVars
<1>17. QED
  BY <1>1, <1>2, <1>3, <1>4, <1>5, <1>6, <1>7, <1>8, <1>9, <1>10, <1>11, <1>12,
     <1>13, <1>14, <1>15, <1>16
  DEF Next, Adding, Removing, KeepAlive, System

\* Add reports what it found.
LEMMA ReportedStep ==
  ASSUME IInv, [Next]_vars
  PROVE  Reported'
<1> USE TimingAssumption, DisplayAssumption DEF IInv, Reported, TypeOK, Life
<1>1. CASE CallRemove \/ CallAdd
  BY <1>1 DEF CallRemove, CallAdd, ownVars, keepVars, sysVars
<1>2. CASE WaitForNewDisplay
  BY <1>2, AttachedAreNamed DEF WaitForNewDisplay, NewDisplays, ownVars, keepVars, sysVars
<1>3. CASE ApplyMode
  BY <1>3 DEF ApplyMode, ownVars, keepVars, sysVars
<1>4. CASE OpenFails \/ OpenVddDevice \/ VersionFails \/
        TakeBefore \/ AddFails \/ AddDisplay \/
        StartKeepAlive \/ GiveUpWaiting \/ EnumModes \/ ModeUnavailable
  BY <1>4 DEF OpenFails, OpenVddDevice, VersionFails, TakeBefore, AddFails, Refresh,
     AddDisplay, VacantSlots, StartKeepAlive, GiveUpWaiting, EnumModes, ModeUnavailable,
     ownVars, keepVars, sysVars
<1>5. CASE CloseDevice
  BY <1>5 DEF CloseDevice, ownVars, keepVars, sysVars
<1>6. CASE StopKeepAlive \/ JoinKeepAlive \/ RemoveDisplay
  BY <1>6 DEF StopKeepAlive, JoinKeepAlive, RemoveDisplay, Refresh, ownVars, keepVars,
     sysVars
<1>7. CASE KeeperChecks \/ KeeperUpdates \/ KeeperWakes
  BY <1>7 DEF KeeperChecks, KeeperUpdates, Refresh, KeeperWakes, ownVars, keepVars, sysVars
<1>8. CASE DriverDrops \/ OtherClientAdds \/ OtherClientRemoves \/
        MonitorAttaches \/ MonitorDetaches \/ ScreenPlugged \/ ScreenUnplugged
  BY <1>8 DEF DriverDrops, Perishable, OtherClientAdds, VacantSlots, OtherClientRemoves,
     MonitorAttaches, MonitorDetaches, ScreenPlugged, ScreenUnplugged, ownVars,
     keepVars, sysVars
<1>9. CASE Crash
  BY <1>9 DEF Crash, ownVars, keepVars, sysVars
<1>10. CASE Tick
  BY <1>10 DEF Tick, Perishable, Urgent, ownVars, keepVars, sysVars
<1>11. CASE UNCHANGED vars
  BY <1>11 DEF vars, ownVars, keepVars, sysVars
<1>12. QED
  BY <1>1, <1>2, <1>3, <1>4, <1>5, <1>6, <1>7, <1>8, <1>9, <1>10, <1>11
  DEF Next, Adding, Removing, KeepAlive, System

LEMMA InvStep == IInv /\ [Next]_vars => IInv'
BY TypeStep, LifeStep, OwnStep, TimingStep, ReportedStep DEF IInv

LEMMA Invariance == Spec => []IInv
BY InvInit, InvStep, PTL DEF Spec

-------------------------------------------------------------------------------

\* Add, Remove, the keep-alive thread and the driver keep to their types, and
\* alive_ is set only with a display to report.
THEOREM TypeCorrect == Spec => []TypeOK
BY Invariance, PTL DEF IInv

\* Under TimingAssumption the driver never finds the program's display stale,
\* however the two threads and the driver's other clients interleave.
THEOREM DisplayIsKept == Spec => []NeverDropped
<1>1. IInv => NeverDropped
  BY OwnIsFresh DEF IInv
<1>2. QED
  BY <1>1, Invariance, PTL

\* Remove takes away only a display of the program's own.
THEOREM RemoveIsSafe == Spec => []RemovesItsOwn
<1>1. IInv => RemovesItsOwn
  BY DEF IInv, Own, TypeOK, RemovesItsOwn
<1>2. QED
  BY <1>1, Invariance, PTL

\* The keep-alive thread's handle is open whenever it uses it: Remove joins it
\* before it closes the device.
THEOREM HandleIsOpen == Spec => []UpdatesOpenHandle
<1>1. IInv => UpdatesOpenHandle
  BY DEF IInv, Life, UpdatesOpenHandle
<1>2. QED
  BY <1>1, Invariance, PTL

-------------------------------------------------------------------------------
(* The choice of a mode.                                                    *)

LEMMA DistanceTypes ==
  /\ \A x, y \in Nat : Distance(x, y) \in Nat
  /\ \A m \in DisplayMode : area(m) \in Nat
<1>1. Side \subseteq Nat
  BY SMT DEF Side
<1>2. \A m \in DisplayMode : m.width \in Nat /\ m.height \in Nat
  BY <1>1 DEF DisplayMode
<1>3. QED
  BY <1>2 DEF Distance, area

LEMMA NoModeIsNone == NoMode \notin DisplayMode
<1>1. 0 \notin Side
  BY SMT DEF Side
<1>2. QED
  BY <1>1 DEF NoMode, DisplayMode

\* The loop of tier 2: the best so far is one of the desired size, and none of
\* those before beats it.
LEMMA SizedIsBest ==
  ASSUME NEW desired \in DisplayMode, NEW s \in Seq(DisplayMode), NEW f,
         \A i \in 0..Len(s) : f[i] =
           IF i = 0 THEN NoMode
           ELSE IF /\ same_size(s[i], desired)
                   /\ f[i - 1] = NoMode \/ nearer_refresh(s[i], f[i - 1], desired)
             THEN s[i] ELSE f[i - 1]
  PROVE  LET b == f[Len(s)]
         IN  \/ b = NoMode /\ \A j \in 1..Len(s) : ~same_size(s[j], desired)
             \/ /\ \E j \in 1..Len(s) : b = s[j]
                /\ same_size(b, desired)
                /\ \A j \in 1..Len(s) : same_size(s[j], desired) => ~nearer_refresh(s[j], b, desired)
<1> DEFINE n == Len(s)
           Best(i) ==
             \/ f[i] = NoMode /\ \A j \in 1..i : ~same_size(s[j], desired)
             \/ /\ \E j \in 1..i : f[i] = s[j]
                /\ same_size(f[i], desired)
                /\ \A j \in 1..i : same_size(s[j], desired) => ~nearer_refresh(s[j], f[i], desired)
           T == {i \in Nat : Best(i)}
<1>1. n \in Nat /\ \A i \in 1..n : s[i] \in DisplayMode
  OBVIOUS
<1>2. Best(0)
  BY <1>1
<1>3. ASSUME NEW i \in 0..n-1, Best(i) PROVE Best(i + 1)
  <2> DEFINE b == f[i]
             m == s[i + 1]
             c == f[i + 1]
  <2>1. i + 1 \in 0..n /\ (i + 1) - 1 = i /\ i + 1 # 0 /\ m \in DisplayMode
    BY <1>1
  <2>2. c = IF same_size(m, desired) /\ (b = NoMode \/ nearer_refresh(m, b, desired)) THEN m ELSE b
    BY <2>1
  <2>3. \A j \in 1..i+1 : j \in 1..i \/ s[j] = m
    BY <2>1
  <2>4. \A j \in 1..i : j \in 1..i+1 /\ s[j] \in DisplayMode
    BY <1>1, <2>1
  <2>5. i + 1 \in 1..i+1 /\ s[i + 1] = m
    BY <2>1
  <2>6. \/ b = NoMode /\ \A j \in 1..i : ~same_size(s[j], desired)
        \/ /\ \E j \in 1..i : b = s[j]
           /\ same_size(b, desired)
           /\ \A j \in 1..i : same_size(s[j], desired) => ~nearer_refresh(s[j], b, desired)
    BY <1>3
  <2>7. \A x, y, z \in DisplayMode :
          /\ ~nearer_refresh(x, x, desired)
          /\ nearer_refresh(x, y, desired) /\ ~nearer_refresh(z, y, desired) => ~nearer_refresh(z, x, desired)
    <3>1. ASSUME NEW x \in DisplayMode, NEW y \in DisplayMode, NEW z \in DisplayMode
          PROVE  /\ ~nearer_refresh(x, x, desired)
                 /\ nearer_refresh(x, y, desired) /\ ~nearer_refresh(z, y, desired)
                      => ~nearer_refresh(z, x, desired)
      <4> DEFINE d(u) == Distance(u.hz, desired.hz)
      <4>1. x.hz \in Nat /\ y.hz \in Nat /\ z.hz \in Nat /\ desired.hz \in Nat
        BY DEF DisplayMode
      <4>2. d(x) \in Nat /\ d(y) \in Nat /\ d(z) \in Nat
        BY <4>1, DistanceTypes
      <4>3. \A u, v : nearer_refresh(u, v, desired) <=> d(u) < d(v) \/ (d(u) = d(v) /\ u.hz > v.hz)
        BY DEF nearer_refresh
      <4> HIDE DEF d
      <4>4. QED
        BY <4>1, <4>2, <4>3, SMTT(20)
    <3>2. QED
      BY <3>1
  <2> HIDE DEF b, m, c
  <2>8. CASE ~same_size(m, desired)
    <3>1. c = b
      BY <2>2, <2>8
    <3>2. QED
      BY <2>3, <2>4, <2>6, <2>8, <3>1 DEF c
  <2>9. CASE same_size(m, desired) /\ b = NoMode
    <3>1. c = m
      BY <2>2, <2>9
    <3>2. \A j \in 1..i : ~same_size(s[j], desired)
      <4>1. \A j \in 1..i : b # s[j]
        BY <2>4, <2>9, NoModeIsNone
      <4>2. QED
        BY <2>6, <4>1
    <3>3. \A j \in 1..i+1 : same_size(s[j], desired) => ~nearer_refresh(s[j], c, desired)
      BY <2>1, <2>3, <2>7, <3>1, <3>2
    <3>4. QED
      BY <2>5, <2>9, <3>1, <3>3 DEF c
  <2>10. CASE same_size(m, desired) /\ b # NoMode
    <3>1. PICK k \in 1..i : b = s[k]
      BY <2>6, <2>10
    <3>2. b \in DisplayMode /\ same_size(b, desired)
      BY <2>4, <2>6, <2>10, <3>1
    <3>3. \A j \in 1..i : same_size(s[j], desired) => ~nearer_refresh(s[j], b, desired)
      BY <2>6, <2>10
    <3>4. CASE nearer_refresh(m, b, desired)
      <4>1. c = m
        BY <2>2, <2>10, <3>4
      <4>2. \A j \in 1..i+1 : same_size(s[j], desired) => ~nearer_refresh(s[j], c, desired)
        BY <2>1, <2>3, <2>4, <2>7, <3>2, <3>3, <3>4, <4>1
      <4>3. QED
        BY <2>5, <2>10, <4>1, <4>2 DEF c
    <3>5. CASE ~nearer_refresh(m, b, desired)
      <4>1. c = b
        BY <2>2, <2>10, <3>5
      <4>2. QED
        BY <2>3, <2>4, <3>1, <3>2, <3>3, <3>5, <4>1 DEF c
    <3>6. QED
      BY <3>4, <3>5
  <2>11. QED
    BY <2>8, <2>9, <2>10
<1> HIDE DEF Best
<1>4. Best(n)
  <2>1. 0 \in T
    BY <1>2
  <2>2. ASSUME NEW i \in 0..n-1, i \in T PROVE i + 1 \in T
    <3>1. Best(i)
      BY <2>2
    <3>2. Best(i + 1)
      BY <1>3, <3>1
    <3>3. i + 1 \in Nat
      BY <1>1
    <3>4. QED
      BY <3>2, <3>3
  <2> HIDE DEF T, n
  <2>3. n \in Nat
    BY <1>1
  <2>4. \A i \in 0..n : i \in T
    BY <2>1, <2>2, <2>3, SetInduction
  <2>5. n \in T
    BY <2>3, <2>4
  <2>6. QED
    BY <2>5 DEF T
<1>5. QED
  BY <1>4 DEF Best

\* Being a better fit is a matter of three numbers, compared in turn.
Shapeless(m, desired) == IF same_aspect(m, desired) THEN 0 ELSE 1

LEMMA FitIsOrder ==
  ASSUME NEW desired \in DisplayMode, NEW x \in DisplayMode, NEW y \in DisplayMode
  PROVE  LET d(u) == Distance(area(u), area(desired))
             k(u) == Shapeless(u, desired)
         IN  /\ d(x) \in Nat /\ k(x) \in {0, 1} /\ x.hz \in Nat
             /\ better_fit(x, y, desired) <=>
                  \/ k(x) < k(y)
                  \/ k(x) = k(y) /\ d(x) < d(y)
                  \/ k(x) = k(y) /\ d(x) = d(y) /\ x.hz > y.hz
<1> DEFINE d(u) == Distance(area(u), area(desired))
           k(u) == Shapeless(u, desired)
           p == same_aspect(x, desired)
           q == same_aspect(y, desired)
<1>1. d(x) \in Nat /\ d(y) \in Nat /\ x.hz \in Nat /\ y.hz \in Nat
  BY DistanceTypes DEF DisplayMode
<1>2. k(x) = (IF p THEN 0 ELSE 1) /\ k(y) = (IF q THEN 0 ELSE 1) /\ p \in BOOLEAN /\ q \in BOOLEAN
  BY DEF Shapeless, same_aspect
<1>3. better_fit(x, y, desired) <=>
        \/ p /\ ~q
        \/ p = q /\ d(x) < d(y)
        \/ p = q /\ d(x) = d(y) /\ x.hz > y.hz
  BY Zenon DEF better_fit
<1> HIDE DEF d, k, p, q
<1>7. p = q <=> (p <=> q)
  BY <1>2
<1>4. better_fit(x, y, desired) <=>
        \/ k(x) < k(y)
        \/ k(x) = k(y) /\ d(x) < d(y)
        \/ k(x) = k(y) /\ d(x) = d(y) /\ x.hz > y.hz
  <2>1. CASE p /\ q
    BY <1>2, <1>3, <1>7, <2>1
  <2>2. CASE p /\ ~q
    <3>1. k(x) = 0 /\ k(y) = 1
      BY <1>2, <2>2
    <3>2. better_fit(x, y, desired)
      BY <1>3, <2>2
    <3>3. QED
      BY <3>1, <3>2
  <2>3. CASE ~p /\ q
    <3>1. k(x) = 1 /\ k(y) = 0
      BY <1>2, <2>3
    <3>2. ~(p = q)
      BY <1>7, <2>3
    <3>3. ~better_fit(x, y, desired)
      BY <1>3, <2>3, <3>2
    <3>4. QED
      BY <3>1, <3>3
  <2>4. CASE ~p /\ ~q
    BY <1>2, <1>3, <1>7, <2>4
  <2>5. QED
    BY <2>1, <2>2, <2>3, <2>4
<1>5. k(x) \in {0, 1}
  BY <1>2
<1>6. QED
  BY <1>1, <1>4, <1>5 DEF d, k

\* The loop of tier 3: no mode before beats the best so far.
LEMMA FittingIsBest ==
  ASSUME NEW desired \in DisplayMode, NEW s \in Seq(DisplayMode), s # <<>>, NEW f,
         \A i \in 0..Len(s) - 1 : f[i] =
           IF i = 0 THEN s[1]
           ELSE IF better_fit(s[i + 1], f[i - 1], desired) THEN s[i + 1] ELSE f[i - 1]
  PROVE  LET b == f[Len(s) - 1]
         IN  /\ \E j \in 1..Len(s) : b = s[j]
             /\ \A j \in 1..Len(s) : ~better_fit(s[j], b, desired)
<1> DEFINE n == Len(s) - 1
           Best(i) == /\ \E j \in 1..i+1 : f[i] = s[j]
                      /\ \A j \in 1..i+1 : ~better_fit(s[j], f[i], desired)
           T == {i \in Nat : Best(i)}
<1>1. n \in Nat /\ Len(s) = n + 1 /\ \A i \in 1..n+1 : s[i] \in DisplayMode
  OBVIOUS
<1>2. \A x, y, z \in DisplayMode :
        /\ ~better_fit(x, x, desired)
        /\ better_fit(x, y, desired) /\ ~better_fit(z, y, desired) => ~better_fit(z, x, desired)
  <2> SUFFICES ASSUME NEW x \in DisplayMode, NEW y \in DisplayMode, NEW z \in DisplayMode
        PROVE  /\ ~better_fit(x, x, desired)
               /\ better_fit(x, y, desired) /\ ~better_fit(z, y, desired)
                    => ~better_fit(z, x, desired)
    OBVIOUS
  <2> DEFINE d(u) == Distance(area(u), area(desired))
             k(u) == Shapeless(u, desired)
  <2>1. \A u, v \in DisplayMode :
          /\ d(u) \in Nat /\ k(u) \in {0, 1} /\ u.hz \in Nat
          /\ better_fit(u, v, desired) <=>
               \/ k(u) < k(v)
               \/ k(u) = k(v) /\ d(u) < d(v)
               \/ k(u) = k(v) /\ d(u) = d(v) /\ u.hz > v.hz
    BY FitIsOrder
  <2> DEFINE B(u, v) == better_fit(u, v, desired)
  <2>2. \A u, v \in DisplayMode :
          B(u, v) <=> \/ k(u) < k(v)
                      \/ k(u) = k(v) /\ d(u) < d(v)
                      \/ k(u) = k(v) /\ d(u) = d(v) /\ u.hz > v.hz
    BY <2>1
  <2>3. /\ d(x) \in Nat /\ d(y) \in Nat /\ d(z) \in Nat
        /\ k(x) \in {0, 1} /\ k(y) \in {0, 1} /\ k(z) \in {0, 1}
        /\ x.hz \in Nat /\ y.hz \in Nat /\ z.hz \in Nat
    BY <2>1
  <2> HIDE DEF d, k, B
  <2>4. /\ B(x, x) <=> \/ k(x) < k(x)
                       \/ k(x) = k(x) /\ d(x) < d(x)
                       \/ k(x) = k(x) /\ d(x) = d(x) /\ x.hz > x.hz
        /\ B(x, y) <=> \/ k(x) < k(y)
                       \/ k(x) = k(y) /\ d(x) < d(y)
                       \/ k(x) = k(y) /\ d(x) = d(y) /\ x.hz > y.hz
        /\ B(z, y) <=> \/ k(z) < k(y)
                       \/ k(z) = k(y) /\ d(z) < d(y)
                       \/ k(z) = k(y) /\ d(z) = d(y) /\ z.hz > y.hz
        /\ B(z, x) <=> \/ k(z) < k(x)
                       \/ k(z) = k(x) /\ d(z) < d(x)
                       \/ k(z) = k(x) /\ d(z) = d(x) /\ z.hz > x.hz
    BY <2>2
  <2>5. ~B(x, x) /\ (B(x, y) /\ ~B(z, y) => ~B(z, x))
    BY <2>3, <2>4
  <2>6. QED
    BY <2>5 DEF B
<1>3. Best(0)
  <2>1. 0 \in 0..Len(s) - 1 /\ 1 \in 1..0+1 /\ \A j \in 1..0+1 : j = 1
    BY <1>1
  <2>2. f[0] = s[1] /\ s[1] \in DisplayMode
    BY <1>1, <2>1
  <2>3. QED
    BY <1>2, <2>1, <2>2
<1>4. ASSUME NEW i \in 0..n-1, Best(i) PROVE Best(i + 1)
  <2> DEFINE b == f[i]
             m == s[i + 2]
             c == f[i + 1]
  <2>1. i + 1 \in 0..Len(s) - 1 /\ (i + 1) - 1 = i /\ i + 1 # 0 /\ (i + 1) + 1 = i + 2 /\ m \in DisplayMode
    BY <1>1
  <2>2. c = IF better_fit(m, b, desired) THEN m ELSE b
    BY <2>1
  <2>3. \A j \in 1..(i+1)+1 : j \in 1..i+1 \/ s[j] = m
    BY <2>1
  <2>4. \A j \in 1..i+1 : j \in 1..(i+1)+1 /\ s[j] \in DisplayMode
    BY <1>1, <2>1
  <2>5. i + 2 \in 1..(i+1)+1 /\ s[i + 2] = m
    BY <2>1
  <2>6. PICK k \in 1..i+1 : b = s[k]
    BY <1>4
  <2>7. b \in DisplayMode /\ \A j \in 1..i+1 : ~better_fit(s[j], b, desired)
    BY <1>4, <2>4, <2>6
  <2> HIDE DEF b, m, c
  <2>8. CASE better_fit(m, b, desired)
    <3>1. c = m
      BY <2>2, <2>8
    <3>2. \A j \in 1..(i+1)+1 : ~better_fit(s[j], c, desired)
      BY <1>2, <2>1, <2>3, <2>4, <2>7, <2>8, <3>1
    <3>3. QED
      BY <2>5, <3>1, <3>2 DEF c
  <2>9. CASE ~better_fit(m, b, desired)
    <3>1. c = b
      BY <2>2, <2>9
    <3>2. QED
      BY <2>3, <2>4, <2>6, <2>7, <2>9, <3>1 DEF c
  <2>10. QED
    BY <2>8, <2>9
<1> HIDE DEF Best
<1>5. Best(n)
  <2>1. 0 \in T
    BY <1>3
  <2>2. ASSUME NEW i \in 0..n-1, i \in T PROVE i + 1 \in T
    <3>1. Best(i)
      BY <2>2
    <3>2. Best(i + 1)
      BY <1>4, <3>1
    <3>3. i + 1 \in Nat
      BY <1>1
    <3>4. QED
      BY <3>2, <3>3
  <2> HIDE DEF T, n
  <2>3. n \in Nat
    BY <1>1
  <2>4. \A i \in 0..n : i \in T
    BY <2>1, <2>2, <2>3, SetInduction
  <2>5. n \in T
    BY <2>3, <2>4
  <2>6. QED
    BY <2>5 DEF T
<1>6. QED
  BY <1>1, <1>5 DEF Best

\* The loops are defined: there is a function that is what its recursion says.
IsLoop(f, S, c, D, n) ==
  f \in [0..n -> S] /\ f = [i \in 0..n |-> IF i = 0 THEN c ELSE D[<<f[i - 1], i>>]]

LEMMA LoopExists ==
  ASSUME NEW S, NEW c \in S, NEW n \in Nat, NEW D \in Steps(S)
  PROVE  \E f : IsLoop(f, S, c, D, n)
<1>1. PICK f : IsRecursion(f, S, c, D, n)
  BY RecursionExists
<1>2. f \in [0..n -> S] /\ f[0] = c /\ \A i \in 1..n : f[i] = D[<<f[i - 1], i>>]
  BY <1>1 DEF IsRecursion
<1>3. ASSUME NEW i \in 0..n PROVE f[i] = IF i = 0 THEN c ELSE D[<<f[i - 1], i>>]
  <2>1. i = 0 \/ i \in 1..n
    OBVIOUS
  <2>2. QED
    BY <1>2, <2>1
<1>4. f = [i \in 0..n |-> IF i = 0 THEN c ELSE D[<<f[i - 1], i>>]]
  BY <1>2, <1>3
<1>5. QED
  BY <1>2, <1>4 DEF IsLoop

Modes == DisplayMode \cup {NoMode}

LEMMA SizedIsLoop ==
  ASSUME NEW desired \in DisplayMode, NEW s \in Seq(DisplayMode)
  PROVE  \A i \in 0..Len(s) : Sized(desired, s)[i] =
           IF i = 0 THEN NoMode
           ELSE IF /\ same_size(s[i], desired)
                   /\ \/ Sized(desired, s)[i - 1] = NoMode
                      \/ nearer_refresh(s[i], Sized(desired, s)[i - 1], desired)
             THEN s[i] ELSE Sized(desired, s)[i - 1]
<1> DEFINE n == Len(s)
           Takes(b, m) == same_size(m, desired) /\ (b = NoMode \/ nearer_refresh(m, b, desired))
           Step(b, i) == IF Takes(b, s[i]) THEN s[i] ELSE b
           D == [q \in Modes \X Nat |-> IF q[2] \in 1..n THEN Step(q[1], q[2]) ELSE NoMode]
           Eq(f) == f = [i \in 0..n |-> IF i = 0 THEN NoMode ELSE Step(f[i - 1], i)]
           F == CHOOSE f : Eq(f)
<1>1. n \in Nat /\ NoMode \in Modes /\ \A i \in 1..n : s[i] \in Modes
  BY DEF Modes
<1> HIDE DEF n, Takes
<1>2. D \in Steps(Modes)
  <2>1. ASSUME NEW q \in Modes \X Nat
        PROVE  (IF q[2] \in 1..n THEN Step(q[1], q[2]) ELSE NoMode) \in Modes
    BY <1>1
  <2>2. QED
    BY <2>1 DEF Steps
<1>3. PICK f \in [0..n -> Modes] : f = [i \in 0..n |-> IF i = 0 THEN NoMode ELSE D[<<f[i - 1], i>>]]
  <2> HIDE DEF D
  <2>1. \E f : IsLoop(f, Modes, NoMode, D, n)
    BY <1>1, <1>2, LoopExists
  <2>2. QED
    BY <2>1 DEF IsLoop
<1>4. Eq(f)
  <2>1. ASSUME NEW i \in 0..n
        PROVE  (IF i = 0 THEN NoMode ELSE D[<<f[i - 1], i>>]) = (IF i = 0 THEN NoMode ELSE Step(f[i - 1], i))
    <3>1. CASE i # 0
      <4>1. i \in 1..n /\ i \in Nat /\ i - 1 \in 0..n
        BY <1>1, <3>1
      <4>2. f[i - 1] \in Modes
        BY <4>1
      <4>3. D[<<f[i - 1], i>>] = Step(f[i - 1], i)
        BY <4>1, <4>2
      <4>4. QED
        BY <3>1, <4>3
    <3>2. QED
      BY <3>1
  <2>2. QED
    BY <1>3, <2>1
<1>5. Eq(F)
  <2> HIDE DEF Eq
  <2>1. QED
    BY <1>4
<1>6. Sized(desired, s) = F
  BY DEF Sized, Takes, n
<1> HIDE DEF F
<1>7. QED
  BY <1>5, <1>6 DEF n, Takes

LEMMA FittingIsLoop ==
  ASSUME NEW desired \in DisplayMode, NEW s \in Seq(DisplayMode), s # <<>>
  PROVE  \A i \in 0..Len(s) - 1 : Fitting(desired, s)[i] =
           IF i = 0 THEN s[1]
           ELSE IF better_fit(s[i + 1], Fitting(desired, s)[i - 1], desired)
             THEN s[i + 1] ELSE Fitting(desired, s)[i - 1]
<1> DEFINE n == Len(s) - 1
           Step(b, i) == IF better_fit(s[i + 1], b, desired) THEN s[i + 1] ELSE b
           D == [q \in DisplayMode \X Nat |-> IF q[2] \in 1..n THEN Step(q[1], q[2]) ELSE s[1]]
           Eq(f) == f = [i \in 0..n |-> IF i = 0 THEN s[1] ELSE Step(f[i - 1], i)]
           F == CHOOSE f : Eq(f)
<1>1. n \in Nat /\ s[1] \in DisplayMode /\ \A i \in 1..n : s[i + 1] \in DisplayMode
  OBVIOUS
<1> HIDE DEF n
<1>2. D \in Steps(DisplayMode)
  <2>1. ASSUME NEW q \in DisplayMode \X Nat
        PROVE  (IF q[2] \in 1..n THEN Step(q[1], q[2]) ELSE s[1]) \in DisplayMode
    BY <1>1
  <2>2. QED
    BY <2>1 DEF Steps
<1>3. PICK f \in [0..n -> DisplayMode] : f = [i \in 0..n |-> IF i = 0 THEN s[1] ELSE D[<<f[i - 1], i>>]]
  <2> HIDE DEF D
  <2>1. \E f : IsLoop(f, DisplayMode, s[1], D, n)
    BY <1>1, <1>2, LoopExists
  <2>2. QED
    BY <2>1 DEF IsLoop
<1>4. Eq(f)
  <2>1. ASSUME NEW i \in 0..n
        PROVE  (IF i = 0 THEN s[1] ELSE D[<<f[i - 1], i>>]) = (IF i = 0 THEN s[1] ELSE Step(f[i - 1], i))
    <3>1. CASE i # 0
      <4>1. i \in 1..n /\ i \in Nat /\ i - 1 \in 0..n
        BY <1>1, <3>1
      <4>2. f[i - 1] \in DisplayMode
        BY <4>1
      <4>3. D[<<f[i - 1], i>>] = Step(f[i - 1], i)
        BY <4>1, <4>2
      <4>4. QED
        BY <3>1, <4>3
    <3>2. QED
      BY <3>1
  <2>2. QED
    BY <1>3, <2>1
<1>5. Eq(F)
  <2> HIDE DEF Eq
  <2>1. QED
    BY <1>4
<1>6. Fitting(desired, s) = F
  BY DEF Fitting, n
<1> HIDE DEF F
<1>7. QED
  BY <1>5, <1>6 DEF n

\* PickBestMode of any list of modes but the empty one is the best of them, by
\* the tiers its declaration names.
THEOREM PickIsBest ==
  ASSUME NEW desired \in DisplayMode, NEW s \in Seq(DisplayMode), s # <<>>
  PROVE  IsBest(PickBestMode(desired, s), desired, s)
<1> DEFINE n == Len(s)
           listed == ToSet(s)
           sized == {x \in listed : same_size(x, desired)}
           shaped == {x \in listed : same_aspect(x, desired)}
           candidates == IF sized # {} THEN sized ELSE IF shaped # {} THEN shaped ELSE listed
           off(x) == IF sized # {} THEN Distance(x.hz, desired.hz)
                     ELSE Distance(area(x), area(desired))
           nearest == {x \in candidates : \A y \in candidates : off(x) <= off(y)}
           m == PickBestMode(desired, s)
           a == Sized(desired, s)[n]
           b == Fitting(desired, s)[n - 1]
<1>1. \A x : x \in listed <=> \E j \in 1..n : x = s[j]
  BY DEF ToSet
<1>2. listed \subseteq DisplayMode
  BY <1>1
<1>3. desired.hz \in Nat /\ \A x \in DisplayMode : x.hz \in Nat
  BY DEF DisplayMode
<1>4. \A x \in DisplayMode : off(x) \in Nat
  BY <1>3, DistanceTypes
<1>5. s # <<>>
  OBVIOUS
<1>6. m = IF desired \in listed THEN desired ELSE IF a # NoMode THEN a ELSE b
  BY <1>5 DEF PickBestMode
<1>7. \/ a = NoMode /\ \A j \in 1..n : ~same_size(s[j], desired)
      \/ /\ \E j \in 1..n : a = s[j]
         /\ same_size(a, desired)
         /\ \A j \in 1..n : same_size(s[j], desired) => ~nearer_refresh(s[j], a, desired)
  <2> DEFINE f == Sized(desired, s)
  <2>1. \A i \in 0..Len(s) : f[i] =
           IF i = 0 THEN NoMode
           ELSE IF /\ same_size(s[i], desired)
                   /\ f[i - 1] = NoMode \/ nearer_refresh(s[i], f[i - 1], desired)
             THEN s[i] ELSE f[i - 1]
    BY SizedIsLoop
  <2> HIDE DEF f
  <2>2. LET c == f[Len(s)]
         IN  \/ c = NoMode /\ \A j \in 1..Len(s) : ~same_size(s[j], desired)
             \/ /\ \E j \in 1..Len(s) : c = s[j]
                /\ same_size(c, desired)
                /\ \A j \in 1..Len(s) : same_size(s[j], desired) => ~nearer_refresh(s[j], c, desired)
    BY <2>1, SizedIsBest
  <2>3. QED
    BY <2>2 DEF f
<1>8. (\E j \in 1..n : b = s[j]) /\ \A j \in 1..n : ~better_fit(s[j], b, desired)
  <2> DEFINE f == Fitting(desired, s)
  <2>1. \A i \in 0..Len(s) - 1 : f[i] =
           IF i = 0 THEN s[1]
           ELSE IF better_fit(s[i + 1], f[i - 1], desired) THEN s[i + 1] ELSE f[i - 1]
    BY <1>5, FittingIsLoop
  <2> HIDE DEF f
  <2>2. LET c == f[Len(s) - 1]
         IN  /\ \E j \in 1..Len(s) : c = s[j]
             /\ \A j \in 1..Len(s) : ~better_fit(s[j], c, desired)
    BY <1>5, <2>1, FittingIsBest
  <2>3. QED
    BY <2>2 DEF f
<1>9. IsBest(m, desired, s) <=>
        IF desired \in listed THEN m = desired
        ELSE m \in nearest /\ \A y \in nearest : m.hz >= y.hz
  BY DEF IsBest
<1>10. candidates \subseteq listed
  OBVIOUS
<1>11. ASSUME m \in candidates,
              \A y \in candidates : ~(off(y) < off(m) \/ (off(y) = off(m) /\ y.hz > m.hz))
       PROVE  m \in nearest /\ \A y \in nearest : m.hz >= y.hz
  <2> HIDE DEF candidates, off, m, listed
  <2>1. \A y \in candidates : off(y) \in Nat /\ y.hz \in Nat
    BY <1>2, <1>3, <1>4, <1>10
  <2>2. \A y \in candidates : off(m) <= off(y)
    BY <1>11, <2>1
  <2>3. ASSUME NEW y \in candidates, \A z \in candidates : off(y) <= off(z)
        PROVE  m.hz >= y.hz
    BY <1>11, <2>1, <2>2, <2>3
  <2>4. QED
    BY <1>11, <2>2, <2>3
<1>12. CASE desired \notin listed /\ a # NoMode
  <2>1. m = a /\ a \in listed /\ same_size(a, desired)
    BY <1>1, <1>6, <1>7, <1>12
  <2>2. \A y \in listed : same_size(y, desired) => ~nearer_refresh(y, a, desired)
    BY <1>1, <1>7, <1>12
  <2>3. a \in sized /\ sized # {}
    BY <2>1
  <2>4. candidates = sized /\ \A x : off(x) = Distance(x.hz, desired.hz)
    BY <2>3
  <2>5. \A y \in candidates : y \in listed /\ same_size(y, desired)
    BY <2>4
  <2>6. m \in candidates
    BY <2>1, <2>3, <2>4
  <2> HIDE DEF listed, candidates, off, nearest, m, a
  <2>7. \A y \in candidates : ~(off(y) < off(m) \/ (off(y) = off(m) /\ y.hz > m.hz))
    BY <2>1, <2>2, <2>4, <2>5 DEF nearer_refresh
  <2>8. IsBest(m, desired, s)
    BY <1>9, <1>11, <1>12, <2>6, <2>7
  <2>9. QED
    BY <2>8 DEF m
<1>13. CASE desired \notin listed /\ a = NoMode
  <2>1. m = b /\ b \in listed /\ \A y \in listed : ~better_fit(y, b, desired)
    BY <1>1, <1>6, <1>8, <1>13
  <2>2. sized = {}
    <3>1. \A x \in DisplayMode : x # NoMode
      BY NoModeIsNone
    <3>2. \A j \in 1..n : ~same_size(s[j], desired)
      BY <1>1, <1>2, <1>7, <1>13, <3>1
    <3>3. QED
      BY <1>1, <3>2
  <2>3. \A x : off(x) = Distance(area(x), area(desired))
    BY <2>2
  <2>4. candidates = IF shaped # {} THEN shaped ELSE listed
    BY <2>2
  <2>5. \A y \in listed : y \in shaped <=> same_aspect(y, desired)
    OBVIOUS
  <2>6. shaped \subseteq listed
    OBVIOUS
  <2> HIDE DEF listed, shaped, candidates, off, nearest, m, b
  <2>7. \A y \in listed : better_fit(y, b, desired) <=>
          \/ y \in shaped /\ b \notin shaped
          \/ (y \in shaped <=> b \in shaped) /\ (off(y) < off(b) \/ (off(y) = off(b) /\ y.hz > b.hz))
    <3> SUFFICES ASSUME NEW y \in listed
                 PROVE  better_fit(y, b, desired) <=>
          \/ y \in shaped /\ b \notin shaped
          \/ (y \in shaped <=> b \in shaped) /\ (off(y) < off(b) \/ (off(y) = off(b) /\ y.hz > b.hz))
      OBVIOUS
    <3>1. better_fit(y, b, desired) <=>
            \/ same_aspect(y, desired) /\ ~same_aspect(b, desired)
            \/ same_aspect(y, desired) = same_aspect(b, desired) /\ off(y) < off(b)
            \/ same_aspect(y, desired) = same_aspect(b, desired) /\ off(y) = off(b) /\ y.hz > b.hz
      BY <2>3, Zenon DEF better_fit
    <3>2. (same_aspect(y, desired) = same_aspect(b, desired)) <=> (y \in shaped <=> b \in shaped)
      BY <2>1, <2>5 DEF same_aspect
    <3>3. QED
      BY <2>1, <2>5, <3>1, <3>2
  <2>8. m \in candidates /\ \A y \in candidates : y \in listed /\ (y \in shaped <=> b \in shaped)
    BY <2>1, <2>4, <2>6, <2>7
  <2>9. \A y \in candidates : ~(off(y) < off(m) \/ (off(y) = off(m) /\ y.hz > m.hz))
    BY <2>1, <2>7, <2>8
  <2>10. IsBest(m, desired, s)
    BY <1>9, <1>11, <1>13, <2>8, <2>9
  <2>11. QED
    BY <2>10 DEF m
<1>14. CASE desired \in listed
  BY <1>6, <1>9, <1>14
<1>15. QED
  BY <1>12, <1>13, <1>14

-------------------------------------------------------------------------------

\* What Add picks from is what Windows listed.
Listed == offered = <<>> \/ offered \in ModeLists

LEMMA ListedStep ==
  ASSUME Listed, [Next]_vars
  PROVE  Listed'
<1> USE DEF Listed
<1>1. CASE CallRemove \/ CallAdd \/ Adding \/ Removing
  BY <1>1 DEF CallRemove, CallAdd, Adding, Removing, OpenFails, OpenVddDevice, VersionFails,
     TakeBefore, AddFails, AddDisplay, StartKeepAlive, WaitForNewDisplay, GiveUpWaiting,
     EnumModes, ApplyMode, ModeUnavailable, StopKeepAlive, JoinKeepAlive, RemoveDisplay,
     CloseDevice
<1>2. CASE KeepAlive \/ System \/ Crash \/ Tick \/ UNCHANGED vars
  BY <1>2 DEF KeepAlive, System, KeeperChecks, KeeperUpdates, KeeperWakes, DriverDrops,
     OtherClientAdds, OtherClientRemoves, MonitorAttaches, MonitorDetaches, ScreenPlugged,
     ScreenUnplugged, Crash, Tick, vars, ownVars
<1>3. QED
  BY <1>1, <1>2 DEF Next

LEMMA PickStep ==
  ASSUME Listed, [Next]_vars, mode' \notin {mode, NoMode}
  PROVE  IsBest(mode', Desired, offered)
<1>1. ApplyMode
  <2>1. CASE CallRemove \/ CallAdd \/ Adding \/ Removing
    BY <2>1 DEF CallRemove, CallAdd, Adding, Removing, OpenFails, OpenVddDevice, VersionFails,
       TakeBefore, AddFails, AddDisplay, StartKeepAlive, WaitForNewDisplay, GiveUpWaiting,
       EnumModes, ModeUnavailable, StopKeepAlive, JoinKeepAlive, RemoveDisplay,
       CloseDevice
  <2>2. CASE KeepAlive \/ System \/ Crash \/ Tick \/ UNCHANGED vars
    BY <2>2 DEF KeepAlive, System, KeeperChecks, KeeperUpdates, KeeperWakes, DriverDrops,
       OtherClientAdds, OtherClientRemoves, MonitorAttaches, MonitorDetaches, ScreenPlugged,
       ScreenUnplugged, Crash, Tick, vars, ownVars
  <2>3. QED
    BY <2>1, <2>2 DEF Next
<1>2. offered \in Seq(DisplayMode) /\ Desired \in DisplayMode
  <2>1. <<>> \in Seq(DisplayMode)
    OBVIOUS
  <2>2. QED
    BY <2>1, ModesAssumption DEF Listed
<1>3. mode' = PickBestMode(Desired, offered) /\ mode' # NoMode
  BY <1>1 DEF ApplyMode
<1>4. offered # <<>>
  BY <1>3 DEF PickBestMode
<1>5. QED
  BY <1>2, <1>3, <1>4, PickIsBest

\* Of the modes that Windows lists, Add applies the one that PickBestMode's
\* declaration promises, whatever the lists are and in whatever order.
THEOREM ModeIsBest == Spec => BestMode
<1>1. Init => Listed
  BY DEF Init, Listed
<1>2. Listed /\ [Next]_vars => Listed'
  BY ListedStep
<1>3. Listed /\ [Next]_vars => [mode' \notin {mode, NoMode} => IsBest(mode', Desired, offered)]_vars
  BY PickStep
<1>4. QED
  BY <1>1, <1>2, <1>3, PTL DEF Spec, BestMode
===============================================================================
