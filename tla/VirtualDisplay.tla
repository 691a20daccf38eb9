---------------------------- MODULE VirtualDisplay ----------------------------
(***************************************************************************)
(* The virtual display (windows-host/vdisplay/src/parsec_vdd.cpp): Add and *)
(* Remove, called by one owner, the keep-alive thread they start and stop, *)
(* the driver, which drops a display that is not refreshed in time and has *)
(* other clients, and Windows, which attaches a monitor for a display, and *)
(* detaches it, when it gets round to it.                                  *)
(*                                                                         *)
(* Time is discrete.  A thread that can go on does so within Lateness; one *)
(* that merely waits, for a monitor or in its caller, may take for ever.   *)
(***************************************************************************)
EXTENDS DisplayModes

CONSTANTS
  Interval,   \* kKeepAliveIntervalMs
  Timeout,    \* how long the driver keeps a display that is not refreshed
  Lateness,   \* how late the scheduler may run a thread
  Index,      \* indices the driver hands out
  Names,      \* GDI device names
  Desired,    \* the mode Add is asked for
  ModeLists,  \* mode lists Windows may enumerate for the new monitor
  NoIndex, NoName

\* The code's 90 ms under the driver's 100 ms leave 5 ms to each of two threads.
ASSUME TimingAssumption ==
  /\ Interval \in Nat /\ Timeout \in Nat /\ Lateness \in Nat
  /\ Lateness <= Interval
  /\ Interval + 2 * Lateness <= Timeout

ASSUME DisplayAssumption ==
  NoIndex \notin Index /\ NoName \notin Names

ASSUME ModesAssumption == Desired \in DisplayMode /\ ModeLists \subseteq Seq(DisplayMode)

VARIABLES
  main,    \* where the owner is in Add or Remove
  goal,    \* what follows Remove: "idle" if it was called, "open" inside Add
  handle,  \* vdd_ is open
  index,   \* index_
  alive,   \* alive_
  device,  \* what WaitForNewDisplay found, and Add reports
  mode,    \* the mode applied, and reported
  offered, \* the modes listed for the device, while one is picked
  before,  \* the display names attached before ADD
  keepRun, \* keep_alive_run_
  keeper,  \* where the keep-alive thread is
  slot,    \* whose each of the driver's displays is
  age,     \* time since each was refreshed
  name,    \* the monitor Windows attached for each
  screens, \* other monitors
  sleep,   \* what remains of the keep-alive thread's sleep
  late     \* how long each thread has been able to go on

ownVars == <<main, goal, handle, index, alive, device, mode, offered, before>>
keepVars == <<keepRun, keeper, sleep>>
sysVars == <<slot, age, name, screens>>
vars == <<ownVars, keepVars, sysVars, late>>

Init ==
  /\ main = "idle" /\ goal = "idle"
  /\ handle = FALSE /\ index = NoIndex /\ alive = FALSE
  /\ device = NoName /\ mode = NoMode /\ offered = <<>> /\ before = {}
  /\ keepRun = FALSE /\ keeper = "none" /\ sleep = 0
  /\ slot = [i \in Index |-> "free"]
  /\ age = [i \in Index |-> 0]
  /\ name = [i \in Index |-> NoName]
  /\ screens \in SUBSET Names
  /\ late = [main |-> 0, keeper |-> 0]

AttachedDisplayNames == screens \cup {name[i] : i \in {j \in Index : name[j] # NoName}}

-------------------------------------------------------------------------------
(* Remove, also the first thing Add does and its way out.                   *)

CallRemove ==
  /\ main = "idle"
  /\ main' = "stop" /\ goal' = "idle"
  /\ UNCHANGED <<handle, index, alive, device, mode, offered, before, keepVars, sysVars, late>>

CallAdd ==
  /\ main = "idle"
  /\ main' = "stop" /\ goal' = "open"
  /\ UNCHANGED <<handle, index, alive, device, mode, offered, before, keepVars, sysVars, late>>

StopKeepAlive ==
  /\ main = "stop"
  /\ keepRun' = FALSE
  /\ main' = "join"
  /\ UNCHANGED <<goal, handle, index, alive, device, mode, offered, before, keeper, sleep,
                 sysVars, late>>

JoinKeepAlive ==
  /\ main = "join"
  /\ keeper \in {"none", "ended"}
  /\ keeper' = "none"
  /\ main' = "remove"
  /\ UNCHANGED <<goal, handle, index, alive, device, mode, offered, before, keepRun, sleep,
                 sysVars, late>>

\* An UPDATE refreshes the client's displays; whether it also refreshes those
\* of a client that died is the driver's secret.
Refresh(slots) ==
  \E S \in {{"ours"}, {"ours", "orphan"}} :
    age' = [i \in Index |-> IF slots[i] \in S THEN 0 ELSE age[i]]

\* A mutant of RemoveDisplay: index_ is not reset.
RemoveDisplayKeepsIndex ==
  /\ main = "remove"
  /\ IF handle /\ index # NoIndex
       THEN /\ \E left \in {"free", "orphan"} : slot' = [slot EXCEPT ![index] = left]
            /\ Refresh(slot')
       ELSE UNCHANGED <<slot, age>>
  /\ main' = "close"
  /\ late' = [late EXCEPT !.main = 0]
  /\ UNCHANGED <<goal, handle, index, alive, device, mode, offered, before, keepVars, name,
                 screens>>

\* REMOVE may fail, and nobody looks: the display is left to the driver.
RemoveDisplay ==
  /\ main = "remove"
  /\ IF handle /\ index # NoIndex
       THEN /\ \E left \in {"free", "orphan"} : slot' = [slot EXCEPT ![index] = left]
            /\ Refresh(slot')
            /\ index' = NoIndex
       ELSE UNCHANGED <<slot, age, index>>
  /\ main' = "close"
  /\ late' = [late EXCEPT !.main = 0]
  /\ UNCHANGED <<goal, handle, alive, device, mode, offered, before, keepVars, name, screens>>

\* A mutant of CloseDevice: alive_ is not reset.
CloseDeviceStillAlive ==
  /\ main = "close"
  /\ handle' = FALSE
  /\ device' = NoName /\ mode' = NoMode
  /\ main' = goal
  /\ UNCHANGED <<goal, index, alive, offered, before, keepVars, sysVars, late>>

CloseDevice ==
  /\ main = "close"
  /\ handle' = FALSE
  /\ alive' = FALSE
  /\ device' = NoName /\ mode' = NoMode
  /\ main' = goal
  /\ UNCHANGED <<goal, index, offered, before, keepVars, sysVars, late>>

-------------------------------------------------------------------------------
(* Add.                                                                     *)

\* No device interface, or it cannot be opened.
OpenFails ==
  /\ main = "open"
  /\ main' = "idle"
  /\ UNCHANGED <<goal, handle, index, alive, device, mode, offered, before, keepVars, sysVars,
                 late>>

OpenVddDevice ==
  /\ main = "open"
  /\ handle' = TRUE
  /\ main' = "version"
  /\ UNCHANGED <<goal, index, alive, device, mode, offered, before, keepVars, sysVars, late>>

\* DriverNotRunning: the handle stays open until the next Add or Remove.
VersionFails ==
  /\ main = "version"
  /\ main' = "idle"
  /\ UNCHANGED <<goal, handle, index, alive, device, mode, offered, before, keepVars, sysVars,
                 late>>

TakeBefore ==
  /\ main = "version"
  /\ before' = AttachedDisplayNames
  /\ main' = "add"
  /\ UNCHANGED <<goal, handle, index, alive, device, mode, offered, keepVars, sysVars, late>>

AddFails ==
  /\ main = "add"
  /\ index' = NoIndex
  /\ Refresh(slot)
  /\ before' = {}
  /\ main' = "idle"
  /\ UNCHANGED <<goal, handle, alive, device, mode, offered, keepVars, slot, name, screens, late>>

VacantSlots == {i \in Index : slot[i] = "free" /\ name[i] = NoName}

AddDisplay ==
  /\ main = "add"
  /\ \E i \in VacantSlots :
       /\ index' = i
       /\ slot' = [slot EXCEPT ![i] = "ours"]
       /\ Refresh(slot')
  /\ main' = "spawn"
  /\ late' = [late EXCEPT !.main = 0]
  /\ UNCHANGED <<goal, handle, alive, device, mode, offered, before, keepVars, name, screens>>

StartKeepAlive ==
  /\ main = "spawn"
  /\ keeper = "none"
  /\ keepRun' = TRUE
  /\ keeper' = "check"
  /\ main' = "wait"
  /\ late' = [main |-> 0, keeper |-> 0]
  /\ UNCHANGED <<goal, handle, index, alive, device, mode, offered, before, sleep, sysVars>>

NewDisplays == AttachedDisplayNames \ before

WaitForNewDisplay ==
  /\ main = "wait"
  /\ device' \in NewDisplays
  /\ before' = {}
  /\ main' = "mode"
  /\ UNCHANGED <<goal, handle, index, alive, mode, offered, keepVars, sysVars, late>>

\* After 50 polls Add gives up and removes what it added.
GiveUpWaiting ==
  /\ main = "wait"
  /\ NewDisplays = {}
  /\ before' = {}
  /\ main' = "stop" /\ goal' = "idle"
  /\ UNCHANGED <<handle, index, alive, device, mode, offered, keepVars, sysVars, late>>

EnumModes ==
  /\ main = "mode"
  /\ offered' \in ModeLists
  /\ main' = "apply"
  /\ UNCHANGED <<goal, handle, index, alive, device, mode, before, keepVars, sysVars, late>>

ApplyMode ==
  /\ main = "apply"
  /\ mode' = PickBestMode(Desired, offered)
  /\ mode' # NoMode
  /\ offered' = <<>>
  /\ alive' = TRUE
  /\ main' = "idle"
  /\ UNCHANGED <<goal, handle, index, device, before, keepVars, sysVars, late>>

\* No mode is listed, or Windows does not apply the one picked.
ModeUnavailable ==
  /\ main = "apply"
  /\ offered' = <<>>
  /\ main' = "stop" /\ goal' = "idle"
  /\ UNCHANGED <<handle, index, alive, device, mode, before, keepVars, sysVars, late>>

Adding ==
  \/ OpenFails \/ OpenVddDevice \/ VersionFails \/ TakeBefore \/ AddFails \/ AddDisplay
  \/ StartKeepAlive \/ WaitForNewDisplay \/ GiveUpWaiting \/ EnumModes \/ ApplyMode \/ ModeUnavailable

Removing == StopKeepAlive \/ JoinKeepAlive \/ RemoveDisplay \/ CloseDevice

-------------------------------------------------------------------------------
(* The keep-alive thread.                                                   *)

KeeperChecks ==
  /\ keeper = "check"
  /\ keeper' = IF keepRun THEN "update" ELSE "ended"
  /\ UNCHANGED <<ownVars, keepRun, sleep, sysVars, late>>

\* A mutant of KeeperUpdates: it sleeps as long as the driver waits.
KeeperUpdatesAtTimeout ==
  /\ keeper = "update"
  /\ IF handle THEN Refresh(slot) ELSE UNCHANGED age
  /\ sleep' = Timeout
  /\ keeper' = "sleep"
  /\ late' = [late EXCEPT !.keeper = 0]
  /\ UNCHANGED <<ownVars, keepRun, slot, name, screens>>

KeeperUpdates ==
  /\ keeper = "update"
  /\ IF handle THEN Refresh(slot) ELSE UNCHANGED age
  /\ sleep' = Interval
  /\ keeper' = "sleep"
  /\ late' = [late EXCEPT !.keeper = 0]
  /\ UNCHANGED <<ownVars, keepRun, slot, name, screens>>

KeeperWakes ==
  /\ keeper = "sleep" /\ sleep = 0
  /\ keeper' = "check"
  /\ UNCHANGED <<ownVars, keepRun, sleep, sysVars, late>>

KeepAlive == KeeperChecks \/ KeeperUpdates \/ KeeperWakes

-------------------------------------------------------------------------------
(* The driver, its other clients, Windows and the user.                     *)

Perishable(i) == slot[i] \in {"ours", "orphan"}

DriverDrops ==
  /\ \E i \in Index :
       /\ Perishable(i) /\ age[i] > Timeout
       /\ slot' = [slot EXCEPT ![i] = "free"]
       /\ age' = [age EXCEPT ![i] = 0]
  /\ UNCHANGED <<ownVars, keepVars, name, screens, late>>

OtherClientAdds ==
  /\ \E i \in VacantSlots : slot' = [slot EXCEPT ![i] = "theirs"]
  /\ UNCHANGED <<ownVars, keepVars, age, name, screens, late>>

OtherClientRemoves ==
  /\ \E i \in Index : slot[i] = "theirs" /\ slot' = [slot EXCEPT ![i] = "free"]
  /\ UNCHANGED <<ownVars, keepVars, age, name, screens, late>>

MonitorAttaches ==
  /\ \E i \in Index, n \in Names \ AttachedDisplayNames :
       /\ name[i] = NoName /\ slot[i] # "free"
       /\ name' = [name EXCEPT ![i] = n]
  /\ UNCHANGED <<ownVars, keepVars, slot, age, screens, late>>

MonitorDetaches ==
  /\ \E i \in Index :
       /\ slot[i] = "free" /\ name[i] # NoName
       /\ name' = [name EXCEPT ![i] = NoName]
  /\ UNCHANGED <<ownVars, keepVars, slot, age, screens, late>>

ScreenPlugged ==
  /\ \E n \in Names \ AttachedDisplayNames : screens' = screens \cup {n}
  /\ UNCHANGED <<ownVars, keepVars, slot, age, name, late>>

ScreenUnplugged ==
  /\ \E n \in screens : screens' = screens \ {n}
  /\ UNCHANGED <<ownVars, keepVars, slot, age, name, late>>

\* The program is killed: its handle is closed for it, its displays stay with
\* the driver.
Crash ==
  /\ main' = "idle" /\ goal' = "idle"
  /\ handle' = FALSE /\ index' = NoIndex /\ alive' = FALSE
  /\ device' = NoName /\ mode' = NoMode /\ offered' = <<>> /\ before' = {}
  /\ keepRun' = FALSE /\ keeper' = "none" /\ sleep' = 0
  /\ slot' = [i \in Index |-> IF slot[i] = "ours" THEN "orphan" ELSE slot[i]]
  /\ late' = [main |-> 0, keeper |-> 0]
  /\ UNCHANGED <<age, name, screens>>

\* Threads that can go on, where it matters to the driver when they do.
Urgent(t) ==
  IF t = "main"
    THEN main \in {"spawn", "remove"} \/ (main = "join" /\ keeper = "ended")
    ELSE keeper \in {"check", "update"} \/ (keeper = "sleep" /\ sleep = 0)

Tick ==
  /\ \A t \in {"main", "keeper"} : Urgent(t) => late[t] < Lateness
  /\ late' = [t \in {"main", "keeper"} |-> IF Urgent(t) THEN late[t] + 1 ELSE 0]
  /\ sleep' = IF sleep > 0 THEN sleep - 1 ELSE 0
  /\ age' = [i \in Index |-> IF Perishable(i) /\ age[i] <= Timeout THEN age[i] + 1 ELSE age[i]]
  /\ UNCHANGED <<ownVars, keepRun, keeper, slot, name, screens>>

System ==
  \/ DriverDrops \/ OtherClientAdds \/ OtherClientRemoves
  \/ MonitorAttaches \/ MonitorDetaches \/ ScreenPlugged \/ ScreenUnplugged

Next == CallAdd \/ CallRemove \/ Adding \/ Removing \/ KeepAlive \/ System \/ Crash \/ Tick

Spec == Init /\ [][Next]_vars

-------------------------------------------------------------------------------

\* The types, and alive_ is set only with a display and a mode to report.
TypeOK ==
  /\ main \in {"idle", "stop", "join", "remove", "close", "open", "version", "add", "spawn",
               "wait", "mode", "apply"}
  /\ goal \in {"idle", "open"}
  /\ handle \in BOOLEAN /\ alive \in BOOLEAN /\ keepRun \in BOOLEAN
  /\ alive => device # NoName /\ mode # NoMode
  /\ index \in Index \cup {NoIndex}
  /\ device \in Names \cup {NoName}
  /\ before \subseteq Names /\ screens \subseteq Names
  /\ keeper \in {"none", "check", "update", "sleep", "ended"}
  /\ slot \in [Index -> {"free", "ours", "theirs", "orphan"}]
  /\ age \in [Index -> 0..Timeout + 1]
  /\ name \in [Index -> Names \cup {NoName}]
  /\ sleep \in 0..Interval
  /\ late \in [{"main", "keeper"} -> 0..Lateness]

\* The driver never finds the program's display stale: the keep-alive starts
\* soon enough after ADD, sleeps shortly enough, and Remove is quick enough
\* after it has stopped it.
NeverDropped == \A i \in Index : slot[i] = "ours" => age[i] <= Timeout

\* REMOVE is sent for a display of this run of the program, never for an index
\* that was dropped meanwhile, that belongs to another client of the driver or
\* that an earlier Add left behind.
RemovesItsOwn == main = "remove" /\ handle /\ index # NoIndex => slot[index] = "ours"

\* The keep-alive thread never uses a handle that is closed or reopened under it.
UpdatesOpenHandle == keeper = "update" => handle

\* What the declaration of VirtualDisplayInfo says of the name that Add reports
\* and the session captures: it "lets capture target THIS display, never the
\* user's primary screen" (virtual_display.hpp).  It does not hold: Add takes
\* any display that appears while it looks for its own.
ServesItsDisplay ==
  main = "idle" /\ alive => /\ handle /\ index # NoIndex
                           /\ slot[index] = "ours"
                           /\ name[index] = device

\* The mode applied is the one virtual_display.hpp promises for the modes listed.
BestMode == [][mode' \notin {mode, NoMode} => IsBest(mode', Desired, offered)]_vars
===============================================================================
