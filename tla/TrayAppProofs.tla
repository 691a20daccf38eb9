----------------------------- MODULE TrayAppProofs -----------------------------
(***************************************************************************)
(* Proofs about TrayApp: its types, and that the UI thread's commands and  *)
(* the worker agree on the session, on g_running and on what the program   *)
(* leaves behind, whether or not start-up may fail and the iPad answers.   *)
(***************************************************************************)
EXTENDS TrayApp, TLAPS

Dead == {"none", "failed", "exited"}
Stopping == {"stop", "lock", "call", "join", "destroy", "end"}

\* What the worker owns is there only while it is at a place that uses it.
Life ==
  /\ session <=> worker \in {"publish", "run", "unpublish", "drop"}
  /\ slot <=> worker \in {"run", "unpublish"}
  /\ display => worker \notin {"none", "boot", "failed", "exited"}

\* g_session does not change between the test in StopStreaming and the call.
Held == ui = "call" => target = slot

\* g_running and g_quit as the UI thread left them.
Flags ==
  /\ ui \in {"idle", "menu", "start"} => (running <=> worker \notin Dead)
  /\ ui = "reap" => running /\ worker \in Dead
  /\ ui \in {"lock", "call", "join", "destroy", "end"} => ~running
  /\ ui \in {"destroy", "end"} => worker = "none"
  /\ worker = "remove" => ~running \/ quit
  /\ quit => ui \in Stopping /\ after \in {"destroy", "end"}

IInv == TypeOK /\ Life /\ Held /\ Flags

-------------------------------------------------------------------------------

LEMMA InvInit == Init => IInv
BY DEF Init, IInv, TypeOK, Life, Held, Flags, Dead, Stopping

LEMMA TypeStep ==
  ASSUME TypeOK, [Next]_vars
  PROVE  TypeOK'
<1>1. CASE User
  BY <1>1 DEF TypeOK, User, OpenMenu, Dismiss, ChooseStart, ChooseStop, ChooseQuit, shared, phone
<1>2. CASE Commands
  BY <1>2 DEF TypeOK, Commands, StartClaim, StartWorker, StopFlag, StopLock, StopCall, StopJoin,
              DestroyWindow, shared, phone
<1>3. CASE Worker
  BY <1>3 DEF TypeOK, Worker, Starting, Boot, BootFails, WorkerReturns, Steps, LoopTest,
              WaitForDevice, Connect, Publish, Unpublish, Drop, RemoveDisplay, Handshake,
              EstablishOk, EstablishRefused, RunReturns, shared, uiVars, phone
<1>4. CASE IPad
  BY <1>4 DEF TypeOK, IPad, Plug, Unplug, PeerCloses, shared, uiVars
<1>5. CASE UNCHANGED vars
  BY <1>5 DEF TypeOK, vars, shared, uiVars, phone
<1> QED BY <1>1, <1>2, <1>3, <1>4, <1>5 DEF Next

LEMMA LifeStep ==
  ASSUME TypeOK, Life, Held, Flags, [Next]_vars
  PROVE  Life' /\ Held'
<1>1. CASE User
  BY <1>1 DEF TypeOK, Life, Held, User, OpenMenu, Dismiss, ChooseStart, ChooseStop, ChooseQuit,
              shared, phone
<1>2. CASE Commands
  BY <1>2 DEF TypeOK, Life, Held, Flags, Dead, Commands, StartClaim, StartWorker, StopFlag,
              StopLock, StopCall, StopJoin, DestroyWindow, shared, phone
<1>3. CASE Worker
  \* The worker publishes and withdraws the session only while nobody holds the mutex.
  BY <1>3 DEF TypeOK, Life, Held, Worker, Starting, Boot, BootFails, WorkerReturns, Steps,
              LoopTest, WaitForDevice, Connect, Publish, Unpublish, Drop, RemoveDisplay,
              Handshake, EstablishOk, EstablishRefused, RunReturns, shared, uiVars, phone
<1>4. CASE IPad
  BY <1>4 DEF Life, Held, IPad, Plug, Unplug, PeerCloses, shared, uiVars
<1>5. CASE UNCHANGED vars
  BY <1>5 DEF Life, Held, vars, shared, uiVars, phone
<1> QED BY <1>1, <1>2, <1>3, <1>4, <1>5 DEF Next

LEMMA FlagsStep ==
  ASSUME TypeOK, Flags, [Next]_vars
  PROVE  Flags'
<1> USE DEF Dead, Stopping
<1>1. CASE User
  BY <1>1 DEF TypeOK, Flags, User, OpenMenu, Dismiss, ChooseStart, ChooseStop, ChooseQuit,
              shared, phone
<1>2. CASE Commands
  BY <1>2 DEF TypeOK, Flags, Commands, StartClaim, StartWorker, StopFlag, StopLock, StopCall,
              StopJoin, DestroyWindow, shared, phone
<1>3. CASE Worker
  <2>1. CASE Starting
    BY <2>1 DEF TypeOK, Flags, Starting, Boot, BootFails, WorkerReturns, shared, uiVars, phone
  <2>2. CASE Steps
    BY <2>2 DEF TypeOK, Flags, Steps, LoopTest, WaitForDevice, Connect, Publish, Unpublish, Drop,
                RemoveDisplay, shared, uiVars, phone
  <2>3. CASE Handshake \/ RunReturns
    BY <2>3 DEF TypeOK, Flags, Handshake, EstablishOk, EstablishRefused, RunReturns, shared,
                uiVars, phone
  <2> QED BY <1>3, <2>1, <2>2, <2>3 DEF Worker
<1>4. CASE IPad
  BY <1>4 DEF Flags, IPad, Plug, Unplug, PeerCloses, shared, uiVars
<1>5. CASE UNCHANGED vars
  BY <1>5 DEF Flags, vars, shared, uiVars, phone
<1> QED BY <1>1, <1>2, <1>3, <1>4, <1>5 DEF Next

LEMMA Invariance == Spec => []IInv
<1>1. IInv /\ [Next]_vars => IInv'
  BY TypeStep, LifeStep, FlagsStep DEF IInv
<1> QED BY InvInit, <1>1, PTL DEF Spec

-------------------------------------------------------------------------------

\* g_running, the menu, the worker and the mutex have the values the code gives them.
THEOREM TypeCorrect == Spec => []TypeOK
<1>1. IInv => TypeOK
  BY DEF IInv
<1> QED BY Invariance, <1>1, PTL

\* StopStreaming never calls Stop on a session the worker has destroyed.
THEOREM StopIsSafe == Spec => []NoDanglingStop
<1>1. IInv => NoDanglingStop
  BY DEF IInv, Life, Held, NoDanglingStop
<1> QED BY Invariance, <1>1, PTL

\* Between commands g_running is true exactly while a worker goes on.
THEOREM MenuIsRight == Spec => []RunningTellsWorker
<1>1. IInv => RunningTellsWorker
  BY DEF IInv, Flags, Dead, RunningTellsWorker
<1> QED BY Invariance, <1>1, PTL

\* When wWinMain returns the worker is joined and the display is removed.
THEOREM QuitIsClean == Spec => []NothingLeftBehind
<1>1. IInv => NothingLeftBehind
  BY DEF IInv, Life, Flags, NothingLeftBehind
<1> QED BY Invariance, <1>1, PTL
================================================================================
