-------------------------------- MODULE TrayApp --------------------------------
(***************************************************************************)
(* The tray application (windows-host/ui/tray_app.cpp): the UI thread,     *)
(* with its Start, Stop and Quit commands, and the streaming worker, which *)
(* share g_running, g_quit and, under g_session_mutex, g_session.          *)
(*                                                                         *)
(* A session is what StreamingSession says of it: its Run returns once its *)
(* channel is closed, by Stop or from the other side.                      *)
(***************************************************************************)
EXTENDS Naturals

CONSTANTS
  PeerAnswers,  \* the iPad completes or refuses every handshake
  MayFail       \* crypto and the virtual display may fail to start

ASSUME TrayAssumption == PeerAnswers \in BOOLEAN /\ MayFail \in BOOLEAN

VARIABLES
  running,   \* g_running
  quit,      \* g_quit
  mutex,     \* holder of g_session_mutex
  slot,      \* g_session is not null
  ui,        \* where the UI thread is
  after,     \* where it goes after StopStreaming
  shown,     \* the value of g_running the menu was built from
  target,    \* what StopStreaming found in g_session
  worker,    \* where the worker is
  display,   \* the virtual display exists
  session,   \* the StreamingSession object exists
  link,      \* its tunnel: "none", "up" or "down"
  plugged    \* the iPad is attached, with its app listening

uiVars == <<ui, after, shown, target>>
shared == <<running, quit, mutex, slot>>
phone == <<link, plugged>>
vars == <<shared, uiVars, worker, display, session, phone>>

Init ==
  /\ running = FALSE
  /\ quit = FALSE
  /\ mutex = "nobody"
  /\ slot = FALSE
  /\ ui = "start"
  /\ after = "idle"
  /\ shown = FALSE
  /\ target = FALSE
  /\ worker = "none"
  /\ display = FALSE
  /\ session = FALSE
  /\ link = "none"
  /\ plugged \in BOOLEAN

-------------------------------------------------------------------------------
(* The UI thread.                                                           *)

\* ShowMenu: what is greyed out is decided before the menu is tracked.
OpenMenu ==
  /\ ui = "idle"
  /\ ui' = "menu"
  /\ shown' = running
  /\ UNCHANGED <<shared, after, target, worker, display, session, phone>>

Dismiss ==
  /\ ui = "menu"
  /\ ui' = "idle"
  /\ UNCHANGED <<shared, after, shown, target, worker, display, session, phone>>

ChooseStart ==
  /\ ui = "menu"
  /\ ~shown
  /\ ui' = "start"
  /\ UNCHANGED <<shared, after, shown, target, worker, display, session, phone>>

ChooseStop ==
  /\ ui = "menu"
  /\ shown
  /\ ui' = "stop"
  /\ after' = "idle"
  /\ UNCHANGED <<shared, shown, target, worker, display, session, phone>>

ChooseQuit ==
  /\ ui = "menu"
  /\ quit' = TRUE
  /\ ui' = "stop"
  /\ after' = "destroy"
  /\ UNCHANGED <<running, mutex, slot, shown, target, worker, display, session, phone>>

\* StartStreaming: g_running.exchange(true).
StartClaim ==
  /\ ui = "start"
  /\ running' = TRUE
  /\ ui' = IF running THEN "idle" ELSE "reap"
  /\ UNCHANGED <<quit, mutex, slot, after, shown, target, worker, display, session, phone>>

\* It joins a worker that failed earlier and starts a new one.
StartWorker ==
  /\ ui = "reap"
  /\ worker \in {"none", "exited"}
  /\ worker' = "boot"
  /\ ui' = "idle"
  /\ UNCHANGED <<shared, after, shown, target, display, session, phone>>

\* StopStreaming.
StopFlag ==
  /\ ui = "stop"
  /\ running' = FALSE
  /\ ui' = "lock"
  /\ UNCHANGED <<quit, mutex, slot, after, shown, target, worker, display, session, phone>>

StopLock ==
  /\ ui = "lock"
  /\ mutex = "nobody"
  /\ mutex' = "ui"
  /\ target' = slot
  /\ ui' = "call"
  /\ UNCHANGED <<running, quit, slot, after, shown, worker, display, session, phone>>

\* Mutated forms: the mutex is not released; g_session is not stopped.
StopCallKeepsLock ==
  /\ ui = "call"
  /\ link' = IF target /\ link = "up" THEN "down" ELSE link
  /\ ui' = "join"
  /\ UNCHANGED <<shared, after, shown, target, worker, display, session, plugged>>

StopCallNothing ==
  /\ ui = "call"
  /\ mutex' = "nobody"
  /\ ui' = "join"
  /\ UNCHANGED <<running, quit, slot, after, shown, target, worker, display, session, phone>>

\* g_session->Stop(), under the mutex, closes the channel.
StopCall ==
  /\ ui = "call"
  /\ link' = IF target /\ link = "up" THEN "down" ELSE link
  /\ mutex' = "nobody"
  /\ ui' = "join"
  /\ UNCHANGED <<running, quit, slot, after, shown, target, worker, display, session, plugged>>

\* Mutated form: the worker is not joined.
StopJoinDetached ==
  /\ ui = "join"
  /\ ui' = after
  /\ UNCHANGED <<shared, after, shown, target, worker, display, session, phone>>

StopJoin ==
  /\ ui = "join"
  /\ worker \in {"none", "exited"}
  /\ worker' = "none"
  /\ ui' = after
  /\ UNCHANGED <<shared, after, shown, target, display, session, phone>>

\* DestroyWindow ends the message loop, and wWinMain stops once more.
DestroyWindow ==
  /\ ui = "destroy"
  /\ ui' = "stop"
  /\ after' = "end"
  /\ UNCHANGED <<shared, shown, target, worker, display, session, phone>>

-------------------------------------------------------------------------------
(* The worker, StreamLoop.                                                  *)

\* Mutated form: the early return leaves g_running set.
BootFailsSilently ==
  /\ MayFail
  /\ worker = "boot"
  /\ worker' = "failed"
  /\ UNCHANGED <<shared, uiVars, display, session, phone>>

\* InitCrypto or the virtual display failed: it is about to return.
BootFails ==
  /\ MayFail
  /\ worker = "boot"
  /\ running' = FALSE
  /\ worker' = "failed"
  /\ UNCHANGED <<quit, mutex, slot, uiVars, display, session, phone>>

WorkerReturns ==
  /\ worker = "failed"
  /\ worker' = "exited"
  /\ UNCHANGED <<shared, uiVars, display, session, phone>>

Boot ==
  /\ worker = "boot"
  /\ display' = TRUE
  /\ worker' = "test"
  /\ UNCHANGED <<shared, uiVars, session, phone>>

\* Mutated form: the loop only tests g_quit.
LoopTestQuitOnly ==
  /\ worker = "test"
  /\ worker' = IF ~quit THEN "wait" ELSE "remove"
  /\ UNCHANGED <<shared, uiVars, display, session, phone>>

LoopTest ==
  /\ worker = "test"
  /\ worker' = IF running /\ ~quit THEN "wait" ELSE "remove"
  /\ UNCHANGED <<shared, uiVars, display, session, phone>>

\* WaitForDevice and Connect return in bounded time, with or without success.
WaitForDevice ==
  /\ worker = "wait"
  /\ \/ plugged /\ worker' = "connect"
     \/ worker' = "test"
  /\ UNCHANGED <<shared, uiVars, display, session, phone>>

Connect ==
  /\ worker = "connect"
  /\ \/ /\ plugged
        /\ link' = "up"
        /\ worker' = "establish"
     \/ /\ worker' = "test"
        /\ link' = link
  /\ UNCHANGED <<shared, uiVars, display, session, plugged>>

\* Establish has no timeout: it returns when the iPad answers or the tunnel ends.
EstablishOk ==
  /\ worker = "establish"
  /\ link = "up"
  /\ session' = TRUE
  /\ worker' = "publish"
  /\ UNCHANGED <<shared, uiVars, display, phone>>

EstablishRefused ==
  /\ worker = "establish"
  /\ link' = "none"
  /\ worker' = "test"
  /\ UNCHANGED <<shared, uiVars, display, session, plugged>>

Publish ==
  /\ worker = "publish"
  /\ mutex = "nobody"
  /\ slot' = TRUE
  /\ worker' = "run"
  /\ UNCHANGED <<running, quit, mutex, uiVars, display, session, phone>>

\* Run returns when the channel has ended, or earlier (DISCONNECT, an error).
RunReturns ==
  /\ worker = "run"
  /\ worker' = "unpublish"
  /\ UNCHANGED <<shared, uiVars, display, session, phone>>

\* Mutated form: g_session is cleared without g_session_mutex (as tools/stream does).
UnpublishUnguarded ==
  /\ worker = "unpublish"
  /\ slot' = FALSE
  /\ worker' = "drop"
  /\ UNCHANGED <<running, quit, mutex, uiVars, display, session, phone>>

Unpublish ==
  /\ worker = "unpublish"
  /\ mutex = "nobody"
  /\ slot' = FALSE
  /\ worker' = "drop"
  /\ UNCHANGED <<running, quit, mutex, uiVars, display, session, phone>>

\* The end of the loop body destroys the session and the tunnel.
Drop ==
  /\ worker = "drop"
  /\ session' = FALSE
  /\ link' = "none"
  /\ worker' = "test"
  /\ UNCHANGED <<shared, uiVars, display, plugged>>

RemoveDisplay ==
  /\ worker = "remove"
  /\ display' = FALSE
  /\ worker' = "exited"
  /\ UNCHANGED <<shared, uiVars, session, phone>>

-------------------------------------------------------------------------------
(* The iPad.                                                                *)

Plug ==
  /\ ~plugged
  /\ plugged' = TRUE
  /\ UNCHANGED <<shared, uiVars, worker, display, session, link>>

Unplug ==
  /\ plugged
  /\ plugged' = FALSE
  /\ link' = IF link = "up" THEN "down" ELSE link
  /\ UNCHANGED <<shared, uiVars, worker, display, session>>

PeerCloses ==
  /\ link = "up"
  /\ link' = "down"
  /\ UNCHANGED <<shared, uiVars, worker, display, session, plugged>>

-------------------------------------------------------------------------------
User == OpenMenu \/ Dismiss \/ ChooseStart \/ ChooseStop \/ ChooseQuit

Commands ==
  \/ StartClaim \/ StartWorker
  \/ StopFlag \/ StopLock \/ StopCall \/ StopJoin \/ DestroyWindow

Starting == Boot \/ BootFails \/ WorkerReturns

Handshake == EstablishOk \/ EstablishRefused

\* The worker's steps that wait for nothing but the mutex.
Steps == LoopTest \/ WaitForDevice \/ Connect \/ Publish \/ Unpublish \/ Drop \/ RemoveDisplay

Worker == Starting \/ Steps \/ Handshake \/ RunReturns

IPad == Plug \/ Unplug \/ PeerCloses

Next == User \/ Commands \/ Worker \/ IPad

\* Both threads are scheduled.  A blocking read ends when the tunnel has ended;
\* while it is up, only PeerAnswers makes Establish return, and nothing makes
\* Run return (the iPad may stream for ever).
Fairness ==
  /\ WF_vars(Commands)
  /\ WF_vars(Starting)
  /\ WF_vars(Steps)
  /\ WF_vars(link = "down" /\ (EstablishRefused \/ RunReturns))
  /\ PeerAnswers => WF_vars(Handshake)

Spec == Init /\ [][Next]_vars

FairSpec == Spec /\ Fairness

-------------------------------------------------------------------------------
(* Properties.                                                              *)

\* Types, and who holds g_session_mutex between steps: only a UI thread that is
\* in the course of calling Stop.
TypeOK ==
  /\ (mutex = "ui") = (ui = "call")
  /\ running \in BOOLEAN
  /\ quit \in BOOLEAN
  /\ mutex \in {"nobody", "ui"}
  /\ slot \in BOOLEAN
  /\ ui \in {"idle", "menu", "start", "reap", "stop", "lock", "call", "join", "destroy", "end"}
  /\ after \in {"idle", "destroy", "end"}
  /\ shown \in BOOLEAN
  /\ target \in BOOLEAN
  /\ worker \in {"none", "boot", "failed", "test", "wait", "connect", "establish", "publish",
                 "run", "unpublish", "drop", "remove", "exited"}
  /\ display \in BOOLEAN
  /\ session \in BOOLEAN
  /\ link \in {"none", "up", "down"}
  /\ plugged \in BOOLEAN

\* Stop is never called on a session that has been destroyed: the worker clears
\* g_session under the mutex before the session goes out of scope.
NoDanglingStop == ui = "call" /\ target => session

\* While no command is in progress g_running tells whether a worker exists, so
\* the menu never offers only what cannot work (Stop of no worker, a Start that
\* is ignored).
RunningTellsWorker ==
  ui = "idle" =>
    /\ running => worker \notin {"none", "failed", "exited"}
    /\ ~running => worker \in {"none", "failed", "exited"}

\* When the program ends, no worker is left and the virtual display is removed.
NothingLeftBehind == ui = "end" => worker = "none" /\ ~display /\ ~session

\* A Stop that finds a published session ends: the channel is closed under Run.
StopOfPublishedReturns == (ui = "call" /\ target) ~> ui \in {"idle", "end"}

\* Whatever a Stop waits for, unplugging the iPad for good ends it.
UnplugFreesUI == (<>[]~plugged) => (ui = "join" ~> ui # "join")

\* Stop stops: StopStreaming clears g_running, which gates the worker's loop
\* (the comment on StreamLoop), stops the session and joins.  The UI thread is
\* blocked until then.
StopReturns == ui = "join" ~> ui # "join"
===============================================================================
