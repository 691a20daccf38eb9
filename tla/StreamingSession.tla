--------------------------- MODULE StreamingSession ---------------------------
(***************************************************************************)
(* One session of the host (windows-host/core/src/streaming_session.cpp),  *)
(* with the parts of the capture source and of the encoder it is           *)
(* synchronised with.  Four kinds of thread share it:                      *)
(*   "main"    the caller of Run()                                         *)
(*   "ctl"     the control thread, ControlLoop()                           *)
(*   "stop"    whoever calls Stop(): the tray's UI thread, a Ctrl handler  *)
(*   Handlers  free-threaded WGC callbacks: OnFrameArrived -> OnFrame      *)
(* and the iPad is at the other end of the channel.                        *)
(***************************************************************************)
EXTENDS Naturals, Sequences, SequencesExt

CONSTANTS
  Handlers,   \* threads the frame pool may call OnFrameArrived on
  Tokens,     \* PING tokens
  PeerMsgs,   \* messages the iPad may send
  InCap,      \* bound: bytes in flight to the host, in messages
  OutCap,     \* capacity of the socket buffers towards the iPad, in messages
  SeqModulus,     \* seq_ counts modulo SeqModulus (2^32 in the code)
  Faults      \* calls that may fail: "start", "init", "encode", "bitstream"

Nobody == "nobody"
NoMsg == [type |-> "NONE"]

HelloMsg == [type |-> "HELLO"]
WelcomeMsg == [type |-> "WELCOME"]
PongMsg(t) == [type |-> "PONG", token |-> t]
VideoMsg(s, k) == [type |-> "VIDEO", seq |-> s, key |-> k]

HostMsgs ==
  {HelloMsg, WelcomeMsg} \cup {PongMsg(t) : t \in Tokens}
    \cup {VideoMsg(s, k) : s \in 0..SeqModulus-1, k \in BOOLEAN}

\* IGNORED stands for what decode_message rejects and for the messages that
\* yield no action (HELLO, FORMAT_CHANGE, WELCOME, PONG, VIDEO_FRAME); CORRUPT
\* for bytes on which FrameParser::next fails for good.
ControlMsgs ==
  {[type |-> x] : x \in {"KEYFRAME_REQUEST", "DISCONNECT", "IGNORED", "CORRUPT"}}
    \cup {[type |-> "PING", token |-> t] : t \in Tokens}

ASSUME SessionAssumption ==
  /\ Handlers \cap {"main", "ctl", "stop", Nobody} = {}
  /\ PeerMsgs \subseteq ControlMsgs
  /\ InCap \in Nat \ {0}
  /\ OutCap \in Nat \ {0}
  /\ SeqModulus \in Nat \ {0}

Threads == {"main", "ctl", "stop"} \cup Handlers

VARIABLES
  running,       \* running_
  forceIdr,      \* force_idr_
  seq,           \* seq_
  encoderReady,  \* encoder_ready_
  sendMutex,     \* holder of send_mutex_
  pc,            \* where each thread is
  pending,       \* the message each thread is in the course of sending
  idr,           \* OnFrame's local idr, per handler (FALSE when dead)
  capturing,     \* WgcCaptureSource::capturing_, and its event registration
  device,        \* its D3D device, pool and delivery texture exist
  frameMutex,    \* holder of frame_mutex_
  encoder,       \* "none", "fresh" (no picture encoded yet) or "primed"
  inq, out,      \* the channel, towards the host and towards the iPad
  closed,        \* the host has shut the channel down (Close)
  peerGone,      \* the iPad has closed, or the cable was pulled
  rx,            \* messages in the control thread's FrameParser
  idrOwed        \* history: "asked", "taken" by a frame, or "no" keyframe owed

session == <<running, forceIdr, seq, encoderReady, sendMutex>>
capture == <<capturing, device, frameMutex>>
channel == <<inq, out, closed, peerGone>>
vars == <<session, pc, pending, idr, capture, encoder, channel, rx, idrOwed>>

Init ==
  /\ running = FALSE
  /\ forceIdr = TRUE
  /\ seq = 0
  /\ encoderReady = FALSE
  /\ sendMutex = Nobody
  /\ pc = [t \in Threads |-> IF t = "main" THEN "new" ELSE IF t = "ctl" THEN "unborn" ELSE "idle"]
  /\ pending = [t \in Threads |-> NoMsg]
  /\ idr = [h \in Handlers |-> FALSE]
  /\ capturing = FALSE
  /\ device = FALSE
  /\ frameMutex = Nobody
  /\ encoder = "none"
  /\ inq = <<>>
  /\ out = <<>>
  /\ closed = FALSE
  /\ peerGone = FALSE
  /\ rx = <<>>
  /\ idrOwed = "asked"

Goto(t, l) == pc' = [pc EXCEPT ![t] = l]

-------------------------------------------------------------------------------
(* Send: encode, take send_mutex_, SendAll; a failed SendAll ends the       *)
(* session.  SendAll blocks while the socket buffers are full; towards an   *)
(* iPad that is gone it still succeeds until they are.                      *)

StartSend(t, m) == pending' = [pending EXCEPT ![t] = m] /\ Goto(t, "lock")

\* Mutated form: send_mutex_ is not taken.
SendLockUnguarded(t) ==
  /\ pc[t] = "lock"
  /\ sendMutex' = t
  /\ Goto(t, "write")
  /\ UNCHANGED <<running, forceIdr, seq, encoderReady, pending, idr, capture, encoder, channel, rx, idrOwed>>

SendLock(t) ==
  /\ pc[t] = "lock"
  /\ sendMutex = Nobody
  /\ sendMutex' = t
  /\ Goto(t, "write")
  /\ UNCHANGED <<running, forceIdr, seq, encoderReady, pending, idr, capture, encoder, channel, rx, idrOwed>>

\* Where the caller of Send goes on.  Run sends HELLO and then WELCOME.
Unlock(t) ==
  /\ sendMutex' = Nobody
  /\ IF t = "main" /\ pending[t] = HelloMsg
     THEN StartSend(t, WelcomeMsg)
     ELSE /\ pending' = [pending EXCEPT ![t] = NoMsg]
          /\ Goto(t, IF t = "main" THEN "spawn" ELSE IF t = "ctl" THEN "parse" ELSE "release")

SendWrite(t) ==
  /\ pc[t] = "write"
  /\ ~closed
  /\ Len(out) < OutCap
  /\ out' = Append(out, pending[t])
  /\ Unlock(t)
  /\ UNCHANGED <<running, forceIdr, seq, encoderReady, idr, capture, encoder, inq, closed, peerGone, rx, idrOwed>>

SendFail(t) ==
  /\ pc[t] = "write"
  /\ closed \/ peerGone
  /\ running' = FALSE
  /\ Unlock(t)
  /\ UNCHANGED <<forceIdr, seq, encoderReady, idr, capture, encoder, channel, rx, idrOwed>>

-------------------------------------------------------------------------------
(* Run.                                                                     *)

\* Mutated form: the control thread is created before the greeting.
RunBeginEarlyControl ==
  /\ pc["main"] = "new"
  /\ running' = TRUE
  /\ pending' = [pending EXCEPT !["main"] = HelloMsg]
  /\ pc' = [pc EXCEPT !["main"] = "lock", !["ctl"] = "loop"]
  /\ UNCHANGED <<forceIdr, seq, encoderReady, sendMutex, idr, capture, encoder, channel, rx, idrOwed>>

RunBegin ==
  /\ pc["main"] = "new"
  /\ running' = TRUE
  /\ StartSend("main", HelloMsg)
  /\ UNCHANGED <<forceIdr, seq, encoderReady, sendMutex, idr, capture, encoder, channel, rx, idrOwed>>

SpawnControl ==
  /\ pc["main"] = "spawn"
  /\ pc' = [pc EXCEPT !["main"] = "start", !["ctl"] = "loop"]
  /\ UNCHANGED <<session, pending, idr, capture, encoder, channel, rx, idrOwed>>

StartCapture ==
  /\ pc["main"] = "start"
  /\ Goto("main", "poll")
  /\ capturing' = TRUE
  /\ device' = TRUE
  /\ UNCHANGED <<session, pending, idr, frameMutex, encoder, channel, rx, idrOwed>>

StartCaptureFails ==
  /\ "start" \in Faults
  /\ pc["main"] = "start"
  /\ Goto("main", "poll")
  /\ running' = FALSE
  /\ UNCHANGED <<forceIdr, seq, encoderReady, sendMutex, pending, idr, capture, encoder, channel, rx, idrOwed>>

PollEnds ==
  /\ pc["main"] = "poll"
  /\ ~running
  /\ Goto("main", "capstop")
  /\ UNCHANGED <<session, pending, idr, capture, encoder, channel, rx, idrOwed>>

\* WgcCaptureSource::Stop, first half: no handler starts from now on, but one
\* that was called already may still be on its way to frame_mutex_.
CaptureStop ==
  /\ pc["main"] = "capstop"
  /\ Goto("main", "capdrain")
  /\ capturing' = FALSE
  /\ UNCHANGED <<session, pending, idr, device, frameMutex, encoder, channel, rx, idrOwed>>

\* Mutated form: the resources are freed without frame_mutex_.
CaptureDrainUnguarded ==
  /\ pc["main"] = "capdrain"
  /\ Goto("main", "shutdown")
  /\ device' = FALSE
  /\ UNCHANGED <<session, pending, idr, capturing, frameMutex, encoder, channel, rx, idrOwed>>

\* Second half: under frame_mutex_, free what the handlers use.
CaptureDrain ==
  /\ pc["main"] = "capdrain"
  /\ frameMutex = Nobody
  /\ Goto("main", "shutdown")
  /\ device' = FALSE
  /\ UNCHANGED <<session, pending, idr, capturing, frameMutex, encoder, channel, rx, idrOwed>>

EncoderShutdown ==
  /\ pc["main"] = "shutdown"
  /\ Goto("main", "join")
  /\ encoder' = "none"
  /\ UNCHANGED <<session, pending, idr, capture, channel, rx, idrOwed>>

\* Mutated form: the control thread is detached, not joined.
JoinControlDetached ==
  /\ pc["main"] = "join"
  /\ Goto("main", "returned")
  /\ UNCHANGED <<session, pending, idr, capture, encoder, channel, rx, idrOwed>>

JoinControl ==
  /\ pc["main"] = "join"
  /\ pc["ctl"] = "done"
  /\ Goto("main", "returned")
  /\ UNCHANGED <<session, pending, idr, capture, encoder, channel, rx, idrOwed>>

-------------------------------------------------------------------------------
(* Stop, callable from the moment the session is published (before Run).    *)

StopFlag ==
  /\ pc["stop"] = "idle"
  /\ running' = FALSE
  /\ Goto("stop", "close")
  /\ UNCHANGED <<forceIdr, seq, encoderReady, sendMutex, pending, idr, capture, encoder, channel, rx, idrOwed>>

\* Mutated form: Stop only clears running_.
StopCloseFlagOnly ==
  /\ pc["stop"] = "close"
  /\ Goto("stop", "stopped")
  /\ UNCHANGED <<session, pending, idr, capture, encoder, channel, rx, idrOwed>>

StopClose ==
  /\ pc["stop"] = "close"
  /\ closed' = TRUE
  /\ Goto("stop", "stopped")
  /\ UNCHANGED <<session, pending, idr, capture, encoder, inq, out, peerGone, rx, idrOwed>>

-------------------------------------------------------------------------------
(* OnFrameArrived and, under frame_mutex_, OnFrame.                         *)

Arrive(h) ==
  /\ pc[h] = "idle"
  /\ capturing
  /\ Goto(h, "arrived")
  /\ UNCHANGED <<session, pending, idr, capture, encoder, channel, rx, idrOwed>>

Enter(h) ==
  /\ pc[h] = "arrived"
  /\ frameMutex = Nobody
  /\ capturing
  /\ frameMutex' = h
  /\ Goto(h, "onframe")
  /\ UNCHANGED <<session, pending, idr, capturing, device, encoder, channel, rx, idrOwed>>

\* Under the lock, but with nothing to do: stopped, or no frame in the pool.
Bail(h) ==
  /\ pc[h] = "arrived"
  /\ frameMutex = Nobody
  /\ Goto(h, "idle")
  /\ UNCHANGED <<session, pending, idr, capture, encoder, channel, rx, idrOwed>>

Leave(h) == Goto(h, "idle") /\ frameMutex' = Nobody

OnFrameStopped(h) ==
  /\ pc[h] = "onframe"
  /\ ~running
  /\ Leave(h)
  /\ UNCHANGED <<session, pending, idr, capturing, device, encoder, channel, rx, idrOwed>>

OnFrameRunning(h) ==
  /\ pc[h] = "onframe"
  /\ running
  /\ Goto(h, IF encoderReady THEN "exchange" ELSE "init")
  /\ UNCHANGED <<session, pending, idr, capture, encoder, channel, rx, idrOwed>>

InitEncoder(h) ==
  /\ pc[h] = "init"
  /\ encoder' = "fresh"
  /\ encoderReady' = TRUE
  /\ Goto(h, "exchange")
  /\ UNCHANGED <<running, forceIdr, seq, sendMutex, pending, idr, capture, channel, rx, idrOwed>>

InitEncoderFails(h) ==
  /\ "init" \in Faults
  /\ pc[h] = "init"
  /\ running' = FALSE
  /\ Leave(h)
  /\ UNCHANGED <<forceIdr, seq, encoderReady, sendMutex, pending, idr, capturing, device, encoder, channel, rx, idrOwed>>

\* Mutated form: a load that is followed, in a step of its own, by the store.
ExchangeIdrLate(h) ==
  /\ \/ /\ pc[h] = "exchange"
        /\ idr' = [idr EXCEPT ![h] = forceIdr]
        /\ idrOwed' = IF idrOwed = "asked" THEN "taken" ELSE idrOwed
        /\ Goto(h, "clear")
        /\ UNCHANGED forceIdr
     \/ /\ pc[h] = "clear"
        /\ forceIdr' = FALSE
        /\ Goto(h, "encode")
        /\ UNCHANGED <<idr, idrOwed>>
  /\ UNCHANGED <<running, seq, encoderReady, sendMutex, pending, capture, encoder, channel, rx>>

\* force_idr_.exchange(false).
ExchangeIdr(h) ==
  /\ pc[h] = "exchange"
  /\ idr' = [idr EXCEPT ![h] = forceIdr]
  /\ forceIdr' = FALSE
  /\ idrOwed' = IF idrOwed = "asked" THEN "taken" ELSE idrOwed
  /\ Goto(h, "encode")
  /\ UNCHANGED <<running, seq, encoderReady, sendMutex, pending, capture, encoder, channel, rx>>

\* Mutated form: seq_ is wider than the field it is sent in.
EncodePacketWide(h) ==
  LET key == idr[h] \/ encoder = "fresh" IN
  /\ pc[h] = "encode"
  /\ seq' = seq + 1
  /\ StartSend(h, VideoMsg(seq, key))
  /\ encoder' = "primed"
  /\ idr' = [idr EXCEPT ![h] = FALSE]
  /\ idrOwed' = IF idrOwed = "taken" /\ key THEN "no" ELSE idrOwed
  /\ UNCHANGED <<running, forceIdr, encoderReady, sendMutex, capture, channel, rx>>

\* EncodeFrame with a packet: NVENC makes the first picture of a session an IDR
\* whatever it is asked (infinite GOP: no other unasked IDR).  The callback
\* numbers the frame before it takes send_mutex_.
EncodePacket(h) ==
  LET key == idr[h] \/ encoder = "fresh" IN
  /\ pc[h] = "encode"
  /\ seq' = (seq + 1) % SeqModulus
  /\ StartSend(h, VideoMsg(seq, key))
  /\ encoder' = "primed"
  /\ idr' = [idr EXCEPT ![h] = FALSE]
  /\ idrOwed' = IF idrOwed = "taken" /\ key THEN "no" ELSE idrOwed
  /\ UNCHANGED <<running, forceIdr, encoderReady, sendMutex, capture, channel, rx>>

\* EncodeFrame without a packet, which OnFrame ignores: the picture is not
\* encoded, or it is and its bitstream cannot be locked (EmitLocked).
EncodeNothing(h) ==
  /\ pc[h] = "encode"
  /\ \/ /\ "encode" \in Faults
        /\ UNCHANGED encoder
     \/ /\ "bitstream" \in Faults
        /\ encoder' = "primed"
  /\ idr' = [idr EXCEPT ![h] = FALSE]
  /\ Leave(h)
  /\ UNCHANGED <<session, pending, capturing, device, channel, rx, idrOwed>>

HandlerReturns(h) ==
  /\ pc[h] = "release"
  /\ Leave(h)
  /\ UNCHANGED <<session, pending, idr, capturing, device, encoder, channel, rx, idrOwed>>

-------------------------------------------------------------------------------
(* ControlLoop.                                                             *)

LoopTest ==
  /\ pc["ctl"] = "loop"
  /\ Goto("ctl", IF running THEN "recv" ELSE "done")
  /\ UNCHANGED <<session, pending, idr, capture, encoder, channel, rx, idrOwed>>

\* Recv returns some of what has arrived, and feed keeps it.
RecvData ==
  /\ pc["ctl"] = "recv"
  /\ \E n \in 1..Len(inq) :
       /\ rx' = rx \o SubSeq(inq, 1, n)
       /\ inq' = SubSeq(inq, n + 1, Len(inq))
  /\ Goto("ctl", "parse")
  /\ UNCHANGED <<session, pending, idr, capture, encoder, out, closed, peerGone, idrOwed>>

\* Mutated form: the end of the stream does not clear running_.
RecvEndForgets ==
  /\ pc["ctl"] = "recv"
  /\ closed \/ peerGone
  /\ Goto("ctl", "done")
  /\ UNCHANGED <<session, pending, idr, capture, encoder, channel, rx, idrOwed>>

\* Recv returns 0 or an error.
RecvEnd ==
  /\ pc["ctl"] = "recv"
  /\ closed \/ peerGone
  /\ running' = FALSE
  /\ Goto("ctl", "done")
  /\ UNCHANGED <<forceIdr, seq, encoderReady, sendMutex, pending, idr, capture, encoder, channel, rx, idrOwed>>

\* The inner loop has ended, or next() needs more data.
ParseEnds ==
  /\ pc["ctl"] = "parse"
  /\ ~running \/ rx = <<>>
  /\ Goto("ctl", "loop")
  /\ UNCHANGED <<session, pending, idr, capture, encoder, channel, rx, idrOwed>>

NextMessage(type) ==
  /\ pc["ctl"] = "parse"
  /\ running
  /\ rx # <<>>
  /\ Head(rx).type = type

OnKeyframeRequest ==
  /\ NextMessage("KEYFRAME_REQUEST")
  /\ rx' = Tail(rx)
  /\ forceIdr' = TRUE
  /\ idrOwed' = "asked"
  /\ UNCHANGED <<running, seq, encoderReady, sendMutex, pc, pending, idr, capture, encoder, channel>>

OnPing ==
  /\ NextMessage("PING")
  /\ rx' = Tail(rx)
  /\ StartSend("ctl", PongMsg(Head(rx).token))
  /\ UNCHANGED <<session, idr, capture, encoder, channel, idrOwed>>

OnDisconnect ==
  /\ NextMessage("DISCONNECT")
  /\ rx' = Tail(rx)
  /\ running' = FALSE
  /\ Goto("ctl", "loop")
  /\ UNCHANGED <<forceIdr, seq, encoderReady, sendMutex, pending, idr, capture, encoder, channel, idrOwed>>

OnIgnored ==
  /\ NextMessage("IGNORED")
  /\ rx' = Tail(rx)
  /\ UNCHANGED <<session, pc, pending, idr, capture, encoder, channel, idrOwed>>

\* A hard parse error leaves the bytes where they are.
OnCorrupt ==
  /\ NextMessage("CORRUPT")
  /\ running' = FALSE
  /\ Goto("ctl", "loop")
  /\ UNCHANGED <<forceIdr, seq, encoderReady, sendMutex, pending, idr, capture, encoder, channel, rx, idrOwed>>

-------------------------------------------------------------------------------
(* The iPad and the cable.                                                  *)

PeerSend ==
  /\ ~closed /\ ~peerGone
  /\ Len(inq) < InCap
  /\ \E m \in PeerMsgs : inq' = Append(inq, m)
  /\ UNCHANGED <<session, pc, pending, idr, capture, encoder, out, closed, peerGone, rx, idrOwed>>

PeerRead ==
  /\ ~peerGone
  /\ out # <<>>
  /\ out' = Tail(out)
  /\ UNCHANGED <<session, pc, pending, idr, capture, encoder, inq, closed, peerGone, rx, idrOwed>>

PeerClose ==
  /\ ~peerGone
  /\ peerGone' = TRUE
  /\ UNCHANGED <<session, pc, pending, idr, capture, encoder, inq, out, closed, rx, idrOwed>>

-------------------------------------------------------------------------------
Send(t) == SendLock(t) \/ SendWrite(t) \/ SendFail(t)

Run ==
  \/ RunBegin \/ Send("main") \/ SpawnControl \/ StartCapture \/ StartCaptureFails
  \/ PollEnds \/ CaptureStop \/ CaptureDrain \/ EncoderShutdown \/ JoinControl

\* What a handler does once it has been called.
OnFrame(h) ==
  \/ Enter(h) \/ Bail(h) \/ OnFrameStopped(h) \/ OnFrameRunning(h)
  \/ InitEncoder(h) \/ InitEncoderFails(h)
  \/ ExchangeIdr(h) \/ EncodePacket(h) \/ EncodeNothing(h)
  \/ Send(h) \/ HandlerReturns(h)

ControlLoop ==
  \/ LoopTest \/ RecvData \/ RecvEnd \/ ParseEnds
  \/ OnKeyframeRequest \/ OnPing \/ OnDisconnect \/ OnIgnored \/ OnCorrupt
  \/ Send("ctl")

Stop == StopFlag \/ StopClose

Peer == PeerSend \/ PeerRead \/ PeerClose

Next ==
  \/ Run \/ ControlLoop \/ Stop \/ Peer
  \/ \E h \in Handlers : Arrive(h) \/ OnFrame(h)

\* The host's threads are scheduled: one that can step does so in the end.
\* Nothing is assumed of the iPad (it may stop reading), of the arrival of
\* frames (a still screen yields none) or of Stop being called.
Fairness ==
  /\ WF_vars(Run)
  /\ WF_vars(ControlLoop)
  /\ WF_vars(StopClose)
  /\ \A h \in Handlers : WF_vars(OnFrame(h))

Spec == Init /\ [][Next]_vars

FairSpec == Spec /\ Fairness

-------------------------------------------------------------------------------
(* Properties.                                                              *)

Encoding(h) == pc[h] \in {"exchange", "encode", "lock", "write", "release"}
InHandler(h) == pc[h] \in {"onframe", "init"} \/ Encoding(h)

MainPc ==
  {"new", "lock", "write", "spawn", "start", "poll", "capstop", "capdrain", "shutdown", "join", "returned"}
CtlPc == {"unborn", "loop", "recv", "parse", "lock", "write", "done"}
StopPc == {"idle", "close", "stopped"}
HandlerPc ==
  {"idle", "arrived", "onframe", "init", "exchange", "encode", "lock", "write", "release"}

PcOK ==
  /\ pc \in [Threads -> MainPc \cup CtlPc \cup StopPc \cup HandlerPc]
  /\ pc["main"] \in MainPc
  /\ pc["ctl"] \in CtlPc
  /\ pc["stop"] \in StopPc
  /\ \A h \in Handlers : pc[h] \in HandlerPc

SessionOK ==
  /\ running \in BOOLEAN
  /\ forceIdr \in BOOLEAN
  /\ seq \in 0..SeqModulus-1
  /\ encoderReady \in BOOLEAN
  /\ sendMutex \in Threads \cup {Nobody}
  /\ pending \in [Threads -> HostMsgs \cup {NoMsg}]
  /\ idr \in [Handlers -> BOOLEAN]
  /\ idrOwed \in {"asked", "taken", "no"}

CaptureOK ==
  /\ capturing \in BOOLEAN
  /\ device \in BOOLEAN
  /\ frameMutex \in Handlers \cup {Nobody}
  /\ encoder \in {"none", "fresh", "primed"}

ChannelOK ==
  /\ inq \in Seq(ControlMsgs)
  /\ rx \in Seq(ControlMsgs)
  /\ out \in Seq(HostMsgs)
  /\ closed \in BOOLEAN
  /\ peerGone \in BOOLEAN

\* A thread inside Send has a message to send.
PendingOK == \A t \in Threads : pc[t] \in {"lock", "write"} => pending[t] \in HostMsgs

\* Type correctness.
TypeOK == PcOK /\ SessionOK /\ CaptureOK /\ ChannelOK /\ PendingOK

\* Stopping the capture waits for a handler that is running, so that no
\* handler works on a freed device or an encoder that was shut down, although
\* Run tears both down from another thread (wgc_capture.cpp Stop,
\* streaming_session.cpp Run).
NoUseAfterTeardown ==
  \A h \in Handlers :
    /\ InHandler(h) => device
    /\ Encoding(h) => encoder # "none"

\* send_mutex_ keeps the bytes of two messages from interleaving: at most one
\* thread is inside SendAll (StreamingSession::Send).
OneWriter ==
  \A t, u \in Threads : pc[t] = "write" /\ pc[u] = "write" => t = u

\* A keyframe that is owed (the first frame, or one the iPad asked for) is
\* never forgotten: either force_idr_ still says so, or a handler is about to
\* encode it.  Relies on force_idr_.exchange being one step, and on EncodeFrame
\* yielding a packet.
NoLostKeyframe ==
  /\ idrOwed = "asked" => forceIdr
  /\ idrOwed = "taken" => \E h \in Handlers : pc[h] = "encode" /\ idr[h]

\* Once Run has returned, which is when the caller destroys the session, the
\* encoder and the capture source, no thread is left inside the session.
QuiescentAfterReturn ==
  pc["main"] = "returned" =>
    /\ pc["ctl"] = "done"
    /\ sendMutex = Nobody
    /\ \A h \in Handlers : ~InHandler(h)

\* The comment in WgcCaptureSource::Stop says that no handler can start after
\* it: then none is left on its way to frame_mutex_ when Run returns and the
\* capture source is destroyed.
NoHandlerAfterReturn ==
  pc["main"] = "returned" => \A h \in Handlers : pc[h] = "idle"

\* The stream the iPad sees is the one HostStream promises.
PingTokens(s) ==
  FlattenSeq([i \in 1..Len(s) |-> IF s[i].type = "PING" THEN <<s[i].token>> ELSE <<>>])

PongTokens(m) == IF m = NoMsg THEN <<>> ELSE <<m.token>>

Stage ==
  CASE pc["main"] = "new" \/ pending["main"] = HelloMsg -> "hello"
    [] pending["main"] = WelcomeMsg -> "welcome"
    [] OTHER -> "stream"

NextSeq ==
  IF \E h \in Handlers : pending[h] # NoMsg
  THEN pending[CHOOSE h \in Handlers : pending[h] # NoMsg].seq
  ELSE seq

Promise ==
  INSTANCE HostStream WITH
    wire <- out,
    stage <- Stage,
    next <- NextSeq,
    pings <- PongTokens(pending["ctl"]) \o PingTokens(rx) \o PingTokens(inq),
    open <- ~closed /\ ~peerGone

\* HELLO, WELCOME, consecutively numbered frames and PONGs in the order of the
\* PINGs, whatever the interleaving of the three sending threads.
ImplementsHostStream == Promise!Spec

\* Stop ends Run, also when it is called before Run has set running_.
StopEndsRun == pc["stop"] = "stopped" ~> pc["main"] = "returned"

\* The end of the connection ends Run.
PeerGoneEndsRun == peerGone ~> pc["main"] = "returned"

\* streaming_session.hpp: Run blocks "until the peer disconnects, an error
\* occurs, or Stop() is called", so an error (running_ cleared) ends it.
ErrorEndsRun == pc["main"] = "poll" /\ ~running ~> pc["main"] = "returned"
===============================================================================
