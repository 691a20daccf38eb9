------------------------ MODULE StreamingSessionProofs ------------------------
(***************************************************************************)
(* Theorems about StreamingSession, for any number of frame callbacks, any *)
(* set of faults and any buffer sizes: first its safety, then, step by     *)
(* step, that it implements HostStream.                                    *)
(***************************************************************************)
EXTENDS StreamingSession, SequenceLemmas, TLAPS

LEMMA ThreadNames ==
  /\ \A h \in Handlers : h # "main" /\ h # "ctl" /\ h # "stop" /\ h # Nobody /\ h \in Threads
  /\ "main" \in Threads /\ "ctl" \in Threads /\ "stop" \in Threads
BY SessionAssumption DEF Threads, Nobody

\* The messages the host builds are messages of the protocol.
LEMMA HostMsgTypes ==
  /\ HelloMsg \in HostMsgs /\ WelcomeMsg \in HostMsgs
  /\ \A t \in Tokens : PongMsg(t) \in HostMsgs
  /\ \A s \in 0..SeqModulus-1, k \in BOOLEAN : VideoMsg(s, k) \in HostMsgs
BY DEF HostMsgs

\* A PING carries a token.
LEMMA PingToken ==
  ASSUME NEW m \in ControlMsgs, m.type = "PING"
  PROVE  m.token \in Tokens
BY DEF ControlMsgs

\* seq_ stays below its modulus.
LEMMA SeqWraps ==
  ASSUME NEW s \in 0..SeqModulus-1
  PROVE  (s + 1) % SeqModulus \in 0..SeqModulus-1
BY SessionAssumption

LEMMA TypeInit == Init => TypeOK
<1> SUFFICES ASSUME Init PROVE TypeOK
  OBVIOUS
<1>1. /\ pc \in [Threads -> MainPc \cup CtlPc \cup StopPc \cup HandlerPc]
      /\ pc["main"] \in MainPc
      /\ pc["ctl"] \in CtlPc
      /\ pc["stop"] \in StopPc
      /\ \A h \in Handlers : pc[h] \in HandlerPc
  BY ThreadNames DEF Init, MainPc, CtlPc, StopPc, HandlerPc
<1>2. seq \in 0..SeqModulus-1
  BY SessionAssumption DEF Init
<1>3. /\ pending \in [Threads -> HostMsgs \cup {NoMsg}]
      /\ idr \in [Handlers -> BOOLEAN]
      /\ sendMutex \in Threads \cup {Nobody}
      /\ frameMutex \in Handlers \cup {Nobody}
  BY DEF Init
<1>4. /\ inq \in Seq(ControlMsgs)
      /\ rx \in Seq(ControlMsgs)
      /\ out \in Seq(HostMsgs)
  BY DEF Init
<1>5. PendingOK
  BY DEF Init, PendingOK
<1>6. QED
  BY <1>1, <1>2, <1>3, <1>4, <1>5 DEF Init, TypeOK, PcOK, SessionOK, CaptureOK, ChannelOK

\* Each thread keeps to its own labels.
LEMMA GotoMain ==
  ASSUME PcOK, NEW l \in MainPc, Goto("main", l)
  PROVE  PcOK'
BY ThreadNames DEF PcOK, Goto

LEMMA GotoCtl ==
  ASSUME PcOK, NEW l \in CtlPc, Goto("ctl", l)
  PROVE  PcOK'
BY ThreadNames DEF PcOK, Goto

LEMMA GotoStop ==
  ASSUME PcOK, NEW l \in StopPc, Goto("stop", l)
  PROVE  PcOK'
BY ThreadNames DEF PcOK, Goto

LEMMA GotoHandler ==
  ASSUME PcOK, NEW h \in Handlers, NEW l \in HandlerPc, Goto(h, l)
  PROVE  PcOK'
BY ThreadNames DEF PcOK, Goto

\* A step outside Send leaves the pending messages typed, and so does a stutter.
LEMMA GotoPending ==
  ASSUME PcOK, PendingOK, NEW t \in Threads, NEW l, l \notin {"lock", "write"},
         Goto(t, l), pending' = pending
  PROVE  PendingOK'
BY DEF PcOK, PendingOK, Goto

LEMMA StayPending ==
  ASSUME PcOK, PendingOK, UNCHANGED <<pc, pending>>
  PROVE  PcOK' /\ PendingOK'
BY DEF PcOK, PendingOK

\* Entering Send with a message of the protocol.
LEMMA StartSendPending ==
  ASSUME PcOK, PendingOK, NEW t \in Threads, NEW m \in HostMsgs, StartSend(t, m),
         pending \in [Threads -> HostMsgs \cup {NoMsg}]
  PROVE  /\ PendingOK'
         /\ pending' \in [Threads -> HostMsgs \cup {NoMsg}]
<1>1. pending'[t] = m
  BY DEF StartSend
<1>2. \A u \in Threads \ {t} : pending'[u] = pending[u] /\ pc'[u] = pc[u]
  BY DEF StartSend, Goto, PcOK
<1>3. QED
  BY <1>1, <1>2 DEF PendingOK, StartSend

Senders == {"main", "ctl"} \cup Handlers

LEMMA GotoSender ==
  ASSUME PcOK, NEW t \in Senders, NEW l \in {"lock", "write"}, Goto(t, l)
  PROVE  PcOK'
<1>1. CASE t = "main"
  BY <1>1, GotoMain DEF MainPc
<1>2. CASE t = "ctl"
  BY <1>2, GotoCtl DEF CtlPc
<1>3. CASE t \in Handlers
  BY <1>3, GotoHandler DEF HandlerPc
<1>4. QED
  BY <1>1, <1>2, <1>3 DEF Senders

LEMMA UnlockTypes ==
  ASSUME TypeOK, NEW t \in Senders, Unlock(t)
  PROVE  /\ PcOK'
         /\ PendingOK'
         /\ sendMutex' \in Threads \cup {Nobody}
         /\ pending' \in [Threads -> HostMsgs \cup {NoMsg}]
<1>0. t \in Threads
  BY ThreadNames DEF Senders
<1>1. PcOK /\ PendingOK /\ pending \in [Threads -> HostMsgs \cup {NoMsg}]
  BY DEF TypeOK, SessionOK
<1>2. CASE t = "main" /\ pending[t] = HelloMsg
  <2>1. StartSend(t, WelcomeMsg)
    BY <1>2 DEF Unlock
  <2>2. PcOK'
    BY <1>1, <2>1, GotoSender DEF StartSend
  <2>3. QED
    BY <1>0, <1>1, <2>1, <2>2, HostMsgTypes, StartSendPending DEF Unlock
<1>3. CASE ~(t = "main" /\ pending[t] = HelloMsg)
  <2>1. /\ pending' = [pending EXCEPT ![t] = NoMsg]
        /\ Goto(t, IF t = "main" THEN "spawn" ELSE IF t = "ctl" THEN "parse" ELSE "release")
    BY <1>3 DEF Unlock
  <2>2. PcOK'
    <3>1. CASE t = "main"
      BY <1>1, <2>1, <3>1, GotoMain DEF MainPc
    <3>2. CASE t = "ctl"
      BY <1>1, <2>1, <3>2, GotoCtl DEF CtlPc
    <3>3. CASE t \in Handlers
      <4>1. Goto(t, "release")
        BY <2>1, <3>3, ThreadNames
      <4>2. QED
        BY <1>1, <3>3, <4>1, GotoHandler DEF HandlerPc
    <3>4. QED
      BY <3>1, <3>2, <3>3 DEF Senders
  <2>3. PendingOK'
    BY <1>0, <1>1, <2>1 DEF PendingOK, PcOK, Goto
  <2>4. QED
    BY <1>1, <2>1, <2>2, <2>3 DEF Unlock
<1>4. QED
  BY <1>2, <1>3

LEMMA SendTypes ==
  ASSUME TypeOK, NEW t \in Senders, Send(t)
  PROVE  TypeOK'
<1> USE DEF TypeOK
<1>0. t \in Threads
  BY ThreadNames DEF Senders
<1>1. CASE SendLock(t)
  <2>1. PcOK'
    BY <1>1, GotoSender DEF SendLock
  <2>2. PendingOK'
    BY <1>0, <1>1 DEF SendLock, PendingOK, PcOK, Goto
  <2>3. QED
    BY <1>0, <1>1, <2>1, <2>2 DEF SendLock, SessionOK, CaptureOK, ChannelOK, capture, channel
<1>2. CASE SendFail(t)
  BY <1>2, UnlockTypes, ZenonT(30) DEF SendFail, SessionOK, CaptureOK, ChannelOK, capture, channel
<1>3. CASE SendWrite(t)
  <2>1. pending[t] \in HostMsgs
    BY <1>0, <1>3 DEF PendingOK, SendWrite
  <2>2. out' \in Seq(HostMsgs)
    BY <1>3, <2>1 DEF SendWrite, ChannelOK
  <2>3. QED
    BY <1>3, <2>2, UnlockTypes DEF SendWrite, SessionOK, CaptureOK, ChannelOK, capture
<1>4. QED
  BY <1>1, <1>2, <1>3 DEF Send

-------------------------------------------------------------------------------
\* The steps of Run.
LEMMA RunTypes ==
  ASSUME TypeOK, Run
  PROVE  TypeOK'
<1> USE DEF TypeOK
<1>0. "main" \in Threads /\ "main" \in Senders
  BY ThreadNames DEF Senders
<1>1. CASE RunBegin
  <2>1. StartSend("main", HelloMsg)
    BY <1>1 DEF RunBegin
  <2>2. PcOK'
    BY <1>0, <2>1, GotoSender DEF StartSend
  <2>3. PendingOK' /\ pending' \in [Threads -> HostMsgs \cup {NoMsg}]
    BY <1>0, <2>1, HostMsgTypes, StartSendPending DEF SessionOK
  <2>4. QED
    BY <1>1, <2>2, <2>3 DEF RunBegin, SessionOK, CaptureOK, ChannelOK, capture, channel
<1>2. CASE SpawnControl
  <2>1. PcOK'
    BY <1>2, ThreadNames DEF SpawnControl, PcOK, MainPc, CtlPc
  <2>2. PendingOK'
    BY <1>2, ThreadNames DEF SpawnControl, PendingOK, PcOK
  <2>3. QED
    BY <1>2, <2>1, <2>2 DEF SpawnControl, SessionOK, CaptureOK, ChannelOK, session, capture, channel
<1>3. CASE \/ StartCapture \/ StartCaptureFails \/ PollEnds \/ CaptureStop \/ CaptureDrain
           \/ EncoderShutdown \/ JoinControl
  <2>1. PICK l \in {"poll", "capstop", "capdrain", "shutdown", "join", "returned"} :
          Goto("main", l)
    BY <1>3 DEF StartCapture, StartCaptureFails, PollEnds, CaptureStop, CaptureDrain,
                EncoderShutdown, JoinControl
  <2>2. pending' = pending
    BY <1>3 DEF StartCapture, StartCaptureFails, PollEnds, CaptureStop, CaptureDrain,
                EncoderShutdown, JoinControl
  <2>3. PcOK'
    BY <2>1, GotoMain DEF MainPc
  <2>4. PendingOK'
    BY <1>0, <2>1, <2>2, GotoPending
  <2>5. SessionOK'
    BY <1>3 DEF StartCapture, StartCaptureFails, PollEnds, CaptureStop, CaptureDrain,
                EncoderShutdown, JoinControl, SessionOK, session
  <2>6. CaptureOK'
    BY <1>3 DEF StartCapture, StartCaptureFails, PollEnds, CaptureStop, CaptureDrain,
                EncoderShutdown, JoinControl, CaptureOK, capture
  <2>7. ChannelOK'
    BY <1>3 DEF StartCapture, StartCaptureFails, PollEnds, CaptureStop, CaptureDrain,
                EncoderShutdown, JoinControl, ChannelOK, channel
  <2>8. QED
    BY <2>3, <2>4, <2>5, <2>6, <2>7
<1>4. CASE Send("main")
  BY <1>0, <1>4, SendTypes
<1>5. QED
  BY <1>1, <1>2, <1>3, <1>4 DEF Run

\* The steps of Stop.
LEMMA StopTypes ==
  ASSUME TypeOK, Stop
  PROVE  TypeOK'
<1> USE DEF TypeOK
<1>1. PICK l \in {"close", "stopped"} : Goto("stop", l)
  BY DEF Stop, StopFlag, StopClose
<1>2. PcOK'
  BY <1>1, GotoStop DEF StopPc
<1>3. PendingOK'
  BY <1>1, ThreadNames, GotoPending DEF Stop, StopFlag, StopClose
<1>4. SessionOK' /\ CaptureOK' /\ ChannelOK'
  BY ZenonT(30) DEF Stop, StopFlag, StopClose, SessionOK, CaptureOK, ChannelOK, session, capture, channel
<1>5. QED
  BY <1>2, <1>3, <1>4

\* The steps of the iPad, which touch the channel only.
LEMMA PeerTypes ==
  ASSUME TypeOK, Peer
  PROVE  TypeOK'
<1> USE DEF TypeOK
<1>1. PcOK' /\ PendingOK'
  BY StayPending DEF Peer, PeerSend, PeerRead, PeerClose, session
<1>2. SessionOK' /\ CaptureOK'
  BY DEF Peer, PeerSend, PeerRead, PeerClose, SessionOK, CaptureOK, session, capture
<1>3. ChannelOK'
  <2>1. CASE PeerSend
    BY <2>1, SessionAssumption DEF PeerSend, ChannelOK
  <2>2. CASE PeerRead
    <3>1. Tail(out) \in Seq(HostMsgs)
      BY <2>2 DEF PeerRead, ChannelOK
    <3>2. QED
      BY <2>2, <3>1 DEF PeerRead, ChannelOK
  <2>3. CASE PeerClose
    BY <2>3 DEF PeerClose, ChannelOK
  <2>4. QED
    BY <2>1, <2>2, <2>3 DEF Peer
<1>4. QED
  BY <1>1, <1>2, <1>3

\* The steps of the control thread.
LEMMA ControlTypes ==
  ASSUME TypeOK, ControlLoop
  PROVE  TypeOK'
<1> USE DEF TypeOK
<1>0. "ctl" \in Threads /\ "ctl" \in Senders
  BY ThreadNames DEF Senders
<1>1. CASE LoopTest \/ RecvData \/ RecvEnd \/ ParseEnds \/ OnDisconnect \/ OnCorrupt
  <2>1. PICK l \in {"loop", "recv", "parse", "done"} : Goto("ctl", l)
    BY <1>1 DEF LoopTest, RecvData, RecvEnd, ParseEnds, OnDisconnect, OnCorrupt
  <2>2. pending' = pending
    BY <1>1 DEF LoopTest, RecvData, RecvEnd, ParseEnds, OnDisconnect, OnCorrupt
  <2>3. PcOK'
    BY <2>1, GotoCtl DEF CtlPc
  <2>4. PendingOK'
    BY <1>0, <2>1, <2>2, GotoPending
  <2>5. SessionOK' /\ CaptureOK'
    BY <1>1, ZenonT(30) DEF LoopTest, RecvData, RecvEnd, ParseEnds, OnDisconnect, OnCorrupt, SessionOK,
                CaptureOK, session, capture
  <2>6. ChannelOK'
    <3>1. CASE RecvData
      <4>1. PICK n \in 1..Len(inq) : /\ rx' = rx \o SubSeq(inq, 1, n)
                                      /\ inq' = SubSeq(inq, n + 1, Len(inq))
        BY <3>1 DEF RecvData
      <4>2. SubSeq(inq, 1, n) \in Seq(ControlMsgs)
        BY DEF ChannelOK
      <4>3. SubSeq(inq, n + 1, Len(inq)) \in Seq(ControlMsgs)
        BY DEF ChannelOK
      <4>4. rx \o SubSeq(inq, 1, n) \in Seq(ControlMsgs)
        BY <4>2 DEF ChannelOK
      <4>5. QED
        BY <3>1, <4>1, <4>3, <4>4 DEF RecvData, ChannelOK
    <3>2. CASE OnDisconnect
      <4>1. Tail(rx) \in Seq(ControlMsgs)
        BY <3>2 DEF OnDisconnect, NextMessage, ChannelOK
      <4>2. QED
        BY <3>2, <4>1 DEF OnDisconnect, ChannelOK, channel
    <3>3. CASE LoopTest \/ RecvEnd \/ ParseEnds \/ OnCorrupt
      BY <3>3 DEF LoopTest, RecvEnd, ParseEnds, OnCorrupt, ChannelOK, channel
    <3>4. QED
      BY <1>1, <3>1, <3>2, <3>3
  <2>7. QED
    BY <2>3, <2>4, <2>5, <2>6
<1>2. CASE OnKeyframeRequest \/ OnIgnored
  <2>1. rx' = Tail(rx) /\ rx # <<>>
    BY <1>2 DEF OnKeyframeRequest, OnIgnored, NextMessage
  <2>2. Tail(rx) \in Seq(ControlMsgs)
    BY <2>1 DEF ChannelOK
  <2>3. PcOK' /\ PendingOK'
    BY <1>2, StayPending DEF OnKeyframeRequest, OnIgnored, session
  <2>4. SessionOK' /\ CaptureOK' /\ ChannelOK'
    BY <1>2, <2>1, <2>2, ZenonT(30) DEF OnKeyframeRequest, OnIgnored, SessionOK, CaptureOK, ChannelOK,
                            session, capture, channel
  <2>5. QED
    BY <2>3, <2>4
<1>3. CASE OnPing
  <2>1. /\ rx # <<>>
        /\ Head(rx).type = "PING"
        /\ rx' = Tail(rx)
        /\ StartSend("ctl", PongMsg(Head(rx).token))
    BY <1>3 DEF OnPing, NextMessage
  <2>2. Head(rx) \in ControlMsgs /\ Tail(rx) \in Seq(ControlMsgs)
    BY <2>1 DEF ChannelOK
  <2>3. PongMsg(Head(rx).token) \in HostMsgs
    BY <2>1, <2>2, PingToken, HostMsgTypes
  <2>4. PcOK'
    BY <1>0, <2>1, GotoSender DEF StartSend
  <2>5. PendingOK' /\ pending' \in [Threads -> HostMsgs \cup {NoMsg}]
    BY <1>0, <2>1, <2>3, StartSendPending DEF SessionOK
  <2>6. SessionOK' /\ CaptureOK' /\ ChannelOK'
    BY <1>3, <2>1, <2>2, <2>5 DEF OnPing, SessionOK, CaptureOK, ChannelOK, session, capture, channel
  <2>7. QED
    BY <2>4, <2>5, <2>6
<1>4. CASE Send("ctl")
  BY <1>0, <1>4, SendTypes
<1>5. QED
  BY <1>1, <1>2, <1>3, <1>4 DEF ControlLoop

\* The steps of a frame callback.
LEMMA HandlerTypes ==
  ASSUME TypeOK, NEW h \in Handlers, Arrive(h) \/ OnFrame(h)
  PROVE  TypeOK'
<1> USE DEF TypeOK
<1>0. h \in Threads /\ h \in Senders
  BY ThreadNames DEF Senders
<1>1. CASE \/ Arrive(h) \/ Enter(h) \/ Bail(h) \/ OnFrameStopped(h) \/ OnFrameRunning(h)
           \/ InitEncoder(h) \/ InitEncoderFails(h) \/ ExchangeIdr(h) \/ EncodeNothing(h)
           \/ HandlerReturns(h)
  <2>1. PICK l \in {"arrived", "onframe", "idle", "init", "exchange", "encode"} : Goto(h, l)
    BY <1>1 DEF Arrive, Enter, Bail, OnFrameStopped, OnFrameRunning, InitEncoder,
                InitEncoderFails, ExchangeIdr, EncodeNothing, HandlerReturns, Leave
  <2>2. pending' = pending
    BY <1>1 DEF Arrive, Enter, Bail, OnFrameStopped, OnFrameRunning, InitEncoder,
                InitEncoderFails, ExchangeIdr, EncodeNothing, HandlerReturns
  <2>3. PcOK'
    BY <2>1, GotoHandler DEF HandlerPc
  <2>4. PendingOK'
    BY <1>0, <2>1, <2>2, GotoPending
  <2>5. SessionOK'
    BY <1>1 DEF Arrive, Enter, Bail, OnFrameStopped, OnFrameRunning, InitEncoder,
                InitEncoderFails, ExchangeIdr, EncodeNothing, HandlerReturns, SessionOK, session
  <2>6. CaptureOK'
    BY <1>1 DEF Arrive, Enter, Bail, OnFrameStopped, OnFrameRunning, InitEncoder,
                InitEncoderFails, ExchangeIdr, EncodeNothing, HandlerReturns, Leave, CaptureOK, capture
  <2>7. ChannelOK'
    BY <1>1 DEF Arrive, Enter, Bail, OnFrameStopped, OnFrameRunning, InitEncoder,
                InitEncoderFails, ExchangeIdr, EncodeNothing, HandlerReturns, ChannelOK, channel
  <2>8. QED
    BY <2>3, <2>4, <2>5, <2>6, <2>7
<1>2. CASE EncodePacket(h)
  <2> DEFINE key == idr[h] \/ encoder = "fresh"
  <2>1. /\ StartSend(h, VideoMsg(seq, key))
        /\ seq' = (seq + 1) % SeqModulus
        /\ encoder' = "primed"
        /\ idr' = [idr EXCEPT ![h] = FALSE]
        /\ idrOwed' \in {idrOwed, "no"}
        /\ UNCHANGED <<running, forceIdr, encoderReady, sendMutex, capture, channel, rx>>
    BY <1>2 DEF EncodePacket
  <2>2. VideoMsg(seq, key) \in HostMsgs
    BY HostMsgTypes DEF SessionOK
  <2>3. PcOK'
    BY <1>0, <2>1, GotoSender DEF StartSend
  <2>4. PendingOK' /\ pending' \in [Threads -> HostMsgs \cup {NoMsg}]
    BY <1>0, <2>1, <2>2, StartSendPending DEF SessionOK
  <2>5. seq' \in 0..SeqModulus-1
    BY <2>1, SeqWraps DEF SessionOK
  <2>6. SessionOK' /\ CaptureOK' /\ ChannelOK'
    BY <2>1, <2>4, <2>5 DEF SessionOK, CaptureOK, ChannelOK, capture, channel
  <2>7. QED
    BY <2>3, <2>4, <2>6
<1>3. CASE Send(h)
  BY <1>0, <1>3, SendTypes
<1>4. QED
  BY <1>1, <1>2, <1>3 DEF OnFrame

LEMMA TypeStep ==
  ASSUME TypeOK, Next
  PROVE  TypeOK'
BY RunTypes, ControlTypes, StopTypes, PeerTypes, HandlerTypes DEF Next

\* Every reachable state is well typed; in particular seq_ wraps where the
\* field does, and only messages of the protocol reach the channel.
THEOREM TypeCorrect == Spec => []TypeOK
<1>1. TypeOK /\ [Next]_vars => TypeOK'
  <2>1. ASSUME TypeOK, UNCHANGED vars PROVE TypeOK'
    <3>1. PcOK' /\ PendingOK'
      BY <2>1, StayPending DEF TypeOK, vars
    <3>2. QED
      BY <2>1, <3>1 DEF TypeOK, SessionOK, CaptureOK, ChannelOK, vars, session, capture, channel
  <2>2. QED
    BY <2>1, TypeStep
<1>2. QED
  BY <1>1, TypeInit, PTL DEF Spec

-------------------------------------------------------------------------------
(* The safety invariants are not inductive: what makes them so is who holds *)
(* each mutex, and how far the capture source and the encoder live.         *)

FrameMutexOK == \A h \in Handlers : InHandler(h) <=> frameMutex = h

SendMutexOK == \A t \in Threads : pc[t] = "write" <=> sendMutex = t

CaptureLife ==
  /\ capturing => device /\ pc["main"] \in {"poll", "capstop"}
  /\ device => pc["main"] \in {"poll", "capstop", "capdrain"}
  /\ \A h \in Handlers : InHandler(h) => device

EncoderLife ==
  /\ \A h \in Handlers : Encoding(h) => encoderReady
  /\ encoderReady /\ pc["main"] \notin {"join", "returned"} => encoder # "none"

ControlLife ==
  /\ pc["main"] \in {"new", "lock", "write", "spawn"} => pc["ctl"] = "unborn"
  /\ pc["main"] = "returned" => pc["ctl"] = "done"

Inv == TypeOK /\ FrameMutexOK /\ SendMutexOK /\ CaptureLife /\ EncoderLife /\ ControlLife

LEMMA InvInit == Init => Inv
<1> SUFFICES ASSUME Init PROVE Inv
  OBVIOUS
<1>1. \A h \in Handlers : pc[h] = "idle" /\ ~InHandler(h) /\ ~Encoding(h)
  BY ThreadNames DEF Init, InHandler, Encoding
<1>2. FrameMutexOK
  BY <1>1, ThreadNames DEF Init, FrameMutexOK
<1>3. SendMutexOK
  BY ThreadNames DEF Init, SendMutexOK, Threads, Nobody
<1>4. CaptureLife /\ EncoderLife /\ ControlLife
  BY <1>1, ThreadNames DEF Init, CaptureLife, EncoderLife, ControlLife
<1>5. QED
  BY <1>2, <1>3, <1>4, TypeInit DEF Inv

\* A step of the other threads leaves the frame callbacks where they are.
LEMMA HandlersStay ==
  ASSUME TypeOK, Run \/ ControlLoop \/ Stop \/ Peer
  PROVE  /\ \A h \in Handlers : pc'[h] = pc[h]
         /\ frameMutex' = frameMutex
<1> USE ThreadNames DEF TypeOK, PcOK, Goto, StartSend, Send, SendLock, SendWrite, SendFail, Unlock,
                        capture, session
<1>1. CASE Run
  BY <1>1 DEF Run, RunBegin, SpawnControl, StartCapture, StartCaptureFails, PollEnds, CaptureStop,
              CaptureDrain, EncoderShutdown, JoinControl
<1>2. CASE ControlLoop
  BY <1>2 DEF ControlLoop, LoopTest, RecvData, RecvEnd, ParseEnds, OnKeyframeRequest, OnPing,
              OnDisconnect, OnIgnored, OnCorrupt
<1>3. CASE Stop \/ Peer
  BY <1>3 DEF Stop, StopFlag, StopClose, Peer, PeerSend, PeerRead, PeerClose
<1>4. QED
  BY <1>1, <1>2, <1>3

\* A step of a frame callback leaves every other thread where it is, and the
\* capture source as it is.
LEMMA HandlerAlone ==
  ASSUME TypeOK, NEW h \in Handlers, Arrive(h) \/ OnFrame(h)
  PROVE  /\ \A t \in Threads \ {h} : pc'[t] = pc[t]
         /\ capturing' = capturing /\ device' = device
<1> USE ThreadNames DEF TypeOK, PcOK, Goto, StartSend, Send, SendLock, SendWrite, SendFail, Unlock,
                        Leave, capture
<1>1. CASE Send(h)
  BY <1>1
<1>2. CASE ~Send(h)
  BY <1>2 DEF Arrive, OnFrame, Enter, Bail, OnFrameStopped, OnFrameRunning, InitEncoder,
              InitEncoderFails, ExchangeIdr, EncodePacket, EncodeNothing, HandlerReturns
<1>3. QED
  BY <1>1, <1>2

\* frame_mutex_ is held by the callback that is inside the handler.
LEMMA FrameMutexStep ==
  ASSUME TypeOK, FrameMutexOK, Next
  PROVE  FrameMutexOK'
<1>1. CASE Run \/ ControlLoop \/ Stop \/ Peer
  BY <1>1, HandlersStay DEF FrameMutexOK, InHandler, Encoding
<1>2. ASSUME NEW h \in Handlers, Arrive(h) \/ OnFrame(h)
      PROVE  FrameMutexOK'
  <2>1. \A g \in Handlers \ {h} : pc'[g] = pc[g]
    BY <1>2, HandlerAlone, ThreadNames
  <2>2. \A l : Goto(h, l) => pc'[h] = l
    BY ThreadNames DEF TypeOK, PcOK, Goto
  <2>3. CASE Enter(h)
    <3>1. pc'[h] = "onframe" /\ frameMutex = Nobody /\ frameMutex' = h
      BY <2>2, <2>3 DEF Enter
    <3>2. QED
      BY <2>1, <3>1, ThreadNames DEF FrameMutexOK, InHandler, Encoding
  <2>4. CASE Leave(h) /\ InHandler(h)
    <3>1. pc'[h] = "idle" /\ frameMutex = h /\ frameMutex' = Nobody
      BY <2>2, <2>4 DEF Leave, FrameMutexOK
    <3>2. QED
      BY <2>1, <3>1, ThreadNames DEF FrameMutexOK, InHandler, Encoding
  <2>5. CASE (InHandler(h) <=> InHandler(h)') /\ frameMutex' = frameMutex
    BY <2>1, <2>5 DEF FrameMutexOK, InHandler, Encoding
  <2>6. CASE Arrive(h) \/ Bail(h) \/ OnFrameRunning(h) \/ InitEncoder(h) \/ ExchangeIdr(h)
    BY <2>2, <2>5, <2>6 DEF Arrive, Bail, OnFrameRunning, InitEncoder, ExchangeIdr, InHandler,
                            Encoding, capture
  <2>7. CASE EncodePacket(h)
    BY <2>2, <2>5, <2>7 DEF EncodePacket, StartSend, InHandler, Encoding, capture
  <2>8. CASE OnFrameStopped(h) \/ InitEncoderFails(h) \/ EncodeNothing(h) \/ HandlerReturns(h)
    BY <2>4, <2>8 DEF OnFrameStopped, InitEncoderFails, EncodeNothing, HandlerReturns, InHandler,
                      Encoding
  <2>9. CASE Send(h)
    <3>1. pc[h] \in {"lock", "write"} /\ frameMutex' = frameMutex
      BY <2>9 DEF Send, SendLock, SendWrite, SendFail, capture
    <3>2. pc'[h] \in {"write", "release"}
      BY <2>2, <2>9, ThreadNames DEF Send, SendLock, SendWrite, SendFail, Unlock
    <3>3. QED
      BY <2>5, <3>1, <3>2 DEF InHandler, Encoding
  <2>10. QED
    BY <1>2, <2>3, <2>6, <2>7, <2>8, <2>9 DEF OnFrame
<1>3. QED
  BY <1>1, <1>2 DEF Next

\* send_mutex_ is held by the thread that is inside SendAll.
LEMMA SendMutexStep ==
  ASSUME TypeOK, SendMutexOK, ControlLife, Next
  PROVE  SendMutexOK'
<1> USE ThreadNames DEF TypeOK, PcOK
<1>1. ASSUME NEW t \in Senders, Send(t)
      PROVE  SendMutexOK'
  <2>1. t \in Threads /\ t # Nobody
    BY DEF Senders, Nobody
  <2>2. PICK l : Goto(t, l) /\ (l = "write" <=> SendLock(t))
    BY <1>1 DEF Send, SendLock, SendWrite, SendFail, Unlock, StartSend
  <2>3. pc'[t] = l /\ \A u \in Threads \ {t} : pc'[u] = pc[u]
    BY <2>1, <2>2 DEF Goto
  <2>4. CASE SendLock(t)
    <3>1. l = "write" /\ sendMutex = Nobody /\ sendMutex' = t
      BY <2>2, <2>4 DEF SendLock
    <3>2. \A u \in Threads : u # Nobody
      BY DEF Threads, Nobody
    <3>3. \A u \in Threads : pc[u] # "write"
      BY <3>1, <3>2 DEF SendMutexOK
    <3>4. QED
      BY <2>1, <2>3, <3>1, <3>3 DEF SendMutexOK
  <2>5. CASE SendWrite(t) \/ SendFail(t)
    <3>1. pc[t] = "write" /\ sendMutex' = Nobody
      BY <2>5 DEF SendWrite, SendFail, Unlock
    <3>2. l # "write"
      BY <2>2, <3>1 DEF SendLock
    <3>3. sendMutex = t
      BY <2>1, <3>1 DEF SendMutexOK
    <3>4. \A u \in Threads : u # Nobody
      BY DEF Threads, Nobody
    <3>5. QED
      BY <2>1, <2>3, <3>1, <3>2, <3>3, <3>4 DEF SendMutexOK
  <2>6. QED
    BY <1>1, <2>4, <2>5 DEF Send
<1>2. ASSUME NEW t \in Threads, NEW l, l # "write", pc[t] # "write", Goto(t, l),
             sendMutex' = sendMutex
      PROVE  SendMutexOK'
  BY <1>2 DEF SendMutexOK, Goto
<1>3. CASE pc' = pc /\ sendMutex' = sendMutex
  BY <1>3 DEF SendMutexOK
<1>4. CASE Run
  <2>1. CASE SpawnControl
    <3>1. \A t \in Threads : (pc'[t] = "write") <=> (pc[t] = "write" /\ t \notin {"main", "ctl"})
      BY <2>1 DEF SpawnControl
    <3>2. pc["main"] # "write" /\ pc["ctl"] # "write" /\ sendMutex' = sendMutex
      BY <2>1 DEF SpawnControl, ControlLife, session
    <3>3. QED
      BY <3>1, <3>2 DEF SendMutexOK
  <2>2. CASE \/ RunBegin \/ StartCapture \/ StartCaptureFails \/ PollEnds \/ CaptureStop
             \/ CaptureDrain \/ EncoderShutdown \/ JoinControl
    BY <1>2, <2>2 DEF RunBegin, StartSend, StartCapture, StartCaptureFails, PollEnds, CaptureStop,
                      CaptureDrain, EncoderShutdown, JoinControl, session
  <2>3. QED
    BY <1>1, <1>4, <2>1, <2>2 DEF Run, Senders
<1>5. CASE ControlLoop
  <2>1. CASE LoopTest
    BY <1>2, <2>1 DEF LoopTest, session
  <2>2. CASE \/ RecvData \/ RecvEnd \/ ParseEnds \/ OnPing \/ OnDisconnect \/ OnCorrupt
    BY <1>2, <2>2 DEF RecvData, RecvEnd, ParseEnds, OnPing, StartSend, OnDisconnect, OnCorrupt,
                      NextMessage, session
  <2>3. CASE OnKeyframeRequest \/ OnIgnored
    BY <1>3, <2>3 DEF OnKeyframeRequest, OnIgnored, session
  <2>4. QED
    BY <1>1, <1>5, <2>1, <2>2, <2>3 DEF ControlLoop, Senders
<1>6. CASE Stop \/ Peer
  BY <1>2, <1>3, <1>6 DEF Stop, StopFlag, StopClose, Peer, PeerSend, PeerRead, PeerClose, session
<1>7. ASSUME NEW h \in Handlers, Arrive(h) \/ OnFrame(h)
      PROVE  SendMutexOK'
  <2>1. CASE OnFrameRunning(h)
    BY <1>2, <2>1 DEF OnFrameRunning, session
  <2>2. CASE \/ Arrive(h) \/ Enter(h) \/ Bail(h) \/ OnFrameStopped(h) \/ InitEncoder(h)
             \/ InitEncoderFails(h) \/ ExchangeIdr(h) \/ EncodePacket(h) \/ EncodeNothing(h)
             \/ HandlerReturns(h)
    BY <1>2, <2>2 DEF Arrive, Enter, Bail, OnFrameStopped, InitEncoder, InitEncoderFails, ExchangeIdr,
                      EncodePacket, StartSend, EncodeNothing, HandlerReturns, Leave, session
  <2>3. QED
    BY <1>1, <1>7, <2>1, <2>2 DEF OnFrame, Senders
<1>8. QED
  BY <1>4, <1>5, <1>6, <1>7 DEF Next

\* The control thread exists between its creation and the join.
LEMMA ControlLifeStep ==
  ASSUME TypeOK, ControlLife, Next
  PROVE  ControlLife'
<1> USE ThreadNames DEF TypeOK, PcOK, ControlLife, Goto
<1>1. CASE Run
  BY <1>1 DEF Run, RunBegin, StartSend, SpawnControl, StartCapture, StartCaptureFails, PollEnds,
              CaptureStop, CaptureDrain, EncoderShutdown, JoinControl, Send, SendLock, SendWrite,
              SendFail, Unlock
<1>2. CASE ControlLoop
  <2>1. pc["ctl"] \notin {"unborn", "done"}
    BY <1>2 DEF ControlLoop, LoopTest, RecvData, RecvEnd, ParseEnds, OnKeyframeRequest, OnPing,
                OnDisconnect, OnIgnored, OnCorrupt, NextMessage, Send, SendLock, SendWrite, SendFail
  <2>2. pc'["main"] = pc["main"]
    BY <1>2 DEF ControlLoop, LoopTest, RecvData, RecvEnd, ParseEnds, OnKeyframeRequest, OnPing,
                StartSend, OnDisconnect, OnIgnored, OnCorrupt, Send, SendLock, SendWrite, SendFail,
                Unlock
  <2>3. QED
    BY <2>1, <2>2
<1>3. CASE Stop \/ Peer
  BY <1>3 DEF Stop, StopFlag, StopClose, Peer, PeerSend, PeerRead, PeerClose
<1>4. ASSUME NEW h \in Handlers, Arrive(h) \/ OnFrame(h)
      PROVE  ControlLife'
  BY <1>4, HandlerAlone
<1>5. QED
  BY <1>1, <1>2, <1>3, <1>4 DEF Next

\* What the callbacks use outlives them: capturing is cleared before, and the
\* device freed only while frame_mutex_ is free.
LEMMA CaptureLifeStep ==
  ASSUME TypeOK, FrameMutexOK, CaptureLife, Next
  PROVE  CaptureLife'
<1>1. CASE Run
  <2>1. \A h \in Handlers : InHandler(h)' <=> InHandler(h)
    BY <1>1, HandlersStay DEF InHandler, Encoding
  <2>2. \A l : Goto("main", l) => pc'["main"] = l
    BY ThreadNames DEF Goto, TypeOK, PcOK
  <2>3. CASE StartCapture
    BY <2>2, <2>3 DEF StartCapture, CaptureLife
  <2>4. CASE CaptureStop
    BY <2>1, <2>2, <2>4 DEF CaptureStop, CaptureLife
  <2>5. CASE CaptureDrain
    <3>1. \A h \in Handlers : ~InHandler(h)
      BY <2>5, ThreadNames DEF CaptureDrain, FrameMutexOK
    <3>2. ~capturing
      BY <2>5 DEF CaptureDrain, CaptureLife
    <3>3. QED
      BY <2>1, <2>5, <3>1, <3>2 DEF CaptureDrain, CaptureLife
  <2>6. CASE StartCaptureFails \/ PollEnds
    BY <2>1, <2>2, <2>6 DEF StartCaptureFails, PollEnds, CaptureLife, capture
  <2>7. CASE ~(StartCapture \/ CaptureStop \/ CaptureDrain \/ StartCaptureFails \/ PollEnds)
    <3>1. pc["main"] \notin {"poll", "capstop", "capdrain"} /\ UNCHANGED <<capturing, device>>
      BY <1>1, <2>7 DEF Run, RunBegin, SpawnControl, EncoderShutdown, JoinControl, Send, SendLock,
                        SendWrite, SendFail, capture
    <3>2. QED
      BY <2>1, <3>1 DEF CaptureLife
  <2>8. QED
    BY <2>3, <2>4, <2>5, <2>6, <2>7
<1>2. CASE ControlLoop \/ Stop \/ Peer
  <2>1. \A h \in Handlers : InHandler(h)' <=> InHandler(h)
    BY <1>2, HandlersStay DEF InHandler, Encoding
  <2>2. UNCHANGED <<capturing, device>>
    BY <1>2 DEF ControlLoop, LoopTest, RecvData, RecvEnd, ParseEnds, OnKeyframeRequest, OnPing,
                OnDisconnect, OnIgnored, OnCorrupt, Send, SendLock, SendWrite, SendFail,
                Stop, StopFlag, StopClose, Peer, PeerSend, PeerRead, PeerClose, capture
  <2>3. pc'["main"] = pc["main"]
    BY <1>2, ThreadNames DEF TypeOK, PcOK, Goto, StartSend, Unlock,
                ControlLoop, LoopTest, RecvData, RecvEnd, ParseEnds, OnKeyframeRequest, OnPing,
                OnDisconnect, OnIgnored, OnCorrupt, Send, SendLock, SendWrite, SendFail,
                Stop, StopFlag, StopClose, Peer, PeerSend, PeerRead, PeerClose
  <2>4. QED
    BY <2>1, <2>2, <2>3 DEF CaptureLife
<1>3. ASSUME NEW h \in Handlers, Arrive(h) \/ OnFrame(h)
      PROVE  CaptureLife'
  <2>1. /\ \A t \in Threads \ {h} : pc'[t] = pc[t]
        /\ capturing' = capturing /\ device' = device
    BY <1>3, HandlerAlone
  <2>2. InHandler(h)' => InHandler(h) \/ capturing
    <3>1. CASE Enter(h)
      BY <3>1 DEF Enter
    <3>2. CASE Arrive(h) \/ Bail(h)
      BY <3>2, ThreadNames DEF Arrive, Bail, Goto, TypeOK, PcOK, InHandler, Encoding
    <3>3. CASE OnFrame(h) /\ ~Enter(h) /\ ~Bail(h)
      BY <3>3 DEF OnFrame, OnFrameStopped, OnFrameRunning, InitEncoder, InitEncoderFails, ExchangeIdr,
                  EncodePacket, EncodeNothing, HandlerReturns, Send, SendLock, SendWrite, SendFail,
                  InHandler, Encoding
    <3>4. QED
      BY <1>3, <3>1, <3>2, <3>3
  <2>3. QED
    BY <2>1, <2>2, ThreadNames DEF CaptureLife, InHandler, Encoding
<1>4. QED
  BY <1>1, <1>2, <1>3 DEF Next

\* The encoder lives from its Initialize to the Shutdown of Run.
LEMMA EncoderLifeStep ==
  ASSUME TypeOK, CaptureLife, EncoderLife, Next
  PROVE  EncoderLife'
<1>1. CASE Run
  <2>1. \A h \in Handlers : Encoding(h)' <=> Encoding(h)
    BY <1>1, HandlersStay DEF Encoding
  <2>2. encoderReady' = encoderReady
    BY <1>1 DEF Run, RunBegin, SpawnControl, StartCapture, StartCaptureFails, PollEnds, CaptureStop,
                CaptureDrain, EncoderShutdown, JoinControl, Send, SendLock, SendWrite, SendFail, session
  <2>3. \A l : Goto("main", l) => pc'["main"] = l
    BY ThreadNames DEF Goto, TypeOK, PcOK
  <2>4. CASE EncoderShutdown
    BY <2>1, <2>2, <2>3, <2>4 DEF EncoderShutdown, EncoderLife
  <2>5. CASE JoinControl
    BY <2>1, <2>2, <2>3, <2>5 DEF JoinControl, EncoderLife
  <2>6. CASE ~EncoderShutdown /\ ~JoinControl
    <3>1. pc["main"] \notin {"join", "returned"} /\ encoder' = encoder
      BY <1>1, <2>6 DEF Run, RunBegin, SpawnControl, StartCapture, StartCaptureFails, PollEnds,
                        CaptureStop, CaptureDrain, Send, SendLock, SendWrite, SendFail
    <3>2. QED
      BY <2>1, <2>2, <3>1 DEF EncoderLife
  <2>7. QED
    BY <2>4, <2>5, <2>6
<1>2. CASE ControlLoop \/ Stop \/ Peer
  <2>1. \A h \in Handlers : Encoding(h)' <=> Encoding(h)
    BY <1>2, HandlersStay DEF Encoding
  <2>2. UNCHANGED <<encoderReady, encoder>>
    BY <1>2 DEF ControlLoop, LoopTest, RecvData, RecvEnd, ParseEnds, OnKeyframeRequest, OnPing,
                OnDisconnect, OnIgnored, OnCorrupt, Send, SendLock, SendWrite, SendFail,
                Stop, StopFlag, StopClose, Peer, PeerSend, PeerRead, PeerClose, session
  <2>3. pc'["main"] = pc["main"]
    BY <1>2, ThreadNames DEF TypeOK, PcOK, Goto, StartSend, Unlock,
                ControlLoop, LoopTest, RecvData, RecvEnd, ParseEnds, OnKeyframeRequest, OnPing,
                OnDisconnect, OnIgnored, OnCorrupt, Send, SendLock, SendWrite, SendFail,
                Stop, StopFlag, StopClose, Peer, PeerSend, PeerRead, PeerClose
  <2>4. QED
    BY <2>1, <2>2, <2>3 DEF EncoderLife
<1>3. ASSUME NEW h \in Handlers, Arrive(h) \/ OnFrame(h)
      PROVE  EncoderLife'
  <2>1. \A t \in Threads \ {h} : pc'[t] = pc[t]
    BY <1>3, HandlerAlone
  <2>2. \A l : Goto(h, l) => pc'[h] = l
    BY ThreadNames DEF Goto, TypeOK, PcOK
  <2>3. CASE InitEncoder(h)
    <3>1. encoder' = "fresh" /\ encoderReady'
      BY <2>3 DEF InitEncoder
    <3>2. QED
      BY <2>1, <3>1 DEF EncoderLife
  <2>4. CASE EncodePacket(h)
    <3>1. encoder' = "primed" /\ encoderReady' = encoderReady /\ Encoding(h)
      BY <2>4 DEF EncodePacket, Encoding
    <3>2. QED
      BY <2>1, <3>1, ThreadNames DEF EncoderLife, Encoding
  <2>5. CASE EncodeNothing(h)
    <3>1. encoder' \in {encoder, "primed"} /\ encoderReady' = encoderReady /\ Encoding(h)
      BY <2>5 DEF EncodeNothing, Encoding, session
    <3>2. QED
      BY <2>1, <3>1, ThreadNames DEF EncoderLife, Encoding
  <2>6. CASE ~InitEncoder(h) /\ ~EncodePacket(h) /\ ~EncodeNothing(h)
    <3>1. encoder' = encoder /\ encoderReady' = encoderReady
      BY <1>3, <2>6 DEF Arrive, OnFrame, Enter, Bail, OnFrameStopped, OnFrameRunning,
                        InitEncoderFails, ExchangeIdr, HandlerReturns, Send, SendLock, SendWrite,
                        SendFail, session
    <3>2. Encoding(h)' => Encoding(h) \/ encoderReady
      BY <1>3, <2>2, <2>6 DEF Arrive, OnFrame, Enter, Bail, OnFrameStopped, OnFrameRunning,
                        InitEncoderFails, ExchangeIdr, HandlerReturns, Leave, Send, SendLock,
                        SendWrite, SendFail, Encoding
    <3>3. QED
      BY <2>1, <3>1, <3>2, ThreadNames DEF EncoderLife, Encoding
  <2>7. QED
    BY <2>3, <2>4, <2>5, <2>6
<1>4. QED
  BY <1>1, <1>2, <1>3 DEF Next

\* A stutter changes nothing.
LEMMA InvStutter ==
  ASSUME Inv, UNCHANGED vars
  PROVE  Inv'
BY DEF Inv, TypeOK, PcOK, SessionOK, CaptureOK, ChannelOK, PendingOK, FrameMutexOK, SendMutexOK,
       CaptureLife, EncoderLife, ControlLife, InHandler, Encoding, vars, session, capture, channel

\* Inv holds in every reachable state.
THEOREM Invariance == Spec => []Inv
<1>1. Inv /\ [Next]_vars => Inv'
  <2>1. ASSUME Inv, Next PROVE Inv'
    <3>1. TypeOK'
      BY <2>1, TypeStep DEF Inv
    <3>2. QED
      BY <2>1, <3>1, FrameMutexStep, SendMutexStep, CaptureLifeStep, EncoderLifeStep,
         ControlLifeStep DEF Inv
  <2>2. QED
    BY <2>1, InvStutter
<1>2. QED
  BY <1>1, InvInit, PTL DEF Spec

\* No frame callback works on a freed device or on an encoder that was shut
\* down, for any number of callbacks and whatever fails.
THEOREM NeverUseAfterTeardown == Spec => []NoUseAfterTeardown
<1>1. Inv => NoUseAfterTeardown
  BY DEF Inv, CaptureLife, EncoderLife, NoUseAfterTeardown, InHandler
<1>2. QED
  BY <1>1, Invariance, PTL

\* Messages of two threads never interleave on the channel.
THEOREM AlwaysOneWriter == Spec => []OneWriter
<1>1. Inv => OneWriter
  BY DEF Inv, SendMutexOK, OneWriter
<1>2. QED
  BY <1>1, Invariance, PTL

\* When Run has returned, the session may be destroyed.
THEOREM QuiescentWhenReturned == Spec => []QuiescentAfterReturn
<1>1. Inv => QuiescentAfterReturn
  <2> SUFFICES ASSUME Inv, pc["main"] = "returned"
               PROVE  /\ pc["ctl"] = "done"
                      /\ sendMutex = Nobody
                      /\ \A h \in Handlers : ~InHandler(h)
    BY DEF QuiescentAfterReturn
  <2>1. pc["ctl"] = "done"
    BY DEF Inv, ControlLife
  <2>2. \A h \in Handlers : ~InHandler(h)
    BY DEF Inv, CaptureLife
  <2>3. \A t \in Threads : pc[t] # "write"
    BY <2>1, <2>2 DEF Threads, Inv, TypeOK, PcOK, StopPc, InHandler, Encoding
  <2>4. sendMutex = Nobody
    BY <2>3 DEF Inv, SendMutexOK, TypeOK, SessionOK
  <2>5. QED
    BY <2>1, <2>2, <2>4
<1>2. QED
  BY <1>1, Invariance, PTL


\* A step that leaves the owed keyframe, force_idr_ and the callbacks at
\* "encode" alone.
LEMMA KeyframeStays ==
  ASSUME TypeOK, NoLostKeyframe, UNCHANGED <<idrOwed, forceIdr, idr>>,
         \A h \in Handlers : pc[h] = "encode" => pc'[h] = "encode"
  PROVE  NoLostKeyframe'
BY DEF NoLostKeyframe

LEMMA KeyframeStep ==
  ASSUME Faults \cap {"encode", "bitstream"} = {},
         TypeOK, NoLostKeyframe, [Next]_vars
  PROVE  NoLostKeyframe'
<1> USE ThreadNames DEF TypeOK, PcOK, SessionOK, Goto, StartSend, session, capture, channel
<1>1. CASE Run \/ Stop \/ Peer \/ UNCHANGED vars
  <2>1. UNCHANGED <<idrOwed, forceIdr, idr>> /\ \A h \in Handlers : pc'[h] = pc[h]
    BY <1>1 DEF Run, RunBegin, Send, SendLock, SendWrite, SendFail, Unlock, SpawnControl,
                StartCapture, StartCaptureFails, PollEnds, CaptureStop, CaptureDrain,
                EncoderShutdown, JoinControl, Stop, StopFlag, StopClose, Peer, PeerSend,
                PeerRead, PeerClose, vars
  <2> QED BY <2>1, KeyframeStays
<1>2. CASE OnKeyframeRequest
  BY <1>2 DEF OnKeyframeRequest, NoLostKeyframe
<1>3. CASE ControlLoop /\ ~OnKeyframeRequest
  <2>1. UNCHANGED <<idrOwed, forceIdr, idr>> /\ \A h \in Handlers : pc'[h] = pc[h]
    BY <1>3 DEF ControlLoop, LoopTest, RecvData, RecvEnd, ParseEnds, OnPing, OnDisconnect,
                OnIgnored, OnCorrupt, Send, SendLock, SendWrite, SendFail, Unlock
  <2> QED BY <2>1, KeyframeStays
<1>4. ASSUME NEW h \in Handlers, ExchangeIdr(h)
      PROVE  NoLostKeyframe'
  \* What is owed now is in the callback's idr, or was in another's already.
  <2>1. /\ pc[h] = "exchange" /\ pc' = [pc EXCEPT ![h] = "encode"]
        /\ idr' = [idr EXCEPT ![h] = forceIdr]
        /\ idrOwed' = IF idrOwed = "asked" THEN "taken" ELSE idrOwed
    BY <1>4 DEF ExchangeIdr
  <2>2. CASE idrOwed = "asked"
    BY <2>1, <2>2 DEF NoLostKeyframe
  <2>3. CASE idrOwed = "taken"
    BY <2>1, <2>3 DEF NoLostKeyframe
  <2>4. CASE idrOwed = "no"
    BY <2>1, <2>4 DEF NoLostKeyframe
  <2> QED BY <2>2, <2>3, <2>4
<1>5. ASSUME NEW h \in Handlers, EncodePacket(h)
      PROVE  NoLostKeyframe'
  \* A frame that is no keyframe was not the one to settle what is owed.
  <2>1. /\ pc' = [pc EXCEPT ![h] = "lock"] /\ idr' = [idr EXCEPT ![h] = FALSE]
        /\ forceIdr' = forceIdr
        /\ idrOwed' = IF idrOwed = "taken" /\ (idr[h] \/ encoder = "fresh")
                        THEN "no" ELSE idrOwed
    BY <1>5 DEF EncodePacket
  <2>2. CASE idrOwed = "taken" /\ ~(idr[h] \/ encoder = "fresh")
    BY <2>1, <2>2 DEF NoLostKeyframe
  <2>3. CASE ~(idrOwed = "taken" /\ ~(idr[h] \/ encoder = "fresh"))
    BY <2>1, <2>3 DEF NoLostKeyframe
  <2> QED BY <2>2, <2>3
<1>6. ASSUME NEW h \in Handlers, Arrive(h) \/ OnFrame(h), ~ExchangeIdr(h), ~EncodePacket(h)
      PROVE  NoLostKeyframe'
  <2>1. ~EncodeNothing(h)
    BY <1>6 DEF EncodeNothing
  <2>2. /\ UNCHANGED <<idrOwed, forceIdr, idr>>
        /\ pc[h] # "encode" /\ \A g \in Handlers \ {h} : pc'[g] = pc[g]
    BY <1>6, <2>1 DEF OnFrame, Arrive, Enter, Bail, OnFrameStopped, OnFrameRunning, InitEncoder,
                      InitEncoderFails, HandlerReturns, Leave, Send, SendLock, SendWrite,
                      SendFail, Unlock
  <2> QED BY <2>2, KeyframeStays
<1> QED
  BY <1>1, <1>2, <1>3, <1>4, <1>5, <1>6 DEF Next

\* A keyframe that is owed is not forgotten, so long as EncodeFrame yields a
\* packet: from force_idr_ it passes to exactly the callback that encodes it.
THEOREM KeyframesAreKept ==
  ASSUME Faults \cap {"encode", "bitstream"} = {}
  PROVE  Spec => []NoLostKeyframe
<1>1. Init => NoLostKeyframe
  BY DEF Init, NoLostKeyframe
<1>2. TypeOK /\ NoLostKeyframe /\ [Next]_vars => NoLostKeyframe'
  BY KeyframeStep
<1>3. QED
  BY <1>1, <1>2, TypeCorrect, PTL DEF Spec

-------------------------------------------------------------------------------
(* The refinement of HostStream: the PINGs still to be answered.            *)

LEMMA AnswersOf ==
  ASSUME NEW s \in Seq(ControlMsgs)
  PROVE  [i \in 1..Len(s) |-> IF s[i].type = "PING" THEN <<s[i].token>> ELSE <<>>] \in Seq(Seq(Tokens))
<1>1. ASSUME NEW i \in 1..Len(s)
      PROVE  (IF s[i].type = "PING" THEN <<s[i].token>> ELSE <<>>) \in Seq(Tokens)
  <2>1. s[i] \in ControlMsgs
    OBVIOUS
  <2>2. s[i].type = "PING" => s[i].token \in Tokens
    BY <2>1, PingToken
  <2>3. QED
    BY <2>2
<1>2. QED
  BY <1>1

LEMMA PingTokensType ==
  ASSUME NEW s \in Seq(ControlMsgs)
  PROVE  PingTokens(s) \in Seq(Tokens)
BY AnswersOf, FlattenType DEF PingTokens

LEMMA PingTokensConcat ==
  ASSUME NEW s \in Seq(ControlMsgs), NEW t \in Seq(ControlMsgs)
  PROVE  PingTokens(s \o t) = PingTokens(s) \o PingTokens(t)
<1> DEFINE A(q) == [i \in 1..Len(q) |-> IF q[i].type = "PING" THEN <<q[i].token>> ELSE <<>>]
<1>1. A(s) \in Seq(Seq(Tokens)) /\ A(t) \in Seq(Seq(Tokens))
  BY AnswersOf
<1>2. A(s \o t) = A(s) \o A(t)
  OBVIOUS
<1>3. PingTokens(s \o t) = FlattenSeq(A(s \o t)) /\ PingTokens(s) = FlattenSeq(A(s)) /\ PingTokens(t) = FlattenSeq(A(t))
  BY DEF PingTokens
<1> HIDE DEF A
<1>4. FlattenSeq(A(s) \o A(t)) = FlattenSeq(A(s)) \o FlattenSeq(A(t))
  BY <1>1, FlattenConcat
<1>5. QED
  BY <1>2, <1>3, <1>4

LEMMA PingTokensOne ==
  ASSUME NEW m \in ControlMsgs
  PROVE  PingTokens(<<m>>) = IF m.type = "PING" THEN <<m.token>> ELSE <<>>
<1> DEFINE x == IF m.type = "PING" THEN <<m.token>> ELSE <<>>
<1>1. x \in Seq(Tokens)
  BY PingToken
<1>2. [i \in 1..Len(<<m>>) |-> IF <<m>>[i].type = "PING" THEN <<(<<m>>[i]).token>> ELSE <<>>] = <<x>>
  OBVIOUS
<1>3. PingTokens(<<m>>) = FlattenSeq(<<x>>)
  BY <1>2 DEF PingTokens
<1> HIDE DEF x
<1>4. FlattenSeq(<<x>>) = x
  BY <1>1, FlattenOne
<1>5. QED
  BY <1>3, <1>4 DEF x

\* Taking a message off the control thread's parser.
LEMMA PingTokensTail ==
  ASSUME NEW s \in Seq(ControlMsgs), s # <<>>
  PROVE  /\ Head(s) \in ControlMsgs
         /\ Tail(s) \in Seq(ControlMsgs)
         /\ PingTokens(s) = (IF Head(s).type = "PING" THEN <<Head(s).token>> ELSE <<>>) \o PingTokens(Tail(s))
<1>1. Head(s) \in ControlMsgs /\ Tail(s) \in Seq(ControlMsgs) /\ s = <<Head(s)>> \o Tail(s)
  OBVIOUS
<1>2. <<Head(s)>> \in Seq(ControlMsgs)
  BY <1>1
<1>3. PingTokens(<<Head(s)>> \o Tail(s)) = PingTokens(<<Head(s)>>) \o PingTokens(Tail(s))
  BY <1>1, <1>2, PingTokensConcat
<1>4. QED
  BY <1>1, <1>3, PingTokensOne

-------------------------------------------------------------------------------
(* What each thread has in transit: a message while it is inside Send and   *)
(* none otherwise; a frame's number is the one before seq_, which is why    *)
(* numbering frames before send_mutex_ is taken is in order all the same.   *)

MessageOf(t, m) ==
  /\ t = "main" => m \in {NoMsg, HelloMsg, WelcomeMsg}
  /\ t = "ctl" => m = NoMsg \/ \E k \in Tokens : m = PongMsg(k)
  /\ t = "stop" => m = NoMsg
  /\ t \in Handlers => m = NoMsg \/ \E s \in 0..SeqModulus-1, k \in BOOLEAN : m = VideoMsg(s, k)

InTransit ==
  /\ \A t \in Threads : MessageOf(t, pending[t]) /\ (pending[t] # NoMsg <=> pc[t] \in {"lock", "write"})
  /\ \A h \in Handlers : pending[h] # NoMsg => seq = (pending[h].seq + 1) % SeqModulus

LEMMA MessageKinds ==
  /\ HelloMsg # NoMsg /\ WelcomeMsg # NoMsg /\ HelloMsg # WelcomeMsg
  /\ \A k : PongMsg(k) # NoMsg /\ PongMsg(k).token = k
  /\ \A s, k : VideoMsg(s, k) # NoMsg /\ VideoMsg(s, k).seq = s
BY DEF HelloMsg, WelcomeMsg, NoMsg, PongMsg, VideoMsg

LEMMA InTransitInit == Init => InTransit
BY ThreadNames DEF Init, InTransit, MessageOf, Threads

\* A step outside Send.
LEMMA InTransitStays ==
  ASSUME InTransit, UNCHANGED <<pending, seq>>,
         \A t \in Threads : pc'[t] \in {"lock", "write"} <=> pc[t] \in {"lock", "write"}
  PROVE  InTransit'
BY DEF InTransit

\* A thread enters Send, stays in it or leaves it.
LEMMA InTransitMoves ==
  ASSUME TypeOK, InTransit, NEW t \in Threads, NEW m, NEW l, MessageOf(t, m),
         m # NoMsg <=> l \in {"lock", "write"},
         pending' = [pending EXCEPT ![t] = m], Goto(t, l),
         \/ seq' = seq /\ (t \in Handlers => m = NoMsg)
         \/ t \in Handlers /\ m # NoMsg /\ seq' = (m.seq + 1) % SeqModulus
               /\ \A h \in Handlers \ {t} : pending[h] = NoMsg
  PROVE  InTransit'
<1>1. /\ pending'[t] = m /\ pc'[t] = l
      /\ \A u \in Threads \ {t} : pending'[u] = pending[u] /\ pc'[u] = pc[u]
  BY DEF TypeOK, PcOK, SessionOK, Goto
<1>2. ASSUME NEW u \in Threads
      PROVE  MessageOf(u, pending'[u]) /\ (pending'[u] # NoMsg <=> pc'[u] \in {"lock", "write"})
  <2>1. CASE u = t
    BY <1>1, <2>1
  <2>2. CASE u # t
    BY <1>1, <2>2 DEF InTransit
  <2>3. QED
    BY <2>1, <2>2
<1>3. ASSUME NEW h \in Handlers, pending'[h] # NoMsg
      PROVE  seq' = (pending'[h].seq + 1) % SeqModulus
  <2>1. h \in Threads
    BY ThreadNames
  <2>2. CASE h = t
    BY <1>1, <1>3, <2>2
  <2>3. CASE h # t
    BY <1>1, <1>3, <2>1, <2>3 DEF InTransit
  <2>4. QED
    BY <2>2, <2>3
<1>4. QED
  BY <1>2, <1>3 DEF InTransit, MessageOf

\* Only the callback inside the handler has a frame in transit.
LEMMA OneFrameInTransit ==
  ASSUME FrameMutexOK, InTransit
  PROVE  \A g, h \in Handlers : pending[g] # NoMsg /\ InHandler(h) => g = h
BY ThreadNames DEF FrameMutexOK, InTransit, InHandler, Encoding

LEMMA InTransitSend ==
  ASSUME Inv, InTransit, NEW t \in Senders, Send(t)
  PROVE  InTransit'
<1>0. t \in Threads /\ t # "stop"
  BY ThreadNames DEF Senders
<1>1. CASE SendLock(t)
  <2>1. \A u \in Threads : pc'[u] \in {"lock", "write"} <=> pc[u] \in {"lock", "write"}
    BY <1>0, <1>1 DEF SendLock, Goto, Inv, TypeOK, PcOK
  <2>2. QED
    BY <1>1, <2>1, InTransitStays DEF SendLock
<1>2. CASE SendWrite(t) \/ SendFail(t)
  <2>1. Unlock(t) /\ seq' = seq
    BY <1>2 DEF SendWrite, SendFail
  <2>2. CASE t = "main" /\ pending[t] = HelloMsg
    <3>1. pending' = [pending EXCEPT ![t] = WelcomeMsg] /\ Goto(t, "lock")
      BY <2>1, <2>2 DEF Unlock, StartSend
    <3>2. MessageOf(t, WelcomeMsg) /\ WelcomeMsg # NoMsg /\ t \notin Handlers
      BY <2>2, ThreadNames, MessageKinds DEF MessageOf
    <3>3. QED
      BY <1>0, <2>1, <3>1, <3>2, InTransitMoves DEF Inv
  <2>3. CASE ~(t = "main" /\ pending[t] = HelloMsg)
    <3>1. PICK l : pending' = [pending EXCEPT ![t] = NoMsg] /\ Goto(t, l) /\ l \notin {"lock", "write"}
      BY <2>1, <2>3 DEF Unlock
    <3>2. MessageOf(t, NoMsg)
      BY DEF MessageOf
    <3>3. QED
      BY <1>0, <2>1, <3>1, <3>2, InTransitMoves DEF Inv
  <2>4. QED
    BY <2>2, <2>3
<1>3. QED
  BY <1>1, <1>2 DEF Send

LEMMA InTransitStep ==
  ASSUME Inv, InTransit, [Next]_vars
  PROVE  InTransit'
<1> USE ThreadNames DEF Inv, TypeOK, PcOK, Goto, session
<1>1. CASE UNCHANGED vars
  BY <1>1, InTransitStays DEF vars
<1>2. CASE RunBegin
  <2>1. MessageOf("main", HelloMsg) /\ HelloMsg # NoMsg /\ "main" \notin Handlers
    BY MessageKinds DEF MessageOf
  <2>2. pending' = [pending EXCEPT !["main"] = HelloMsg] /\ Goto("main", "lock") /\ seq' = seq
    BY <1>2 DEF RunBegin, StartSend
  <2>3. QED
    BY <2>1, <2>2, InTransitMoves
<1>3. CASE OnPing
  <2> DEFINE m == PongMsg(Head(rx).token)
  <2>1. rx # <<>> /\ Head(rx).type = "PING" /\ rx \in Seq(ControlMsgs)
    BY <1>3 DEF OnPing, NextMessage, ChannelOK
  <2>2. Head(rx).token \in Tokens
    BY <2>1, PingTokensTail, PingToken
  <2>3. MessageOf("ctl", m) /\ m # NoMsg /\ "ctl" \notin Handlers
    BY <2>2, MessageKinds DEF MessageOf
  <2>4. pending' = [pending EXCEPT !["ctl"] = m] /\ Goto("ctl", "lock") /\ seq' = seq
    BY <1>3 DEF OnPing, StartSend
  <2> HIDE DEF m
  <2>5. QED
    BY <2>3, <2>4, InTransitMoves
<1>4. ASSUME NEW h \in Handlers, EncodePacket(h)
      PROVE  InTransit'
  <2>1. PICK k \in BOOLEAN : pending' = [pending EXCEPT ![h] = VideoMsg(seq, k)]
    BY <1>4 DEF EncodePacket, StartSend, SessionOK
  <2>2. Goto(h, "lock") /\ seq' = (seq + 1) % SeqModulus /\ seq \in 0..SeqModulus-1 /\ InHandler(h)
    BY <1>4 DEF EncodePacket, StartSend, SessionOK, InHandler, Encoding
  <2>3. MessageOf(h, VideoMsg(seq, k)) /\ VideoMsg(seq, k) # NoMsg /\ VideoMsg(seq, k).seq = seq
    BY <2>2, MessageKinds DEF MessageOf
  <2>4. \A g \in Handlers \ {h} : pending[g] = NoMsg
    BY <2>2, OneFrameInTransit
  <2> HIDE DEF Inv, TypeOK, PcOK, Goto, session
  <2>5. TypeOK /\ h \in Threads
    BY DEF Inv
  <2>6. QED
    BY <2>1, <2>2, <2>3, <2>4, <2>5, InTransitMoves
<1>5. CASE \E t \in Senders : Send(t)
  BY <1>5, InTransitSend
<1>6. CASE Run /\ ~RunBegin /\ ~Send("main")
  <2>1. \A u \in Threads : pc'[u] \in {"lock", "write"} <=> pc[u] \in {"lock", "write"}
    BY <1>6 DEF Run, SpawnControl, StartCapture, StartCaptureFails, PollEnds, CaptureStop,
                CaptureDrain, EncoderShutdown, JoinControl, ControlLife
  <2>2. UNCHANGED <<pending, seq>>
    BY <1>6 DEF Run, SpawnControl, StartCapture, StartCaptureFails, PollEnds, CaptureStop,
                CaptureDrain, EncoderShutdown, JoinControl
  <2>3. QED
    BY <2>1, <2>2, InTransitStays
<1>7. CASE ControlLoop /\ ~OnPing /\ ~Send("ctl")
  <2>1. \A u \in Threads : pc'[u] \in {"lock", "write"} <=> pc[u] \in {"lock", "write"}
    BY <1>7 DEF ControlLoop, LoopTest, RecvData, RecvEnd, ParseEnds, OnKeyframeRequest,
                OnDisconnect, OnIgnored, OnCorrupt, NextMessage
  <2>2. UNCHANGED <<pending, seq>>
    BY <1>7 DEF ControlLoop, LoopTest, RecvData, RecvEnd, ParseEnds, OnKeyframeRequest,
                OnDisconnect, OnIgnored, OnCorrupt
  <2>3. QED
    BY <2>1, <2>2, InTransitStays
<1>8. CASE Stop \/ Peer
  <2>1. \A u \in Threads : pc'[u] \in {"lock", "write"} <=> pc[u] \in {"lock", "write"}
    BY <1>8 DEF Stop, StopFlag, StopClose, Peer, PeerSend, PeerRead, PeerClose
  <2>2. UNCHANGED <<pending, seq>>
    BY <1>8 DEF Stop, StopFlag, StopClose, Peer, PeerSend, PeerRead, PeerClose
  <2>3. QED
    BY <2>1, <2>2, InTransitStays
<1>9. ASSUME NEW h \in Handlers, Arrive(h) \/ OnFrame(h), ~EncodePacket(h), ~Send(h)
      PROVE  InTransit'
  <2>1. \A u \in Threads : pc'[u] \in {"lock", "write"} <=> pc[u] \in {"lock", "write"}
    BY <1>9 DEF Arrive, OnFrame, Enter, Bail, OnFrameStopped, OnFrameRunning, InitEncoder,
                InitEncoderFails, ExchangeIdr, EncodeNothing, HandlerReturns, Leave
  <2>2. UNCHANGED <<pending, seq>>
    BY <1>9 DEF Arrive, OnFrame, Enter, Bail, OnFrameStopped, OnFrameRunning, InitEncoder,
                InitEncoderFails, ExchangeIdr, EncodeNothing, HandlerReturns
  <2>3. QED
    BY <2>1, <2>2, InTransitStays
<1>10. QED
  BY <1>1, <1>2, <1>3, <1>4, <1>5, <1>6, <1>7, <1>8, <1>9 DEF Next, Senders

-------------------------------------------------------------------------------
(* Each step is a step of HostStream or leaves its variables alone.         *)

RefInv == Inv /\ InTransit

OwedPongs == PongTokens(pending["ctl"]) \o PingTokens(rx) \o PingTokens(inq)

Open == ~closed /\ ~peerGone

\* The greeting is over before the control thread or a frame callback sends.
LEMMA GreetingFirst ==
  ASSUME RefInv
  PROVE  /\ pc["main"] = "new" => pending["main"] = NoMsg
         /\ pending["ctl"] # NoMsg => Stage = "stream"
         /\ \A h \in Handlers : InHandler(h) => Stage = "stream"
<1> USE ThreadNames, MessageKinds DEF RefInv, Inv, InTransit
<1>1. pc["main"] = "new" => pending["main"] = NoMsg
  OBVIOUS
<1>2. pc["main"] \notin {"new", "lock", "write"} => Stage = "stream"
  BY DEF Stage
<1>3. pending["ctl"] # NoMsg => pc["main"] \notin {"new", "lock", "write"}
  BY DEF ControlLife
<1>4. \A h \in Handlers : InHandler(h) => pc["main"] \notin {"new", "lock", "write"}
  BY DEF CaptureLife
<1>5. QED
  BY <1>1, <1>2, <1>3, <1>4

LEMMA NextSeqIs ==
  ASSUME RefInv
  PROVE  /\ (\A h \in Handlers : pending[h] = NoMsg) => NextSeq = seq
         /\ \A h \in Handlers : pending[h] # NoMsg => NextSeq = pending[h].seq
<1>1. ASSUME NEW h \in Handlers, pending[h] # NoMsg
      PROVE  NextSeq = pending[h].seq
  <2>1. \A g \in Handlers : pending[g] # NoMsg <=> g = h
    <3>1. InHandler(h)
      BY <1>1, ThreadNames DEF RefInv, InTransit, InHandler, Encoding
    <3>2. QED
      BY <1>1, <3>1, OneFrameInTransit DEF RefInv, Inv
  <2>2. h = CHOOSE g \in Handlers : pending[g] # NoMsg
    BY <2>1
  <2>3. QED
    BY <1>1, <2>2 DEF NextSeq
<1>2. QED
  BY <1>1 DEF NextSeq

LEMMA NextSeqStays ==
  ASSUME \A h \in Handlers : pending'[h] = pending[h], seq' = seq
  PROVE  NextSeq' = NextSeq
<1>1. (\E h \in Handlers : pending'[h] # NoMsg) <=> (\E h \in Handlers : pending[h] # NoMsg)
  OBVIOUS
<1>2. (CHOOSE h \in Handlers : pending'[h] # NoMsg) = CHOOSE h \in Handlers : pending[h] # NoMsg
  OBVIOUS
<1>3. (\E h \in Handlers : pending[h] # NoMsg) => (CHOOSE h \in Handlers : pending[h] # NoMsg) \in Handlers
  OBVIOUS
<1>4. QED
  BY <1>1, <1>2, <1>3 DEF NextSeq

LEMMA HostStutters ==
  ASSUME out' = out, Open' = Open, NextSeq' = NextSeq, Stage' = Stage, OwedPongs' = OwedPongs
  PROVE  UNCHANGED Promise!vars
BY DEF Promise!vars, OwedPongs, Open

\* A step outside Send that takes no PING.
LEMMA QuietStep ==
  ASSUME UNCHANGED <<pending, seq, out>>, Open' = Open,
         pc'["main"] = "new" <=> pc["main"] = "new",
         PingTokens(rx)' \o PingTokens(inq)' = PingTokens(rx) \o PingTokens(inq),
         PingTokens(rx) \in Seq(Tokens), PingTokens(inq) \in Seq(Tokens),
         PingTokens(rx)' \in Seq(Tokens), PingTokens(inq)' \in Seq(Tokens),
         PongTokens(pending["ctl"]) \in Seq(Tokens)
  PROVE  UNCHANGED Promise!vars
<1>1. NextSeq' = NextSeq
  BY NextSeqStays
<1>2. Stage' = Stage
  BY DEF Stage
<1>3. OwedPongs' = OwedPongs
  <2> DEFINE a == PongTokens(pending["ctl"])
             p == PingTokens(rx)
             q == PingTokens(inq)
  <2>1. a' = a
    BY DEF PongTokens
  <2>2. Associate(a, p, q) /\ Associate(a, p', q')
    BY ConcatAssociates
  <2>3. OwedPongs = (a \o p) \o q /\ OwedPongs' = (a' \o p') \o q'
    BY DEF OwedPongs
  <2> HIDE DEF a, p, q
  <2>4. p' \o q' = p \o q
    BY DEF p, q
  <2>5. QED
    BY <2>1, <2>2, <2>3, <2>4 DEF Associate
<1>4. QED
  BY <1>1, <1>2, <1>3, HostStutters

LEMMA OwedTypes ==
  ASSUME RefInv
  PROVE  /\ PingTokens(rx) \in Seq(Tokens)
         /\ PingTokens(inq) \in Seq(Tokens)
         /\ PongTokens(pending["ctl"]) \in Seq(Tokens)
<1>1. rx \in Seq(ControlMsgs) /\ inq \in Seq(ControlMsgs)
  BY DEF RefInv, Inv, TypeOK, ChannelOK
<1>2. pending["ctl"] = NoMsg \/ \E k \in Tokens : pending["ctl"] = PongMsg(k)
  BY ThreadNames DEF RefInv, InTransit, MessageOf
<1>3. PongTokens(pending["ctl"]) \in Seq(Tokens)
  BY <1>2, MessageKinds DEF PongTokens
<1>4. QED
  BY <1>1, <1>3, PingTokensType

\* A message is written, or lost because the channel is closed.
LEMMA Emitted ==
  ASSUME NEW t \in Senders, SendWrite(t) \/ SendFail(t)
  PROVE  /\ out' = Append(out, pending[t]) \/ (~Open /\ out' = out)
         /\ UNCHANGED <<seq, inq, rx, closed, peerGone>>
         /\ Unlock(t)
<1>1. CASE SendWrite(t)
  BY <1>1 DEF SendWrite
<1>2. CASE SendFail(t)
  BY <1>2 DEF SendFail, Open, channel
<1>3. QED
  BY <1>1, <1>2

LEMMA MainSends ==
  ASSUME RefInv, SendWrite("main") \/ SendFail("main")
  PROVE  Promise!Hello \/ Promise!Welcome
<1> USE ThreadNames, MessageKinds
<1>1. /\ out' = Append(out, pending["main"]) \/ (~Open /\ out' = out)
      /\ UNCHANGED <<seq, inq, rx, closed, peerGone>>
      /\ Unlock("main")
  BY Emitted DEF Senders
<1>2. pc["main"] = "write" /\ pending["main"] \in {HelloMsg, WelcomeMsg}
  BY DEF SendWrite, SendFail, RefInv, InTransit, MessageOf
<1>3. \A u \in Threads \ {"main"} : pending'[u] = pending[u]
  BY <1>1 DEF Unlock, StartSend, RefInv, Inv, TypeOK, SessionOK
<1>4. NextSeq' = NextSeq
  BY <1>1, <1>3, NextSeqStays
<1>5. OwedPongs' = OwedPongs /\ Open' = Open
  BY <1>1, <1>3 DEF OwedPongs, PongTokens, Open
<1>6. CASE pending["main"] = HelloMsg
  <2>1. Stage = "hello"
    BY <1>6 DEF Stage
  <2>2. pending'["main"] = WelcomeMsg /\ pc'["main"] = "lock"
    BY <1>1, <1>6 DEF Unlock, StartSend, Goto, RefInv, Inv, TypeOK, PcOK, SessionOK
  <2>3. Stage' = "welcome"
    BY <2>2 DEF Stage
  <2>4. QED
    BY <1>1, <1>4, <1>5, <1>6, <2>1, <2>3 DEF Promise!Hello, Promise!Emit, Promise!HelloMsg, HelloMsg,
       OwedPongs, Open
<1>7. CASE pending["main"] = WelcomeMsg
  <2>1. Stage = "welcome"
    BY <1>2, <1>7 DEF Stage
  <2>2. pending'["main"] = NoMsg /\ pc'["main"] = "spawn"
    BY <1>1, <1>7 DEF Unlock, Goto, RefInv, Inv, TypeOK, PcOK, SessionOK
  <2>3. Stage' = "stream"
    BY <2>2 DEF Stage
  <2>4. QED
    BY <1>1, <1>4, <1>5, <1>7, <2>1, <2>3 DEF Promise!Welcome, Promise!Emit, Promise!WelcomeMsg,
       WelcomeMsg, OwedPongs, Open
<1>8. QED
  BY <1>2, <1>6, <1>7

\* The greeting is not touched by what other threads send.
LEMMA StageStays ==
  ASSUME pending'["main"] = pending["main"], pc'["main"] = "new" <=> pc["main"] = "new"
  PROVE  Stage' = Stage
BY DEF Stage

LEMMA OwedStays ==
  ASSUME pending'["ctl"] = pending["ctl"], UNCHANGED <<rx, inq>>
  PROVE  OwedPongs' = OwedPongs
BY DEF OwedPongs, PongTokens

LEMMA HandlerSends ==
  ASSUME RefInv, NEW h \in Handlers, SendWrite(h) \/ SendFail(h)
  PROVE  Promise!Video
<1> USE ThreadNames, MessageKinds
<1>1. /\ out' = Append(out, pending[h]) \/ (~Open /\ out' = out)
      /\ UNCHANGED <<seq, inq, rx, closed, peerGone>>
      /\ Unlock(h)
  BY Emitted DEF Senders
<1>2. pc[h] = "write" /\ pending[h] # NoMsg /\ InHandler(h)
  BY DEF SendWrite, SendFail, RefInv, InTransit, InHandler, Encoding
<1>3. /\ pending' = [pending EXCEPT ![h] = NoMsg]
      /\ Goto(h, "release")
  BY <1>1 DEF Unlock
<1>4. /\ pending'[h] = NoMsg
      /\ \A u \in Threads \ {h} : pending'[u] = pending[u] /\ pc'[u] = pc[u]
  BY <1>3 DEF Goto, RefInv, Inv, TypeOK, PcOK, SessionOK
<1>5. PICK s \in 0..SeqModulus-1, k \in BOOLEAN : pending[h] = VideoMsg(s, k)
  BY <1>2 DEF RefInv, InTransit, MessageOf
<1>6. NextSeq = s
  BY <1>2, <1>5, NextSeqIs
<1>7. NextSeq' = (NextSeq + 1) % SeqModulus
  <2>1. \A g \in Handlers : pending'[g] = NoMsg
    BY <1>2, <1>4, OneFrameInTransit DEF RefInv, Inv
  <2>2. NextSeq' = seq'
    BY <2>1 DEF NextSeq
  <2>3. seq = (s + 1) % SeqModulus
    BY <1>2, <1>5 DEF RefInv, InTransit
  <2>4. QED
    BY <1>1, <1>6, <2>2, <2>3
<1>8. Stage = "stream" /\ Stage' = Stage
  BY <1>2, <1>4, GreetingFirst, StageStays
<1>9. OwedPongs' = OwedPongs /\ Open' = Open
  BY <1>1, <1>4 DEF OwedPongs, PongTokens, Open
<1>10. \E key \in BOOLEAN : out' = Append(out, Promise!VideoMsg(NextSeq, key)) \/ (~Open /\ out' = out)
  BY <1>1, <1>5, <1>6 DEF Promise!VideoMsg, VideoMsg
<1>11. QED
  BY <1>7, <1>8, <1>9, <1>10 DEF Promise!Video, Promise!Emit, OwedPongs, Open

LEMMA ControlSends ==
  ASSUME RefInv, SendWrite("ctl") \/ SendFail("ctl")
  PROVE  Promise!Answer
<1> USE ThreadNames, MessageKinds
<1>1. /\ out' = Append(out, pending["ctl"]) \/ (~Open /\ out' = out)
      /\ UNCHANGED <<seq, inq, rx, closed, peerGone>>
      /\ Unlock("ctl")
  BY Emitted DEF Senders
<1>2. pc["ctl"] = "write" /\ pending["ctl"] # NoMsg
  BY DEF SendWrite, SendFail, RefInv, InTransit
<1>3. /\ pending' = [pending EXCEPT !["ctl"] = NoMsg]
      /\ Goto("ctl", "parse")
  BY <1>1 DEF Unlock
<1>4. /\ pending'["ctl"] = NoMsg
      /\ \A u \in Threads \ {"ctl"} : pending'[u] = pending[u] /\ pc'[u] = pc[u]
  BY <1>3 DEF Goto, RefInv, Inv, TypeOK, PcOK, SessionOK
<1>5. PICK k \in Tokens : pending["ctl"] = PongMsg(k)
  BY <1>2 DEF RefInv, InTransit, MessageOf
<1>6. NextSeq' = NextSeq
  BY <1>1, <1>4, NextSeqStays
<1>7. Stage = "stream" /\ Stage' = Stage
  BY <1>2, <1>4, GreetingFirst, StageStays
<1>8. PongTokens(pending["ctl"]) = <<k>> /\ PongTokens(pending["ctl"])' = <<>>
  BY <1>4, <1>5 DEF PongTokens
<1>9. OwedPongs # <<>> /\ Head(OwedPongs) = k /\ OwedPongs' = Tail(OwedPongs)
  <2> DEFINE p == PingTokens(rx)
             q == PingTokens(inq)
  <2>1. p \in Seq(Tokens) /\ q \in Seq(Tokens)
    BY OwedTypes
  <2>2. OwedPongs = <<k>> \o p \o q /\ OwedPongs' = <<>> \o p \o q
    BY <1>1, <1>8 DEF OwedPongs
  <2> HIDE DEF p, q
  <2>3. QED
    BY <2>1, <2>2
<1>10. Open' = Open
  BY <1>1 DEF Open
<1>11. out' = Append(out, Promise!PongMsg(Head(OwedPongs))) \/ (~Open /\ out' = out)
  BY <1>1, <1>5, <1>9 DEF Promise!PongMsg, PongMsg
<1>12. QED
  BY <1>6, <1>7, <1>9, <1>10, <1>11 DEF Promise!Answer, Promise!Emit, OwedPongs, Open

LEMMA SendImplements ==
  ASSUME RefInv, NEW t \in Senders, Send(t)
  PROVE  [Promise!Next]_Promise!vars
<1>1. CASE SendLock(t)
  <2>1. pc'["main"] = "new" <=> pc["main"] = "new"
    BY <1>1, ThreadNames DEF SendLock, Goto, RefInv, Inv, TypeOK, PcOK
  <2>2. UNCHANGED <<pending, seq, out, inq, rx>> /\ Open' = Open
    BY <1>1 DEF SendLock, channel, Open
  <2>3. QED
    BY <2>1, <2>2, OwedTypes, QuietStep
<1>2. CASE SendWrite(t) \/ SendFail(t)
  BY <1>2, MainSends, ControlSends, HandlerSends DEF Senders, Promise!Next
<1>3. QED
  BY <1>1, <1>2 DEF Send

LEMMA RunImplements ==
  ASSUME RefInv, Run
  PROVE  [Promise!Next]_Promise!vars
<1> USE ThreadNames DEF RefInv, Inv, TypeOK, PcOK, SessionOK
<1>1. CASE Send("main")
  BY <1>1, SendImplements DEF Senders
<1>2. CASE RunBegin
  <2>1. /\ pc["main"] = "new" /\ pending'["main"] = HelloMsg
        /\ \A u \in Threads \ {"main"} : pending'[u] = pending[u]
        /\ UNCHANGED <<seq, out, inq, rx>> /\ Open' = Open
    BY <1>2 DEF RunBegin, StartSend, channel, Open
  <2>2. NextSeq' = NextSeq
    BY <2>1, NextSeqStays
  <2>3. Stage = "hello" /\ Stage' = "hello"
    <3>1. pending["main"] # WelcomeMsg /\ pending'["main"] # WelcomeMsg
      BY <2>1, GreetingFirst, MessageKinds
    <3>2. QED
      BY <2>1, <3>1 DEF Stage
  <2>4. OwedPongs' = OwedPongs
    BY <2>1 DEF OwedPongs, PongTokens
  <2>5. QED
    BY <2>1, <2>2, <2>3, <2>4, HostStutters
<1>3. CASE ~RunBegin /\ ~Send("main")
  <2>1. UNCHANGED <<pending, seq, out, inq, rx>> /\ Open' = Open
    BY <1>3 DEF Run, SpawnControl, StartCapture, StartCaptureFails, PollEnds, CaptureStop,
                CaptureDrain, EncoderShutdown, JoinControl, channel, session, Open
  <2>2. pc'["main"] # "new" /\ pc["main"] # "new"
    BY <1>3 DEF Run, SpawnControl, StartCapture, StartCaptureFails, PollEnds, CaptureStop,
                CaptureDrain, EncoderShutdown, JoinControl, Goto
  <2>3. QED
    BY <2>1, <2>2, OwedTypes, QuietStep
<1>4. QED
  BY <1>1, <1>2, <1>3

\* The messages that yield no PONG.
LEMMA TakesNoPing ==
  ASSUME RefInv, rx # <<>>, Head(rx).type # "PING", rx' = Tail(rx),
         UNCHANGED <<pending, seq, out, inq>>, Open' = Open,
         pc'["main"] = "new" <=> pc["main"] = "new"
  PROVE  UNCHANGED Promise!vars
<1>1. rx \in Seq(ControlMsgs)
  BY DEF RefInv, Inv, TypeOK, ChannelOK
<1>2. PingTokens(Tail(rx)) \in Seq(Tokens) /\ PingTokens(rx) = <<>> \o PingTokens(Tail(rx))
  BY <1>1, PingTokensTail, PingTokensType
<1>3. PingTokens(rx)' = PingTokens(rx) /\ PingTokens(inq)' = PingTokens(inq)
  BY <1>2
<1>4. QED
  BY <1>3, OwedTypes, QuietStep

LEMMA ControlImplements ==
  ASSUME RefInv, ControlLoop
  PROVE  [Promise!Next]_Promise!vars
<1> USE ThreadNames
<1>0. /\ rx \in Seq(ControlMsgs) /\ inq \in Seq(ControlMsgs)
      /\ \A l : Goto("ctl", l) => pc'["main"] = pc["main"] /\ pc'["ctl"] = l
  BY DEF RefInv, Inv, TypeOK, PcOK, ChannelOK, Goto
<1>1. CASE Send("ctl")
  BY <1>1, SendImplements DEF Senders
<1>2. CASE LoopTest \/ RecvEnd \/ ParseEnds \/ OnCorrupt
  <2>1. UNCHANGED <<pending, seq, out, inq, rx>> /\ Open' = Open
    BY <1>2 DEF LoopTest, RecvEnd, ParseEnds, OnCorrupt, channel, session, Open
  <2>2. pc'["main"] = pc["main"]
    BY <1>0, <1>2 DEF LoopTest, RecvEnd, ParseEnds, OnCorrupt
  <2>3. QED
    BY <2>1, <2>2, OwedTypes, QuietStep
<1>3. CASE RecvData
  <2>1. PICK n \in 1..Len(inq) : rx' = rx \o SubSeq(inq, 1, n) /\ inq' = SubSeq(inq, n + 1, Len(inq))
    BY <1>3 DEF RecvData
  <2> DEFINE a == SubSeq(inq, 1, n)
             b == SubSeq(inq, n + 1, Len(inq))
  <2>2. a \in Seq(ControlMsgs) /\ b \in Seq(ControlMsgs) /\ inq = a \o b
    BY <1>0
  <2>3. rx' = rx \o a /\ inq' = b
    BY <2>1
  <2> HIDE DEF a, b
  <2>4. PingTokens(rx)' = PingTokens(rx) \o PingTokens(a)
    BY <1>0, <2>2, <2>3, PingTokensConcat
  <2>5. PingTokens(inq) = PingTokens(a) \o PingTokens(b) /\ PingTokens(inq)' = PingTokens(b)
    BY <2>2, <2>3, PingTokensConcat
  <2>6. PingTokens(a) \in Seq(Tokens) /\ PingTokens(b) \in Seq(Tokens) /\ PingTokens(rx) \in Seq(Tokens)
    BY <1>0, <2>2, PingTokensType
  <2>7. /\ PingTokens(rx)' \o PingTokens(inq)' = PingTokens(rx) \o PingTokens(inq)
        /\ PingTokens(rx)' \in Seq(Tokens) /\ PingTokens(inq)' \in Seq(Tokens)
    <3> DEFINE x == PingTokens(rx)
               y == PingTokens(a)
               z == PingTokens(b)
    <3>1. x \in Seq(Tokens) /\ y \in Seq(Tokens) /\ z \in Seq(Tokens)
      BY <2>6
    <3> HIDE DEF x, y, z
    <3>2. Associate(x, y, z) /\ x \o y \in Seq(Tokens)
      BY <3>1, ConcatAssociates
    <3>3. QED
      BY <2>4, <2>5, <3>1, <3>2 DEF Associate, x, y, z
  <2>8. UNCHANGED <<pending, seq, out>> /\ Open' = Open /\ pc'["main"] = pc["main"]
    BY <1>0, <1>3 DEF RecvData, session, Open
  <2>9. QED
    BY <2>7, <2>8, OwedTypes, QuietStep
<1>4. CASE OnKeyframeRequest \/ OnDisconnect \/ OnIgnored
  <2>1. /\ rx # <<>> /\ Head(rx).type # "PING" /\ rx' = Tail(rx)
        /\ UNCHANGED <<pending, seq, out, inq>> /\ Open' = Open
    BY <1>4 DEF OnKeyframeRequest, OnDisconnect, OnIgnored, NextMessage, channel, session, Open
  <2>2. pc'["main"] = pc["main"]
    BY <1>0, <1>4 DEF OnKeyframeRequest, OnDisconnect, OnIgnored
  <2>3. QED
    BY <2>1, <2>2, TakesNoPing
<1>5. CASE OnPing
  \* The PING leaves the parser and its PONG is what the thread now sends.
  <2> DEFINE k == Head(rx).token
             p == PingTokens(Tail(rx))
             q == PingTokens(inq)
  <2>1. /\ pc["ctl"] = "parse" /\ rx # <<>> /\ Head(rx).type = "PING" /\ rx' = Tail(rx)
        /\ pending' = [pending EXCEPT !["ctl"] = PongMsg(k)] /\ Goto("ctl", "lock")
        /\ UNCHANGED <<seq, out, inq>> /\ Open' = Open
    BY <1>5 DEF OnPing, NextMessage, StartSend, channel, session, Open
  <2>2. PingTokens(rx) = <<k>> \o p /\ p \in Seq(Tokens) /\ q \in Seq(Tokens)
    BY <1>0, <2>1, PingTokensTail, PingTokensType
  <2>3. k \in Tokens
    BY <1>0, <2>1, PingTokensTail, PingToken
  <2>4. pending["ctl"] = NoMsg
    BY <2>1 DEF RefInv, InTransit
  <2>5. pending'["ctl"] = PongMsg(k) /\ \A u \in Threads \ {"ctl"} : pending'[u] = pending[u]
    BY <2>1 DEF RefInv, Inv, TypeOK, SessionOK
  <2>6. PongTokens(pending["ctl"]) = <<>> /\ PongTokens(pending["ctl"])' = <<k>>
    BY <2>4, <2>5, MessageKinds DEF PongTokens
  <2>7. OwedPongs = (<<>> \o (<<k>> \o p)) \o q /\ OwedPongs' = (<<k>> \o p) \o q
    BY <2>1, <2>2, <2>6 DEF OwedPongs
  <2>8. OwedPongs' = OwedPongs
    <3> HIDE DEF k, p, q
    <3>1. QED
      BY <2>2, <2>3, <2>7
  <2>9. NextSeq' = NextSeq /\ Stage' = Stage
    BY <1>0, <2>1, <2>5, NextSeqStays, StageStays
  <2>10. QED
    BY <2>1, <2>8, <2>9, HostStutters
<1>6. QED
  BY <1>1, <1>2, <1>3, <1>4, <1>5 DEF ControlLoop

LEMMA OthersImplement ==
  ASSUME RefInv, Stop \/ Peer
  PROVE  [Promise!Next]_Promise!vars
<1> USE ThreadNames
<1>0. /\ UNCHANGED <<pending, seq, rx>> /\ pc'["main"] = pc["main"]
      /\ inq \in Seq(ControlMsgs) /\ out \in Seq(HostMsgs)
      /\ closed \in BOOLEAN /\ peerGone \in BOOLEAN
  BY DEF Stop, StopFlag, StopClose, Peer, PeerSend, PeerRead, PeerClose, RefInv, Inv, TypeOK, PcOK,
         ChannelOK, Goto, session
<1>1. NextSeq' = NextSeq /\ Stage' = Stage
  BY <1>0, NextSeqStays, StageStays
<1>2. CASE StopFlag
  <2>1. UNCHANGED <<out, inq>> /\ Open' = Open
    BY <1>2 DEF StopFlag, channel, Open
  <2>2. QED
    BY <1>0, <2>1, OwedTypes, QuietStep
<1>3. CASE StopClose \/ PeerClose
  <2>1. UNCHANGED <<out, inq>> /\ ~Open'
    BY <1>3 DEF StopClose, PeerClose, Open
  <2>2. OwedPongs' = OwedPongs
    BY <1>0, <2>1 DEF OwedPongs, PongTokens
  <2>3. CASE Open
    BY <1>1, <2>1, <2>2, <2>3 DEF Promise!Next, Promise!Cut, OwedPongs, Open
  <2>4. CASE ~Open
    <3>1. Open' = Open
      BY <2>1, <2>4 DEF Open
    <3>2. QED
      BY <1>1, <2>1, <2>2, <3>1, HostStutters
  <2>5. QED
    BY <2>3, <2>4
<1>4. CASE PeerRead
  <2>1. UNCHANGED inq /\ Open' = Open /\ out # <<>> /\ out' = Tail(out)
    BY <1>4 DEF PeerRead, Open
  <2>2. OwedPongs' = OwedPongs
    BY <1>0, <2>1 DEF OwedPongs, PongTokens
  <2>3. QED
    BY <1>1, <2>1, <2>2 DEF Promise!Next, Promise!Deliver, OwedPongs, Open
<1>5. CASE PeerSend
  <2>1. PICK m \in PeerMsgs : inq' = Append(inq, m)
    BY <1>5 DEF PeerSend
  <2>2. UNCHANGED out /\ Open /\ Open' = Open /\ m \in ControlMsgs
    BY <1>5, SessionAssumption DEF PeerSend, Open
  <2>3. inq' = inq \o <<m>> /\ <<m>> \in Seq(ControlMsgs)
    BY <1>0, <2>1, <2>2
  <2>4. PingTokens(inq)' = PingTokens(inq) \o PingTokens(<<m>>)
    BY <1>0, <2>3, PingTokensConcat
  <2> DEFINE a == PongTokens(pending["ctl"])
             p == PingTokens(rx)
             q == PingTokens(inq)
  <2>5. a \in Seq(Tokens) /\ p \in Seq(Tokens) /\ q \in Seq(Tokens)
    BY OwedTypes
  <2>6. CASE m.type = "PING"
    <3>1. m.token \in Tokens /\ PingTokens(<<m>>) = <<m.token>>
      BY <2>2, <2>6, PingToken, PingTokensOne
    <3>2. OwedPongs = (a \o p) \o q /\ OwedPongs' = (a \o p) \o (q \o <<m.token>>)
      BY <1>0, <2>4, <3>1 DEF OwedPongs, PongTokens
    <3>3. OwedPongs' = Append(OwedPongs, m.token)
      <4> HIDE DEF a, p, q
      <4>1. QED
        BY <2>5, <3>1, <3>2
    <3>4. QED
      BY <1>1, <2>2, <3>1, <3>3 DEF Promise!Next, Promise!Ask, OwedPongs, Open
  <2>7. CASE m.type # "PING"
    <3>1. PingTokens(<<m>>) = <<>>
      BY <2>2, <2>7, PingTokensOne
    <3>2. PingTokens(inq)' = PingTokens(inq)
      <4>1. q' = q \o <<>>
        BY <2>4, <3>1
      <4> HIDE DEF q
      <4>2. q' = q
        BY <2>5, <4>1
      <4>3. QED
        BY <4>2 DEF q
    <3>3. QED
      BY <1>0, <2>2, <3>2, OwedTypes, QuietStep
  <2>8. QED
    BY <2>6, <2>7
<1>6. QED
  BY <1>2, <1>3, <1>4, <1>5 DEF Stop, Peer

LEMMA HandlerImplements ==
  ASSUME RefInv, NEW h \in Handlers, Arrive(h) \/ OnFrame(h)
  PROVE  [Promise!Next]_Promise!vars
<1> USE ThreadNames
<1>1. CASE Send(h)
  BY <1>1, SendImplements DEF Senders
<1>2. pc'["main"] = pc["main"]
  BY HandlerAlone DEF RefInv, Inv
<1>3. CASE EncodePacket(h)
  <2>1. /\ pending' = [pending EXCEPT ![h] = VideoMsg(seq, idr[h] \/ encoder = "fresh")]
        /\ UNCHANGED <<out, inq, rx>> /\ Open' = Open /\ InHandler(h)
        /\ pc[h] = "encode"
    BY <1>3 DEF EncodePacket, StartSend, channel, Open, InHandler, Encoding
  <2>2. /\ pending'[h] = VideoMsg(seq, idr[h] \/ encoder = "fresh")
        /\ \A u \in Threads \ {h} : pending'[u] = pending[u]
    BY <2>1 DEF RefInv, Inv, TypeOK, SessionOK
  <2>3. \A g \in Handlers : pending[g] = NoMsg
    <3>1. pending[h] = NoMsg
      BY <2>1 DEF RefInv, InTransit
    <3>2. QED
      BY <2>1, <3>1, OneFrameInTransit DEF RefInv, Inv
  <2>4. NextSeq = seq
    BY <2>3, NextSeqIs
  <2>5. NextSeq' = seq
    <3>1. \A g \in Handlers : pending'[g] # NoMsg <=> g = h
      BY <2>2, <2>3, MessageKinds
    <3>2. h = CHOOSE g \in Handlers : pending'[g] # NoMsg
      BY <3>1
    <3>3. NextSeq' = pending'[h].seq
      BY <3>1, <3>2 DEF NextSeq
    <3>4. QED
      BY <2>2, <3>3, MessageKinds
  <2>6. Stage' = Stage /\ OwedPongs' = OwedPongs
    <3>1. pending'["main"] = pending["main"] /\ pending'["ctl"] = pending["ctl"]
      BY <2>2
    <3>2. Stage' = Stage
      BY <1>2, <3>1, StageStays
    <3>3. OwedPongs' = OwedPongs
      BY <2>1, <3>1, OwedStays
    <3>4. QED
      BY <3>2, <3>3
  <2>7. QED
    BY <2>1, <2>4, <2>5, <2>6, HostStutters
<1>4. CASE ~EncodePacket(h) /\ ~Send(h)
  <2>1. UNCHANGED <<pending, seq, out, inq, rx>> /\ Open' = Open
    BY <1>4 DEF Arrive, OnFrame, Enter, Bail, OnFrameStopped, OnFrameRunning, InitEncoder,
                InitEncoderFails, ExchangeIdr, EncodeNothing, HandlerReturns, channel, session, Open
  <2>2. QED
    BY <1>2, <2>1, OwedTypes, QuietStep
<1>5. QED
  BY <1>1, <1>3, <1>4

\* What the iPad sees is what HostStream promises: HELLO, WELCOME, then frames
\* numbered consecutively and PONGs in the order of the PINGs, for any number
\* of frame callbacks and whatever fails (streaming_session.cpp, Run, OnFrame,
\* ControlLoop and Send).
THEOREM StreamIsAsPromised == Spec => ImplementsHostStream
<1>1. Init => Promise!Init
  <2> SUFFICES ASSUME Init PROVE Promise!Init
    OBVIOUS
  <2>1. Stage = "hello"
    <3>1. pc["main"] = "new" /\ pending["main"] = NoMsg
      BY ThreadNames DEF Init
    <3>2. QED
      BY <3>1, MessageKinds DEF Stage
  <2>2. NextSeq = 0
    BY ThreadNames DEF Init, NextSeq
  <2>3. OwedPongs = <<>>
    <3>1. PingTokens(<<>>) = <<>>
      <4>1. [i \in 1..Len(<<>>) |-> IF <<>>[i].type = "PING" THEN <<(<<>>[i]).token>> ELSE <<>>] = <<>>
        OBVIOUS
      <4>2. QED
        BY <4>1, FlattenNone DEF PingTokens
    <3>2. pending["ctl"] = NoMsg /\ rx = <<>> /\ inq = <<>>
      BY ThreadNames DEF Init
    <3>3. QED
      BY <3>1, <3>2 DEF OwedPongs, PongTokens
  <2>4. QED
    BY <2>1, <2>2, <2>3 DEF Init, Promise!Init, OwedPongs
<1>2. Init => InTransit
  BY InTransitInit
<1>3. Inv /\ InTransit /\ [Next]_vars => InTransit'
  BY InTransitStep
<1>4. Inv /\ InTransit /\ [Next]_vars => [Promise!Next]_Promise!vars
  <2>1. ASSUME RefInv, Next PROVE [Promise!Next]_Promise!vars
    BY <2>1, RunImplements, ControlImplements, OthersImplement, HandlerImplements DEF Next
  <2>2. ASSUME RefInv, UNCHANGED vars PROVE [Promise!Next]_Promise!vars
    <3>1. UNCHANGED <<pending, seq, out, inq, rx, pc>> /\ Open' = Open
      BY <2>2 DEF vars, session, channel, Open
    <3>2. QED
      BY <2>2, <3>1, OwedTypes, QuietStep
  <2>3. QED
    BY <2>1, <2>2 DEF RefInv
<1>5. QED
  BY <1>1, <1>2, <1>3, <1>4, Invariance, PTL DEF Spec, ImplementsHostStream, Promise!Spec
===============================================================================
