------------------------------- MODULE VideoPath -------------------------------
(***************************************************************************)
(* What becomes of a picture on its way from the virtual display to the    *)
(* glass of the iPad: the frame pool and the delivery texture of the       *)
(* capture source, the encoder's input texture, the packets, the decoder   *)
(* and the renderer.  All of them have a size, taken at different moments, *)
(* and a display mode may change between any two.                          *)
(*                                                                         *)
(* A capture callback is one step here, and so is a task of the iPad's     *)
(* main actor; StreamingSession has the threads in full.  The stream is    *)
(* HEVC.  A texture is its size and the picture it holds.                  *)
(***************************************************************************)
EXTENDS Naturals, Sequences

CONSTANTS
  Sizes,       \* sizes the virtual display may be set to
  MaxPictures, \* bound: pictures drawn on it
  MaxSessions, \* bound: sessions
  MaxWire,     \* bound: packets in socket buffers; a full one blocks SendAll
  MaxTasks,    \* bound: tasks queued on the main actor
  MaxFaults,   \* bound: faults
  NoSize, NoTexture, Dead

ASSUME VideoAssumption ==
  /\ NoSize \notin Sizes
  /\ Dead \notin Sizes \cup {NoSize}
  /\ NoTexture \notin [size : Sizes \cup {NoSize}, picture : Nat]
  /\ MaxPictures \in Nat \ {0}

VARIABLES
  screen,       \* the display's mode and what it shows
  fresh,        \* it shows something WGC has not put into the pool yet
  up,           \* a session runs: capture, tunnel and app
  session,      \* which one
  pool,         \* frames in the pool, of at most two
  poolSize,     \* size of its buffers
  delivery,     \* delivery_
  deliverySize, \* delivery_w_, delivery_h_
  input,        \* input_tex_, once the encoder is initialised
  encoded,      \* pictures the encoder has encoded
  forceIdr,     \* force_idr_
  asking,       \* the iPad's request for a keyframe is on its way
  wire,         \* packets between SendAll and receiveLoop
  tasks,        \* the main actor's queue: packets to process, pictures to show
  fmt,          \* formatDesc, which tells the size
  vt,           \* the decompression session: the size it decodes, or Dead
  ref,          \* the packet it decoded last
  pending,      \* pendingBuffer
  shown,        \* what is on the glass
  spoiled,      \* what faults have cost the session
  faults        \* faults so far

displayVars == <<screen, fresh>>
captureVars == <<pool, poolSize, delivery, deliverySize>>
encoderVars == <<input, encoded, forceIdr, asking>>
decoderVars == <<fmt, vt, ref>>
glassVars == <<pending, shown>>
faultVars == <<spoiled, faults>>
vars == <<displayVars, up, session, captureVars, encoderVars, wire, tasks, decoderVars,
          glassVars, faultVars>>

Texture(s, p) == [size |-> s, picture |-> p]
Blank(s) == Texture(s, 0)
Broken == Texture(NoSize, 0)
NoPacket == [session |-> 0, n |-> 0]

Init ==
  /\ screen \in {Texture(s, 1) : s \in Sizes} /\ fresh = TRUE
  /\ up = FALSE /\ session = 0
  /\ pool = <<>> /\ poolSize = NoSize /\ delivery = NoTexture /\ deliverySize = NoSize
  /\ input = NoTexture /\ encoded = 0 /\ forceIdr = TRUE /\ asking = FALSE
  /\ wire = <<>> /\ tasks = <<>>
  /\ fmt = NoSize /\ vt = NoSize /\ ref = NoPacket
  /\ pending = NoTexture /\ shown = NoTexture
  /\ spoiled = {} /\ faults = 0

\* D3D11 refuses to copy between resources of different sizes.
CopyResource(to, from) == IF to.size = from.size THEN from ELSE to

\* One thing a step needs fails, or none.
Outcome(failures) == {"ok"} \cup (IF faults < MaxFaults THEN failures ELSE {})
Count(outcome) == faults' = IF outcome = "ok" THEN faults ELSE faults + 1

-------------------------------------------------------------------------------
(* The display and Windows' capture of it.                                  *)

Draws(s) ==
  /\ screen.picture < MaxPictures
  /\ screen' = Texture(s, screen.picture + 1)
  /\ fresh' = TRUE
  /\ UNCHANGED <<up, session, captureVars, encoderVars, wire, tasks, decoderVars, glassVars,
                 faultVars>>

ChangePicture == Draws(screen.size)
ChangeMode == \E s \in Sizes \ {screen.size} : Draws(s)

\* A frame knows the content's size; its surface has the pool's.
PoolFrame ==
  /\ up /\ fresh /\ Len(pool) < 2
  /\ pool' = Append(pool, [size |-> screen.size, surface |-> Texture(poolSize, screen.picture)])
  /\ fresh' = FALSE
  /\ UNCHANGED <<screen, up, session, poolSize, delivery, deliverySize, encoderVars, wire, tasks,
                 decoderVars, glassVars, faultVars>>

-------------------------------------------------------------------------------
(* The host.                                                                *)

\* The handshake took turns on the iPad's main actor: what an earlier session
\* left in its queue is done.  Capture starts with the display's present size;
\* a delivery texture that cannot be made yet is made at the first frame.
StartCapture ==
  /\ ~up /\ session < MaxSessions /\ tasks = <<>>
  /\ up' = TRUE /\ session' = session + 1
  /\ \E outcome \in Outcome({"no_texture"}) :
       /\ IF outcome = "ok"
            THEN delivery' = Blank(screen.size) /\ deliverySize' = screen.size
            ELSE delivery' = NoTexture /\ deliverySize' = NoSize
       /\ Count(outcome)
  /\ pool' = <<>> /\ poolSize' = screen.size /\ fresh' = TRUE
  /\ input' = NoTexture /\ encoded' = 0 /\ forceIdr' = TRUE /\ asking' = TRUE
  /\ spoiled' = IF vt = Dead THEN {"reference"} ELSE {}
  /\ UNCHANGED <<screen, wire, tasks, decoderVars, glassVars>>

\* Run has returned: the iPad is gone, or Stop was called.  What it had not
\* received is lost.
Cut ==
  /\ up
  /\ up' = FALSE
  /\ pool' = <<>> /\ poolSize' = NoSize /\ delivery' = NoTexture /\ deliverySize' = NoSize
  /\ input' = NoTexture /\ encoded' = 0
  /\ asking' = FALSE /\ wire' = <<>>
  /\ UNCHANGED <<displayVars, session, forceIdr, tasks, decoderVars, glassVars, faultVars>>

KeyframeRequest ==
  /\ asking
  /\ asking' = FALSE /\ forceIdr' = TRUE
  /\ UNCHANGED <<displayVars, up, session, captureVars, input, encoded, wire, tasks, decoderVars,
                 glassVars, faultVars>>

\* A mutant of Encode: the input texture follows the size of the frames.
EncodeAnySize(texture, outcome) ==
  LET packet == [kind |-> "packet", session |-> session, n |-> encoded + 1,
                 key |-> forceIdr \/ encoded = 0, texture |-> texture]
  IN  /\ input' = texture
      /\ forceIdr' = FALSE
      /\ encoded' = IF outcome = "no_encode" THEN encoded ELSE encoded + 1
      /\ wire' = IF outcome \in {"no_encode", "no_lock"} THEN wire ELSE Append(wire, packet)

\* OnFrame and EncodeFrame.  The encoder gets the size of the first frame and
\* keeps it; its first picture is a keyframe; a picture that was encoded is
\* the next one's reference, whether its packet can be locked and sent or not.
Encode(texture, outcome) ==
  LET own == IF input = NoTexture THEN Blank(texture.size) ELSE input
      packet == [kind |-> "packet", session |-> session, n |-> encoded + 1,
                 key |-> forceIdr \/ encoded = 0, texture |-> CopyResource(own, texture)]
  IN  /\ input' = CopyResource(own, texture)
      /\ forceIdr' = FALSE
      /\ encoded' = IF outcome = "no_encode" THEN encoded ELSE encoded + 1
      /\ wire' = IF outcome \in {"no_encode", "no_lock"} THEN wire ELSE Append(wire, packet)

\* Without a delivery texture a callback returns early.
Deliver(texture, surface, outcome) ==
  IF texture = NoTexture
    THEN delivery' = NoTexture /\ UNCHANGED <<input, forceIdr, encoded, wire>>
    ELSE /\ delivery' = CopyResource(texture, surface)
         /\ Encode(delivery', outcome)

\* What a failure costs, until a later frame makes it good.
Spoil(outcome, good) ==
  spoiled' = (spoiled \ good) \cup
    CASE outcome = "no_pool" -> {"capture"}
      [] outcome = "no_encode" -> {"picture"}
      [] outcome = "no_lock" -> {"reference"}
      [] OTHER -> {}

\* OnFrameArrived for a frame of the size of the delivery texture, or what
\* should be its size.
OnFrameArrived ==
  /\ up /\ pool # <<>> /\ Len(wire) < MaxWire
  /\ Head(pool).size = deliverySize
  /\ \E outcome \in Outcome(IF delivery = NoTexture THEN {} ELSE {"no_encode", "no_lock"}) :
       /\ Deliver(delivery, Head(pool).surface, outcome)
       /\ Spoil(outcome, {"picture"})
       /\ Count(outcome)
  /\ pool' = Tail(pool)
  /\ UNCHANGED <<displayVars, up, session, poolSize, deliverySize, asking, tasks, decoderVars,
                 glassVars>>

\* A mutant of OnFrameResized: the pool is left as it is.
OnFrameResizedSamePool ==
  /\ up /\ pool # <<>> /\ Len(wire) < MaxWire
  /\ Head(pool).size # deliverySize
  /\ LET s == Head(pool).size
     IN  Deliver(Blank(s), Head(pool).surface, "ok") /\ deliverySize' = s
  /\ pool' = Tail(pool)
  /\ UNCHANGED <<displayVars, up, session, poolSize, asking, tasks, decoderVars, glassVars,
                 faultVars>>

\* For one of another size the texture is made anew, then the pool, which
\* loses its frames and is given the display's picture again, and the frame,
\* of the old pool, is copied.
OnFrameResized ==
  /\ up /\ pool # <<>> /\ Len(wire) < MaxWire
  /\ Head(pool).size # deliverySize
  /\ \E outcome \in Outcome({"no_texture", "no_pool", "no_encode", "no_lock"}) :
       /\ LET s == Head(pool).size
              made == IF outcome = "no_texture" THEN NoTexture ELSE Blank(s)
          IN  /\ Deliver(made, Head(pool).surface, outcome)
              /\ deliverySize' = IF outcome = "no_texture" THEN deliverySize ELSE s
              /\ IF outcome = "no_pool"
                   THEN pool' = Tail(pool) /\ UNCHANGED <<poolSize, fresh>>
                   ELSE pool' = <<>> /\ poolSize' = s /\ fresh' = TRUE
       /\ Spoil(outcome, IF outcome = "no_pool" THEN {"picture"} ELSE {"picture", "capture"})
       /\ Count(outcome)
  /\ UNCHANGED <<screen, up, session, asking, tasks, decoderVars, glassVars>>

-------------------------------------------------------------------------------
(* The iPad.                                                                *)

\* receiveLoop makes a task of each record and reads on.
Receive ==
  /\ up /\ wire # <<>> /\ Len(tasks) < MaxTasks
  /\ tasks' = Append(tasks, Head(wire))
  /\ wire' = Tail(wire)
  /\ UNCHANGED <<displayVars, up, session, captureVars, encoderVars, decoderVars, glassVars,
                 faultVars>>

\* A keyframe carries its parameter sets, which tell its size.
makeFormatDescription(p, outcome) ==
  IF p.key /\ outcome # "no_format" THEN p.texture.size ELSE fmt

\* A mutant of KeptSession: a session is kept for good.
KeptAnySession(format) == vt

\* A new format ends the session made for the old one.
KeptSession(format) == IF format # fmt THEN NoSize ELSE vt

createSession(kept, format, outcome) ==
  IF kept = NoSize /\ outcome # "no_session" THEN format ELSE kept

Decodable(p) ==
  LET format == makeFormatDescription(p, "ok")
  IN  /\ createSession(KeptSession(format), format, "ok") = p.texture.size
      /\ p.key \/ ref = [session |-> p.session, n |-> p.n - 1]

\* What comes out of the session: the picture; nothing; or, of a picture whose
\* reference it lacks or that it was not made for, something that resembles one.
Output(p, live, outcome) ==
  LET good == Decodable(p) /\ live = p.texture.size /\ outcome # "no_picture"
      results == IF good THEN {p.texture}
                 ELSE IF live \in Sizes /\ ~Decodable(p) THEN {NoTexture, Broken}
                 ELSE {NoTexture}
  IN  /\ \E t \in results :
           tasks' = IF t = NoTexture THEN Tail(tasks)
                    ELSE Append(Tail(tasks), [kind |-> "show", texture |-> t])
      /\ ref' = IF good THEN [session |-> p.session, n |-> p.n] ELSE NoPacket

\* process, for a video frame.
Decode ==
  /\ tasks # <<>> /\ Head(tasks).kind = "packet"
  /\ LET p == Head(tasks)
     IN  \E outcome \in Outcome((IF p.key THEN {"no_format"} ELSE {})
                                \cup {"no_session", "no_picture"}) :
           /\ fmt' = makeFormatDescription(p, outcome)
           /\ vt' = createSession(KeptSession(fmt'), fmt', outcome)
           /\ Output(p, vt', outcome)
           /\ spoiled' = IF outcome = "ok" THEN spoiled ELSE spoiled \cup {"reference"}
           /\ Count(outcome)
  /\ UNCHANGED <<displayVars, up, session, captureVars, encoderVars, wire, glassVars>>

setPixelBuffer ==
  /\ tasks # <<>> /\ Head(tasks).kind = "show"
  /\ pending' = Head(tasks).texture
  /\ tasks' = Tail(tasks)
  /\ UNCHANGED <<displayVars, up, session, captureVars, encoderVars, wire, decoderVars, shown,
                 faultVars>>

draw ==
  /\ pending # shown
  /\ shown' = pending
  /\ UNCHANGED <<displayVars, up, session, captureVars, encoderVars, wire, tasks, decoderVars,
                 pending, faultVars>>

\* iOS takes the hardware decoder from an app that goes to the background: the
\* session decodes nothing any more.
DecoderDies ==
  /\ vt \in Sizes /\ faults < MaxFaults
  /\ vt' = Dead
  /\ spoiled' = spoiled \cup {"reference"}
  /\ faults' = faults + 1
  /\ UNCHANGED <<displayVars, up, session, captureVars, encoderVars, wire, tasks, fmt, ref,
                 glassVars>>

Relaunch ==
  /\ ~up
  /\ tasks' = <<>>
  /\ fmt' = NoSize /\ vt' = NoSize /\ ref' = NoPacket
  /\ pending' = NoTexture /\ shown' = NoTexture
  /\ UNCHANGED <<displayVars, up, session, captureVars, encoderVars, wire, faultVars>>

-------------------------------------------------------------------------------

Host == StartCapture \/ Cut \/ KeyframeRequest \/ OnFrameArrived \/ OnFrameResized
Device == Receive \/ Decode \/ setPixelBuffer \/ draw

Next ==
  \/ ChangePicture \/ ChangeMode \/ PoolFrame
  \/ Host \/ Device
  \/ DecoderDies \/ Relaunch

\* Windows delivers what changed, a callback that is called runs, bytes
\* arrive, the main actor's queue moves and the view redraws.
Fairness ==
  /\ WF_vars(PoolFrame) /\ WF_vars(OnFrameArrived \/ OnFrameResized)
  /\ WF_vars(Receive) /\ WF_vars(Decode \/ setPixelBuffer) /\ WF_vars(draw)

Spec == Init /\ [][Next]_vars /\ Fairness

-------------------------------------------------------------------------------

Textures == [size : Sizes, picture : 0..MaxPictures] \cup {NoTexture, Broken}

\* Textures, pool and packets have the sizes they were made with.
TypeOK ==
  /\ delivery \in Textures /\ input \in Textures /\ pending \in Textures /\ shown \in Textures
  /\ delivery = NoTexture \/ delivery.size = deliverySize
  /\ Len(pool) <= 2 /\ \A i \in DOMAIN pool : pool[i].surface.size = poolSize
  /\ up => LET queued == wire \o tasks
           IN  \A i \in DOMAIN queued :
                 queued[i].kind = "packet" => /\ queued[i].session = session
                                              /\ queued[i].texture.size = input.size
  /\ fmt \in Sizes \cup {NoSize} /\ vt \in {NoSize, Dead, fmt}
  /\ spoiled \subseteq {"capture", "picture", "reference"}

\* Whatever sessions came before, of whatever size, the iPad can decode every
\* packet it is given, and nothing broken is shown, unless a fault of this
\* session took a picture that others refer to, or the decoder.
NeverBroken ==
  "reference" \notin spoiled =>
    \A i \in DOMAIN tasks :
      IF tasks[i].kind = "packet"
        THEN (\A j \in 1..(i - 1) : tasks[j].kind # "packet") => Decodable(tasks[i])
        ELSE tasks[i].texture # Broken

\* The display has the size the encoder was given, and the one failure that
\* nothing repairs, a texture that could not be made for a mode that is gone
\* again, is not there.
Fits ==
  /\ input = NoTexture \/ input.size = screen.size
  /\ delivery = NoTexture => deliverySize # screen.size

\* If a session lasts in which nothing is spoiled for good, and the display
\* comes to rest, in the mode the session began with however it changed
\* meanwhile, the glass shows at last what it shows.
CatchesUp == <>[](up /\ spoiled = {} /\ Fits) => <>[](shown = screen)

-------------------------------------------------------------------------------
(* What the documents and comments say and the code does not do.            *)

\* docs/RUNBOOK.md says that of a KEYFRAME_REQUEST "the host forces an IDR in
\* response": once it has arrived a keyframe is owed until one has been sent.
\* It does not hold: OnFrame takes the request back before EncodeFrame, whose
\* result it ignores.
Owed == ~asking /\ (forceIdr \/ encoded = 0)

RequestIsAnswered ==
  [][up /\ up' /\ Owed /\ ~Owed' =>
       \E i \in DOMAIN wire' : wire'[i].key /\ wire'[i].n = encoded']_vars

\* A KEYFRAME_REQUEST is for "recovery", a "decode_error" one of its reasons
\* (docs/PROTOCOL.md, 2.4): an iPad that could not decode what it was given,
\* and does not come by a keyframe otherwise, asks for one.  It does not hold:
\* none is ever sent but the one at startup.
LossIsReported ==
  (up /\ fmt # NoSize /\ ref = NoPacket) ~> (asking \/ ref # NoPacket \/ ~up)

\* After a pool that could not be recreated the capture promises to "keep
\* delivering at the old size" (wgc_capture.cpp): a callback hands on the
\* picture it was called with.  It does not hold: the delivery texture has the
\* new size already, and the copy is refused.
KeepsDelivering ==
  [][pool # <<>> /\ pool' = Tail(pool) /\ delivery' # NoTexture
     /\ spoiled = {"capture"} /\ spoiled' = {"capture"}
       => delivery'.picture = Head(pool).surface.picture]_vars

\* "The iPad shows your Windows second display live" (docs/RUNBOOK.md), without
\* a fault that would excuse it and also in a mode it was changed to.  It does
\* not hold: the encoder keeps the size of the session's first frame.
ShowsTheDisplay == <>[](up /\ faults = 0) => <>[](shown = screen)
===============================================================================
