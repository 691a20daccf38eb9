-------------------------------- MODULE Worker --------------------------------
(***************************************************************************)
(* The connection the tray application's worker makes (tray_app.cpp        *)
(* 103-130): the usbmux client's loop to a tunnel, then what the two ends  *)
(* tell each other about the session over it.  The greeting is built from  *)
(* the configuration and the display's mode; a message is encoded by one   *)
(* side's code and decoded by the other's.  The order of messages is       *)
(* HostStream's subject: here one is on its way at a time.                 *)
(***************************************************************************)
EXTENDS UsbmuxClient

CONSTANTS
  Modes,     \* modes the virtual display may have
  Versions,  \* protocol versions an iPad's app may speak
  Samples    \* other messages, some of which today's builds never send

\* A message has its type's fields, each a number of the field's width, and only
\* a reason or a bitstream follows them.
IsMessage(m) ==
  LET fields == HostFields(m.type)
  IN  /\ m = [type |-> m.type, fields |-> m.fields, rest |-> m.rest]
      /\ m.type \in ControlTypes \cup {"VIDEO_FRAME"}
      /\ m.fields \in [Names(fields) -> Nat]
      /\ \A i \in DOMAIN fields : m.fields[fields[i][1]] < Place[fields[i][2]]
      /\ m.rest \in Seq(0..Base-1)
      /\ m.type \in Reasons \cup {"VIDEO_FRAME"} \/ m.rest = <<>>

ASSUME WorkerAssumption ==
  /\ Base > 3 /\ MaxFps < Word /\ Ceiling < Word * Word
  /\ Version \in 0..Word-1 /\ Versions \subseteq 0..Word-1
  /\ Modes \subseteq [width : 0..Word-1, height : 0..Word-1]
  /\ \A m \in Samples : IsMessage(m) /\ m.type \notin {"HELLO", "WELCOME"}

VARIABLES
  mode,    \* the mode applied when the virtual display was added
  version, \* what the app at the other end of the tunnel speaks
  wire,    \* the message on its way: what was meant, and its frame
  shown,   \* what the iPad was told of the session
  encoder  \* what the session's encoder was initialised with

sessionVars == <<mode, version, wire, shown, encoder>>
vars == <<muxVars, sessionVars>>

NoWire == [to |-> "nobody"]
NothingShown == [width |-> 0]
NoEncoder == [width |-> 0]

Init ==
  /\ MuxInit
  /\ mode \in Modes
  /\ version \in Versions
  /\ wire = NoWire /\ shown = NothingShown /\ encoder = NoEncoder

\* StreamLoop's encoder configuration, built once for all sessions.
EncoderConfig ==
  [width |-> mode.width, height |-> mode.height, fps |-> config.fps,
   target_bitrate_kbps |-> config.target_bitrate_kbps,
   max_bitrate_kbps |-> config.max_bitrate_kbps]

Message(type, fields, rest) == [type |-> type, fields |-> fields, rest |-> rest]

HostHello(ec) ==
  Message("HELLO",
    [protocol_version |-> Version, codec_mask |-> 3, max_width |-> ec.width,
     max_height |-> ec.height, max_bitrate_kbps |-> ec.max_bitrate_kbps, max_fps |-> ec.fps,
     feature_flags |-> 0], <<>>)

HostWelcome(ec) ==
  Message("WELCOME",
    [protocol_version |-> Version, codec_id |-> IF config.use_hevc THEN 1 ELSE 2,
     width |-> ec.width, height |-> ec.height, bitrate_kbps |-> ec.target_bitrate_kbps,
     fps |-> ec.fps, session_flags |-> 0], <<>>)

DeviceHello ==
  Message("HELLO",
    [protocol_version |-> version, codec_mask |-> 3, max_width |-> 12, max_height |-> 8,
     max_bitrate_kbps |-> Ceiling, max_fps |-> MaxFps, feature_flags |-> 0], <<>>)

Write(to, m, frame) == wire' = [to |-> to, message |-> m, frame |-> frame]

\* The handshake, whatever of it the app writes, is over and the app is there.
Linked == pc = "tunnel" /\ req.type = "tunnel" /\ taken = MaxSent

HostWrites ==
  /\ Linked /\ wire = NoWire
  /\ \E m \in {HostHello(EncoderConfig), HostWelcome(EncoderConfig)} \cup Samples :
       Write("device", m, HostEncode(m))
  /\ UNCHANGED <<muxVars, mode, version, shown, encoder>>

DeviceWrites ==
  /\ Linked /\ wire = NoWire
  /\ \E m \in {DeviceHello} \cup Samples : Write("host", m, DeviceEncode(m))
  /\ UNCHANGED <<muxVars, mode, version, shown, encoder>>

Accepted(m) == m.type \in (ControlTypes \ {"DISCONNECT"}) \cup {"VIDEO_FRAME"}

\* VideoSession.process shows what was negotiated.
DeviceReads ==
  /\ Linked /\ wire.to = "device"
  /\ LET m == DeviceDecode(wire.frame)
     IN  /\ Accepted(m)
         /\ shown' = IF m.type = "WELCOME" THEN m.fields ELSE shown
  /\ wire' = NoWire
  /\ UNCHANGED <<muxVars, mode, version, encoder>>

\* OnFrame initialises the encoder with the size of the first frame, that of
\* the mode the display has by now.
FirstFrame ==
  /\ Linked /\ encoder = NoEncoder
  /\ \E size \in Modes :
       encoder' = [EncoderConfig EXCEPT !.width = size.width, !.height = size.height]
  /\ UNCHANGED <<muxVars, mode, version, wire, shown>>

\* A failure, like a DISCONNECT, cancels the connection.
DeviceRejects ==
  /\ Linked /\ wire.to = "device"
  /\ ~Accepted(DeviceDecode(wire.frame))
  /\ req' = [type |-> "hangup"]
  /\ wire' = NoWire
  /\ UNCHANGED <<clientVars, inbox, told, linked, sent, worldVars, faults, mode, version, shown,
                 encoder>>

\* The tunnel and what is on it end together.
SessionEnds ==
  /\ TunnelClose
  /\ wire' = NoWire /\ shown' = NothingShown /\ encoder' = NoEncoder
  /\ version' \in Versions
  /\ UNCHANGED mode

\* ControlLoop skips what it cannot decode, such as another version's HELLO.
HostReads ==
  /\ pc = "tunnel" /\ wire.to = "host"
  /\ HostDecode(wire.frame).type # "DISCONNECT"
  /\ wire' = NoWire
  /\ UNCHANGED <<muxVars, mode, version, shown, encoder>>

HostDisconnects ==
  /\ wire.to = "host"
  /\ HostDecode(wire.frame).type = "DISCONNECT"
  /\ SessionEnds

Session ==
  \/ HostWrites \/ FirstFrame \/ DeviceWrites \/ DeviceReads \/ DeviceRejects
  \/ HostReads \/ HostDisconnects

Next ==
  \/ Session \/ SessionEnds
  \/ (Client \/ Service \/ World) /\ UNCHANGED sessionVars

\* A thread that can go on does; the service answers within the timeouts, but
\* for the faults.
Fairness == WF_vars(Client /\ UNCHANGED sessionVars)
            /\ WF_vars(Service /\ UNCHANGED sessionVars)

Spec == Init /\ [][Next]_vars /\ Fairness

-------------------------------------------------------------------------------

\* The client has a socket open exactly while it uses one.
TypeOK ==
  /\ pc \in {"idle", "listen", "found", "connect", "tunnel", "pause"}
  /\ sockets = IF pc \in {"listen", "connect", "tunnel"} THEN 1 ELSE 0
  /\ skipped \in 0..MaxPackets
  /\ dev \in Devices \cup {NoDevice}
  /\ told \subseteq Devices /\ attached \subseteq Devices
  /\ app \in [Devices -> ListenPorts \cup {0}]
  /\ config.device_port \in PortRange \ {0}
  /\ wire.to \in {"nobody", "host", "device"}

\* The tunnel leads to the app on the configured port of the device that was
\* found, and holds that app's bytes from the first on: the client read the
\* service's answer to its end, and not a byte further.
CleanTunnel ==
  pc = "tunnel" => /\ linked = [device |-> dev, port |-> config.device_port]
                   /\ inbox = [i \in 1..(sent - taken) |-> [byte |-> taken + i]]

\* If in the end one device stays attached, with its app listening on the
\* configured port, and the service runs, the worker gets a tunnel again and
\* again, whatever it met before.
Reaches ==
  \A d \in Devices :
    <>[](service /\ attached = {d} /\ app[d] = config.device_port) => []<>(pc = "tunnel")

\* A message with its text cut to fit, and the length that says so.
Meant(m) == [m EXCEPT !.fields = Numbers(m), !.rest = Text(m)]

Damaged(f) ==
  {[f EXCEPT !.flags = 1], [f EXCEPT !.type = "unknown"], [f EXCEPT !.channel = "video"],
   [f EXCEPT !.payload = Append(@, 1)], [f EXCEPT !.payload = SubSeq(@, 1, Len(@) - 1)],
   [f EXCEPT !.payload = SubSeq(@, 1, 2)]}

\* A message is read as it was written, and what is not one fails in the same
\* way on both sides.
ReadAsWritten ==
  wire # NoWire =>
    LET m == wire.message
    IN  /\ DeviceDecode(wire.frame) =
             IF m.type \in Announces /\ m.fields.protocol_version # Version
               THEN Err("UnsupportedVersion") ELSE Meant(m)
        /\ \A f \in {wire.frame} \cup Damaged(wire.frame) : HostDecode(f) = DeviceDecode(f)

\* The rates that the iPad shows as negotiated are those the encoder was set up
\* with, within the limits of the configuration.
RatesAreEncoded ==
  shown # NothingShown /\ encoder # NoEncoder =>
    LET plan == PlanRateControl(encoder)
    IN  /\ shown.fps = encoder.fps /\ shown.fps \in 1..MaxFps
        /\ shown.bitrate_kbps = plan.average
        /\ plan.average >= MinBitrate /\ plan.max <= Ceiling

\* The two ends understand each other: every message, whole or damaged, means
\* the same to both, and the rates the iPad shows are those of the host's encoder.
Understood == ReadAsWritten /\ RatesAreEncoded

\* What docs/PROTOCOL.md says of WELCOME, "negotiated session format": the size
\* the iPad shows is that of the pictures that the encoder makes.  It does not
\* hold: the greeting's size is the one the display was added with.
SizeIsEncoded ==
  shown # NothingShown /\ encoder # NoEncoder =>
    shown.width = encoder.width /\ shown.height = encoder.height
===============================================================================
