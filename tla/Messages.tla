------------------------------- MODULE Messages -------------------------------
(***************************************************************************)
(* The bodies of the wire messages as the host writes and reads them       *)
(* (windows-host/transport/protocol/src/wire.cpp) and as the iPad does     *)
(* (ios-client/Transport/WireProtocol.swift): fixed fields, little endian, *)
(* then a reason with its length, or a bitstream.  Fields have the host's  *)
(* names on both sides.  How frames are cut out of the byte stream is      *)
(* FrameParser's subject.                                                  *)
(***************************************************************************)
EXTENDS Settings, SequencesExt

CONSTANT Version  \* kProtocolVersion

\* What a byte counts for in a number of at most 8.
Place[i \in 0..8] == IF i = 0 THEN 1 ELSE Base * Place[i - 1]

\* A number as n bytes, least significant first, cut to their width.
LittleEndian(v, n) == [i \in 1..n |-> (v \div Place[i - 1]) % Base]

\* The number that n bytes make behind the first k.
Number(bytes, k, n) ==
  LET sum[i \in 0..n] == IF i = 0 THEN 0 ELSE sum[i - 1] + bytes[k + i] * Place[i - 1]
  IN  sum[n]

\* ByteWriter and ByteReader over a list of fields <<name, bytes>>: where each
\* field ends, their bytes, and what the bytes say.
Position(fields) ==
  LET at[i \in 0..Len(fields)] == IF i = 0 THEN 0 ELSE at[i - 1] + fields[i][2]
  IN  at

Sizes(fields) == Position(fields)[Len(fields)]

Put(fields, m) ==
  FlattenSeq([i \in DOMAIN fields |-> LittleEndian(m[fields[i][1]], fields[i][2])])

Names(fields) == {fields[i][1] : i \in DOMAIN fields}

Get(fields, bytes) ==
  LET place(name) == CHOOSE i \in DOMAIN fields : fields[i][1] = name
  IN  [name \in Names(fields) |->
         Number(bytes, Position(fields)[place(name) - 1], fields[place(name)][2])]

Drop(bytes, n) == SubSeq(bytes, n + 1, Len(bytes))

Frame(channel, type, payload) ==
  [channel |-> channel, type |-> type, flags |-> 0, payload |-> payload]

Ok(type, fields, rest) == [type |-> type, fields |-> fields, rest |-> rest]
Err(e) == [type |-> e, fields |-> <<>>, rest |-> <<>>]

-------------------------------------------------------------------------------
(* The host.                                                                *)

put_hello ==
  <<<<"protocol_version", 2>>, <<"codec_mask", 1>>, <<"max_width", 2>>, <<"max_height", 2>>,
    <<"max_bitrate_kbps", 4>>, <<"max_fps", 2>>, <<"feature_flags", 1>>>>

put_welcome_body ==
  <<<<"protocol_version", 2>>, <<"codec_id", 1>>, <<"width", 2>>, <<"height", 2>>,
    <<"bitrate_kbps", 4>>, <<"fps", 2>>, <<"session_flags", 1>>>>

put_reason == <<<<"code", 2>>, <<"reason_len", 2>>>>

put_video ==
  <<<<"codec_id", 1>>, <<"frame_type", 1>>, <<"vflags", 1>>, <<"pts_us", 8>>, <<"seq", 4>>>>

put_keyframe_request == <<<<"reason", 1>>, <<"last_good_seq", 4>>>>

HostFields(type) ==
  CASE type = "HELLO" -> put_hello
    [] type \in {"WELCOME", "FORMAT_CHANGE"} -> put_welcome_body
    [] type \in {"ERROR", "DISCONNECT"} -> put_reason
    [] type = "KEYFRAME_REQUEST" -> put_keyframe_request
    [] type \in {"PING", "PONG"} -> <<<<"token", 8>>>>
    [] type = "VIDEO_FRAME" -> put_video

Announces == {"HELLO", "WELCOME", "FORMAT_CHANGE"}
Reasons == {"ERROR", "DISCONNECT"}
ControlTypes == Announces \cup Reasons \cup {"KEYFRAME_REQUEST", "PING", "PONG"}

\* A message is its type, its numbers, and its reason or bitstream; a reason is
\* cut to what its length field can say.
Text(m) == IF m.type \in Reasons /\ Len(m.rest) >= Word THEN SubSeq(m.rest, 1, Word - 1)
           ELSE m.rest

Numbers(m) == IF m.type \in Reasons THEN [m.fields EXCEPT !.reason_len = Len(Text(m))]
              ELSE m.fields

HostEncode(m) ==
  Frame(IF m.type = "VIDEO_FRAME" THEN "video" ELSE "control", m.type,
        Put(HostFields(m.type), Numbers(m)) \o Text(m))

HostDecode(frame) ==
  LET fields == HostFields(frame.type)
      short == Len(frame.payload) < Sizes(fields)
      m == Get(fields, frame.payload)
      rest == Drop(frame.payload, Sizes(fields))
      known == IF frame.channel = "control" THEN ControlTypes ELSE {"VIDEO_FRAME"}
  IN  IF frame.flags # 0 THEN Err("ReservedFlagsSet")
      ELSE IF frame.channel \notin {"control", "video"} THEN Err("UnknownChannel")
      ELSE IF frame.type \notin known THEN Err("UnknownType")
      ELSE IF short THEN Err("ShortBuffer")
      ELSE IF frame.type \in Announces /\ m.protocol_version # Version
             THEN Err("UnsupportedVersion")
      ELSE IF frame.type \in Reasons /\ Len(rest) # m.reason_len THEN Err("BadField")
      ELSE IF frame.type \notin Reasons \cup {"VIDEO_FRAME"} /\ rest # <<>>
             THEN Err("TrailingBytes")
      ELSE Ok(frame.type, m, rest)

-------------------------------------------------------------------------------
(* The iPad.                                                                *)

\* A mutant of putWelcome: width and height in the other order.
putWelcomeSwapped ==
  <<<<"protocol_version", 2>>, <<"codec_id", 1>>, <<"height", 2>>, <<"width", 2>>,
    <<"bitrate_kbps", 4>>, <<"fps", 2>>, <<"session_flags", 1>>>>

putWelcome ==
  <<<<"protocol_version", 2>>, <<"codec_id", 1>>, <<"width", 2>>, <<"height", 2>>,
    <<"bitrate_kbps", 4>>, <<"fps", 2>>, <<"session_flags", 1>>>>

DeviceFields(type) ==
  CASE type = "HELLO" ->
         <<<<"protocol_version", 2>>, <<"codec_mask", 1>>, <<"max_width", 2>>,
           <<"max_height", 2>>, <<"max_bitrate_kbps", 4>>, <<"max_fps", 2>>,
           <<"feature_flags", 1>>>>
    [] type \in {"WELCOME", "FORMAT_CHANGE"} -> putWelcome
    [] type \in {"ERROR", "DISCONNECT"} -> <<<<"code", 2>>, <<"reason_len", 2>>>>
    [] type = "KEYFRAME_REQUEST" -> <<<<"reason", 1>>, <<"last_good_seq", 4>>>>
    [] type \in {"PING", "PONG"} -> <<<<"token", 8>>>>
    [] type = "VIDEO_FRAME" ->
         <<<<"codec_id", 1>>, <<"frame_type", 1>>, <<"vflags", 1>>, <<"pts_us", 8>>,
           <<"seq", 4>>>>

DeviceEncode(m) ==
  Frame(IF m.type = "VIDEO_FRAME" THEN "video" ELSE "control", m.type,
        Put(DeviceFields(m.type), Numbers(m)) \o Text(m))

readWelcome(type, payload) ==
  LET m == Get(putWelcome, payload)
  IN  IF Len(payload) < Sizes(putWelcome) THEN Err("ShortBuffer")
      ELSE IF m.protocol_version # Version THEN Err("UnsupportedVersion")
      ELSE IF Len(payload) > Sizes(putWelcome) THEN Err("TrailingBytes")
      ELSE Ok(type, m, <<>>)

\* The parser lets no other channel through than control and video.
DeviceDecode(frame) ==
  LET fields == DeviceFields(frame.type)
      m == Get(fields, frame.payload)
      rest == Drop(frame.payload, Sizes(fields))
      short == Len(frame.payload) < Sizes(fields)
      finish == IF rest # <<>> THEN Err("TrailingBytes") ELSE Ok(frame.type, m, <<>>)
      control ==
        IF frame.type \in {"WELCOME", "FORMAT_CHANGE"}
          THEN readWelcome(frame.type, frame.payload)
        ELSE IF frame.type \notin ControlTypes THEN Err("UnknownType")
        ELSE IF short THEN Err("ShortBuffer")
        ELSE IF frame.type = "HELLO" /\ m.protocol_version # Version
               THEN Err("UnsupportedVersion")
        ELSE IF frame.type \in Reasons
               THEN IF Len(rest) # m.reason_len THEN Err("BadField") ELSE Ok(frame.type, m, rest)
        ELSE finish
      video ==
        IF frame.type # "VIDEO_FRAME" THEN Err("UnknownType")
        ELSE IF short THEN Err("ShortBuffer")
        ELSE Ok(frame.type, m, rest)
  IN  IF frame.flags # 0 THEN Err("ReservedFlagsSet")
      ELSE IF frame.channel = "control" THEN control ELSE video
===============================================================================
