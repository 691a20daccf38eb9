------------------------------- MODULE Settings -------------------------------
(***************************************************************************)
(* The host's configuration (windows-host/core/src/config.cpp) and the     *)
(* rate-control plan the encoder derives from it (encode/src/              *)
(* rate_control.cpp).  A configuration file is a sequence of lines, each a *)
(* key and a value; a value is a number, or Junk, which toU64 refuses.     *)
(***************************************************************************)
EXTENDS Integers, Sequences

CONSTANTS
  Base,         \* values of a byte
  DefaultPort,  \* 2345
  DefaultTarget,\* 50000
  MinBitrate,   \* kMinBitrate
  Ceiling,      \* kUsb2VideoCeilingKbps
  DefaultFps,
  MaxFps        \* 240

Junk == -1

\* Only the codec's value is a word.
Lines == [key : {"codec"}, value : STRING] \cup [key : STRING, value : Nat \cup {Junk}]

\* Numbers of 16 bits; of 16 and of 32 bits.
Word == Base * Base
PortRange == 0..Word - 1
Narrow(v) == v % (Word * Word)

ASSUME SettingsAssumption ==
  /\ Base \in Nat /\ Base > 1
  /\ DefaultPort \in PortRange \ {0}
  /\ DefaultTarget \in Nat /\ DefaultFps \in Nat
  /\ MinBitrate \in Nat /\ Ceiling \in Nat /\ MinBitrate <= Ceiling
  /\ MaxFps \in Nat \ {0}

DefaultConfig ==
  [device_port |-> DefaultPort, use_hevc |-> TRUE, target_bitrate_kbps |-> DefaultTarget,
   max_bitrate_kbps |-> Ceiling, fps |-> DefaultFps]

Clip(v, low, high) == IF v < low THEN low ELSE IF v > high THEN high ELSE v

\* A mutant of Clamp: the target is not held under the hard cap.
ClampSeparately(c) ==
  [c EXCEPT !.device_port = IF @ = 0 THEN DefaultPort ELSE @,
            !.fps = Clip(@, 1, MaxFps),
            !.max_bitrate_kbps = Clip(@, MinBitrate, Ceiling),
            !.target_bitrate_kbps = Clip(@, MinBitrate, Ceiling)]

Clamp(c) ==
  LET max == Clip(c.max_bitrate_kbps, MinBitrate, Ceiling)
  IN  [c EXCEPT !.device_port = IF @ = 0 THEN DefaultPort ELSE @,
                !.fps = Clip(@, 1, MaxFps),
                !.max_bitrate_kbps = max,
                !.target_bitrate_kbps = Clip(@, MinBitrate, max)]

\* A port that does not fit is ignored, any other number is narrowed to 32 bits.
ParseLine(c, line) ==
  LET v == line.value
  IN  CASE line.key = "codec" -> [c EXCEPT !.use_hevc = v # "h264"]
        [] line.key = "device_port" /\ v \in PortRange -> [c EXCEPT !.device_port = v]
        [] line.key \in {"target_bitrate_kbps", "max_bitrate_kbps", "fps"} /\ v # Junk ->
             [c EXCEPT ![line.key] = Narrow(v)]
        [] OTHER -> c

ParseConfig(text) ==
  LET read[n \in 0..Len(text)] ==
        IF n = 0 THEN DefaultConfig ELSE ParseLine(read[n - 1], text[n])
  IN  Clamp(read[Len(text)])

PlanRateControl(cfg) ==
  LET Lesser(x, y) == IF x < y THEN x ELSE y
      hard_cap == Lesser(cfg.max_bitrate_kbps, Ceiling)
  IN  [average |-> Lesser(cfg.target_bitrate_kbps, hard_cap), max |-> hard_cap]
===============================================================================
