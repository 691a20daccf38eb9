----------------------------- MODULE WorkerProofs -----------------------------
(***************************************************************************)
(* Theorems about Worker, for any devices, ports, configuration files,     *)
(* modes, versions and messages.                                           *)
(***************************************************************************)
EXTENDS Worker, SequenceLemmas, TLAPS

-------------------------------------------------------------------------------
(* Ports.                                                                   *)

\* A port's two bytes swapped, and swapped again.
LEMMA SwapBytes ==
  ASSUME NEW B \in Nat, B > 1, NEW p \in 0..(B * B)-1
  PROVE  LET s(q) == ((q * B) % (B * B)) + (q \div B)
         IN  s(p) \in 0..(B * B)-1 /\ s(s(p)) = p
<1> DEFINE W == B * B
           s(q) == ((q * B) % W) + (q \div B)
<1>1. PICK h \in Nat, l \in Nat : l < B /\ h < B /\ p = h * B + l
  <2> DEFINE h == p \div B
             l == p % B
  <2>1. p \in Nat /\ p < B * B
    OBVIOUS
  <2>2. h \in Nat /\ l \in Nat /\ l < B /\ p = h * B + l
    BY <2>1
  <2> HIDE DEF h, l
  <2>3. h < B
    <3>1. h >= B => h * B >= B * B
      BY <2>2
    <3>2. QED
      BY <2>1, <2>2, <3>1
  <2>4. QED
    BY <2>2, <2>3
<1>2. ASSUME NEW x \in Nat, NEW y \in Nat, x < B, y < B
      PROVE  s(x * B + y) = y * B + x
  <2> DEFINE q == x * B + y
  <2>1. q \div B = x
    BY <1>2
  <2>2. (q * B) % W = y * B
    <3>1. q * B = x * W + y * B
      BY <1>2
    <3>2. y * B \in 0..W-1
      <4>1. (B - 1) * B = W - B /\ y * B <= (B - 1) * B /\ y * B \in Nat
        BY <1>2
      <4>2. W \in Nat
        OBVIOUS
      <4>3. QED
        BY <4>1, <4>2
    <3>3. W \in Nat \ {0} /\ y * B \in Nat
      BY <3>2
    <3> DEFINE z == y * B
    <3> HIDE DEF W, z, q
    <3>4. (x * W + z) % W = z
      BY <1>2, <3>2, <3>3 DEF z
    <3>5. QED
      BY <3>1, <3>4 DEF z
  <2>3. QED
    BY <2>1, <2>2
<1>3. s(p) = l * B + h
  BY <1>1, <1>2
<1>4. s(s(p)) = p
  BY <1>1, <1>2, <1>3
<1>5. l * B + h \in 0..W-1
  <2>1. (B - 1) * B = W - B /\ l * B <= (B - 1) * B /\ l * B \in Nat
    BY <1>1
  <2>2. W \in Nat
    OBVIOUS
  <2>3. QED
    BY <1>1, <2>1, <2>2
<1>6. QED
  BY <1>3, <1>4, <1>5

LEMMA PortSurvives ==
  ASSUME NEW p \in PortRange
  PROVE  ntohs(EncodePortBigEndian(p)) = p
<1>1. Base \in Nat /\ Base > 1 /\ p \in 0..(Base * Base)-1
  BY SettingsAssumption DEF PortRange, Word
<1>2. QED
  BY <1>1, SwapBytes DEF ntohs, EncodePortBigEndian, Word

-------------------------------------------------------------------------------
(* The configuration.                                                       *)

Parsed == [device_port : PortRange, use_hevc : BOOLEAN, target_bitrate_kbps : Nat,
           max_bitrate_kbps : Nat, fps : Nat]

Configs == [device_port : PortRange \ {0}, use_hevc : BOOLEAN,
            target_bitrate_kbps : MinBitrate..Ceiling, max_bitrate_kbps : MinBitrate..Ceiling,
            fps : 1..MaxFps]

LEMMA WordFacts == Word \in Nat \ {0} /\ Word * Word \in Nat \ {0} /\ PortRange \subseteq Nat
<1>1. Base \in Nat \ {0}
  BY SettingsAssumption
<1>2. Base * Base \in Nat \ {0}
  BY <1>1
<1>3. Word \in Nat \ {0}
  BY <1>2 DEF Word
<1>4. QED
  BY <1>3 DEF PortRange

LEMMA ParsedLine ==
  ASSUME NEW c \in Parsed, NEW line \in Lines
  PROVE  ParseLine(c, line) \in Parsed
<1> DEFINE v == line.value
           Numbered == line.key \in {"target_bitrate_kbps", "max_bitrate_kbps", "fps"} /\ v # Junk
<1>1. CASE line.key = "codec"
  <2>1. ParseLine(c, line) = [c EXCEPT !.use_hevc = v # "h264"]
    BY <1>1 DEF ParseLine
  <2>2. (v # "h264") \in BOOLEAN
    OBVIOUS
  <2>3. QED
    BY <2>1, <2>2 DEF Parsed
<1>2. CASE line.key = "device_port" /\ v \in PortRange
  <2>1. ParseLine(c, line) = [c EXCEPT !.device_port = v]
    BY <1>2 DEF ParseLine
  <2>2. QED
    BY <1>2, <2>1 DEF Parsed
<1>3. CASE Numbered
  <2>1. ParseLine(c, line) = [c EXCEPT ![line.key] = Narrow(v)]
    BY <1>3 DEF ParseLine
  <2>2. v \in Nat
    BY <1>3 DEF Lines
  <2>3. Narrow(v) \in Nat
    BY <2>2, WordFacts DEF Narrow
  <2>4. QED
    BY <1>3, <2>1, <2>3 DEF Parsed
<1>4. CASE ~(line.key = "codec") /\ ~(line.key = "device_port" /\ v \in PortRange) /\ ~Numbered
  <2>1. ParseLine(c, line) = c
    BY <1>4 DEF ParseLine
  <2>2. QED
    BY <2>1
<1>5. QED
  BY <1>1, <1>2, <1>3, <1>4

LEMMA ParsedText ==
  ASSUME NEW t \in Seq(Lines)
  PROVE  \E c \in Parsed : ParseConfig(t) = Clamp(c)
<1> DEFINE n == Len(t)
           D == [q \in Parsed \X Nat |-> IF q[2] \in 1..n THEN ParseLine(q[1], t[q[2]]) ELSE q[1]]
           Eq(f) == f = [i \in 0..n |-> IF i = 0 THEN DefaultConfig ELSE ParseLine(f[i - 1], t[i])]
<1>1. n \in Nat
  OBVIOUS
<1>2. DefaultConfig \in Parsed
  BY SettingsAssumption DEF DefaultConfig, Parsed
<1>3. D \in Steps(Parsed)
  <2>1. ASSUME NEW q \in Parsed \X Nat
        PROVE  (IF q[2] \in 1..n THEN ParseLine(q[1], t[q[2]]) ELSE q[1]) \in Parsed
    <3>1. q[1] \in Parsed
      OBVIOUS
    <3>2. CASE q[2] \in 1..n
      <4>1. t[q[2]] \in Lines
        BY <3>2
      <4>2. QED
        BY <3>1, <3>2, <4>1, ParsedLine
    <3>3. QED
      BY <3>1, <3>2
  <2>2. QED
    BY <2>1 DEF Steps
<1>4. PICK g : IsRecursion(g, Parsed, DefaultConfig, D, n)
  <2> HIDE DEF D, n
  <2>1. QED
    BY <1>1, <1>2, <1>3, RecursionExists
<1>5. /\ g \in [0..n -> Parsed] /\ g[0] = DefaultConfig
      /\ \A i \in 1..n : g[i] = ParseLine(g[i - 1], t[i])
  <2>1. g \in [0..n -> Parsed] /\ g[0] = DefaultConfig /\ \A i \in 1..n : g[i] = D[<<g[i - 1], i>>]
    BY <1>4 DEF IsRecursion
  <2>2. ASSUME NEW i \in 1..n PROVE g[i] = ParseLine(g[i - 1], t[i])
    <3>1. <<g[i - 1], i>> \in Parsed \X Nat
      <4>1. i - 1 \in 0..n /\ i \in Nat
        BY <1>1
      <4>2. QED
        BY <2>1, <4>1
    <3>2. QED
      BY <2>1, <3>1
  <2>3. QED
    BY <2>1, <2>2
<1>6. Eq(g)
  <2>1. \A i \in 0..n : g[i] = IF i = 0 THEN DefaultConfig ELSE ParseLine(g[i - 1], t[i])
    BY <1>1, <1>5
  <2> HIDE DEF n
  <2>2. QED
    BY <1>5, <2>1
<1> DEFINE read == CHOOSE f : Eq(f)
<1>7. Eq(read)
  <2> HIDE DEF Eq
  <2>1. QED
    BY <1>6
<1>8. ParseConfig(t) = Clamp(read[n])
  BY DEF ParseConfig
<1> HIDE DEF read
<1> DEFINE T == {i \in Nat : read[i] \in Parsed}
<1>9. \A i \in 0..n : i \in T
  <2>1. 0 \in T
    BY <1>1, <1>2, <1>7
  <2>2. ASSUME NEW i \in 0..n-1, i \in T PROVE i + 1 \in T
    <3>1. i + 1 \in 0..n /\ i + 1 # 0 /\ i + 1 \in Nat /\ (i + 1) - 1 = i /\ i + 1 \in 1..n
      BY <1>1
    <3>2. read[i + 1] = ParseLine(read[i], t[i + 1])
      BY <1>7, <3>1
    <3>3. t[i + 1] \in Lines /\ read[i] \in Parsed
      BY <2>2, <3>1
    <3>4. QED
      BY <3>1, <3>2, <3>3, ParsedLine
  <2> HIDE DEF T, n
  <2>3. QED
    BY <1>1, <2>1, <2>2, SetInduction
<1>10. n \in T
  <2> HIDE DEF T, n
  <2>1. QED
    BY <1>1, <1>9
<1>11. QED
  BY <1>8, <1>10

LEMMA ClampedRange ==
  ASSUME NEW v \in Nat, NEW low \in Nat, NEW high \in Nat, low <= high
  PROVE  Clip(v, low, high) \in low..high
BY DEF Clip

LEMMA Clamped ==
  ASSUME NEW c \in Parsed
  PROVE  Clamp(c) \in Configs /\ Clamp(c).target_bitrate_kbps <= Clamp(c).max_bitrate_kbps
<1> DEFINE max == Clip(c.max_bitrate_kbps, MinBitrate, Ceiling)
           target == Clip(c.target_bitrate_kbps, MinBitrate, max)
           port == IF c.device_port = 0 THEN DefaultPort ELSE c.device_port
           fps == Clip(c.fps, 1, MaxFps)
           d == [device_port |-> port, use_hevc |-> c.use_hevc, target_bitrate_kbps |-> target,
                 max_bitrate_kbps |-> max, fps |-> fps]
<1>1. max \in MinBitrate..Ceiling
  BY SettingsAssumption, ClampedRange DEF Parsed
<1>2. target \in MinBitrate..max
  <2>1. max \in Nat /\ MinBitrate <= max /\ MinBitrate \in Nat /\ c.target_bitrate_kbps \in Nat
    BY <1>1, SettingsAssumption DEF Parsed
  <2> HIDE DEF max
  <2>2. QED
    BY <2>1, ClampedRange
<1>3. fps \in 1..MaxFps
  <2>1. 1 \in Nat /\ MaxFps \in Nat /\ 1 <= MaxFps /\ c.fps \in Nat
    BY SettingsAssumption DEF Parsed
  <2>2. QED
    BY <2>1, ClampedRange
<1>4. port \in PortRange \ {0}
  BY SettingsAssumption DEF Parsed
<1>5. Clamp(c) = d
  <2> DEFINE e == [c EXCEPT !.device_port = port, !.fps = fps, !.max_bitrate_kbps = max,
                            !.target_bitrate_kbps = target]
  <2>1. Clamp(c) = e
    BY DEF Clamp
  <2> HIDE DEF port, fps, max, target
  <2>2. DOMAIN c = {"device_port", "use_hevc", "target_bitrate_kbps", "max_bitrate_kbps", "fps"}
    BY DEF Parsed
  <2>3. c = [x \in DOMAIN c |-> c[x]]
    BY DEF Parsed
  <2>4. e = [x \in DOMAIN c |-> d[x]]
    <3>1. DOMAIN e = DOMAIN c /\ e = [x \in DOMAIN e |-> e[x]]
      OBVIOUS
    <3>2. \A x \in DOMAIN c : e[x] = d[x]
      <4>1. /\ e["device_port"] = port /\ e["use_hevc"] = c.use_hevc
            /\ e["target_bitrate_kbps"] = target /\ e["max_bitrate_kbps"] = max
            /\ e["fps"] = fps
        BY <2>2
      <4>2. /\ d["device_port"] = port /\ d["use_hevc"] = c.use_hevc
            /\ d["target_bitrate_kbps"] = target /\ d["max_bitrate_kbps"] = max
            /\ d["fps"] = fps
        OBVIOUS
      <4> HIDE DEF d, e
      <4>3. QED
        BY <2>2, <4>1, <4>2
    <3>3. QED
      BY <3>1, <3>2
  <2>5. d = [x \in DOMAIN c |-> d[x]]
    BY <2>2
  <2>6. e = d
    BY <2>4, <2>5
  <2>7. QED
    BY <2>1, <2>6
<1>6. d \in Configs
  <2>1. target \in MinBitrate..Ceiling
    BY <1>1, <1>2, SettingsAssumption
  <2>2. c.use_hevc \in BOOLEAN
    BY DEF Parsed
  <2> HIDE DEF port, fps, max, target
  <2>3. QED
    BY <1>1, <1>3, <1>4, <2>1, <2>2 DEF Configs
<1>7. d.target_bitrate_kbps <= d.max_bitrate_kbps
  BY <1>2
<1>8. QED
  BY <1>5, <1>6, <1>7

\* What is read from any file is within its limits.
LEMMA ConfigFacts ==
  ASSUME NEW t \in Texts
  PROVE  /\ ParseConfig(t) \in Configs
         /\ ParseConfig(t).target_bitrate_kbps <= ParseConfig(t).max_bitrate_kbps
<1>1. t \in Seq(Lines)
  BY UsbmuxAssumption
<1>2. QED
  BY <1>1, ParsedText, Clamped

-------------------------------------------------------------------------------
(* Packets.                                                                 *)

Words == {"MessageType", "Number", "DeviceID", "Properties", "Result", "Attached", "Detached",
          "string", "integer", "dict", ""}
Entries == [key : Words, tag : Words, text : Nat \cup Words]
Chunks == [length : Nat] \cup [tag : Nat] \cup Entries \cup [byte : Nat]

LEMMA ChunkKinds ==
  /\ \A n \in Nat : [length |-> n] \in Chunks /\ [tag |-> n] \in Chunks /\ [byte |-> n] \in Chunks
  /\ \A e \in Entries : e \in Chunks
BY DEF Chunks

LEMMA PacketFacts ==
  ASSUME NEW tag \in Nat, NEW p \in Seq(Entries)
  PROVE  /\ EncodePacket(tag, p) \in Seq(Chunks)
         /\ Len(EncodePacket(tag, p)) = HeaderSize + Len(p)
         /\ EncodePacket(tag, p)[1] = [length |-> HeaderSize + Len(p)]
         /\ Drop(EncodePacket(tag, p), HeaderSize) = p
<1> DEFINE h == [length |-> HeaderSize + Len(p)]
           g == [tag |-> tag]
           e == <<h, g>> \o p
<1>1. Len(p) \in Nat /\ HeaderSize = 2
  BY DEF HeaderSize
<1>2. h \in Chunks /\ g \in Chunks
  <2>1. PICK n \in Nat : n = HeaderSize + Len(p)
    BY <1>1
  <2>2. QED
    BY <2>1, ChunkKinds
<1>3. p \in Seq(Chunks)
  <2>1. \A i \in 1..Len(p) : p[i] \in Chunks
    BY ChunkKinds
  <2>2. QED
    BY <1>1, <2>1
<1>4. e = EncodePacket(tag, p)
  BY DEF EncodePacket
<1> HIDE DEF h, g
<1>5. <<h, g>> \in Seq(Chunks) /\ Len(<<h, g>>) = 2 /\ <<h, g>>[1] = h
  BY <1>2
<1>6. e \in Seq(Chunks) /\ Len(e) = 2 + Len(p) /\ e[1] = h
  BY <1>3, <1>5
<1>7. \A i \in 1..Len(p) : e[2 + i] = p[i]
  BY <1>3, <1>5
<1> HIDE DEF e
<1>8. SubSeq(e, 3, Len(e)) = p
  <2>1. /\ SubSeq(e, 3, Len(e)) \in Seq(Chunks) /\ Len(SubSeq(e, 3, Len(e))) = Len(p)
        /\ \A i \in 1..Len(p) : SubSeq(e, 3, Len(e))[i] = e[2 + i]
    BY <1>1, <1>6
  <2>2. QED
    BY <1>3, <1>7, <2>1, SeqEqual
<1>9. QED
  BY <1>1, <1>4, <1>6, <1>8 DEF Drop, h

LEMMA PlistFacts ==
  /\ \A n \in Nat : Result(n) \in Seq(Entries) /\ Len(Result(n)) = 2
  /\ \A d \in Nat : AttachedEvent(d) \in Seq(Entries) /\ Len(AttachedEvent(d)) = 3
  /\ \A d \in Nat : DetachedEvent(d) \in Seq(Entries) /\ Len(DetachedEvent(d)) = 2
  /\ \A n \in Nat : SubSeq(Result(n), 1, 1) = <<Entry("MessageType", "string", "Result")>>
  /\ <<Entry("MessageType", "string", "Result")>> \in Seq(Entries)
<1>1. /\ Entry("MessageType", "string", "Result") \in Entries
      /\ Entry("MessageType", "string", "Attached") \in Entries
      /\ Entry("MessageType", "string", "Detached") \in Entries
      /\ Entry("Properties", "dict", "") \in Entries
      /\ \A n \in Nat : Entry("Number", "integer", n) \in Entries
      /\ \A d \in Nat : Entry("DeviceID", "integer", d) \in Entries
  BY DEF Entry, Entries, Words
<1>0. /\ \A e \in Entries : <<e>> \in Seq(Entries)
      /\ \A e, f \in Entries : <<e, f>> \in Seq(Entries) /\ Len(<<e, f>>) = 2
      /\ \A e, f, g \in Entries : <<e, f, g>> \in Seq(Entries) /\ Len(<<e, f, g>>) = 3
  OBVIOUS
<1>2. ASSUME NEW n \in Nat PROVE Result(n) \in Seq(Entries) /\ Len(Result(n)) = 2
  BY <1>0, <1>1, Zenon DEF Result
<1>3. ASSUME NEW d \in Nat PROVE AttachedEvent(d) \in Seq(Entries) /\ Len(AttachedEvent(d)) = 3
  BY <1>0, <1>1, Zenon DEF AttachedEvent
<1>4. ASSUME NEW d \in Nat PROVE DetachedEvent(d) \in Seq(Entries) /\ Len(DetachedEvent(d)) = 2
  BY <1>0, <1>1, Zenon DEF DetachedEvent
<1>5. <<Entry("MessageType", "string", "Result")>> \in Seq(Entries)
  BY <1>0, <1>1, Zenon
<1>6. ASSUME NEW n \in Nat
      PROVE  SubSeq(Result(n), 1, 1) = <<Entry("MessageType", "string", "Result")>>
  <2>1. Result(n) \in Seq(Entries) /\ Len(Result(n)) = 2
    BY <1>2
  <2>2. Result(n)[1] = Entry("MessageType", "string", "Result")
    BY DEF Result
  <2>3. SubSeq(Result(n), 1, 1) \in Seq(Entries) /\ Len(SubSeq(Result(n), 1, 1)) = 1
        /\ SubSeq(Result(n), 1, 1)[1] = Result(n)[1]
    BY <2>1
  <2> DEFINE e == Entry("MessageType", "string", "Result")
  <2> HIDE DEF e
  <2>4. Len(<<e>>) = 1 /\ <<e>>[1] = e
    OBVIOUS
  <2>5. \A i \in 1..1 : i = 1
    OBVIOUS
  <2>6. SubSeq(Result(n), 1, 1) = <<e>>
    BY <1>5, <2>2, <2>3, <2>4, <2>5, SeqEqual DEF e
  <2>7. QED
    BY <2>6 DEF e
<1>7. QED
  BY <1>2, <1>3, <1>4, <1>5, <1>6

\* The value of a key that the plist has once.
LEMMA OnlyValue ==
  ASSUME NEW p, NEW k, NEW t, NEW a, NEW i \in DOMAIN p, DOMAIN p \subseteq Nat,
         p[i].key = k, \A j \in DOMAIN p : p[j].key = k => j = i
  PROVE  value_after_key(p, k, t, a) = IF p[i].tag = t THEN p[i].text ELSE a
<1> DEFINE at == {j \in DOMAIN p : p[j].key = k}
<1>1. at = {i}
  OBVIOUS
<1>2. (CHOOSE j \in at : \A m \in at : j <= m) = i
  BY <1>1
<1>3. QED
  BY <1>1, <1>2 DEF value_after_key

LEMMA NoValue ==
  ASSUME NEW p, NEW k, NEW t, NEW a, \A j \in DOMAIN p : p[j].key # k
  PROVE  value_after_key(p, k, t, a) = a
BY DEF value_after_key

\* A number that fits an int is not changed.
LEMMA Fits == ASSUME NEW n \in Nat, n < Word * Word PROVE ToInt(n) = n
<1> DEFINE W == Word * Word
<1>1. W \in Nat \ {0} /\ n < W
  BY WordFacts
<1> HIDE DEF W
<1>2. n % W = n
  BY <1>1
<1>3. n # Junk
  BY DEF Junk
<1>4. QED
  BY <1>2, <1>3 DEF ToInt, Narrow, W

LEMMA SmallFits == \A n \in 0..3 : n \in Nat /\ ToInt(n) = n
<1>1. Base \in Nat /\ Base > 3
  BY SettingsAssumption, WorkerAssumption
<1>2. Word \in Nat /\ Word > 3
  BY <1>1 DEF Word
<1>3. Word * Word > 3
  BY <1>2
<1>4. QED
  BY <1>3, WordFacts, Fits

LEMMA ResultParsed ==
  /\ \A n \in 0..3 : ParseResultNumber(Result(n)) = n
  /\ \A n \in Nat : ParseAttached(Result(n)) = Junk
  /\ ParseResultNumber(<<Entry("MessageType", "string", "Result")>>) = Junk
<1>1. ASSUME NEW n \in 0..3 PROVE ParseResultNumber(Result(n)) = n
  <2> DEFINE p == Result(n)
  <2>1. DOMAIN p = {1, 2}
    BY DEF Result
  <2>2. p[1].key = "MessageType" /\ p[2].key = "Number" /\ p[2].tag = "integer" /\ p[2].text = n
    BY DEF Result, Entry
  <2> HIDE DEF p
  <2>3. value_after_key(p, "Number", "integer", Junk) = IF p[2].tag = "integer" THEN p[2].text ELSE Junk
    BY <2>1, <2>2, OnlyValue
  <2>4. QED
    BY <2>2, <2>3, SmallFits DEF ParseResultNumber, PlistGetInteger, p
<1>2. ASSUME NEW n \in Nat PROVE ParseAttached(Result(n)) = Junk
  <2> DEFINE p == Result(n)
  <2>1. DOMAIN p = {1, 2}
    BY DEF Result
  <2>2. /\ p[1].key = "MessageType" /\ p[1].tag = "string" /\ p[1].text = "Result"
        /\ p[2].key = "Number"
    BY DEF Result, Entry
  <2> HIDE DEF p
  <2>3. \A a : value_after_key(p, "MessageType", "string", a) = p[1].text
    BY <2>1, <2>2, OnlyValue
  <2>4. QED
    BY <2>2, <2>3 DEF ParseAttached, ParseMessageType, p
<1>3. ParseResultNumber(<<Entry("MessageType", "string", "Result")>>) = Junk
  <2> DEFINE p == <<Entry("MessageType", "string", "Result")>>
  <2>1. DOMAIN p = {1} /\ p[1].key = "MessageType"
    BY DEF Entry
  <2> HIDE DEF p
  <2>2. value_after_key(p, "Number", "integer", Junk) = Junk
    BY <2>1, NoValue
  <2>3. QED
    BY <2>2 DEF ParseResultNumber, PlistGetInteger, ToInt, p
<1>4. QED
  BY <1>1, <1>2, <1>3

LEMMA EventsRead ==
  ASSUME NEW d \in Nat
  PROVE  /\ ParseMessageType(AttachedEvent(d)) = "Attached"
         /\ PlistGetInteger(AttachedEvent(d), "DeviceID") = d
         /\ ParseMessageType(DetachedEvent(d)) = "Detached"
<1>1. ParseMessageType(AttachedEvent(d)) = "Attached" /\ PlistGetInteger(AttachedEvent(d), "DeviceID") = d
  <2> DEFINE p == AttachedEvent(d)
  <2>1. DOMAIN p = {1, 2, 3}
    BY DEF AttachedEvent
  <2>2. /\ p[1].key = "MessageType" /\ p[1].tag = "string" /\ p[1].text = "Attached"
        /\ p[2].key = "DeviceID" /\ p[2].tag = "integer" /\ p[2].text = d
        /\ p[3].key = "Properties"
    BY DEF AttachedEvent, Entry
  <2> HIDE DEF p
  <2>3. \A a : value_after_key(p, "MessageType", "string", a) = p[1].text
    BY <2>1, <2>2, OnlyValue
  <2>4. value_after_key(p, "DeviceID", "integer", Junk) = IF p[2].tag = "integer" THEN p[2].text ELSE Junk
    BY <2>1, <2>2, OnlyValue
  <2>5. QED
    BY <2>2, <2>3, <2>4 DEF ParseMessageType, PlistGetInteger, p
<1>2. ParseMessageType(DetachedEvent(d)) = "Detached"
  <2> DEFINE p == DetachedEvent(d)
  <2>1. DOMAIN p = {1, 2}
    BY DEF DetachedEvent
  <2>2. /\ p[1].key = "MessageType" /\ p[1].tag = "string" /\ p[1].text = "Detached"
        /\ p[2].key = "DeviceID"
    BY DEF DetachedEvent, Entry
  <2> HIDE DEF p
  <2>3. \A a : value_after_key(p, "MessageType", "string", a) = p[1].text
    BY <2>1, <2>2, OnlyValue
  <2>4. QED
    BY <2>2, <2>3 DEF ParseMessageType, p
<1>3. QED
  BY <1>1, <1>2

LEMMA EventsParsed ==
  ASSUME NEW d \in Nat, d < Word * Word
  PROVE  ParseAttached(AttachedEvent(d)) = d /\ ParseAttached(DetachedEvent(d)) = Junk
<1>1. ToInt(d) = d
  BY Fits
<1>2. QED
  BY <1>1, EventsRead DEF ParseAttached

-------------------------------------------------------------------------------
(* What the client has of its socket's bytes, and what is under way to it.  *)

Stream == got \o inbox

Bytes(from, to) == [i \in 1..(to - from) |-> [byte |-> from + i]]

Accepting == EncodePacket(1, Result(kResultOk))

Refusals ==
  {<<[length |-> 0], [tag |-> 2]>>, EncodePacket(2, SubSeq(Result(0), 1, 1)),
   EncodePacket(2, Result(1)), EncodePacket(1, Result(kResultBadDevice)),
   EncodePacket(1, Result(kResultConnRefused))}

Plists ==
  {Result(kResultOk)} \cup {AttachedEvent(d) : d \in Devices} \cup {DetachedEvent(d) : d \in Devices}

Events == {EncodePacket(1, p) : p \in Plists}

Types ==
  /\ TypeOK
  /\ config \in Configs /\ config.target_bitrate_kbps <= config.max_bitrate_kbps
  /\ got \in Seq(Chunks) /\ inbox \in Seq(Chunks)
  /\ sent \in Nat /\ taken \in Nat
  /\ pc = "listen" => skipped < MaxPackets
  /\ IF pc = "tunnel" THEN taken <= sent ELSE taken = 0

\* What has been asked on the socket is what the client's place calls for.
Sockets ==
  /\ pc \in {"idle", "found", "pause"} => req = NoReq
  /\ pc = "listen" => req.type \in {"listen", "events", "hangup"}
  /\ pc = "tunnel" => req.type \in {"tunnel", "hangup"}

Found == pc \in {"found", "connect", "tunnel"} => dev \in Devices

\* While it listens there is nothing on the socket but whole events.
Listening == pc = "listen" => \E packs \in Seq(Events) : Stream = FlattenSeq(packs)

\* While it connects there is nothing, or a refusal, or the answer that
\* accepts it and behind that what the app has sent, from its first byte on.
Unanswered ==
  /\ got = <<>> /\ inbox = <<>> /\ sent = 0
  /\ \/ req = BuildConnectPlist(dev, config.device_port)
     \/ req.type = "hangup"

Refused == Stream \in Refusals /\ req.type \in {"answered", "hangup"}

Answered ==
  /\ Stream = Accepting \o Bytes(0, sent)
  /\ linked = [device |-> dev, port |-> config.device_port]
  /\ req.type \in {"tunnel", "hangup"}

Connecting == pc = "connect" => Unanswered \/ Refused \/ Answered

Inv == Types /\ Sockets /\ Found /\ Listening /\ Connecting /\ CleanTunnel

-------------------------------------------------------------------------------

LEMMA BytesFacts ==
  ASSUME NEW m \in Nat, NEW n \in Nat, m <= n
  PROVE  /\ Bytes(m, n) \in Seq(Chunks) /\ Len(Bytes(m, n)) = n - m
         /\ \A i \in 1..n - m : Bytes(m, n)[i] = [byte |-> m + i]
         /\ Append(Bytes(m, n), [byte |-> n + 1]) = Bytes(m, n + 1)
<1>1. \A i \in 1..n - m : [byte |-> m + i] \in Chunks
  <2>1. ASSUME NEW i \in 1..n - m PROVE [byte |-> m + i] \in Chunks
    <3>1. PICK k \in Nat : k = m + i
      OBVIOUS
    <3>2. QED
      BY <3>1, ChunkKinds
  <2>2. QED
    BY <2>1
<1>2. [byte |-> n + 1] \in Chunks
  <2>1. PICK k \in Nat : k = n + 1
    OBVIOUS
  <2>2. QED
    BY <2>1, ChunkKinds
<1>3. /\ Bytes(m, n) \in Seq(Chunks) /\ Len(Bytes(m, n)) = n - m
      /\ \A i \in 1..n - m : Bytes(m, n)[i] = [byte |-> m + i]
  <2>1. n - m \in Nat
    OBVIOUS
  <2>2. QED
    BY <1>1, <2>1 DEF Bytes
<1>4. ASSUME NEW k \in Nat, m <= k
      PROVE  DOMAIN Bytes(m, k) = 1..k - m /\ \A i \in 1..k - m : Bytes(m, k)[i] = [byte |-> m + i]
  BY DEF Bytes
<1>5. Append(Bytes(m, n), [byte |-> n + 1]) = Bytes(m, n + 1)
  <2> DEFINE a == Append(Bytes(m, n), [byte |-> n + 1])
             b == Bytes(m, n + 1)
  <2>1. /\ DOMAIN a = 1..n + 1 - m /\ a[n + 1 - m] = [byte |-> n + 1]
        /\ \A i \in 1..n - m : a[i] = Bytes(m, n)[i]
        /\ a \in Seq(Chunks)
    BY <1>2, <1>3
  <2>2. DOMAIN b = 1..n + 1 - m /\ \A i \in 1..n + 1 - m : b[i] = [byte |-> m + i]
    BY DEF Bytes
  <2>3. ASSUME NEW i \in 1..n + 1 - m PROVE a[i] = b[i]
    <3>1. CASE i = n + 1 - m
      <4>1. m + i = n + 1
        BY <3>1
      <4>2. QED
        BY <2>1, <2>2, <3>1, <4>1
    <3>2. CASE i \in 1..n - m
      BY <1>3, <2>1, <2>2, <3>2
    <3> HIDE DEF a, b
    <3>3. i = n + 1 - m \/ i \in 1..n - m
      OBVIOUS
    <3>4. QED
      BY <3>1, <3>2, <3>3
  <2>4. a = [i \in DOMAIN a |-> a[i]] /\ b = [i \in DOMAIN b |-> b[i]]
    BY <2>1 DEF Bytes
  <2> HIDE DEF a, b
  <2>5. a = b
    BY <2>1, <2>2, <2>3, <2>4
  <2>6. QED
    BY <2>5 DEF a, b
<1>6. QED
  BY <1>3, <1>5

LEMMA CleanIsBytes == CleanTunnel <=> (pc = "tunnel" => /\ linked = [device |-> dev, port |-> config.device_port]
                                                        /\ inbox = Bytes(taken, sent))
BY DEF CleanTunnel, Bytes

\* A packet read to its end leaves what follows it.
LEMMA PacketRead ==
  ASSUME NEW a \in Seq(Chunks), NEW b \in Seq(Chunks), NEW p \in Seq(Chunks), NEW r \in Seq(Chunks),
         a \o b = p \o r, p # <<>>, Len(a) >= 1, a[1] = p[1] => Len(a) = Len(p)
  PROVE  a = p /\ b = r
<1>1. Len(p) \in Nat /\ Len(p) >= 1 /\ Len(a) \in Nat /\ Len(b) \in Nat /\ Len(r) \in Nat
  OBVIOUS
<1>2. /\ \A i \in 1..Len(a) : (a \o b)[i] = a[i]
      /\ \A i \in 1..Len(b) : (a \o b)[Len(a) + i] = b[i]
      /\ \A i \in 1..Len(p) : (p \o r)[i] = p[i]
      /\ \A i \in 1..Len(r) : (p \o r)[Len(p) + i] = r[i]
      /\ Len(a \o b) = Len(a) + Len(b) /\ Len(p \o r) = Len(p) + Len(r)
  <2>1. a \in Seq(Chunks) /\ b \in Seq(Chunks) /\ p \in Seq(Chunks) /\ r \in Seq(Chunks)
    OBVIOUS
  <2>2. QED
    BY <2>1, ConcatFacts, SMTT(20)
<1>3. a[1] = p[1]
  BY <1>1, <1>2
<1>4. Len(a) = Len(p) /\ Len(b) = Len(r)
  BY <1>1, <1>2, <1>3
<1>5. \A i \in 1..Len(a) : a[i] = p[i]
  BY <1>2, <1>4
<1>6. \A i \in 1..Len(b) : b[i] = r[i]
  BY <1>2, <1>4
<1>7. a = p
  BY <1>4, <1>5, SeqEqual
<1>8. b = r
  BY <1>4, <1>6, SeqEqual
<1>9. QED
  BY <1>7, <1>8

LEMMA SentPacket ==
  ASSUME NEW tag \in Nat, NEW p \in Seq(Entries), NEW e, e = EncodePacket(tag, p)
  PROVE  /\ e \in Seq(Chunks) /\ Len(e) >= 2 /\ e # <<>> /\ e[1].length = Len(e)
         /\ Drop(e, HeaderSize) = p
<1>1. Len(p) \in Nat /\ HeaderSize = 2
  BY DEF HeaderSize
<1>2. /\ e \in Seq(Chunks) /\ Len(e) = 2 + Len(p) /\ e[1] = [length |-> 2 + Len(p)]
      /\ Drop(e, HeaderSize) = p
  BY <1>1, PacketFacts
<1>3. e[1].length = Len(e)
  BY <1>2
<1>4. Len(e) >= 2 /\ e # <<>>
  BY <1>1, <1>2
<1>5. QED
  BY <1>2, <1>3, <1>4

LEMMA EventFacts ==
  ASSUME NEW e \in Events
  PROVE  /\ e \in Seq(Chunks) /\ Len(e) >= 2 /\ e # <<>> /\ e[1].length = Len(e)
         /\ ParseAttached(Drop(e, HeaderSize)) \in Devices \cup {Junk}
<1>1. PICK p \in Plists : e = EncodePacket(1, p)
  BY DEF Events
<1>2. \A d \in Devices : d \in Nat /\ d < Word * Word
  BY UsbmuxAssumption
<1>3. p \in Seq(Entries) /\ ParseAttached(p) \in Devices \cup {Junk}
  <2>1. CASE p = Result(kResultOk)
    <3>1. kResultOk \in Nat
      BY DEF kResultOk
    <3>2. QED
      BY <2>1, <3>1, PlistFacts, ResultParsed
  <2>2. CASE \E d \in Devices : p = AttachedEvent(d)
    <3>1. PICK d \in Devices : p = AttachedEvent(d)
      BY <2>2
    <3>2. ParseAttached(p) = d
      BY <1>2, <3>1, EventsParsed
    <3>3. QED
      BY <1>2, <3>1, <3>2, PlistFacts
  <2>3. CASE \E d \in Devices : p = DetachedEvent(d)
    <3>1. PICK d \in Devices : p = DetachedEvent(d)
      BY <2>3
    <3>2. ParseAttached(p) = Junk
      BY <1>2, <3>1, EventsParsed
    <3>3. QED
      BY <1>2, <3>1, <3>2, PlistFacts
  <2>4. QED
    BY <2>1, <2>2, <2>3 DEF Plists
<1>4. QED
  BY <1>1, <1>3, SentPacket

LEMMA EventStream ==
  ASSUME NEW packs \in Seq(Events)
  PROVE  /\ FlattenSeq(packs) \in Seq(Chunks)
         /\ \A e \in Events : /\ packs \o <<e>> \in Seq(Events)
                              /\ FlattenSeq(packs \o <<e>>) = FlattenSeq(packs) \o e
         /\ packs # <<>> => /\ packs[1] \in Events /\ Tail(packs) \in Seq(Events)
                            /\ FlattenSeq(packs) = packs[1] \o FlattenSeq(Tail(packs))
<1>1. Events \subseteq Seq(Chunks)
  BY EventFacts
<1>2. \A s \in Seq(Events) : s \in Seq(Seq(Chunks))
  BY <1>1
<1>3. FlattenSeq(packs) \in Seq(Chunks)
  BY <1>2, FlattenType
<1>4. ASSUME NEW e \in Events
      PROVE  packs \o <<e>> \in Seq(Events) /\ FlattenSeq(packs \o <<e>>) = FlattenSeq(packs) \o e
  <2>1. <<e>> \in Seq(Events)
    OBVIOUS
  <2>2. packs \o <<e>> \in Seq(Events)
    BY <2>1
  <2>3. FlattenSeq(packs \o <<e>>) = FlattenSeq(packs) \o FlattenSeq(<<e>>)
    <3> DEFINE one == <<e>>
    <3>1. packs \in Seq(Seq(Chunks)) /\ one \in Seq(Seq(Chunks))
      BY <1>2, <2>1
    <3> HIDE DEF one
    <3>2. FlattenSeq(packs \o one) = FlattenSeq(packs) \o FlattenSeq(one)
      BY <3>1, FlattenConcat
    <3>3. QED
      BY <3>2 DEF one
  <2>4. FlattenSeq(<<e>>) = e
    BY <1>1, FlattenOne
  <2>5. QED
    BY <2>2, <2>3, <2>4
<1>5. ASSUME packs # <<>>
      PROVE  /\ packs[1] \in Events /\ Tail(packs) \in Seq(Events)
             /\ FlattenSeq(packs) = packs[1] \o FlattenSeq(Tail(packs))
  <2>1. packs[1] \in Events /\ Tail(packs) \in Seq(Events) /\ packs = <<packs[1]>> \o Tail(packs)
    <3>1. Len(packs) \in Nat /\ Len(packs) >= 1 /\ packs[1] \in Events
      BY <1>5
    <3>2. /\ Tail(packs) \in Seq(Events) /\ Len(Tail(packs)) = Len(packs) - 1
          /\ \A i \in 1..Len(packs) - 1 : Tail(packs)[i] = packs[i + 1]
      BY <1>5, <3>1
    <3> DEFINE t == Tail(packs)
               u == <<packs[1]>> \o t
    <3>3. /\ u \in Seq(Events) /\ Len(u) = Len(packs) /\ u[1] = packs[1]
          /\ \A i \in 1..Len(packs) - 1 : u[1 + i] = t[i]
      <4>1. <<packs[1]>> \in Seq(Events) /\ Len(<<packs[1]>>) = 1 /\ <<packs[1]>>[1] = packs[1]
        BY <3>1
      <4> HIDE DEF t
      <4>2. t \in Seq(Events) /\ Len(t) = Len(packs) - 1
        BY <3>2 DEF t
      <4>3. /\ u \in Seq(Events) /\ Len(u) = 1 + Len(t) /\ u[1] = packs[1]
            /\ \A i \in 1..Len(t) : u[1 + i] = t[i]
        BY <4>1, <4>2
      <4>4. QED
        BY <3>1, <4>2, <4>3
    <3> HIDE DEF u
    <3>4. \A i \in 1..Len(packs) : u[i] = packs[i]
      <4>1. ASSUME NEW i \in 1..Len(packs) PROVE u[i] = packs[i]
        <5>1. CASE i = 1
          BY <3>3, <5>1
        <5>2. CASE i # 1
          <6>1. i - 1 \in 1..Len(packs) - 1 /\ 1 + (i - 1) = i /\ (i - 1) + 1 = i
            BY <3>1, <5>2
          <6>2. QED
            BY <3>2, <3>3, <6>1
        <5>3. QED
          BY <5>1, <5>2
      <4>2. QED
        BY <4>1
    <3>5. packs = u
      BY <3>3, <3>4, SeqEqual
    <3>6. QED
      BY <3>1, <3>2, <3>5 DEF u
  <2> DEFINE t == Tail(packs)
             x == packs[1]
  <2> HIDE DEF t, x
  <2>2. <<x>> \in Seq(Events) /\ t \in Seq(Events) /\ packs = <<x>> \o t /\ x \in Seq(Chunks)
    BY <1>1, <2>1 DEF t, x
  <2>3. FlattenSeq(<<x>> \o t) = FlattenSeq(<<x>>) \o FlattenSeq(t)
    <3> DEFINE one == <<x>>
    <3>1. t \in Seq(Seq(Chunks)) /\ one \in Seq(Seq(Chunks))
      BY <1>2, <2>2
    <3> HIDE DEF one
    <3>2. FlattenSeq(one \o t) = FlattenSeq(one) \o FlattenSeq(t)
      BY <3>1, FlattenConcat
    <3>3. QED
      BY <3>2 DEF one
  <2>4. FlattenSeq(<<x>>) = x
    BY <2>2, FlattenOne
  <2>5. QED
    BY <2>1, <2>2, <2>3, <2>4 DEF t, x
<1>6. QED
  BY <1>3, <1>4, <1>5

LEMMA RefusalFacts ==
  ASSUME NEW r \in Refusals
  PROVE  /\ r \in Seq(Chunks) /\ Len(r) >= 2 /\ r # <<>>
         /\ \/ r[1].length = 0
            \/ r[1].length = Len(r) /\ ParseResultNumber(Drop(r, HeaderSize)) # kResultOk
<1>1. CASE r = <<[length |-> 0], [tag |-> 2]>>
  <2>1. [length |-> 0] \in Chunks /\ [tag |-> 2] \in Chunks
    BY ChunkKinds
  <2> DEFINE h == [length |-> 0]
             g == [tag |-> 2]
  <2>2. h.length = 0
    OBVIOUS
  <2> HIDE DEF h, g
  <2>3. r = <<h, g>> /\ h \in Chunks /\ g \in Chunks
    BY <1>1, <2>1 DEF h, g
  <2>4. r \in Seq(Chunks) /\ Len(r) = 2 /\ r[1] = h
    BY <2>3
  <2>5. r # <<>>
    BY <2>3
  <2>6. QED
    BY <2>2, <2>4, <2>5
<1>2. ASSUME NEW tag \in Nat, NEW n \in 0..3, n # kResultOk, r = EncodePacket(tag, Result(n))
      PROVE  /\ r \in Seq(Chunks) /\ Len(r) >= 2 /\ r # <<>> /\ r[1].length = Len(r)
             /\ ParseResultNumber(Drop(r, HeaderSize)) # kResultOk
  <2>1. Result(n) \in Seq(Entries) /\ ParseResultNumber(Result(n)) = n
    BY PlistFacts, ResultParsed
  <2>2. QED
    BY <1>2, <2>1, SentPacket
<1>3. CASE r = EncodePacket(2, SubSeq(Result(0), 1, 1))
  <2> DEFINE p == SubSeq(Result(0), 1, 1)
  <2>1. p \in Seq(Entries) /\ ParseResultNumber(p) = Junk
    BY PlistFacts, ResultParsed
  <2>2. Junk # kResultOk
    BY DEF Junk, kResultOk
  <2> HIDE DEF p
  <2>3. QED
    BY <1>3, <2>1, <2>2, SentPacket, ZenonT(30) DEF p
<1>4. CASE r = EncodePacket(2, Result(1))
  BY <1>2, <1>4 DEF kResultOk
<1>5. CASE r = EncodePacket(1, Result(kResultBadDevice))
  BY <1>2, <1>5 DEF kResultOk, kResultBadDevice
<1>6. CASE r = EncodePacket(1, Result(kResultConnRefused))
  BY <1>2, <1>6 DEF kResultOk, kResultConnRefused
<1>7. QED
  BY <1>1, <1>3, <1>4, <1>5, <1>6 DEF Refusals

LEMMA AcceptingFacts ==
  Accepting \in Seq(Chunks) /\ Len(Accepting) >= 2 /\ Accepting # <<>> /\ Accepting[1].length = Len(Accepting)
<1>1. kResultOk \in Nat /\ Result(kResultOk) \in Seq(Entries)
  BY PlistFacts DEF kResultOk
<1>2. QED
  BY <1>1, SentPacket DEF Accepting

-------------------------------------------------------------------------------
(* Steps.                                                                   *)

Ends == {"nobody", "host", "device"}
Apps == [Devices -> ListenPorts \cup {0}]

LEMMA InvInit == Init => Inv
<1> SUFFICES ASSUME Init PROVE Inv
  OBVIOUS
<1>1. MuxInit /\ wire = NoWire
  BY DEF Init
<1>2. config \in Configs /\ config.target_bitrate_kbps <= config.max_bitrate_kbps
  BY <1>1, ConfigFacts DEF MuxInit
<1>3. config.device_port \in PortRange \ {0}
  BY <1>2 DEF Configs
<1>4. TypeOK
  BY <1>1, <1>3, UsbmuxAssumption DEF MuxInit, TypeOK, NoWire
<1>5. Types
  BY <1>1, <1>2, <1>4 DEF MuxInit, Types
<1>6. QED
  BY <1>1, <1>5 DEF MuxInit, Inv, Sockets, Found, Listening, Connecting, CleanTunnel

\* The client's place and its socket's bytes stay; the service may hang up.
LEMMA Stays ==
  ASSUME Inv,
         UNCHANGED <<config, pc, sockets, got, skipped, dev, taken, inbox, told, linked, sent>>,
         req' = req \/ (sockets # 0 /\ req' = [type |-> "hangup"]),
         attached' \subseteq Devices, app' \in Apps, wire'.to \in Ends
  PROVE  Inv'
<1>1. TypeOK'
  BY DEF Inv, Types, TypeOK, Apps, Ends
<1>2. Types'
  BY <1>1 DEF Inv, Types
<1>3. Sockets' /\ Found'
  <2>1. sockets # 0 => pc \in {"listen", "connect", "tunnel"}
    BY DEF Inv, Types, TypeOK
  <2>2. QED
    BY <2>1 DEF Inv, Sockets, Found
<1>4. Listening'
  BY DEF Inv, Listening, Stream
<1>5. Connecting'
  <2>1. (req' = req \/ req'.type = "hangup") /\ Stream' = Stream
    BY DEF Stream
  <2>2. Unanswered => Unanswered'
    BY <2>1 DEF Unanswered
  <2>3. Refused => Refused'
    BY <2>1 DEF Refused
  <2>4. Answered => Answered'
    BY <2>1 DEF Answered
  <2>5. QED
    BY <2>2, <2>3, <2>4 DEF Inv, Connecting
<1>6. CleanTunnel'
  BY DEF Inv, CleanTunnel
<1>7. QED
  BY <1>2, <1>3, <1>4, <1>5, <1>6 DEF Inv

\* Without a socket there is nothing to be said of one.
LEMMA Quiet ==
  ASSUME Types', Sockets', Found', pc' \in {"idle", "found", "pause"}
  PROVE  Inv'
<1>1. pc' # "listen" /\ pc' # "connect" /\ pc' # "tunnel"
  OBVIOUS
<1>2. QED
  BY <1>1 DEF Inv, Listening, Connecting, CleanTunnel

\* The socket is closed.
LEMMA Closes ==
  ASSUME Inv, pc \in {"listen", "connect", "tunnel"}, close_sock,
         pc' \in {"idle", "found", "pause"},
         dev' \in Devices \cup {NoDevice}, pc' = "found" => dev' \in Devices,
         skipped' \in 0..MaxPackets, taken' = 0,
         UNCHANGED <<config, attached, app>>, wire'.to \in Ends
  PROVE  Inv'
<1>1. TypeOK'
  BY DEF Inv, Types, TypeOK, Ends, close_sock
<1>2. Types'
  BY <1>1 DEF Inv, Types, close_sock
<1>3. Sockets'
  BY DEF Sockets, close_sock
<1>4. Found'
  BY DEF Found
<1>5. QED
  BY <1>2, <1>3, <1>4, Quiet

\* Without a socket, before and after.
LEMMA Idles ==
  ASSUME Inv, pc \in {"idle", "found", "pause"}, pc' \in {"idle", "pause"},
         dev' \in Devices \cup {NoDevice},
         UNCHANGED <<config, sockets, got, skipped, taken, inbox, req, told, linked, sent, attached, app>>,
         wire'.to \in Ends
  PROVE  Inv'
<1>1. TypeOK'
  BY DEF Inv, Types, TypeOK, Ends
<1>2. Types'
  BY <1>1 DEF Inv, Types
<1>3. Sockets'
  BY DEF Inv, Sockets
<1>4. Found'
  BY DEF Found
<1>5. QED
  BY <1>2, <1>3, <1>4, Quiet

\* A piece of a packet is read: nothing is lost of the stream.
LEMMA Reads ==
  ASSUME NEW a \in Seq(Chunks), NEW b \in Seq(Chunks), NEW k \in 1..Len(b)
  PROVE  /\ a \o SubSeq(b, 1, k) \in Seq(Chunks) /\ Drop(b, k) \in Seq(Chunks)
         /\ (a \o SubSeq(b, 1, k)) \o Drop(b, k) = a \o b
<1> DEFINE l == SubSeq(b, 1, k)
           r == SubSeq(b, k + 1, Len(b))
<1>1. l \in Seq(Chunks) /\ r \in Seq(Chunks) /\ l \o r = b
  <2>1. k \in 0..Len(b)
    OBVIOUS
  <2>2. QED
    BY <2>1, SplitAt
<1>2. Drop(b, k) = r
  BY DEF Drop
<1> HIDE DEF l, r
<1>3. Associate(a, l, r)
  BY <1>1, ConcatAssociates, Zenon
<1>4. a \o l \in Seq(Chunks)
  BY <1>1
<1>5. (a \o l) \o r = a \o b
  BY <1>1, <1>3 DEF Associate
<1>6. QED
  BY <1>1, <1>2, <1>4, <1>5 DEF l

\* What was asked on the socket tells where the client is.
LEMMA ReqTells ==
  ASSUME Inv
  PROVE  /\ req.type \in {"listen", "events"} => pc = "listen"
         /\ req.type = "connect" => /\ pc = "connect" /\ Unanswered
                                    /\ req = BuildConnectPlist(dev, config.device_port)
         /\ req.type = "tunnel" => pc = "tunnel" \/ (pc = "connect" /\ Answered)
         /\ pc = "connect" => req.type \notin {"listen", "events"}
<1>1. pc \in {"idle", "listen", "found", "connect", "tunnel", "pause"}
  BY DEF Inv, Types, TypeOK
<1>2. pc \in {"idle", "found", "pause"} => req.type = "none"
  BY DEF Inv, Sockets, NoReq
<1>3. BuildConnectPlist(dev, config.device_port).type = "connect"
  BY DEF BuildConnectPlist
<1>4. pc = "listen" => req.type \in {"listen", "events", "hangup"}
  BY DEF Inv, Sockets
<1>5. pc = "tunnel" => req.type \in {"tunnel", "hangup"}
  BY DEF Inv, Sockets
<1>6. pc = "connect" => \/ Unanswered /\ req = BuildConnectPlist(dev, config.device_port)
                        \/ Unanswered /\ req.type = "hangup"
                        \/ req.type \in {"answered", "hangup"}
                        \/ Answered /\ req.type \in {"tunnel", "hangup"}
  BY DEF Inv, Connecting, Unanswered, Refused, Answered
<1>7. QED
  BY <1>1, <1>2, <1>3, <1>4, <1>5, <1>6

LEMMA Same == UNCHANGED sessionVars /\ Inv => wire'.to \in Ends
BY DEF Inv, Types, TypeOK, Ends, sessionVars

LEMMA StreamType == Inv => Stream \in Seq(Chunks)
BY DEF Inv, Types, Stream

LEMMA InvRecvExact ==
  ASSUME Inv, RecvExact, wire'.to \in Ends
  PROVE  Inv'
<1>1. /\ pc \in {"listen", "connect"} /\ inbox # <<>>
      /\ UNCHANGED <<config, pc, sockets, skipped, dev, taken, req, told, linked, sent, worldVars, faults>>
  BY DEF RecvExact, Reading
<1>2. PICK k \in 1..Len(inbox) : got' = got \o SubSeq(inbox, 1, k) /\ inbox' = Drop(inbox, k)
  BY DEF RecvExact
<1>3. got \in Seq(Chunks) /\ inbox \in Seq(Chunks)
  BY DEF Inv, Types
<1>4. got' \in Seq(Chunks) /\ inbox' \in Seq(Chunks) /\ Stream' = Stream
  BY <1>2, <1>3, Reads DEF Stream
<1>5. TypeOK'
  BY <1>1 DEF Inv, Types, TypeOK, Ends, worldVars
<1>6. Types'
  BY <1>1, <1>4, <1>5 DEF Inv, Types
<1>7. Sockets' /\ Found'
  BY <1>1 DEF Inv, Sockets, Found
<1>8. Listening'
  BY <1>1, <1>4 DEF Inv, Listening
<1>9. Connecting'
  <2>1. pc = "connect" => Refused \/ Answered
    BY <1>1 DEF Inv, Connecting, Unanswered
  <2>2. Refused => Refused'
    BY <1>1, <1>4 DEF Refused
  <2>3. Answered => Answered'
    BY <1>1, <1>4 DEF Answered
  <2>4. QED
    BY <1>1, <2>1, <2>2, <2>3 DEF Connecting
<1>10. CleanTunnel'
  BY <1>1 DEF CleanTunnel
<1>11. QED
  BY <1>6, <1>7, <1>8, <1>9, <1>10 DEF Inv

LEMMA InvListen ==
  ASSUME Inv, Listen, wire'.to \in Ends
  PROVE  Inv'
<1>1. /\ pc = "idle" /\ pc' = "listen" /\ sockets' = sockets + 1 /\ req' = [type |-> "listen"]
      /\ inbox' = <<>> /\ got' = <<>> /\ told' = {} /\ sent' = 0 /\ skipped' = 0
      /\ UNCHANGED <<config, dev, taken, worldVars>>
  BY DEF Listen, DialTcp
<1>2. TypeOK'
  BY <1>1, UsbmuxAssumption DEF Inv, Types, TypeOK, Ends, worldVars
<1>3. Types'
  BY <1>1, <1>2, UsbmuxAssumption DEF Inv, Types
<1>4. Sockets' /\ Found' /\ Connecting' /\ CleanTunnel'
  BY <1>1 DEF Sockets, Found, Connecting, CleanTunnel
<1>5. Listening'
  <2>1. <<>> \in Seq(Events) /\ Stream' = FlattenSeq(<<>>)
    BY <1>1, FlattenNone DEF Stream
  <2>2. QED
    BY <2>1 DEF Listening
<1>6. QED
  BY <1>3, <1>4, <1>5 DEF Inv

LEMMA InvConnect ==
  ASSUME Inv, Connect, wire'.to \in Ends
  PROVE  Inv'
<1>1. /\ pc = "found" /\ pc' = "connect" /\ sockets' = sockets + 1
      /\ req' = BuildConnectPlist(dev, config.device_port)
      /\ inbox' = <<>> /\ got' = <<>> /\ told' = {} /\ sent' = 0
      /\ UNCHANGED <<config, skipped, dev, taken, worldVars>>
  BY DEF Connect, DialTcp
<1>2. TypeOK'
  BY <1>1, UsbmuxAssumption DEF Inv, Types, TypeOK, Ends, worldVars
<1>3. Types'
  BY <1>1, <1>2 DEF Inv, Types
<1>4. Sockets' /\ Found' /\ Listening' /\ CleanTunnel'
  BY <1>1 DEF Inv, Sockets, Found, Listening, CleanTunnel
<1>5. Connecting'
  BY <1>1 DEF Connecting, Unanswered
<1>6. QED
  BY <1>3, <1>4, <1>5 DEF Inv

\* A whole packet that was read while listening is the next event.
LEMMA EventRead ==
  ASSUME Inv, pc = "listen", Complete
  PROVE  /\ ParseAttached(Payload) \in Devices \cup {Junk}
         /\ \E rest \in Seq(Events) : inbox = FlattenSeq(rest)
<1>1. Len(got) >= 2 /\ got[1].length - Len(got) = 0
  BY DEF Complete, Need, HeaderSize
<1>2. PICK packs \in Seq(Events) : Stream = FlattenSeq(packs)
  BY DEF Inv, Listening
<1>3. got \in Seq(Chunks) /\ inbox \in Seq(Chunks) /\ Stream = got \o inbox /\ Len(got) \in Nat
  BY DEF Inv, Types, Stream
<1>4. packs # <<>>
  <2>1. Len(Stream) >= 2
    BY <1>1, <1>3
  <2>2. Stream # <<>>
    BY <2>1
  <2>3. QED
    BY <1>2, <2>2, FlattenNone
<1> DEFINE p == packs[1]
           r == FlattenSeq(Tail(packs))
<1>5. p \in Events /\ Tail(packs) \in Seq(Events) /\ FlattenSeq(packs) = p \o r
  BY <1>4, EventStream
<1>6. r \in Seq(Chunks)
  BY <1>5, EventStream
<1> HIDE DEF p
<1>7. p \in Seq(Chunks) /\ Len(p) >= 2 /\ p # <<>> /\ p[1].length = Len(p)
      /\ ParseAttached(Drop(p, HeaderSize)) \in Devices \cup {Junk}
  BY <1>5, EventFacts
<1> HIDE DEF r
<1>8. got = p /\ inbox = r
  <2>1. got[1] = p[1] => Len(got) = Len(p)
    <3>1. Len(p) \in Nat
      BY <1>7
    <3>2. QED
      BY <1>1, <1>3, <1>7, <3>1
  <2>2. got \o inbox = p \o r
    BY <1>2, <1>3, <1>5
  <2>3. got \in Seq(Chunks) /\ inbox \in Seq(Chunks) /\ p \in Seq(Chunks) /\ r \in Seq(Chunks)
    BY <1>3, <1>6, <1>7
  <2>4. p # <<>> /\ Len(got) >= 1
    BY <1>1, <1>3, <1>7
  <2>5. QED
    BY <2>1, <2>2, <2>3, <2>4, PacketRead
<1>9. QED
  BY <1>5, <1>7, <1>8 DEF Payload, r

LEMMA InvSkipPacket ==
  ASSUME Inv, SkipPacket, wire'.to \in Ends
  PROVE  Inv'
<1>1. /\ pc = "listen" /\ Complete /\ skipped' = skipped + 1
      /\ UNCHANGED <<config, dev, taken, attached, app>>
  BY DEF SkipPacket, worldVars
<1>2. skipped < MaxPackets /\ skipped \in Nat /\ MaxPackets \in Nat
  BY <1>1, UsbmuxAssumption DEF Inv, Types, TypeOK
<1>3. CASE skipped' < MaxPackets
  <2>1. /\ got' = <<>>
        /\ UNCHANGED <<pc, sockets, inbox, req, told, linked, sent>>
    BY <1>3 DEF SkipPacket, socketVars
  <2>2. skipped' \in 0..MaxPackets
    BY <1>1, <1>2, <1>3
  <2>3. TypeOK'
    BY <1>1, <2>1, <2>2 DEF Inv, Types, TypeOK, Ends
  <2>4. Types'
    BY <1>1, <1>3, <2>1, <2>3 DEF Inv, Types
  <2>5. Sockets' /\ Found' /\ Connecting' /\ CleanTunnel'
    BY <1>1, <2>1 DEF Inv, Sockets, Found, Connecting, CleanTunnel
  <2>6. Listening'
    <3>1. PICK rest \in Seq(Events) : inbox = FlattenSeq(rest)
      BY <1>1, EventRead
    <3>2. inbox \in Seq(Chunks)
      BY DEF Inv, Types
    <3>3. Stream' = inbox
      BY <2>1, <3>2 DEF Stream
    <3>4. QED
      BY <3>1, <3>3 DEF Listening
  <2>7. QED
    BY <2>4, <2>5, <2>6 DEF Inv
<1>4. CASE ~(skipped' < MaxPackets)
  <2>1. close_sock /\ pc' = "idle"
    BY <1>4 DEF SkipPacket
  <2>2. skipped' \in 0..MaxPackets
    BY <1>1, <1>2
  <2>3. dev' \in Devices \cup {NoDevice} /\ taken' = 0
    BY <1>1 DEF Inv, Types, TypeOK
  <2>4. QED
    BY <1>1, <2>1, <2>2, <2>3, Closes
<1>5. QED
  BY <1>3, <1>4

LEMMA InvDeviceFound ==
  ASSUME Inv, DeviceFound, wire'.to \in Ends
  PROVE  Inv'
<1>1. /\ pc = "listen" /\ Complete /\ ParseAttached(Payload) # Junk
      /\ dev' = ParseAttached(Payload) /\ close_sock /\ pc' = "found"
      /\ UNCHANGED <<config, skipped, taken, attached, app>>
  BY DEF DeviceFound, worldVars
<1>2. dev' \in Devices
  BY <1>1, EventRead
<1>3. skipped' \in 0..MaxPackets /\ taken' = 0
  BY <1>1 DEF Inv, Types, TypeOK
<1>4. QED
  BY <1>1, <1>2, <1>3, Closes

\* Every other close, of whatever socket.
LEMMA InvGivesUp ==
  ASSUME Inv, wire'.to \in Ends,
         WaitFails \/ ConnectGetsNothing \/ ConnectRefused
  PROVE  Inv'
<1>1. /\ pc \in {"listen", "connect"} /\ close_sock /\ pc' \in {"idle", "pause"}
      /\ UNCHANGED <<config, skipped, dev, taken, attached, app>>
  BY DEF WaitFails, ConnectGetsNothing, ConnectRefused, worldVars
<1>2. skipped' \in 0..MaxPackets /\ taken' = 0 /\ dev' \in Devices \cup {NoDevice}
  BY <1>1 DEF Inv, Types, TypeOK
<1>3. QED
  BY <1>1, <1>2, Closes

LEMMA InvTunnelClose ==
  ASSUME Inv, TunnelClose, wire'.to \in Ends
  PROVE  Inv'
<1>1. /\ pc = "tunnel" /\ close_sock /\ pc' \in {"idle", "pause"} /\ dev' = NoDevice /\ taken' = 0
      /\ UNCHANGED <<config, skipped, attached, app>>
  BY DEF TunnelClose, worldVars
<1>2. skipped' \in 0..MaxPackets
  BY <1>1 DEF Inv, Types, TypeOK
<1>3. QED
  BY <1>1, <1>2, Closes

LEMMA InvWithoutSocket ==
  ASSUME Inv, wire'.to \in Ends,
         WaitConnectFails \/ ConnectFails \/ Retry
  PROVE  Inv'
<1>1. /\ pc \in {"idle", "found", "pause"} /\ pc' \in {"idle", "pause"}
      /\ dev' = dev \/ dev' = NoDevice
      /\ UNCHANGED <<config, sockets, got, skipped, taken, socketVars, worldVars>>
  BY DEF WaitConnectFails, ConnectFails, Retry
<1>2. dev' \in Devices \cup {NoDevice}
  BY <1>1 DEF Inv, Types, TypeOK
<1>3. QED
  BY <1>1, <1>2, Idles DEF socketVars, worldVars

\* An answer that was read to its end and says 0 is the one that accepts, and
\* nothing of what follows it has been read.
LEMMA AnswerRead ==
  ASSUME Inv, pc = "connect", Complete, ParseResultNumber(Payload) = kResultOk
  PROVE  /\ inbox = Bytes(0, sent)
         /\ linked = [device |-> dev, port |-> config.device_port]
         /\ req.type \in {"tunnel", "hangup"}
<1>1. Len(got) >= 2 /\ got[1].length - Len(got) = 0
  BY DEF Complete, Need, HeaderSize
<1>2. got \in Seq(Chunks) /\ inbox \in Seq(Chunks) /\ Stream = got \o inbox /\ Len(got) \in Nat
  BY DEF Inv, Types, Stream
<1>3. Unanswered \/ Refused \/ Answered
  BY DEF Inv, Connecting
<1>4. ~Unanswered
  BY <1>1 DEF Unanswered
<1>5. ASSUME Refused PROVE FALSE
  <2>1. PICK r \in Refusals : got \o inbox = r
    BY <1>2, <1>5 DEF Refused
  <2>2. /\ r \in Seq(Chunks) /\ Len(r) >= 2 /\ r # <<>>
        /\ \/ r[1].length = 0
           \/ r[1].length = Len(r) /\ ParseResultNumber(Drop(r, HeaderSize)) # kResultOk
    BY RefusalFacts
  <2>3. got[1] = r[1]
    BY <1>1, <1>2, <2>1
  <2>4. r[1].length # 0
    BY <1>1, <1>2, <2>3
  <2>5. got \o inbox = r \o <<>> /\ <<>> \in Seq(Chunks)
    BY <2>1, <2>2
  <2>6. Len(got) = Len(r)
    <3>1. Len(r) \in Nat
      BY <2>2
    <3>2. QED
      BY <1>1, <1>2, <2>2, <2>3, <2>4, <3>1
  <2>7. got = r
    <3>1. Len(got) >= 1
      BY <1>1, <1>2
    <3>2. QED
      BY <1>2, <2>2, <2>5, <2>6, <3>1, PacketRead
  <2>8. QED
    BY <2>2, <2>4, <2>7 DEF Payload
<1>6. CASE Answered
  <2>1. Bytes(0, sent) \in Seq(Chunks)
    <3>1. sent \in Nat /\ 0 <= sent
      BY DEF Inv, Types
    <3>2. QED
      BY <3>1, BytesFacts
  <2> DEFINE r == Bytes(0, sent)
             p == Accepting
  <2>2. got \o inbox = p \o r
    BY <1>2, <1>6 DEF Answered
  <2>3. p \in Seq(Chunks) /\ Len(p) >= 2 /\ p # <<>> /\ p[1].length = Len(p)
    BY AcceptingFacts
  <2> HIDE DEF r, p
  <2>4. got[1] = p[1] => Len(got) = Len(p)
    <3>1. Len(p) \in Nat
      BY <2>3
    <3>2. QED
      BY <1>1, <1>2, <2>3, <3>1
  <2>5. inbox = r
    <3>1. r \in Seq(Chunks) /\ Len(got) >= 1
      BY <1>1, <1>2, <2>1 DEF r
    <3>2. QED
      BY <1>2, <2>2, <2>3, <2>4, <3>1, PacketRead
  <2>6. QED
    BY <1>6, <2>5 DEF r, Answered
<1>7. QED
  BY <1>3, <1>4, <1>5, <1>6

LEMMA InvConnected ==
  ASSUME Inv, Connected, wire'.to \in Ends
  PROVE  Inv'
<1>1. /\ pc = "connect" /\ Complete /\ ParseResultNumber(Payload) = kResultOk
      /\ got' = <<>> /\ pc' = "tunnel"
      /\ UNCHANGED <<config, sockets, skipped, dev, taken, inbox, req, told, linked, sent, attached, app>>
  BY DEF Connected, socketVars, worldVars
<1>2. TypeOK'
  BY <1>1 DEF Inv, Types, TypeOK, Ends
<1>3. Types'
  BY <1>1, <1>2 DEF Inv, Types
<1>4. /\ inbox = Bytes(0, sent) /\ req.type \in {"tunnel", "hangup"}
      /\ linked = [device |-> dev, port |-> config.device_port]
  BY <1>1, AnswerRead
<1>5. Sockets' /\ Found' /\ Listening' /\ Connecting'
  BY <1>1, <1>4 DEF Inv, Sockets, Found, Listening, Connecting
<1>6. CleanTunnel'
  <2>1. taken = 0
    BY <1>1 DEF Inv, Types
  <2>2. inbox = [i \in 1..(sent - taken) |-> [byte |-> taken + i]]
    BY <1>4, <2>1 DEF Bytes
  <2>3. QED
    BY <1>1, <1>4, <2>2 DEF CleanTunnel
<1>7. QED
  BY <1>3, <1>5, <1>6 DEF Inv

LEMMA InvTunnelRecv ==
  ASSUME Inv, TunnelRecv, wire'.to \in Ends
  PROVE  Inv'
<1>1. /\ pc = "tunnel"
      /\ UNCHANGED <<config, pc, sockets, got, skipped, dev, req, told, linked, sent, attached, app>>
  BY DEF TunnelRecv, worldVars
<1>2. PICK k \in 1..Len(inbox) : taken' = taken + k /\ inbox' = Drop(inbox, k)
  BY DEF TunnelRecv
<1>3. sent \in Nat /\ taken \in Nat /\ taken <= sent
  BY <1>1 DEF Inv, Types
<1>4. inbox = Bytes(taken, sent) /\ linked = [device |-> dev, port |-> config.device_port]
  BY <1>1, CleanIsBytes DEF Inv
<1>5. /\ inbox \in Seq(Chunks) /\ Len(inbox) = sent - taken
      /\ \A i \in 1..sent - taken : inbox[i] = [byte |-> taken + i]
  BY <1>3, <1>4, BytesFacts
<1>6. k \in Nat /\ taken' \in Nat /\ taken' <= sent /\ sent - taken' \in Nat
  BY <1>2, <1>3, <1>5
<1>7. /\ Bytes(taken', sent) \in Seq(Chunks) /\ Len(Bytes(taken', sent)) = sent - taken'
      /\ \A i \in 1..sent - taken' : Bytes(taken', sent)[i] = [byte |-> taken' + i]
  BY <1>3, <1>6, BytesFacts
<1>8. /\ inbox' \in Seq(Chunks) /\ Len(inbox') = sent - taken'
      /\ \A i \in 1..sent - taken' : inbox'[i] = inbox[k + i]
  BY <1>2, <1>3, <1>5, <1>6 DEF Drop
<1>9. ASSUME NEW i \in 1..sent - taken' PROVE inbox'[i] = Bytes(taken', sent)[i]
  <2>1. k + i \in 1..sent - taken /\ taken + (k + i) = taken' + i
    BY <1>2, <1>3, <1>6
  <2>2. QED
    BY <1>5, <1>7, <1>8, <2>1
<1>10. inbox' = Bytes(taken', sent)
  BY <1>7, <1>8, <1>9, SeqEqual
<1>11. TypeOK'
  BY <1>1 DEF Inv, Types, TypeOK, Ends
<1>12. Types'
  BY <1>1, <1>3, <1>6, <1>8, <1>11 DEF Inv, Types
<1>13. Sockets' /\ Found' /\ Listening' /\ Connecting'
  BY <1>1 DEF Inv, Sockets, Found, Listening, Connecting
<1>14. CleanTunnel'
  BY <1>1, <1>4, <1>10 DEF CleanTunnel, Bytes
<1>15. QED
  BY <1>12, <1>13, <1>14 DEF Inv

-------------------------------------------------------------------------------
(* The service's steps.                                                     *)

\* Whatever the service writes while the client listens is an event.
LEMMA InvTells ==
  ASSUME Inv, pc = "listen", NEW p \in Plists, Send(p),
         req' = req \/ req' = [type |-> "events"], told' \subseteq Devices,
         UNCHANGED <<clientVars, linked, sent, worldVars>>, wire'.to \in Ends
  PROVE  Inv'
<1>1. /\ inbox' = inbox \o EncodePacket(1, p)
      /\ UNCHANGED <<config, pc, sockets, got, skipped, dev, taken, sent, attached, app>>
  BY DEF Send, clientVars, worldVars
<1>2. EncodePacket(1, p) \in Events
  BY DEF Events
<1> DEFINE e == EncodePacket(1, p)
<1>3. e \in Seq(Chunks)
  BY <1>2, EventFacts
<1>4. got \in Seq(Chunks) /\ inbox \in Seq(Chunks)
  BY DEF Inv, Types
<1> HIDE DEF e
<1>5. inbox' \in Seq(Chunks) /\ inbox' = inbox \o e
  BY <1>1, <1>3, <1>4 DEF e
<1>6. Stream' = Stream \o e
  <2>1. Associate(got, inbox, e)
    BY <1>3, <1>4, ConcatAssociates, Zenon
  <2>2. QED
    BY <1>1, <1>5, <2>1 DEF Associate, Stream
<1>7. TypeOK'
  BY <1>1 DEF Inv, Types, TypeOK, Ends
<1>8. Types'
  BY <1>1, <1>5, <1>7 DEF Inv, Types
<1>9. Sockets' /\ Found' /\ Connecting' /\ CleanTunnel'
  BY <1>1 DEF Inv, Sockets, Found, Connecting, CleanTunnel
<1>10. Listening'
  <2>1. PICK packs \in Seq(Events) : Stream = FlattenSeq(packs)
    BY DEF Inv, Listening
  <2>2. /\ packs \o <<e>> \in Seq(Events)
        /\ FlattenSeq(packs \o <<e>>) = FlattenSeq(packs) \o e
    BY <1>2, EventStream DEF e
  <2>3. QED
    BY <1>6, <2>1, <2>2 DEF Listening
<1>11. QED
  BY <1>8, <1>9, <1>10 DEF Inv

LEMMA InvAnnounces ==
  ASSUME Inv, AnswerListen \/ AnnounceAttached \/ AnnounceDetached, wire'.to \in Ends
  PROVE  Inv'
<1>1. req.type \in {"listen", "events"}
  BY DEF AnswerListen, AnnounceAttached, AnnounceDetached
<1>2. pc = "listen"
  BY <1>1, ReqTells
<1>3. told \subseteq Devices /\ attached \subseteq Devices
  BY DEF Inv, Types, TypeOK
<1>4. CASE AnswerListen
  <2>1. Result(kResultOk) \in Plists
    BY DEF Plists
  <2>2. QED
    BY <1>2, <1>3, <1>4, <2>1, InvTells DEF AnswerListen
<1>5. CASE AnnounceAttached
  <2>1. PICK d \in attached \ told : Send(AttachedEvent(d)) /\ told' = told \cup {d}
    BY <1>5 DEF AnnounceAttached
  <2>2. AttachedEvent(d) \in Plists /\ told' \subseteq Devices
    BY <1>3, <2>1 DEF Plists
  <2>3. req' = req /\ UNCHANGED <<clientVars, linked, sent, worldVars>>
    BY <1>5 DEF AnnounceAttached
  <2>4. QED
    BY <1>2, <2>1, <2>2, <2>3, InvTells
<1>6. CASE AnnounceDetached
  <2>1. PICK d \in told \ attached : Send(DetachedEvent(d)) /\ told' = told \ {d}
    BY <1>6 DEF AnnounceDetached
  <2>2. DetachedEvent(d) \in Plists /\ told' \subseteq Devices
    BY <1>3, <2>1 DEF Plists
  <2>3. req' = req /\ UNCHANGED <<clientVars, linked, sent, worldVars>>
    BY <1>6 DEF AnnounceDetached
  <2>4. QED
    BY <1>2, <2>1, <2>2, <2>3, InvTells
<1>7. QED
  BY <1>4, <1>5, <1>6

\* An answer to Connect.
LEMMA InvAnswers ==
  ASSUME Inv, pc = "connect", UNCHANGED <<clientVars, told, sent, worldVars>>,
         inbox' \in Seq(Chunks), Refused' \/ Answered', wire'.to \in Ends
  PROVE  Inv'
<1>1. UNCHANGED <<config, pc, sockets, got, skipped, dev, taken, told, sent, attached, app>>
  BY DEF clientVars, worldVars
<1>2. TypeOK'
  BY <1>1 DEF Inv, Types, TypeOK, Ends
<1>3. Types'
  BY <1>1, <1>2 DEF Inv, Types
<1>4. Sockets' /\ Found' /\ Listening' /\ CleanTunnel'
  BY <1>1 DEF Inv, Sockets, Found, Listening, CleanTunnel
<1>5. Connecting'
  BY DEF Connecting
<1>6. QED
  BY <1>3, <1>4, <1>5 DEF Inv

LEMMA InvAnswerConnect ==
  ASSUME Inv, AnswerConnect, wire'.to \in Ends
  PROVE  Inv'
<1>1. req.type = "connect" /\ UNCHANGED <<clientVars, told, sent, worldVars>>
  BY DEF AnswerConnect
<1>2. /\ pc = "connect" /\ got = <<>> /\ inbox = <<>> /\ sent = 0
      /\ req = BuildConnectPlist(dev, config.device_port)
  BY <1>1, ReqTells DEF Unanswered
<1>3. req.device = dev /\ ntohs(req.port) = config.device_port
  <2>1. config.device_port \in PortRange
    BY DEF Inv, Types, TypeOK
  <2>2. req.device = dev /\ req.port = EncodePortBigEndian(config.device_port)
    BY <1>2 DEF BuildConnectPlist
  <2>3. QED
    BY <2>1, <2>2, PortSurvives
<1> DEFINE number == IF req.device \notin attached THEN kResultBadDevice
                     ELSE IF app[req.device] # ntohs(req.port) THEN kResultConnRefused
                     ELSE kResultOk
<1>4. /\ Send(Result(number))
      /\ req' = [type |-> IF number = kResultOk THEN "tunnel" ELSE "answered"]
      /\ linked' = IF number = kResultOk
                     THEN [device |-> req.device, port |-> app[req.device]]
                     ELSE NoLink
  BY DEF AnswerConnect
<1>5. kResultOk # kResultBadDevice /\ kResultOk # kResultConnRefused
  BY DEF kResultOk, kResultBadDevice, kResultConnRefused
<1>6. got' = <<>> /\ dev' = dev /\ config' = config /\ sent' = 0
  BY <1>1, <1>2 DEF clientVars
<1>7. ASSUME NEW e, inbox' = inbox \o e, e \in Seq(Chunks)
      PROVE  inbox' = e /\ Stream' = e
  BY <1>2, <1>6, <1>7 DEF Stream
<1>8. CASE number = kResultOk
  <2>1. /\ Send(Result(kResultOk)) /\ req' = [type |-> "tunnel"]
        /\ linked' = [device |-> req.device, port |-> app[req.device]]
        /\ app[req.device] = ntohs(req.port)
    BY <1>4, <1>5, <1>8
  <2> HIDE DEF number
  <2>2. inbox' = Accepting /\ Stream' = Accepting /\ Accepting \in Seq(Chunks)
    BY <1>7, <2>1, AcceptingFacts DEF Send, Accepting
  <2>3. Accepting \o Bytes(0, 0) = Accepting
    <3>1. Bytes(0, 0) = <<>>
      <4>1. 0 \in Nat /\ 0 <= 0 /\ 0 - 0 = 0
        OBVIOUS
      <4>2. Bytes(0, 0) \in Seq(Chunks) /\ Len(Bytes(0, 0)) = 0 - 0
        BY <4>1, BytesFacts
      <4>3. QED
        BY <4>1, <4>2
    <3>2. QED
      BY <2>2, <3>1
  <2>4. Stream' = Accepting \o Bytes(0, sent')
    BY <1>6, <2>2, <2>3
  <2>5. linked' = [device |-> dev', port |-> config'.device_port]
    BY <1>3, <1>6, <2>1
  <2>6. req'.type = "tunnel"
    BY <2>1
  <2>7. Answered'
    BY <2>4, <2>5, <2>6 DEF Answered
  <2>8. QED
    BY <1>1, <1>2, <2>2, <2>7, InvAnswers
<1>9. CASE number # kResultOk
  <2>1. req' = [type |-> "answered"]
    BY <1>4, <1>9
  <2>2. number \in {kResultBadDevice, kResultConnRefused}
    BY <1>9
  <2>3. Send(Result(number))
    BY <1>4
  <2> HIDE DEF number
  <2> DEFINE e == EncodePacket(1, Result(number))
  <2>4. e \in Refusals
    BY <2>2 DEF Refusals
  <2>5. e \in Seq(Chunks)
    BY <2>4, RefusalFacts
  <2>6. inbox' = inbox \o e
    BY <2>3 DEF Send
  <2> HIDE DEF e
  <2>7. inbox' = e /\ Stream' = e
    BY <1>7, <2>5, <2>6
  <2>8. Refused'
    BY <2>1, <2>4, <2>7 DEF Refused, Refusals
  <2>9. QED
    BY <1>1, <1>2, <2>5, <2>7, <2>8, InvAnswers
<1>10. QED
  BY <1>8, <1>9

LEMMA InvAnswerOddly ==
  ASSUME Inv, AnswerOddly, wire'.to \in Ends
  PROVE  Inv'
<1>1. /\ req.type = "connect" /\ req' = [type |-> "answered"]
      /\ UNCHANGED <<clientVars, told, linked, sent, worldVars>>
  BY DEF AnswerOddly
<1>2. pc = "connect" /\ got = <<>>
  BY <1>1, ReqTells DEF Unanswered
<1>3. inbox' \in Refusals
  BY DEF AnswerOddly, Refusals
<1>4. inbox' \in Seq(Chunks)
  BY <1>3, RefusalFacts
<1>5. Stream' = inbox'
  <2>1. got' = <<>>
    BY <1>1, <1>2 DEF clientVars
  <2>2. QED
    BY <1>4, <2>1 DEF Stream
<1>6. Refused'
  BY <1>1, <1>3, <1>5 DEF Refused, Refusals
<1>7. QED
  BY <1>1, <1>2, <1>4, <1>6, InvAnswers

LEMMA InvAppSends ==
  ASSUME Inv, AppSends, wire'.to \in Ends
  PROVE  Inv'
<1>1. /\ req.type = "tunnel" /\ sent' = sent + 1 /\ inbox' = Append(inbox, [byte |-> sent + 1])
      /\ UNCHANGED <<clientVars, req, told, linked, worldVars>>
  BY DEF AppSends
<1>2. UNCHANGED <<config, pc, sockets, got, skipped, dev, taken, attached, app>>
  BY <1>1 DEF clientVars, worldVars
<1>3. sent \in Nat /\ taken \in Nat /\ got \in Seq(Chunks) /\ inbox \in Seq(Chunks)
  BY DEF Inv, Types
<1> DEFINE x == [byte |-> sent + 1]
<1>4. x \in Chunks
  <2>1. PICK n \in Nat : n = sent + 1
    BY <1>3
  <2>2. QED
    BY <2>1, ChunkKinds
<1>5. inbox' = Append(inbox, x)
  BY <1>1
<1> HIDE DEF x
<1>6. inbox' \in Seq(Chunks)
  BY <1>3, <1>4, <1>5
<1>7. CASE pc = "tunnel"
  <2>1. taken <= sent
    BY <1>7 DEF Inv, Types
  <2>2. TypeOK'
    BY <1>1, <1>2 DEF Inv, Types, TypeOK, Ends
  <2>3. Types'
    <3>1. sent' \in Nat /\ taken <= sent'
      BY <1>1, <1>3, <2>1
    <3>2. QED
      BY <1>2, <1>6, <1>7, <2>2, <3>1 DEF Inv, Types
  <2>4. Sockets' /\ Found' /\ Listening' /\ Connecting'
    BY <1>1, <1>2, <1>7 DEF Inv, Sockets, Found, Listening, Connecting
  <2>5. inbox = Bytes(taken, sent) /\ linked = [device |-> dev, port |-> config.device_port]
    BY <1>7, CleanIsBytes DEF Inv
  <2>6. inbox' = Bytes(taken, sent + 1)
    BY <1>3, <1>5, <2>1, <2>5, BytesFacts DEF x
  <2>7. CleanTunnel'
    BY <1>1, <1>2, <2>5, <2>6 DEF CleanTunnel, Bytes
  <2>8. QED
    BY <2>3, <2>4, <2>7 DEF Inv
<1>8. CASE pc = "connect" /\ Answered
  <2>1. 0 <= sent /\ 0 \in Nat
    BY <1>3
  <2>2. Bytes(0, sent) \in Seq(Chunks) /\ Append(Bytes(0, sent), x) = Bytes(0, sent + 1)
    BY <1>3, <2>1, BytesFacts DEF x
  <2> DEFINE b == Bytes(0, sent)
             p == Accepting
  <2>3. b \in Seq(Chunks) /\ p \in Seq(Chunks) /\ got \o inbox = p \o b
    BY <1>8, <2>2, AcceptingFacts DEF Answered, Stream
  <2> HIDE DEF b, p
  <2>4. got \o Append(inbox, x) = p \o Append(b, x)
    <3>1. <<x>> \in Seq(Chunks) /\ Append(inbox, x) = inbox \o <<x>> /\ Append(b, x) = b \o <<x>>
      <4>1. inbox \in Seq(Chunks) /\ b \in Seq(Chunks)
        BY <1>3, <2>3
      <4>2. QED
        BY <1>4, <4>1, AppendIsConcat
    <3> DEFINE one == <<x>>
    <3> HIDE DEF one
    <3>2. one \in Seq(Chunks) /\ Append(inbox, x) = inbox \o one /\ Append(b, x) = b \o one
      BY <3>1 DEF one
    <3>3. Associate(got, inbox, one) /\ Associate(p, b, one)
      BY <1>3, <2>3, <3>2, ConcatAssociates, Zenon
    <3>4. QED
      BY <2>3, <3>2, <3>3 DEF Associate
  <2>5. Stream' = Accepting \o Bytes(0, sent')
    BY <1>1, <1>2, <1>5, <2>2, <2>4 DEF Stream, b, p
  <2>6. Answered'
    BY <1>1, <1>2, <1>8, <2>5 DEF Answered
  <2>7. TypeOK'
    BY <1>1, <1>2 DEF Inv, Types, TypeOK, Ends
  <2>8. Types'
    <3>1. sent' \in Nat
      BY <1>1, <1>3
    <3>2. QED
      BY <1>2, <1>6, <1>8, <2>7, <3>1 DEF Inv, Types
  <2>9. Sockets' /\ Found' /\ Listening' /\ CleanTunnel'
    BY <1>1, <1>2, <1>8 DEF Inv, Sockets, Found, Listening, CleanTunnel
  <2>10. Connecting'
    BY <2>6 DEF Connecting
  <2>11. QED
    BY <2>8, <2>9, <2>10 DEF Inv
<1>9. QED
  BY <1>1, <1>7, <1>8, ReqTells

\* The world's steps may end the connection and change nothing else of it.
LEMMA InvWorld ==
  ASSUME Inv, World, ~AnswerOddly, wire'.to \in Ends
  PROVE  Inv'
<1>1. /\ UNCHANGED <<config, pc, sockets, got, skipped, dev, taken, inbox, told, linked, sent>>
      /\ req' = req \/ (sockets # 0 /\ req' = [type |-> "hangup"])
  BY DEF World, ServiceStops, ServiceStarts, Attach, Detach, AppChanges, HangsUp, clientVars, socketVars
<1>2. attached \subseteq Devices /\ app \in Apps
  BY DEF Inv, Types, TypeOK, Apps
<1>3. attached' \subseteq Devices
  BY <1>2 DEF World, ServiceStops, ServiceStarts, Attach, Detach, AppChanges
<1>4. app' \in Apps
  BY <1>2 DEF World, ServiceStops, ServiceStarts, Attach, Detach, AppChanges, Apps
<1>5. QED
  BY <1>1, <1>3, <1>4, Stays

-------------------------------------------------------------------------------

LEMMA InvNext == Inv /\ [Next]_vars => Inv'
<1> SUFFICES ASSUME Inv, [Next]_vars PROVE Inv'
  OBVIOUS
<1>0. attached \subseteq Devices /\ app \in Apps
  BY DEF Inv, Types, TypeOK, Apps
<1>1. CASE UNCHANGED vars
  <2>1. /\ UNCHANGED <<config, pc, sockets, got, skipped, dev, taken, inbox, told, linked, sent>>
        /\ req' = req /\ attached' = attached /\ app' = app /\ wire' = wire
    BY <1>1 DEF vars, sessionVars, muxVars, clientVars, socketVars, worldVars
  <2>2. wire'.to \in Ends
    BY <2>1 DEF Inv, Types, TypeOK, Ends
  <2>3. QED
    BY <1>0, <2>1, <2>2, Stays
<1>2. CASE HostWrites \/ FirstFrame \/ DeviceWrites \/ DeviceReads \/ HostReads
  <2>0. wire.to \in Ends
    BY DEF Inv, Types, TypeOK, Ends
  <2>1. UNCHANGED muxVars /\ wire'.to \in Ends
    <3>1. CASE HostWrites \/ DeviceWrites \/ DeviceReads \/ HostReads
      BY <3>1 DEF HostWrites, DeviceWrites, DeviceReads, HostReads, Write, NoWire, Ends
    <3>2. CASE FirstFrame
      BY <2>0, <3>2 DEF FirstFrame
    <3>3. QED
      BY <1>2, <3>1, <3>2
  <2>2. /\ UNCHANGED <<config, pc, sockets, got, skipped, dev, taken, inbox, told, linked, sent>>
        /\ req' = req /\ attached' = attached /\ app' = app
    BY <2>1 DEF muxVars, clientVars, socketVars, worldVars
  <2>3. QED
    BY <1>0, <2>1, <2>2, Stays
<1>3. CASE DeviceRejects
  <2>1. /\ UNCHANGED <<config, pc, sockets, got, skipped, dev, taken, inbox, told, linked, sent>>
        /\ req' = [type |-> "hangup"] /\ attached' = attached /\ app' = app
    BY <1>3 DEF DeviceRejects, clientVars, worldVars
  <2>2. sockets # 0
    BY <1>3 DEF DeviceRejects, Linked, Inv, Types, TypeOK
  <2>3. wire'.to \in Ends
    BY <1>3 DEF DeviceRejects, NoWire, Ends
  <2>4. QED
    BY <1>0, <2>1, <2>2, <2>3, Stays
<1>4. CASE SessionEnds \/ HostDisconnects
  <2>1. TunnelClose /\ wire'.to \in Ends
    BY <1>4 DEF SessionEnds, HostDisconnects, NoWire, Ends
  <2>2. QED
    BY <2>1, InvTunnelClose
<1>5. CASE (Client \/ Service \/ World) /\ UNCHANGED sessionVars
  <2>1. wire'.to \in Ends
    BY <1>5, Same
  <2>2. CASE Client
    <3>1. CASE RecvExact
      BY <2>1, <3>1, InvRecvExact
    <3>2. CASE Listen
      BY <2>1, <3>2, InvListen
    <3>3. CASE DeviceFound
      BY <2>1, <3>3, InvDeviceFound
    <3>4. CASE SkipPacket
      BY <2>1, <3>4, InvSkipPacket
    <3>5. CASE Connect
      BY <2>1, <3>5, InvConnect
    <3>6. CASE Connected
      BY <2>1, <3>6, InvConnected
    <3>7. CASE TunnelRecv
      BY <2>1, <3>7, InvTunnelRecv
    <3>8. CASE WaitConnectFails \/ ConnectFails \/ Retry
      BY <2>1, <3>8, InvWithoutSocket
    <3>9. CASE WaitFails \/ ConnectGetsNothing \/ ConnectRefused
      BY <2>1, <3>9, InvGivesUp
    <3>10. QED
      BY <2>2, <3>1, <3>2, <3>3, <3>4, <3>5, <3>6, <3>7, <3>8, <3>9 DEF Client
  <2>3. CASE Service
    <3>1. CASE AnswerListen \/ AnnounceAttached \/ AnnounceDetached
      BY <2>1, <3>1, InvAnnounces
    <3>2. CASE AnswerConnect
      BY <2>1, <3>2, InvAnswerConnect
    <3>3. CASE AppSends
      BY <2>1, <3>3, InvAppSends
    <3>4. QED
      BY <2>3, <3>1, <3>2, <3>3 DEF Service
  <2>4. CASE World
    <3>1. CASE AnswerOddly
      BY <2>1, <3>1, InvAnswerOddly
    <3>2. CASE ~AnswerOddly
      BY <2>1, <2>4, <3>2, InvWorld
    <3>3. QED
      BY <3>1, <3>2
  <2>5. QED
    BY <1>5, <2>2, <2>3, <2>4
<1>6. QED
  BY <1>1, <1>2, <1>3, <1>4, <1>5 DEF Next, Session

THEOREM Invariance == Spec => []Inv
<1>1. Inv /\ [Next]_vars => Inv'
  BY InvNext
<1>2. QED
  BY InvInit, <1>1, PTL DEF Spec

\* The types of the client, its sockets, the service's and the message on its
\* way, and with them that a socket is open exactly while the client uses one:
\* every way out of WaitForDevice and Connect closes it (usbmux_client.cpp).
THEOREM TypesAreRight == Spec => []TypeOK
<1>1. Inv => TypeOK
  BY DEF Inv, Types
<1>2. QED
  BY Invariance, <1>1, PTL

\* However the bytes of the service's answers are cut, the tunnel leads to the
\* app on the configured port of the device that was found and holds that
\* app's bytes from the first one on (usbmux_client.cpp, RecvPacket, Connect).
THEOREM TunnelIsClean == Spec => []CleanTunnel
<1>1. Inv => CleanTunnel
  BY DEF Inv
<1>2. QED
  BY Invariance, <1>1, PTL

-------------------------------------------------------------------------------
(* Numbers as bytes.                                                        *)

Byte == 0..Base-1

LEMMA PlaceFacts ==
  /\ IsPowers(Place, Base, 8)
  /\ \A i \in 0..8 : Place[i] \in Nat \ {0}
  /\ Place[1] = Base /\ Place[2] = Word /\ Place[4] = Word * Word
<1> DEFINE Eq(f) == f = [i \in 0..8 |-> IF i = 0 THEN 1 ELSE Base * f[i - 1]]
<1>1. Base \in Nat \ {0}
  BY SettingsAssumption
<1>2. Eq(Place)
  <2>1. Place = CHOOSE f : Eq(f)
    BY DEF Place
  <2>2. \E f : Eq(f)
    BY <1>1, PowersExist
  <2> HIDE DEF Eq
  <2>3. QED
    BY <2>1, <2>2
<1>3. IsPowers(Place, Base, 8)
  BY <1>2 DEF IsPowers
<1>4. \A i \in 0..8 : Place[i] \in Nat \ {0}
  BY <1>1, <1>3, PowersPositive
<1>5. Place[1] = Base * 1 /\ Place[2] = Base * Place[1] /\ Place[3] = Base * Place[2] /\ Place[4] = Base * Place[3]
  BY <1>3 DEF IsPowers
<1>6. Place[1] = Base /\ Place[2] = Base * Base /\ Place[4] = Base * (Base * (Base * Base))
  BY <1>1, <1>5
<1>7. (Base * Base) * (Base * Base) = Base * (Base * (Base * Base))
  BY <1>1
<1>8. QED
  BY <1>3, <1>4, <1>6, <1>7 DEF Word

LEMMA DigitTypes ==
  ASSUME NEW v \in Nat, NEW n \in 0..8
  PROVE  /\ LittleEndian(v, n) \in Seq(Byte) /\ Len(LittleEndian(v, n)) = n
         /\ \A i \in 1..n : LittleEndian(v, n)[i] \in Byte
<1>1. Base \in Nat \ {0}
  BY SettingsAssumption
<1>2. ASSUME NEW i \in 1..n PROVE (v \div Place[i - 1]) % Base \in Byte
  <2> DEFINE P == Place[i - 1]
             q == v \div P
  <2>1. P \in Nat \ {0}
    BY PlaceFacts
  <2>2. q \in Nat
    <3> HIDE DEF P
    <3>1. QED
      BY <2>1
  <2> HIDE DEF q
  <2>3. q % Base \in Byte
    BY <1>1, <2>2 DEF Byte
  <2>4. QED
    BY <2>3 DEF q
<1> DEFINE d == [i \in 1..n |-> (v \div Place[i - 1]) % Base]
<1>3. d \in [1..n -> Byte]
  BY <1>2
<1> HIDE DEF d
<1>4. d \in Seq(Byte) /\ Len(d) = n /\ \A i \in 1..n : d[i] \in Byte
  BY <1>3
<1>5. QED
  BY <1>4 DEF d, LittleEndian

\* A number is read from the bytes it was written in.
LEMMA NumberIsRead ==
  ASSUME NEW v \in Nat, NEW n \in 0..8, v < Place[n], NEW bytes, NEW k \in Nat,
         \A i \in 1..n : bytes[k + i] = LittleEndian(v, n)[i]
  PROVE  Number(bytes, k, n) = v
<1> DEFINE d == [i \in 1..n |-> bytes[k + i] * Place[i - 1]]
           Eq(f) == f = [i \in 0..n |-> IF i = 0 THEN 0 ELSE f[i - 1] + bytes[k + i] * Place[i - 1]]
           F == CHOOSE f : Eq(f)
<1>1. n \in Nat /\ Base \in Nat \ {0}
  BY SettingsAssumption
<1>2. \A i \in 1..n : bytes[k + i] = (v \div Place[i - 1]) % Base
  BY DEF LittleEndian
<1>3. \A i \in 1..n : d[i] = bytes[k + i] * Place[i - 1]
  OBVIOUS
<1>4. ASSUME NEW i \in 1..n PROVE d[i] \in Nat
  <2>1. Place[i - 1] \in Nat
    BY PlaceFacts
  <2>2. bytes[k + i] \in Nat
    <3>1. LittleEndian(v, n)[i] \in Byte
      BY DigitTypes
    <3>2. QED
      BY <1>1, <3>1 DEF Byte
  <2>3. QED
    BY <1>3, <2>1, <2>2
<1> HIDE DEF d
<1>5. PICK g : g = [i \in 0..n |-> IF i = 0 THEN 0 ELSE g[i - 1] + d[i]]
  BY <1>1, <1>4, SumExists
<1>6. Eq(g)
  <2>1. ASSUME NEW i \in 0..n
        PROVE  (IF i = 0 THEN 0 ELSE g[i - 1] + d[i]) = (IF i = 0 THEN 0 ELSE g[i - 1] + bytes[k + i] * Place[i - 1])
    <3>1. CASE i = 0
      BY <3>1
    <3>2. CASE i # 0
      <4>1. i \in 1..n
        BY <1>1, <3>2
      <4>2. QED
        BY <1>3, <3>2, <4>1
    <3>3. QED
      BY <3>1, <3>2
  <2>2. QED
    BY <1>5, <2>1
<1>7. Eq(F)
  <2> HIDE DEF Eq
  <2>1. QED
    BY <1>6
<1>8. Number(bytes, k, n) = F[n]
  BY DEF Number
<1> HIDE DEF F
<1>9. IsSum(F, d, n)
  BY <1>1, <1>3, <1>7 DEF IsSum
<1>10. IsPowers(Place, Base, n)
  BY PlaceFacts, <1>1 DEF IsPowers
<1>11. \A i \in 1..n : d[i] = ((v \div Place[i - 1]) % Base) * Place[i - 1]
  BY <1>2, <1>3
<1>12. F[n] = v
  BY <1>1, <1>9, <1>10, <1>11, DigitsMake
<1>13. QED
  BY <1>8, <1>12

-------------------------------------------------------------------------------
(* Fields as bytes.                                                         *)

IsLayout(fields) ==
  /\ Len(fields) \in Nat /\ DOMAIN fields = 1..Len(fields)
  /\ \A i \in 1..Len(fields) : fields[i][2] \in 1..8
  /\ \A i, j \in 1..Len(fields) : fields[i][1] = fields[j][1] => i = j

LEMMA PositionFacts ==
  ASSUME NEW fields, IsLayout(fields)
  PROVE  /\ Position(fields)[0] = 0
         /\ \A i \in 0..Len(fields) : Position(fields)[i] \in Nat
         /\ \A i \in 1..Len(fields) : Position(fields)[i] = Position(fields)[i - 1] + fields[i][2]
<1> DEFINE n == Len(fields)
           d == [i \in 1..n |-> fields[i][2]]
           Eq(f) == f = [i \in 0..n |-> IF i = 0 THEN 0 ELSE f[i - 1] + fields[i][2]]
           F == CHOOSE f : Eq(f)
<1>1. n \in Nat /\ \A i \in 1..n : d[i] \in Nat /\ d[i] = fields[i][2]
  BY DEF IsLayout
<1> HIDE DEF d
<1>2. PICK g : g = [i \in 0..n |-> IF i = 0 THEN 0 ELSE g[i - 1] + d[i]]
  <2> HIDE DEF n
  <2>1. QED
    BY <1>1, SumExists
<1>3. Eq(g)
  <2>1. ASSUME NEW i \in 0..n
        PROVE  (IF i = 0 THEN 0 ELSE g[i - 1] + d[i]) = (IF i = 0 THEN 0 ELSE g[i - 1] + fields[i][2])
    <3>1. i = 0 \/ i \in 1..n
      BY <1>1
    <3>2. QED
      BY <1>1, <3>1
  <2>2. QED
    BY <1>2, <2>1
<1>4. Eq(F)
  <2> HIDE DEF Eq
  <2>1. QED
    BY <1>3
<1>5. Position(fields) = F
  BY DEF Position
<1> HIDE DEF F
<1>6. IsSum(F, d, n)
  BY <1>1, <1>4 DEF IsSum
<1>7. \A i \in 0..n : F[i] \in Nat
  <2> HIDE DEF n
  <2>1. QED
    BY <1>1, <1>6, SumType
<1>8. QED
  BY <1>1, <1>5, <1>6, <1>7 DEF IsSum

Digits(fields, m) == [i \in DOMAIN fields |-> LittleEndian(m[fields[i][1]], fields[i][2])]

LEMMA DigitsFacts ==
  ASSUME NEW fields, IsLayout(fields), NEW m, \A i \in 1..Len(fields) : m[fields[i][1]] \in Nat
  PROVE  /\ Digits(fields, m) \in Seq(Seq(Byte)) /\ Len(Digits(fields, m)) = Len(fields)
         /\ \A i \in 1..Len(fields) :
              /\ Digits(fields, m)[i] = LittleEndian(m[fields[i][1]], fields[i][2])
              /\ Digits(fields, m)[i] \in Seq(Byte) /\ Len(Digits(fields, m)[i]) = fields[i][2]
<1> DEFINE n == Len(fields)
           s == Digits(fields, m)
<1>1. n \in Nat /\ DOMAIN fields = 1..n /\ \A i \in 1..n : fields[i][2] \in 0..8
  BY DEF IsLayout
<1>2. s = [i \in 1..n |-> LittleEndian(m[fields[i][1]], fields[i][2])]
  BY <1>1 DEF Digits
<1>3. \A i \in 1..n : LittleEndian(m[fields[i][1]], fields[i][2]) \in Seq(Byte)
                      /\ Len(LittleEndian(m[fields[i][1]], fields[i][2])) = fields[i][2]
  BY <1>1, DigitTypes
<1> HIDE DEF s
<1>4. s \in [1..n -> Seq(Byte)]
  BY <1>2, <1>3
<1>5. s \in Seq(Seq(Byte)) /\ Len(s) = n
  BY <1>1, <1>4
<1>6. \A i \in 1..n : s[i] = LittleEndian(m[fields[i][1]], fields[i][2])
  BY <1>2
<1>7. QED
  BY <1>3, <1>5, <1>6 DEF s

\* Each field stands where Position says it does.
IsWritten(fields, m) ==
  /\ Put(fields, m) \in Seq(Byte) /\ Len(Put(fields, m)) = Sizes(fields)
  /\ Sizes(fields) \in Nat
  /\ \A i \in 1..Len(fields) : \A k \in 1..fields[i][2] :
       /\ Position(fields)[i - 1] + k \in 1..Sizes(fields)
       /\ Put(fields, m)[Position(fields)[i - 1] + k] = LittleEndian(m[fields[i][1]], fields[i][2])[k]

LEMMA PutFacts ==
  ASSUME NEW fields, IsLayout(fields), NEW m, \A i \in 1..Len(fields) : m[fields[i][1]] \in Nat
  PROVE  IsWritten(fields, m)
<1> DEFINE n == Len(fields)
           s == Digits(fields, m)
           P == Position(fields)
<1>0. n \in Nat /\ \A i \in 1..n : fields[i][2] \in Nat
  BY DEF IsLayout
<1>1. /\ s \in Seq(Seq(Byte)) /\ Len(s) = n
      /\ \A i \in 1..n : /\ s[i] = LittleEndian(m[fields[i][1]], fields[i][2])
                         /\ s[i] \in Seq(Byte) /\ Len(s[i]) = fields[i][2]
  BY DigitsFacts
<1>2. Put(fields, m) = FlattenSeq(s)
  BY DEF Put, Digits
<1>3. P[0] = 0 /\ (\A i \in 0..n : P[i] \in Nat) /\ \A i \in 1..n : P[i] = P[i - 1] + fields[i][2]
  BY PositionFacts
<1>4. Sizes(fields) = P[n]
  BY DEF Sizes
<1> HIDE DEF s, n, P
<1>5. PICK g : g \in [0..n -> Seq(Byte)] /\ IsPartial(g, s) /\ FlattenSeq(s) = g[n]
  BY <1>1, FlattenIsPartial
<1> DEFINE Placed(i) ==
             /\ Len(g[i]) = P[i]
             /\ \A j \in 1..i : \A k \in 1..fields[j][2] :
                  P[j - 1] + k \in 1..P[i] /\ g[i][P[j - 1] + k] = s[j][k]
           T == {i \in Nat : Placed(i)}
<1>6. Placed(0)
  BY <1>3, <1>5 DEF IsPartial
<1>7. ASSUME NEW i \in 0..n-1, Placed(i) PROVE Placed(i + 1)
  <2> DEFINE a == g[i]
             b == s[i + 1]
             c == g[i + 1]
  <2>1. i \in Nat /\ i + 1 \in 1..n /\ (i + 1) - 1 = i /\ i \in 0..n
    BY <1>0
  <2>2. a \in Seq(Byte) /\ b \in Seq(Byte) /\ c = a \o b /\ Len(b) = fields[i + 1][2]
    BY <1>1, <1>5, <2>1 DEF IsPartial
  <2>3. Len(a) = P[i] /\ P[i] \in Nat /\ P[i + 1] = P[i] + fields[i + 1][2] /\ fields[i + 1][2] \in Nat
    BY <1>0, <1>3, <1>7, <2>1
  <2> HIDE DEF a, b, c
  <2>4. /\ Len(c) = Len(a) + Len(b)
        /\ \A k \in 1..Len(a) : c[k] = a[k]
        /\ \A k \in 1..Len(b) : c[Len(a) + k] = b[k]
    BY <2>2, ConcatFacts, SMTT(20)
  <2>5. Len(c) = P[i + 1]
    BY <2>2, <2>3, <2>4
  <2>6. ASSUME NEW j \in 1..i+1, NEW k \in 1..fields[j][2]
        PROVE  P[j - 1] + k \in 1..P[i + 1] /\ c[P[j - 1] + k] = s[j][k]
    <3>1. CASE j = i + 1
      <4>1. P[j - 1] = P[i] /\ s[j] = b /\ k \in 1..Len(b)
        BY <2>1, <2>2, <3>1 DEF b
      <4>2. P[i] + k \in 1..P[i + 1]
        BY <2>2, <2>3, <4>1
      <4>3. c[P[i] + k] = b[k]
        BY <2>3, <2>4, <4>1
      <4>4. QED
        BY <4>1, <4>2, <4>3
    <3>2. CASE j # i + 1
      <4>1. j \in 1..i
        BY <2>1, <3>2
      <4>2. P[j - 1] + k \in 1..P[i] /\ a[P[j - 1] + k] = s[j][k]
        BY <1>7, <4>1 DEF a
      <4> DEFINE x == P[j - 1] + k
      <4>3. x \in 1..Len(a) /\ x \in 1..P[i] /\ a[x] = s[j][k]
        BY <2>3, <4>2
      <4> HIDE DEF x
      <4>4. c[x] = s[j][k] /\ x \in 1..P[i + 1]
        BY <2>3, <2>4, <4>3
      <4>5. QED
        BY <4>4 DEF x
    <3>3. QED
      BY <3>1, <3>2
  <2>7. QED
    BY <2>5, <2>6 DEF c
<1> HIDE DEF Placed
<1>8. Placed(n)
  <2>1. 0 \in T
    BY <1>6
  <2>2. ASSUME NEW i \in 0..n-1, i \in T PROVE i + 1 \in T
    <3>1. Placed(i)
      BY <2>2
    <3>2. Placed(i + 1)
      BY <1>7, <3>1
    <3>3. i + 1 \in Nat
      BY <1>0
    <3>4. QED
      BY <3>2, <3>3
  <2> HIDE DEF T
  <2>3. \A i \in 0..n : i \in T
    BY <1>0, <2>1, <2>2, SetInduction
  <2>4. n \in T
    BY <1>0, <2>3
  <2>5. QED
    BY <2>4 DEF T
<1>9. n \in 0..n
  BY <1>0
<1>10. FlattenSeq(s) \in Seq(Byte) /\ Len(FlattenSeq(s)) = P[n] /\ P[n] \in Nat
  BY <1>3, <1>5, <1>8, <1>9 DEF Placed
<1>11. ASSUME NEW i \in 1..n, NEW k \in 1..fields[i][2]
       PROVE  P[i - 1] + k \in 1..P[n] /\ FlattenSeq(s)[P[i - 1] + k] = LittleEndian(m[fields[i][1]], fields[i][2])[k]
  BY <1>1, <1>5, <1>8 DEF Placed
<1>12. QED
  BY <1>2, <1>4, <1>10, <1>11 DEF P, n, IsWritten

\* What a list of fields writes, the same list reads, whatever follows.
LEMMA RoundTrip ==
  ASSUME NEW fields, IsLayout(fields), NEW m \in [Names(fields) -> Nat],
         \A i \in 1..Len(fields) : m[fields[i][1]] < Place[fields[i][2]],
         NEW rest \in Seq(Byte)
  PROVE  LET bytes == Put(fields, m) \o rest
         IN  /\ bytes \in Seq(Byte) /\ Len(bytes) = Sizes(fields) + Len(rest)
             /\ Sizes(fields) \in Nat
             /\ Get(fields, bytes) = m
             /\ Drop(bytes, Sizes(fields)) = rest
<1> DEFINE put == Put(fields, m)
           bytes == put \o rest
           size == Sizes(fields)
           place(name) == CHOOSE i \in DOMAIN fields : fields[i][1] = name
<1>1. /\ DOMAIN fields = 1..Len(fields) /\ Len(fields) \in Nat
      /\ \A i \in 1..Len(fields) : fields[i][2] \in 0..8
      /\ \A i, j \in 1..Len(fields) : fields[i][1] = fields[j][1] => i = j
  BY DEF IsLayout
<1>2. \A i \in 1..Len(fields) : m[fields[i][1]] \in Nat
  BY <1>1 DEF Names
<1>3. /\ put \in Seq(Byte) /\ Len(put) = size /\ size \in Nat
      /\ \A i \in 1..Len(fields) : \A k \in 1..fields[i][2] :
           /\ Position(fields)[i - 1] + k \in 1..size
           /\ put[Position(fields)[i - 1] + k] = LittleEndian(m[fields[i][1]], fields[i][2])[k]
  <2>1. IsWritten(fields, m)
    BY <1>2, PutFacts
  <2>2. QED
    BY <2>1 DEF IsWritten
<1> HIDE DEF put, size
<1>4. /\ bytes \in Seq(Byte) /\ Len(bytes) = size + Len(rest)
      /\ \A i \in 1..size : bytes[i] = put[i]
      /\ \A i \in 1..Len(rest) : bytes[size + i] = rest[i]
  <2>1. put \in Seq(Byte) /\ rest \in Seq(Byte)
    BY <1>3
  <2>2. /\ put \o rest \in Seq(Byte) /\ Len(put \o rest) = Len(put) + Len(rest)
        /\ \A i \in 1..Len(put) : (put \o rest)[i] = put[i]
        /\ \A i \in 1..Len(rest) : (put \o rest)[Len(put) + i] = rest[i]
    BY <2>1, ConcatFacts
  <2>3. QED
    BY <1>3, <2>2
<1> HIDE DEF bytes
<1>5. ASSUME NEW i \in 1..Len(fields)
      PROVE  Number(bytes, Position(fields)[i - 1], fields[i][2]) = m[fields[i][1]]
  <2> DEFINE v == m[fields[i][1]]
             w == fields[i][2]
             k == Position(fields)[i - 1]
  <2>1. v \in Nat /\ w \in 0..8 /\ v < Place[w]
    BY <1>1, <1>2
  <2>2. k \in Nat
    BY <1>1, PositionFacts
  <2>3. \A x \in 1..w : bytes[k + x] = LittleEndian(v, w)[x]
    BY <1>3, <1>4
  <2> HIDE DEF v, w, k
  <2>4. Number(bytes, k, w) = v
    BY <2>1, <2>2, <2>3, NumberIsRead
  <2>5. QED
    BY <2>4 DEF v, w, k
<1>6. Get(fields, bytes) = m
  <2> DEFINE g == Get(fields, bytes)
             N == Names(fields)
  <2>1. g = [name \in N |-> Number(bytes, Position(fields)[place(name) - 1], fields[place(name)][2])]
    BY DEF Get
  <2>2. ASSUME NEW name \in N
        PROVE  Number(bytes, Position(fields)[place(name) - 1], fields[place(name)][2]) = m[name]
    <3>1. \E i \in DOMAIN fields : fields[i][1] = name
      BY DEF Names
    <3>2. place(name) \in DOMAIN fields /\ fields[place(name)][1] = name
      BY <3>1
    <3> HIDE DEF place
    <3>3. QED
      BY <1>1, <1>5, <3>2
  <2> HIDE DEF g, place
  <2>3. g = [name \in N |-> m[name]]
    BY <2>1, <2>2
  <2>4. QED
    BY <2>3 DEF g
<1>7. Drop(bytes, size) = rest
  <2> DEFINE r == SubSeq(bytes, size + 1, Len(bytes))
  <2>1. Len(rest) \in Nat
    OBVIOUS
  <2>2. r \in Seq(Byte) /\ Len(r) = Len(rest) /\ \A i \in 1..Len(rest) : r[i] = bytes[size + i]
    BY <1>3, <1>4, <2>1
  <2> HIDE DEF r
  <2>3. r = rest
    BY <1>4, <2>1, <2>2, SeqEqual
  <2>4. QED
    BY <2>3 DEF Drop, r
<1>8. QED
  BY <1>3, <1>4, <1>6, <1>7 DEF bytes, put, size

KnownTypes == ControlTypes \cup {"VIDEO_FRAME"}

\* The two sides have the same fields.
LEMMA SameFields == \A t \in KnownTypes : DeviceFields(t) = HostFields(t)
BY DEF KnownTypes, ControlTypes, Announces, Reasons, DeviceFields, HostFields, put_hello,
       put_welcome_body, put_reason, put_video, put_keyframe_request, putWelcome

LEMMA Welcomes == HostFields("WELCOME") = putWelcome /\ HostFields("FORMAT_CHANGE") = putWelcome
BY DEF HostFields, put_welcome_body, putWelcome

\* and every list of fields is one.
LEMMA Layouts == \A t \in KnownTypes : IsLayout(HostFields(t))
<1> USE DEF IsLayout
<1>1. IsLayout(put_hello)
  BY DEF put_hello
<1>2. IsLayout(put_welcome_body)
  BY DEF put_welcome_body
<1>3. IsLayout(put_reason)
  BY DEF put_reason
<1>4. IsLayout(put_keyframe_request)
  BY DEF put_keyframe_request
<1>5. IsLayout(<<<<"token", 8>>>>)
  OBVIOUS
<1>6. IsLayout(put_video)
  BY DEF put_video
<1> HIDE DEF IsLayout
<1>7. QED
  BY <1>1, <1>2, <1>3, <1>4, <1>5, <1>6 DEF HostFields, KnownTypes, ControlTypes, Announces, Reasons

LEMMA LayoutSizes ==
  \A t \in KnownTypes : Sizes(HostFields(t)) \in Nat /\ Sizes(HostFields(t)) >= 2
<1> SUFFICES ASSUME NEW t \in KnownTypes
             PROVE  Sizes(HostFields(t)) \in Nat /\ Sizes(HostFields(t)) >= 2
  OBVIOUS
<1> DEFINE fields == HostFields(t)
           n == Len(fields)
           P == Position(fields)
<1>1. /\ IsLayout(fields) /\ n \in Nat
      /\ \A i \in 1..n : fields[i][2] \in 1..8
  BY Layouts DEF IsLayout
<1>2. n >= 1 /\ (fields[1][2] >= 2 \/ n >= 2)
  BY DEF HostFields, KnownTypes, ControlTypes, Announces, Reasons, put_hello, put_welcome_body,
         put_reason, put_video, put_keyframe_request
<1>3. P[0] = 0 /\ (\A i \in 0..n : P[i] \in Nat) /\ \A i \in 1..n : P[i] = P[i - 1] + fields[i][2]
  BY <1>1, PositionFacts
<1>4. Sizes(fields) = P[n]
  BY DEF Sizes
<1> HIDE DEF fields, n, P
<1> DEFINE T == {i \in Nat : i <= n => P[i] >= i /\ (i >= 1 => P[i] >= fields[1][2])}
<1>5. 0 \in T
  BY <1>1, <1>3
<1>6. ASSUME NEW i \in 0..n-1, i \in T PROVE i + 1 \in T
  <2>1. i + 1 \in 1..n /\ (i + 1) - 1 = i /\ i \in 0..n /\ 1 \in 1..n
    BY <1>1
  <2>2. /\ P[i + 1] = P[i] + fields[i + 1][2] /\ P[i] \in Nat /\ P[i] >= i
        /\ fields[i + 1][2] \in 1..8 /\ fields[1][2] \in 1..8
        /\ i >= 1 => P[i] >= fields[1][2]
    BY <1>1, <1>3, <1>6, <2>1
  <2>3. i = 0 => fields[i + 1][2] = fields[1][2]
    OBVIOUS
  <2>4. P[i + 1] >= i + 1 /\ P[i + 1] >= fields[1][2]
    BY <2>1, <2>2, <2>3
  <2>5. QED
    BY <2>4
<1> HIDE DEF T
<1>7. n \in T
  BY <1>1, <1>5, <1>6, SetInduction
<1>8. P[n] \in Nat /\ P[n] >= n /\ P[n] >= fields[1][2] /\ fields[1][2] \in 1..8
  BY <1>1, <1>2, <1>3, <1>7 DEF T
<1>9. QED
  BY <1>1, <1>2, <1>4, <1>8 DEF fields

LEMMA DropFacts ==
  ASSUME NEW S, NEW bytes \in Seq(S), NEW n \in Nat, n <= Len(bytes)
  PROVE  Drop(bytes, n) = <<>> <=> Len(bytes) = n
<1> DEFINE r == SubSeq(bytes, n + 1, Len(bytes))
<1>1. Len(bytes) \in Nat
  OBVIOUS
<1>2. r \in Seq(S) /\ Len(r) = Len(bytes) - n
  BY <1>1
<1> HIDE DEF r
<1>3. r = <<>> <=> Len(r) = 0
  BY <1>2
<1>4. QED
  BY <1>1, <1>2, <1>3 DEF Drop, r

\* Whatever the bytes of a frame that the parser lets through, the two sides
\* read the same in it or fail in the same way.
LEMMA DecodeAlike ==
  ASSUME NEW S, NEW f, f.channel \in {"control", "video"}, f.payload \in Seq(S)
  PROVE  HostDecode(f) = DeviceDecode(f)
<1> DEFINE t == f.type
           known == IF f.channel = "control" THEN ControlTypes ELSE {"VIDEO_FRAME"}
           fields == HostFields(t)
           size == Sizes(fields)
           m == Get(fields, f.payload)
           rest == Drop(f.payload, size)
<1>1. CASE f.flags # 0
  BY <1>1 DEF HostDecode, DeviceDecode
<1>2. CASE f.flags = 0 /\ t \notin known
  <2>1. HostDecode(f) = Err("UnknownType")
    BY <1>2 DEF HostDecode
  <2>2. DeviceDecode(f) = Err("UnknownType")
    BY <1>2 DEF DeviceDecode, ControlTypes, Announces
  <2>3. QED
    BY <2>1, <2>2
<1>3. CASE f.flags = 0 /\ t \in known
  <2>1. t \in KnownTypes
    BY <1>3 DEF KnownTypes
  <2>2. DeviceFields(t) = fields
    BY <2>1, SameFields
  <2>3. size \in Nat
    BY <2>1, LayoutSizes
  <2>4. size <= Len(f.payload) => (rest = <<>> <=> Len(f.payload) = size)
    <3> HIDE DEF size
    <3>1. QED
      BY <2>3, DropFacts
  <2>5. Len(f.payload) \in Nat
    OBVIOUS
  <2> DEFINE short == Len(f.payload) < size
             host == IF short THEN Err("ShortBuffer")
                     ELSE IF t \in Announces /\ m.protocol_version # Version
                            THEN Err("UnsupportedVersion")
                     ELSE IF t \in Reasons /\ Len(rest) # m.reason_len THEN Err("BadField")
                     ELSE IF t \notin Reasons \cup {"VIDEO_FRAME"} /\ rest # <<>>
                            THEN Err("TrailingBytes")
                     ELSE Ok(t, m, rest)
  <2>6. HostDecode(f) = host
    BY <1>3 DEF HostDecode
  <2>7. CASE f.channel = "video"
    <3>1. t = "VIDEO_FRAME" /\ t \notin Announces /\ t \notin Reasons
      BY <1>3, <2>7 DEF Announces, Reasons
    <3>2. DeviceDecode(f) = IF short THEN Err("ShortBuffer") ELSE Ok(t, m, rest)
      BY <1>3, <2>2, <2>7, <3>1 DEF DeviceDecode
    <3> HIDE DEF t, m, rest, size, short
    <3>3. QED
      BY <2>6, <3>1, <3>2
  <2>8. CASE f.channel = "control" /\ t \in {"WELCOME", "FORMAT_CHANGE"}
    <3>1. t \in Announces /\ t \notin Reasons \cup {"VIDEO_FRAME"}
      BY <2>8 DEF Announces, Reasons
    <3>2. fields = putWelcome
      BY <2>8, Welcomes
    <3>3. DeviceDecode(f) = readWelcome(t, f.payload)
      BY <1>3, <2>8 DEF DeviceDecode
    <3>4. readWelcome(t, f.payload) =
            IF short THEN Err("ShortBuffer")
            ELSE IF m.protocol_version # Version THEN Err("UnsupportedVersion")
            ELSE IF Len(f.payload) > size THEN Err("TrailingBytes")
            ELSE Ok(t, m, <<>>)
      BY <3>2 DEF readWelcome
    <3> HIDE DEF t, m, rest, size, fields
    <3>5. QED
      BY <2>3, <2>4, <2>5, <2>6, <3>1, <3>3, <3>4
  <2>9. CASE f.channel = "control" /\ t \notin {"WELCOME", "FORMAT_CHANGE"}
    <3>1. t \in ControlTypes /\ t # "VIDEO_FRAME" /\ (t \in Announces <=> t = "HELLO")
          /\ (t = "HELLO" => t \notin Reasons)
      BY <1>3, <2>9 DEF ControlTypes, Announces, Reasons
    <3>2. DeviceDecode(f) =
            IF short THEN Err("ShortBuffer")
            ELSE IF t = "HELLO" /\ m.protocol_version # Version THEN Err("UnsupportedVersion")
            ELSE IF t \in Reasons
                   THEN IF Len(rest) # m.reason_len THEN Err("BadField") ELSE Ok(t, m, rest)
            ELSE IF rest # <<>> THEN Err("TrailingBytes") ELSE Ok(t, m, <<>>)
      BY <1>3, <2>2, <2>9, <3>1 DEF DeviceDecode
    <3> HIDE DEF t, m, rest, size, short, fields
    <3>3. QED
      BY <2>6, <3>1, <3>2
  <2>10. QED
    BY <2>7, <2>8, <2>9
<1>4. QED
  BY <1>1, <1>2, <1>3

-------------------------------------------------------------------------------
(* Messages.                                                                *)

\* A reason is cut to what its length can say, and nothing else is changed.
LEMMA TextFacts ==
  ASSUME NEW m, IsMessage(m)
  PROVE  /\ Text(m) \in Seq(Byte) /\ Len(Text(m)) \in Nat
         /\ m.type \in Reasons => Len(Text(m)) < Word
         /\ m.type \in Reasons \cup {"VIDEO_FRAME"} \/ Text(m) = <<>>
<1>1. m.rest \in Seq(Byte) /\ (m.type \in Reasons \cup {"VIDEO_FRAME"} \/ m.rest = <<>>)
  BY DEF IsMessage, Byte
<1>2. Word \in Nat \ {0}
  BY WordFacts
<1> DEFINE r == m.rest
<1>3. r \in Seq(Byte) /\ Len(r) \in Nat
  BY <1>1
<1> HIDE DEF r
<1>4. CASE m.type \in Reasons /\ Len(r) >= Word
  <2>1. SubSeq(r, 1, Word - 1) \in Seq(Byte) /\ Len(SubSeq(r, 1, Word - 1)) = Word - 1
    BY <1>2, <1>3, <1>4
  <2>2. Text(m) = SubSeq(r, 1, Word - 1)
    BY <1>4 DEF Text, r
  <2>3. QED
    BY <1>2, <1>4, <2>1, <2>2
<1>5. CASE ~(m.type \in Reasons /\ Len(r) >= Word)
  <2>1. Text(m) = r
    BY <1>5 DEF Text, r
  <2>2. m.type \in Reasons => Len(r) < Word
    BY <1>2, <1>3, <1>5
  <2>3. QED
    BY <1>1, <1>3, <2>1, <2>2 DEF r
<1>6. QED
  BY <1>4, <1>5

LEMMA NumberFacts ==
  ASSUME NEW m, IsMessage(m)
  PROVE  LET fields == HostFields(m.type)
         IN  /\ Numbers(m) \in [Names(fields) -> Nat]
             /\ \A i \in 1..Len(fields) : Numbers(m)[fields[i][1]] < Place[fields[i][2]]
             /\ m.type \in Reasons => Numbers(m).reason_len = Len(Text(m))
             /\ m.type \notin Reasons => Numbers(m) = m.fields
<1> DEFINE fields == HostFields(m.type)
<1>1. /\ m.type \in KnownTypes /\ m.fields \in [Names(fields) -> Nat]
      /\ \A i \in DOMAIN fields : m.fields[fields[i][1]] < Place[fields[i][2]]
  BY DEF IsMessage, KnownTypes
<1>2. IsLayout(fields) /\ DOMAIN fields = 1..Len(fields)
  BY <1>1, Layouts DEF IsLayout
<1>3. CASE m.type \notin Reasons
  <2>1. Numbers(m) = m.fields
    BY <1>3 DEF Numbers
  <2>2. QED
    BY <1>1, <1>2, <1>3, <2>1
<1>4. CASE m.type \in Reasons
  <2> DEFINE x == Len(Text(m))
             n == m.fields
  <2>1. x \in Nat /\ x < Place[2]
    BY <1>4, TextFacts, PlaceFacts
  <2>2. fields = put_reason
    BY <1>4 DEF HostFields, Reasons
  <2>3. /\ Names(put_reason) = {"code", "reason_len"} /\ Len(put_reason) = 2
        /\ put_reason[1] = <<"code", 2>> /\ put_reason[2] = <<"reason_len", 2>>
    BY DEF Names, put_reason
  <2>4. n \in [{"code", "reason_len"} -> Nat] /\ n["code"] < Place[2]
    BY <1>1, <1>2, <2>2, <2>3
  <2>5. Numbers(m) = [n EXCEPT !["reason_len"] = x]
    BY <1>4 DEF Numbers
  <2> HIDE DEF x, n, fields
  <2>6. /\ Numbers(m) \in [{"code", "reason_len"} -> Nat]
        /\ Numbers(m)["code"] = n["code"] /\ Numbers(m)["reason_len"] = x
    BY <2>1, <2>4, <2>5
  <2>7. \A i \in 1..Len(fields) : Numbers(m)[fields[i][1]] < Place[fields[i][2]]
    BY <2>1, <2>2, <2>3, <2>4, <2>6
  <2>8. QED
    BY <1>4, <2>2, <2>3, <2>6, <2>7 DEF x, fields
<1>5. QED
  BY <1>3, <1>4

LEMMA Replaced ==
  ASSUME NEW t, NEW a, NEW b, NEW u, NEW v, NEW m, m = [type |-> t, fields |-> a, rest |-> b]
  PROVE  [m EXCEPT !.fields = u, !.rest = v] = [type |-> t, fields |-> u, rest |-> v]
<1> DEFINE e == [m EXCEPT !.fields = u, !.rest = v]
           d == [type |-> t, fields |-> u, rest |-> v]
<1>1. DOMAIN m = {"type", "fields", "rest"} /\ m.type = t
  OBVIOUS
<1>2. DOMAIN d = DOMAIN m /\ d = [x \in DOMAIN d |-> d[x]]
  BY <1>1
<1>3. DOMAIN e = DOMAIN m /\ e = [x \in DOMAIN e |-> e[x]]
  OBVIOUS
<1>4. e["type"] = t /\ e["fields"] = u /\ e["rest"] = v
  BY <1>1
<1>5. d["type"] = t /\ d["fields"] = u /\ d["rest"] = v
  OBVIOUS
<1> HIDE DEF d, e
<1>6. \A x \in DOMAIN m : e[x] = d[x]
  BY <1>1, <1>4, <1>5
<1>7. e = d
  BY <1>2, <1>3, <1>6
<1>8. QED
  BY <1>7 DEF d, e

\* What a message is read as.
ReadAs(m) ==
  IF m.type \in Announces /\ m.fields.protocol_version # Version
    THEN Err("UnsupportedVersion") ELSE Meant(m)

\* A message is read as it was written.
LEMMA ReadBack ==
  ASSUME NEW m, IsMessage(m)
  PROVE  /\ HostEncode(m).channel \in {"control", "video"} /\ HostEncode(m).payload \in Seq(Byte)
         /\ Len(HostEncode(m).payload) >= 2
         /\ DeviceEncode(m) = HostEncode(m)
         /\ HostDecode(HostEncode(m)) = ReadAs(m)
<1> DEFINE t == m.type
           fields == HostFields(t)
           n == Numbers(m)
           rest == Text(m)
           bytes == Put(fields, n) \o rest
           size == Sizes(fields)
           f == HostEncode(m)
<1>1. t \in KnownTypes /\ m = [type |-> t, fields |-> m.fields, rest |-> m.rest]
  BY DEF IsMessage, KnownTypes
<1>2. IsLayout(fields)
  BY <1>1, Layouts
<1>3. /\ n \in [Names(fields) -> Nat]
      /\ \A i \in 1..Len(fields) : n[fields[i][1]] < Place[fields[i][2]]
      /\ t \in Reasons => n.reason_len = Len(rest)
      /\ t \notin Reasons => n = m.fields
  BY NumberFacts
<1>4. /\ rest \in Seq(Byte) /\ Len(rest) \in Nat
      /\ t \in Reasons \cup {"VIDEO_FRAME"} \/ rest = <<>>
  BY TextFacts
<1>5. /\ f.channel = (IF t = "VIDEO_FRAME" THEN "video" ELSE "control")
      /\ f.type = t /\ f.flags = 0 /\ f.payload = bytes
  BY DEF HostEncode, Frame
<1>6. DeviceEncode(m) = f
  BY <1>1, SameFields DEF HostEncode, DeviceEncode
<1>7. Meant(m) = Ok(t, n, rest)
  <2> DEFINE a == m.fields
             b == m.rest
  <2>1. m = [type |-> t, fields |-> a, rest |-> b]
    BY <1>1
  <2>2. Meant(m) = [m EXCEPT !.fields = n, !.rest = rest]
    BY DEF Meant
  <2> HIDE DEF t, n, rest, a, b
  <2>3. QED
    BY <2>1, <2>2, Replaced DEF Ok
<1> HIDE DEF t, fields, n, rest, f
<1>8. /\ bytes \in Seq(Byte) /\ Len(bytes) = size + Len(rest)
      /\ size \in Nat /\ Get(fields, bytes) = n /\ Drop(bytes, size) = rest
  BY <1>2, <1>3, <1>4, RoundTrip
<1>9. size >= 2
  BY <1>1, LayoutSizes DEF fields
<1>10. HostDecode(f) =
         IF t \in Announces /\ n.protocol_version # Version THEN Err("UnsupportedVersion")
         ELSE Ok(t, n, rest)
  <2>1. t \in (IF f.channel = "control" THEN ControlTypes ELSE {"VIDEO_FRAME"})
    BY <1>1, <1>5 DEF KnownTypes
  <2>2. ~(Len(bytes) < size)
    BY <1>4, <1>8
  <2>3. HostFields(t) = fields
    BY DEF fields
  <2> HIDE DEF bytes, size
  <2> DEFINE err == t \in Announces /\ n.protocol_version # Version
  <2>4. HostDecode(f) =
          IF err THEN Err("UnsupportedVersion")
          ELSE IF t \in Reasons /\ Len(rest) # n.reason_len THEN Err("BadField")
          ELSE IF t \notin Reasons \cup {"VIDEO_FRAME"} /\ rest # <<>> THEN Err("TrailingBytes")
          ELSE Ok(t, n, rest)
    BY <1>5, <1>8, <2>1, <2>2, <2>3 DEF HostDecode, size
  <2> HIDE DEF err
  <2>5. HostDecode(f) = IF err THEN Err("UnsupportedVersion") ELSE Ok(t, n, rest)
    BY <1>3, <1>4, <2>4
  <2>6. QED
    BY <2>5 DEF err
<1>11. t \in Announces => t \notin Reasons
  BY DEF Announces, Reasons
<1>12. HostDecode(f) = ReadAs(m)
  BY <1>3, <1>7, <1>10, <1>11 DEF ReadAs, t
<1>13. f.payload \in Seq(Byte) /\ Len(f.payload) >= 2
  BY <1>4, <1>5, <1>8, <1>9
<1>14. QED
  BY <1>5, <1>6, <1>12, <1>13 DEF f

\* Damaged, a frame is still of a channel and its payload of bytes.
LEMMA DamagedFrames ==
  ASSUME NEW f, f.channel \in {"control", "video"}, f.payload \in Seq(Byte), Len(f.payload) >= 2,
         f = [channel |-> f.channel, type |-> f.type, flags |-> f.flags, payload |-> f.payload],
         NEW g \in {f} \cup Damaged(f)
  PROVE  g.channel \in {"control", "video"} /\ g.payload \in Seq(Byte)
<1> DEFINE p == f.payload
<1>1. p \in Seq(Byte) /\ Len(p) \in Nat /\ Len(p) >= 2
  OBVIOUS
<1>2. 1 \in Byte
  BY SettingsAssumption DEF Byte
<1> HIDE DEF p
<1>3. /\ Append(p, 1) \in Seq(Byte)
      /\ SubSeq(p, 1, Len(p) - 1) \in Seq(Byte) /\ SubSeq(p, 1, 2) \in Seq(Byte)
  BY <1>1, <1>2
<1>4. \/ g = f \/ g = [f EXCEPT !.flags = 1] \/ g = [f EXCEPT !.type = "unknown"]
      \/ g = [f EXCEPT !.channel = "video"] \/ g = [f EXCEPT !.payload = Append(p, 1)]
      \/ g = [f EXCEPT !.payload = SubSeq(p, 1, Len(p) - 1)]
      \/ g = [f EXCEPT !.payload = SubSeq(p, 1, 2)]
  BY DEF Damaged, p
<1>5. g.payload \in {p, Append(p, 1), SubSeq(p, 1, Len(p) - 1), SubSeq(p, 1, 2)}
  BY <1>4 DEF p
<1>6. g.channel \in {f.channel, "video"}
  BY <1>4
<1>7. QED
  BY <1>1, <1>3, <1>5, <1>6

\* What the two ends say of themselves fits the messages' fields.
LEMMA Greetings ==
  ASSUME config \in Configs, mode \in Modes, version \in Versions
  PROVE  /\ IsMessage(HostHello(EncoderConfig)) /\ IsMessage(HostWelcome(EncoderConfig))
         /\ IsMessage(DeviceHello)
         /\ HostHello(EncoderConfig).type = "HELLO" /\ HostWelcome(EncoderConfig).type = "WELCOME"
<1> DEFINE W2 == Word * Word
<1>1. /\ Base \in Nat /\ Base > 3 /\ Word \in Nat /\ Word > 15
      /\ Place[1] = Base /\ Place[2] = Word /\ Place[4] = W2 /\ W2 \in Nat
  <2>1. Base \in Nat /\ Base > 3
    BY SettingsAssumption, WorkerAssumption
  <2>2. Base * Base > 15
    BY <2>1
  <2>3. QED
    BY <2>1, <2>2, WordFacts, PlaceFacts DEF Word
<1> DEFINE ec == EncoderConfig
<1>2. /\ ec.width \in Nat /\ ec.width < Word /\ ec.height \in Nat /\ ec.height < Word
      /\ ec.fps \in Nat /\ ec.fps < Word
      /\ ec.target_bitrate_kbps \in Nat /\ ec.target_bitrate_kbps < W2
      /\ ec.max_bitrate_kbps \in Nat /\ ec.max_bitrate_kbps < W2
  <2>1. mode.width \in Nat /\ mode.width < Word /\ mode.height \in Nat /\ mode.height < Word
    <3>1. mode.width \in 0..Word-1 /\ mode.height \in 0..Word-1
      BY WorkerAssumption
    <3>2. QED
      BY <1>1, <3>1
  <2>2. /\ config.fps \in 1..MaxFps /\ config.target_bitrate_kbps \in MinBitrate..Ceiling
        /\ config.max_bitrate_kbps \in MinBitrate..Ceiling
    BY DEF Configs
  <2>3. /\ MaxFps \in Nat /\ MinBitrate \in Nat /\ Ceiling \in Nat
        /\ MaxFps < Word /\ Ceiling < Word * Word
    BY SettingsAssumption, WorkerAssumption
  <2>4. W2 \in Nat /\ Ceiling < W2
    BY <1>1, <2>3
  <2> HIDE DEF W2
  <2>5. /\ config.fps \in Nat /\ config.fps < Word
        /\ config.target_bitrate_kbps \in Nat /\ config.target_bitrate_kbps < W2
        /\ config.max_bitrate_kbps \in Nat /\ config.max_bitrate_kbps < W2
    BY <1>1, <2>2, <2>3, <2>4
  <2>6. QED
    BY <2>1, <2>5 DEF EncoderConfig
<1>3. /\ Version \in Nat /\ Version < Word /\ version \in Nat /\ version < Word
      /\ MaxFps \in Nat /\ MaxFps < Word /\ Ceiling \in Nat /\ Ceiling < W2
  BY <1>1, SettingsAssumption, WorkerAssumption
<1> HIDE DEF ec, W2
<1>4. ASSUME NEW v \in Nat, NEW w \in Nat, NEW h \in Nat, NEW b \in Nat, NEW f \in Nat,
             v < Word, w < Word, h < Word, b < W2, f < Word
      PROVE  IsMessage(Message("HELLO",
               [protocol_version |-> v, codec_mask |-> 3, max_width |-> w, max_height |-> h,
                max_bitrate_kbps |-> b, max_fps |-> f, feature_flags |-> 0], <<>>))
  <2> DEFINE n == [protocol_version |-> v, codec_mask |-> 3, max_width |-> w, max_height |-> h,
                   max_bitrate_kbps |-> b, max_fps |-> f, feature_flags |-> 0]
             m == Message("HELLO", n, <<>>)
             N == {"protocol_version", "codec_mask", "max_width", "max_height",
                   "max_bitrate_kbps", "max_fps", "feature_flags"}
  <2>1. HostFields("HELLO") = put_hello
    BY DEF HostFields
  <2>2. Names(put_hello) = N
    BY DEF Names, put_hello
  <2>3. n \in [N -> Nat]
    OBVIOUS
  <2>4. \A i \in DOMAIN put_hello : n[put_hello[i][1]] < Place[put_hello[i][2]]
    <3>1. /\ n["protocol_version"] < Word
          /\ n["codec_mask"] < Base
          /\ n["max_width"] < Word
          /\ n["max_height"] < Word
          /\ n["max_bitrate_kbps"] < W2
          /\ n["max_fps"] < Word
          /\ n["feature_flags"] < Base
      BY <1>1, <1>4
    <3>2. /\ DOMAIN put_hello = 1..7
          /\ put_hello[1] = <<"protocol_version", 2>>
          /\ put_hello[2] = <<"codec_mask", 1>>
          /\ put_hello[3] = <<"max_width", 2>>
          /\ put_hello[4] = <<"max_height", 2>>
          /\ put_hello[5] = <<"max_bitrate_kbps", 4>>
          /\ put_hello[6] = <<"max_fps", 2>>
          /\ put_hello[7] = <<"feature_flags", 1>>
      BY DEF put_hello
    <3> HIDE DEF n
    <3>3. QED
      BY <1>1, <3>1, <3>2
  <2>5. "HELLO" \in ControlTypes
    BY DEF ControlTypes, Announces
  <2> HIDE DEF n
  <2>6. m = [type |-> "HELLO", fields |-> n, rest |-> <<>>]
    BY DEF Message
  <2> HIDE DEF m
  <2>7. IsMessage(m)
    BY <2>1, <2>2, <2>3, <2>4, <2>5, <2>6 DEF IsMessage
  <2>8. QED
    BY <2>7 DEF m, n
<1>5. ASSUME NEW v \in Nat, NEW c \in {1, 2}, NEW w \in Nat, NEW h \in Nat, NEW b \in Nat, NEW f \in Nat,
             v < Word, w < Word, h < Word, b < W2, f < Word
      PROVE  IsMessage(Message("WELCOME",
               [protocol_version |-> v, codec_id |-> c, width |-> w, height |-> h,
                bitrate_kbps |-> b, fps |-> f, session_flags |-> 0], <<>>))
  <2> DEFINE n == [protocol_version |-> v, codec_id |-> c, width |-> w, height |-> h,
                   bitrate_kbps |-> b, fps |-> f, session_flags |-> 0]
             m == Message("WELCOME", n, <<>>)
             N == {"protocol_version", "codec_id", "width", "height",
                   "bitrate_kbps", "fps", "session_flags"}
  <2>1. HostFields("WELCOME") = put_welcome_body
    BY DEF HostFields
  <2>2. Names(put_welcome_body) = N
    BY DEF Names, put_welcome_body
  <2>3. n \in [N -> Nat]
    OBVIOUS
  <2>4. \A i \in DOMAIN put_welcome_body : n[put_welcome_body[i][1]] < Place[put_welcome_body[i][2]]
    <3>1. /\ n["protocol_version"] < Word
          /\ n["codec_id"] < Base
          /\ n["width"] < Word
          /\ n["height"] < Word
          /\ n["bitrate_kbps"] < W2
          /\ n["fps"] < Word
          /\ n["session_flags"] < Base
      BY <1>1, <1>5
    <3>2. /\ DOMAIN put_welcome_body = 1..7
          /\ put_welcome_body[1] = <<"protocol_version", 2>>
          /\ put_welcome_body[2] = <<"codec_id", 1>>
          /\ put_welcome_body[3] = <<"width", 2>>
          /\ put_welcome_body[4] = <<"height", 2>>
          /\ put_welcome_body[5] = <<"bitrate_kbps", 4>>
          /\ put_welcome_body[6] = <<"fps", 2>>
          /\ put_welcome_body[7] = <<"session_flags", 1>>
      BY DEF put_welcome_body
    <3> HIDE DEF n
    <3>3. QED
      BY <1>1, <3>1, <3>2
  <2>5. "WELCOME" \in ControlTypes
    BY DEF ControlTypes, Announces
  <2> HIDE DEF n
  <2>6. m = [type |-> "WELCOME", fields |-> n, rest |-> <<>>]
    BY DEF Message
  <2> HIDE DEF m
  <2>7. IsMessage(m)
    BY <2>1, <2>2, <2>3, <2>4, <2>5, <2>6 DEF IsMessage
  <2>8. QED
    BY <2>7 DEF m, n
<1>6. IsMessage(HostHello(ec))
  BY <1>2, <1>3, <1>4 DEF HostHello
<1>7. IsMessage(HostWelcome(ec))
  <2>1. (IF config.use_hevc THEN 1 ELSE 2) \in {1, 2}
    OBVIOUS
  <2>2. QED
    BY <1>2, <1>3, <1>5, <2>1 DEF HostWelcome
<1>8. IsMessage(DeviceHello)
  BY <1>1, <1>3, <1>4 DEF DeviceHello
<1>9. HostHello(ec).type = "HELLO" /\ HostWelcome(ec).type = "WELCOME"
  BY DEF HostHello, HostWelcome, Message
<1>10. QED
  BY <1>6, <1>7, <1>8, <1>9 DEF ec

-------------------------------------------------------------------------------
(* What is on its way is a message as it was written, and a WELCOME on its  *)
(* way, or shown, is this session's.                                        *)

Written ==
  wire # NoWire =>
    /\ wire.to \in {"host", "device"} /\ IsMessage(wire.message)
    /\ wire.frame = HostEncode(wire.message)
    /\ wire.to = "device" /\ wire.message.type = "WELCOME" =>
         wire.message = HostWelcome(EncoderConfig)

Negotiated == shown # NothingShown => shown = HostWelcome(EncoderConfig).fields

\* The encoder is set up with the rates of the configuration.
Encoding ==
  encoder # NoEncoder =>
    /\ encoder.fps = config.fps
    /\ encoder.target_bitrate_kbps = config.target_bitrate_kbps
    /\ encoder.max_bitrate_kbps = config.max_bitrate_kbps

Meaning == mode \in Modes /\ version \in Versions /\ Written /\ Negotiated /\ Encoding

\* The configuration is read once.
LEMMA ConfigStays == Client \/ Service \/ World \/ TunnelClose => config' = config
BY DEF Client, RecvExact, WaitConnectFails, Listen, WaitFails, DeviceFound, SkipPacket,
       ConnectFails, Connect, ConnectGetsNothing, ConnectRefused, Connected, TunnelRecv, Retry,
       Service, AnswerListen, AnnounceAttached, AnnounceDetached, AnswerConnect, AppSends,
       World, AnswerOddly, ServiceStops, ServiceStarts, Attach, Detach, AppChanges,
       TunnelClose, clientVars

LEMMA ReadAsMeant ==
  ASSUME NEW m, IsMessage(m), ReadAs(m).type = "WELCOME"
  PROVE  m.type = "WELCOME" /\ ReadAs(m).fields = m.fields
<1>1. ReadAs(m) = Meant(m)
  BY DEF ReadAs, Err
<1>2. m = [type |-> m.type, fields |-> m.fields, rest |-> m.rest]
  BY DEF IsMessage
<1> DEFINE t == m.type
           a == m.fields
           b == m.rest
           n == Numbers(m)
           r == Text(m)
<1>3. m = [type |-> t, fields |-> a, rest |-> b] /\ Meant(m) = [m EXCEPT !.fields = n, !.rest = r]
  BY <1>2 DEF Meant
<1>4. t \notin Reasons => n = a
  BY DEF Numbers
<1> HIDE DEF t, a, b, n, r
<1>5. Meant(m) = [type |-> t, fields |-> n, rest |-> r]
  BY <1>3, Replaced
<1>6. t = "WELCOME"
  BY <1>1, <1>5
<1>7. n = a
  BY <1>4, <1>6 DEF Reasons
<1>8. QED
  BY <1>1, <1>5, <1>6, <1>7 DEF t, a

LEMMA MeaningInit == Init => Meaning
BY DEF Init, Meaning, Written, Negotiated, Encoding

LEMMA MeaningNext == Inv /\ Meaning /\ [Next]_vars => Meaning'
<1> SUFFICES ASSUME Inv, Meaning, [Next]_vars PROVE Meaning'
  OBVIOUS
<1>0. config \in Configs /\ mode \in Modes /\ version \in Versions
  BY DEF Inv, Types, Meaning
<1> DEFINE hello == HostHello(EncoderConfig)
           welcome == HostWelcome(EncoderConfig)
<1>1. /\ IsMessage(hello) /\ IsMessage(welcome) /\ IsMessage(DeviceHello)
      /\ hello.type = "HELLO"
  BY <1>0, Greetings
<1>2. ASSUME config' = config, mode' = mode PROVE HostWelcome(EncoderConfig)' = welcome
  BY <1>2 DEF HostWelcome, EncoderConfig
<1>3. ASSUME UNCHANGED <<config, mode, version>>,
             \/ wire' = NoWire
             \/ wire' = wire
             \/ \E m, to : /\ Write(to, m, HostEncode(m)) /\ IsMessage(m) /\ to \in {"host", "device"}
                           /\ to = "device" /\ m.type = "WELCOME" => m = welcome,
             shown' = shown \/ shown' = welcome.fields,
             encoder' = encoder \/ Encoding'
      PROVE  Meaning'
  <2>1. HostWelcome(EncoderConfig)' = welcome
    BY <1>2, <1>3
  <2> HIDE DEF welcome, hello
  <2>2. Negotiated'
    BY <1>3, <2>1 DEF Meaning, Negotiated, welcome, NothingShown
  <2>3. Written'
    <3>1. CASE wire' = NoWire
      BY <3>1 DEF Written, NoWire
    <3>2. CASE wire' = wire
      BY <2>1, <3>2 DEF Written, Meaning, NoWire, welcome, IsMessage
    <3>3. CASE \E m, to : /\ Write(to, m, HostEncode(m)) /\ IsMessage(m) /\ to \in {"host", "device"}
                          /\ to = "device" /\ m.type = "WELCOME" => m = welcome
      <4>1. PICK m, to : /\ Write(to, m, HostEncode(m)) /\ IsMessage(m) /\ to \in {"host", "device"}
                         /\ to = "device" /\ m.type = "WELCOME" => m = welcome
        BY <3>3
      <4>2. wire'.to = to /\ wire'.message = m /\ wire'.frame = HostEncode(m)
        BY <4>1 DEF Write
      <4>3. QED
        BY <2>1, <4>1, <4>2 DEF Written
    <3>4. QED
      BY <1>3, <3>1, <3>2, <3>3
  <2>4. Encoding'
    BY <1>3 DEF Meaning, Encoding
  <2>5. QED
    BY <1>0, <1>3, <2>2, <2>3, <2>4 DEF Meaning
<1>4. CASE UNCHANGED vars
  BY <1>3, <1>4 DEF vars, sessionVars, muxVars, clientVars
<1>5. CASE HostWrites
  <2>1. PICK m \in {hello, welcome} \cup Samples : Write("device", m, HostEncode(m))
    BY <1>5 DEF HostWrites
  <2>2. IsMessage(m) /\ (m.type = "WELCOME" => m = welcome)
    BY <1>1, <2>1, WorkerAssumption
  <2>3. UNCHANGED <<config, mode, version, shown, encoder>>
    BY <1>5 DEF HostWrites, muxVars, clientVars
  <2>4. QED
    BY <1>3, <2>1, <2>2, <2>3
<1>6. CASE DeviceWrites
  <2>1. PICK m \in {DeviceHello} \cup Samples : Write("host", m, DeviceEncode(m))
    BY <1>6 DEF DeviceWrites
  <2>2. IsMessage(m)
    BY <1>1, <2>1, WorkerAssumption
  <2>3. Write("host", m, HostEncode(m))
    BY <2>1, <2>2, ReadBack
  <2>4. UNCHANGED <<config, mode, version, shown, encoder>>
    BY <1>6 DEF DeviceWrites, muxVars, clientVars
  <2>5. QED
    BY <1>3, <2>2, <2>3, <2>4
<1>7. CASE DeviceReads
  <2> DEFINE m == wire.message
             d == DeviceDecode(wire.frame)
  <2>1. wire # NoWire
    BY <1>7 DEF DeviceReads, NoWire
  <2>2. /\ IsMessage(m) /\ wire.frame = HostEncode(m)
        /\ m.type = "WELCOME" => m = welcome
    BY <1>7, <2>1 DEF DeviceReads, Meaning, Written
  <2>3. d = ReadAs(m)
    <3>1. /\ HostEncode(m).channel \in {"control", "video"} /\ HostEncode(m).payload \in Seq(Byte)
          /\ HostDecode(HostEncode(m)) = ReadAs(m)
      BY <2>2, ReadBack
    <3>2. DeviceDecode(HostEncode(m)) = HostDecode(HostEncode(m))
      BY <3>1, DecodeAlike
    <3>3. QED
      BY <2>2, <3>1, <3>2
  <2>4. d.type = "WELCOME" => d.fields = welcome.fields
    <3> HIDE DEF m, d, welcome
    <3>1. QED
      BY <2>2, <2>3, ReadAsMeant
  <2>5. shown' = IF d.type = "WELCOME" THEN d.fields ELSE shown
    BY <1>7 DEF DeviceReads
  <2>6. UNCHANGED <<config, mode, version, encoder>> /\ wire' = NoWire
    BY <1>7 DEF DeviceReads, muxVars, clientVars
  <2> HIDE DEF m, d, welcome
  <2>7. shown' = shown \/ shown' = welcome.fields
    BY <2>4, <2>5
  <2>8. QED
    BY <1>3, <2>6, <2>7 DEF welcome
<1>8. CASE DeviceRejects \/ HostReads
  <2>1. UNCHANGED <<config, mode, version, shown, encoder>> /\ wire' = NoWire
    BY <1>8 DEF DeviceRejects, HostReads, muxVars, clientVars
  <2>2. QED
    BY <1>3, <2>1
<1>9. CASE SessionEnds \/ HostDisconnects
  <2>1. SessionEnds
    BY <1>9 DEF HostDisconnects
  <2>2. /\ wire' = NoWire /\ shown' = NothingShown /\ encoder' = NoEncoder
        /\ version' \in Versions /\ mode' = mode
    BY <2>1 DEF SessionEnds
  <2>3. QED
    BY <1>0, <2>2 DEF Meaning, Written, Negotiated, Encoding, NoWire, NothingShown
<1>10. CASE (Client \/ Service \/ World) /\ UNCHANGED sessionVars
  BY <1>3, <1>10, ConfigStays DEF sessionVars
<1>11. CASE FirstFrame
  <2>1. UNCHANGED <<config, mode, version, wire, shown>>
    BY <1>11 DEF FirstFrame, muxVars, clientVars
  <2>2. PICK size : encoder' = [EncoderConfig EXCEPT !.width = size.width, !.height = size.height]
    BY <1>11 DEF FirstFrame
  <2>3. Encoding'
    BY <2>1, <2>2 DEF Encoding, EncoderConfig
  <2>4. QED
    BY <1>3, <2>1, <2>3
<1>12. QED
  BY <1>4, <1>5, <1>6, <1>7, <1>8, <1>9, <1>10, <1>11 DEF Next, Session

LEMMA MeaningSuffices == Inv /\ Meaning => Understood
<1> SUFFICES ASSUME Inv, Meaning PROVE Understood
  OBVIOUS
<1>1. ReadAsWritten
  <2> SUFFICES ASSUME wire # NoWire
               PROVE  LET m == wire.message
                      IN  /\ DeviceDecode(wire.frame) = ReadAs(m)
                          /\ \A f \in {wire.frame} \cup Damaged(wire.frame) :
                               HostDecode(f) = DeviceDecode(f)
    BY DEF ReadAsWritten, ReadAs
  <2> DEFINE m == wire.message
             g == wire.frame
  <2>1. IsMessage(m) /\ g = HostEncode(m)
    BY DEF Meaning, Written
  <2> HIDE DEF m, g
  <2>2. /\ g.channel \in {"control", "video"} /\ g.payload \in Seq(Byte) /\ Len(g.payload) >= 2
        /\ HostDecode(g) = ReadAs(m)
    BY <2>1, ReadBack
  <2>3. g = [channel |-> g.channel, type |-> g.type, flags |-> g.flags, payload |-> g.payload]
    BY <2>1 DEF HostEncode, Frame
  <2>4. ASSUME NEW f \in {g} \cup Damaged(g) PROVE HostDecode(f) = DeviceDecode(f)
    <3>1. f.channel \in {"control", "video"} /\ f.payload \in Seq(Byte)
      BY <2>2, <2>3, DamagedFrames
    <3>2. QED
      BY <3>1, DecodeAlike
  <2>5. DeviceDecode(g) = ReadAs(m)
    BY <2>2, <2>4
  <2>6. QED
    BY <2>4, <2>5 DEF m, g
<1>2. RatesAreEncoded
  <2> SUFFICES ASSUME shown # NothingShown, encoder # NoEncoder
               PROVE  LET plan == PlanRateControl(encoder)
                      IN  /\ shown.fps = encoder.fps /\ shown.fps \in 1..MaxFps
                          /\ shown.bitrate_kbps = plan.average
                          /\ plan.average >= MinBitrate /\ plan.max <= Ceiling
    BY DEF RatesAreEncoded
  <2>1. /\ config.fps \in 1..MaxFps /\ config.target_bitrate_kbps \in MinBitrate..Ceiling
        /\ config.max_bitrate_kbps \in MinBitrate..Ceiling
        /\ config.target_bitrate_kbps <= config.max_bitrate_kbps
    BY DEF Inv, Types, Configs
  <2>2. shown.fps = config.fps /\ shown.bitrate_kbps = config.target_bitrate_kbps
    BY DEF Meaning, Negotiated, HostWelcome, Message, EncoderConfig
  <2> DEFINE target == config.target_bitrate_kbps
             max == config.max_bitrate_kbps
             plan == PlanRateControl(encoder)
  <2>3. /\ encoder.fps = config.fps
        /\ encoder.target_bitrate_kbps = target /\ encoder.max_bitrate_kbps = max
    BY DEF Meaning, Encoding
  <2>4. /\ target \in Int /\ max \in Int /\ Ceiling \in Nat /\ MinBitrate \in Nat
        /\ target <= max /\ max <= Ceiling /\ MinBitrate <= target
    BY <2>1, SettingsAssumption
  <2> HIDE DEF target, max
  <2>5. plan.average = target /\ plan.max = max
    BY <2>3, <2>4 DEF PlanRateControl
  <2> HIDE DEF plan
  <2>6. QED
    BY <2>1, <2>2, <2>3, <2>4, <2>5 DEF target, plan
<1>3. QED
  BY <1>1, <1>2 DEF Understood

\* The two codecs, written by hand in two languages, agree on every message,
\* whole or damaged, and a message is read as it was meant, cut reasons with
\* their length included; and the frame rate and the bitrate that the iPad shows
\* are those of the host's encoder, whatever its size, within the limits of the
\* configuration (wire.cpp, WireProtocol.swift, config.cpp, rate_control.cpp).
THEOREM EndsUnderstand == Spec => []Understood
<1>1. Inv /\ Meaning /\ [Next]_vars => Meaning'
  BY MeaningNext
<1>2. Inv /\ Meaning => Understood
  BY MeaningSuffices
<1>3. QED
  BY MeaningInit, <1>1, <1>2, Invariance, PTL DEF Spec
===============================================================================
