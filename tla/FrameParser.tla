------------------------------ MODULE FrameParser ------------------------------
(***************************************************************************)
(* The incremental frame parser of the wire protocol (FrameParser in       *)
(* windows-host/transport/protocol/src/wire.cpp; the iPad's is the same    *)
(* algorithm) between a sender that frames messages and a caller that      *)
(* feeds whatever chunks the transport yields and drains the frames.       *)
(*                                                                         *)
(* A byte is a digit below Base.  The length prefix has LenBytes digits,   *)
(* least significant first, and counts the channel, type and flags bytes   *)
(* and the payload, as in the code (4 bytes of base 256 there).            *)
(***************************************************************************)
EXTENDS Naturals, Sequences, SequencesExt

CONSTANTS
  Base,        \* values of a byte (256 in the code)
  LenBytes,    \* bytes of the length prefix (4)
  MaxPayload,  \* kMaxPayload (16 MiB)
  Threshold,   \* read_pos_ beyond which feed compacts (64 KiB)
  MaxChunk,    \* bound: bytes of one feed
  MaxFrames,   \* bound: frames the sender sends
  Payloads,    \* payloads the sender sends
  BadFrames    \* ill-formed byte sequences the sender may send

Channels == {0, 1}
HardErrors == {"BadField", "OversizedMessage", "UnknownChannel"}

ASSUME ParserAssumption ==
  /\ Base \in Nat /\ Base > 2
  /\ LenBytes \in Nat \ {0}
  /\ MaxPayload \in Nat
  /\ Threshold \in Nat
  /\ MaxChunk \in Nat \ {0}
  /\ MaxFrames \in Nat
  /\ Payloads \subseteq UNION {[1..n -> 0..Base-1] : n \in 0..MaxPayload}
  /\ BadFrames \subseteq Seq(0..Base-1)

VARIABLES
  sent,     \* history: what the sender has framed, good or bad, in order
  pipe,     \* bytes under way
  buf,      \* buf_
  readPos,  \* read_pos_
  frames,   \* the frames next() has returned so far
  err       \* what next() last reported

vars == <<sent, pipe, buf, readPos, frames, err>>

-------------------------------------------------------------------------------
(* The encoding (encode_frame, ByteWriter::u32).                            *)

\* What a digit counts for that follows i others.
Place[i \in 0..LenBytes] == IF i = 0 THEN 1 ELSE Base * Place[i - 1]

ASSUME LengthAssumption == MaxPayload + 3 < Place[LenBytes]

LittleEndian(n) == [i \in 1..LenBytes |-> (n \div Place[i - 1]) % Base]

Encode(f) == LittleEndian(3 + Len(f.payload)) \o <<f.channel, f.type, 0>> \o f.payload

\* The bytes of what was sent: a frame, or a bad byte sequence.
BytesOf(x) == IF x.good THEN Encode(x.frame) ELSE x.bytes

GoodFrames ==
  {[channel |-> c, type |-> 1, payload |-> p] : c \in Channels, p \in Payloads}

Sendable ==
  {[good |-> TRUE, frame |-> f] : f \in GoodFrames}
    \cup {[good |-> FALSE, bytes |-> b] : b \in BadFrames}

-------------------------------------------------------------------------------
Init ==
  /\ sent = <<>>
  /\ pipe = <<>>
  /\ buf = <<>>
  /\ readPos = 0
  /\ frames = <<>>
  /\ err = "NeedMoreData"

SendFrame ==
  /\ Len(sent) < MaxFrames
  /\ \E x \in Sendable :
       /\ sent' = Append(sent, x)
       /\ pipe' = pipe \o BytesOf(x)
  /\ UNCHANGED <<buf, readPos, frames, err>>

Unread == SubSeq(buf, readPos + 1, Len(buf))

\* What feed's compaction makes of buf_ and read_pos_.
\* Mutated forms: the consumed bytes are never dropped; read_pos_ is not reset;
\* the unread bytes are dropped as well.
NeverCompact == <<buf, readPos>>

CompactKeepsPos ==
  IF readPos > 0 /\ readPos = Len(buf)
  THEN <<(<<>>), 0>>
  ELSE IF readPos > Threshold THEN <<Unread, readPos>> ELSE <<buf, readPos>>

CompactDropsUnread ==
  IF readPos > Threshold \/ readPos = Len(buf) THEN <<(<<>>), 0>> ELSE <<buf, readPos>>

Compact ==
  IF readPos > 0 /\ readPos = Len(buf)
  THEN <<(<<>>), 0>>
  ELSE IF readPos > Threshold THEN <<Unread, 0>> ELSE <<buf, readPos>>

\* The caller feeds a chunk once next() has nothing more to give: it needs more
\* data, or it failed for good (a caller that goes on all the same).
Feed ==
  /\ err # "Ok"
  /\ \E n \in 1..MaxChunk :
       /\ n <= Len(pipe)
       /\ buf' = Compact[1] \o SubSeq(pipe, 1, n)
       /\ pipe' = SubSeq(pipe, n + 1, Len(pipe))
  /\ readPos' = Compact[2]
  /\ err' = IF err = "NeedMoreData" THEN "Ok" ELSE err
  /\ UNCHANGED <<sent, frames>>

\* The value of the length prefix at the start of b.
Length(b) ==
  LET digits[i \in 0..LenBytes] ==
        IF i = 0 THEN 0 ELSE digits[i - 1] + b[i] * Place[i - 1]
  IN  digits[LenBytes]

\* What next() reports on the unread bytes b, when it wants `more' bytes past
\* the frame and no payload above max; the order of the tests matters.
Report(b, more, max) ==
  IF Len(b) < LenBytes THEN "NeedMoreData"
  ELSE IF Length(b) < 3 THEN "BadField"
  ELSE IF Length(b) - 3 > max THEN "OversizedMessage"
  ELSE IF Len(b) < LenBytes + Length(b) + more THEN "NeedMoreData"
  ELSE IF b[LenBytes + 1] \notin Channels THEN "UnknownChannel"
  ELSE "Ok"

\* Mutated forms: one byte too many is awaited; the largest payload is rejected.
ErrorOfLate(b) == Report(b, 1, MaxPayload)

ErrorOfStrict(b) == Report(b, 0, MaxPayload - 1)

ErrorOf(b) == Report(b, 0, MaxPayload)

\* Ill-formed, and complete: no byte that follows could make a frame of it.
ASSUME BadFramesAssumption == \A b \in BadFrames : Report(b, 0, MaxPayload) \in HardErrors

FrameOf(b) ==
  [channel |-> b[LenBytes + 1],
   type |-> b[LenBytes + 2],
   payload |-> SubSeq(b, LenBytes + 4, LenBytes + Length(b))]

\* next(), which the caller calls again while it yields frames; a frame that is
\* reported with an error in `skipped' is consumed.
Take(skipped) ==
  LET e == ErrorOf(Unread) IN
  /\ err \in {"Ok"} \cup HardErrors
  /\ err' = e
  /\ frames' = IF e = "Ok" THEN Append(frames, FrameOf(Unread)) ELSE frames
  /\ readPos' = IF e \in {"Ok"} \cup skipped THEN readPos + LenBytes + Length(Unread) ELSE readPos
  /\ UNCHANGED <<sent, pipe, buf>>

\* Mutated form: a frame on an unknown channel is skipped.
NextSkipsBad == Take({"UnknownChannel"})

NextFrame == Take({})

Next == SendFrame \/ Feed \/ NextFrame

Spec == Init /\ [][Next]_vars

\* The transport delivers and the caller drains.
FairSpec == Spec /\ WF_vars(Feed) /\ WF_vars(NextFrame)

-------------------------------------------------------------------------------
(* Properties.                                                              *)

\* read_pos_ stays inside the buffer.
TypeOK ==
  /\ sent \in Seq(Sendable)
  /\ pipe \in Seq(0..Base-1)
  /\ buf \in Seq(0..Base-1)
  /\ readPos \in 0..Len(buf)
  /\ frames \in Seq(GoodFrames)
  /\ err \in {"Ok", "NeedMoreData"} \cup HardErrors

\* The bytes of everything sent after the first n.
BytesAfter(n) == FlattenSeq([i \in 1..(Len(sent) - n) |-> BytesOf(sent[n + i])])

\* Whatever the chunks and wherever feed compacts, the frames returned are the
\* ones sent, in order, each once, and the bytes not consumed are exactly the
\* encoding of the rest.
FramesAreThoseSent ==
  /\ Len(frames) <= Len(sent)
  /\ \A i \in DOMAIN frames : sent[i].good /\ frames[i] = sent[i].frame
  /\ Unread \o pipe = BytesAfter(Len(frames))

\* NeedMoreData is never reported while a whole frame is in the buffer: with
\* nothing under way, everything up to the first bad frame has been returned,
\* and no bad frame is passed over (bad frames here are complete).
NothingWithheld ==
  err = "NeedMoreData" /\ pipe = <<>> => Len(frames) = Len(sent)

\* feed compacts "so the buffer can't grow unbounded as frames are consumed":
\* while the caller drains, one frame, one chunk and the threshold bound it.
BufferBounded ==
  err \notin HardErrors => Len(buf) <= Threshold + LenBytes + 3 + MaxPayload + MaxChunk

\* A hard error is terminal (wire.hpp): later calls report the same error, also
\* after more data was fed.
HardErrorIsTerminal ==
  [][(err \in HardErrors) => (err' = err /\ frames' = frames)]_vars

\* Every good frame with nothing bad before it is returned.
EveryFrameReturned ==
  \A n \in 1..MaxFrames :
    (Len(sent) >= n /\ \A i \in 1..Len(sent) : i <= n => sent[i].good) ~> Len(frames) >= n
===============================================================================
