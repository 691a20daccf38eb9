---------------------------- MODULE VideoPathProofs ----------------------------
(***************************************************************************)
(* Theorems about VideoPath, for any sizes and bounds.                     *)
(***************************************************************************)
EXTENDS VideoPath, Integers, SequenceTheorems, TLAPS

Drawn == [size : Sizes, picture : 0..MaxPictures]

Packets == [kind : {"packet"}, session : Nat, n : Nat \ {0}, key : BOOLEAN, texture : Drawn]

Shows == [kind : {"show"}, texture : Drawn \cup {Broken}]

IsPacket(i) == tasks[i].kind = "packet"

\* Nothing but the frame numbered encoded + 1 - Len(wire) is received next.
Received == encoded - Len(wire)

DisplayOK ==
  /\ screen \in Drawn
  /\ up \in BOOLEAN
  /\ session \in Nat

CaptureOK ==
  /\ pool \in Seq([size : Sizes, surface : Drawn])
  /\ Len(pool) <= 2
  /\ \A i \in DOMAIN pool : pool[i].surface.size = poolSize
  /\ up => poolSize \in Sizes
  /\ ~up => pool = <<>>
  /\ delivery \in Drawn \cup {NoTexture}
  /\ delivery = NoTexture \/ delivery.size = deliverySize

EncoderOK ==
  /\ input \in Drawn \cup {NoTexture}
  /\ encoded \in Nat
  /\ forceIdr \in BOOLEAN

GlassOK == pending \in Textures /\ shown \in Textures

DecoderOK ==
  /\ fmt \in Sizes \cup {NoSize}
  /\ vt \in {NoSize, Dead, fmt}
  /\ spoiled \subseteq {"capture", "picture", "reference"}

QueueOK ==
  /\ wire \in Seq(Packets)
  /\ tasks \in Seq(Packets \cup Shows)
  /\ ~up => wire = <<>>
  /\ \A i \in DOMAIN wire : wire[i].session = session /\ wire[i].texture.size = input.size
  /\ \A i \in DOMAIN tasks :
       IsPacket(i) => tasks[i].session = session /\ (up => tasks[i].texture.size = input.size)
  /\ \A i, j \in DOMAIN tasks :
       IsPacket(i) /\ IsPacket(j) => tasks[i].texture.size = tasks[j].texture.size
  /\ \A i \in DOMAIN wire : wire[i].n = 1 => wire[i].key
  /\ \A i \in DOMAIN tasks : IsPacket(i) /\ tasks[i].n = 1 => tasks[i].key
  /\ up /\ input = NoTexture => encoded = 0 /\ wire = <<>> /\ \A i \in DOMAIN tasks : ~IsPacket(i)

Types == DisplayOK /\ CaptureOK /\ EncoderOK /\ GlassOK /\ DecoderOK /\ QueueOK

\* The packet numbered n can be decoded next: it is the first of its session,
\* or the decoder holds the one before it and the format of both.
Ready(n, size) == n = 1 \/ (ref = [session |-> session, n |-> n - 1] /\ fmt = size)

FirstReady ==
  \A i \in DOMAIN tasks :
    IsPacket(i) /\ (\A j \in 1..i-1 : ~IsPacket(j)) => Ready(tasks[i].n, tasks[i].texture.size)

Consecutive ==
  \A i, j \in DOMAIN tasks :
    i < j /\ IsPacket(i) /\ IsPacket(j) /\ (\A k \in i+1..j-1 : ~IsPacket(k))
      => tasks[j].n = tasks[i].n + 1

\* What is on the wire goes on where the tasks end.
WireFollows ==
  up =>
    /\ \A i \in DOMAIN wire : wire[i].n = Received + i
    /\ Received \in Nat
    /\ \A i \in DOMAIN tasks :
         IsPacket(i) /\ (\A j \in i+1..Len(tasks) : ~IsPacket(j)) => tasks[i].n = Received
    /\ (\A i \in DOMAIN tasks : ~IsPacket(i)) => Ready(Received + 1, input.size)

NothingBroken == \A i \in DOMAIN tasks : ~IsPacket(i) => tasks[i].texture # Broken

Sound == vt # Dead /\ FirstReady /\ Consecutive /\ WireFollows /\ NothingBroken

Inv == Types /\ ("reference" \notin spoiled => Sound)

-------------------------------------------------------------------------------

LEMMA TextureTypes ==
  /\ \A s \in Sizes : Blank(s) \in Drawn /\ Blank(s).size = s
  /\ \A t \in Drawn : t # NoTexture /\ t # Broken /\ t.size \in Sizes
  /\ Drawn \cup {NoTexture} \subseteq Textures
  /\ Broken \in Textures
BY VideoAssumption DEF Blank, Texture, Drawn, Broken, Textures

LEMMA CopyKeepsSize ==
  ASSUME NEW a \in Drawn, NEW b \in Drawn
  PROVE  CopyResource(a, b) \in Drawn /\ CopyResource(a, b).size = a.size
BY DEF CopyResource, Drawn

LEMMA InvInit == Init => Inv
<1> SUFFICES ASSUME Init PROVE Inv
  OBVIOUS
<1>1. DisplayOK
  <2>1. \A s \in Sizes : Texture(s, 1) \in Drawn
    BY VideoAssumption DEF Texture, Drawn
  <2>2. QED
    BY <2>1 DEF Init, DisplayOK
<1>2. CaptureOK /\ EncoderOK /\ DecoderOK
  BY DEF Init, CaptureOK, EncoderOK, DecoderOK
<1>3. GlassOK
  BY TextureTypes DEF Init, GlassOK
<1>4. QueueOK
  BY DEF Init, QueueOK
<1>5. Sound
  BY VideoAssumption DEF Init, Sound, FirstReady, Consecutive, WireFollows, NothingBroken
<1>6. QED
  BY <1>1, <1>2, <1>3, <1>4, <1>5 DEF Inv, Types

\* The next packet of the session.
NextPacket(p) ==
  /\ p.session = session
  /\ p.n = encoded + 1
  /\ p.n = 1 => p.key
  /\ p.texture.size = input'.size

\* What OnFrame makes of the encoder and the wire.
Grows(outcome) ==
  /\ input' \in Drawn \cup {NoTexture}
  /\ forceIdr' \in BOOLEAN
  /\ input # NoTexture => input' \in Drawn /\ input'.size = input.size
  /\ \/ UNCHANGED <<encoded, wire>>
     \/ /\ outcome = "no_lock"
        /\ input' \in Drawn
        /\ encoded' = encoded + 1
        /\ wire' = wire
     \/ /\ input' \in Drawn
        /\ encoded' = encoded + 1
        /\ \E p \in Packets : wire' = Append(wire, p) /\ NextPacket(p)

LEMMA EncodeGrows ==
  ASSUME Types, NEW texture \in Drawn, NEW outcome, Encode(texture, outcome)
  PROVE  Grows(outcome)
<1> DEFINE own == IF input = NoTexture THEN Blank(texture.size) ELSE input
           first == forceIdr \/ encoded = 0
           p == [kind |-> "packet", session |-> session, n |-> encoded + 1,
                 key |-> first, texture |-> CopyResource(own, texture)]
<1>1. own \in Drawn /\ (input # NoTexture => own = input)
  BY TextureTypes DEF Types, EncoderOK
<1>2. CopyResource(own, texture) \in Drawn /\ CopyResource(own, texture).size = own.size
  <2> HIDE DEF own
  <2>1. QED
    BY <1>1, CopyKeepsSize
<1>3. /\ input' = CopyResource(own, texture)
      /\ forceIdr' = FALSE
      /\ encoded' = IF outcome = "no_encode" THEN encoded ELSE encoded + 1
      /\ wire' = IF outcome \in {"no_encode", "no_lock"} THEN wire ELSE Append(wire, p)
  BY DEF Encode
<1>4. p \in Packets /\ NextPacket(p)
  <2>1. encoded \in Nat /\ session \in Nat /\ forceIdr \in BOOLEAN
    BY DEF Types, EncoderOK, DisplayOK
  <2>2. p.n = 1 => p.key
    <3>1. encoded + 1 = 1 => encoded = 0
      BY <2>1
    <3>2. encoded + 1 = 1 => first
      BY <3>1
    <3> HIDE DEF first
    <3>3. p.n = encoded + 1 /\ p.key = first
      OBVIOUS
    <3> HIDE DEF p
    <3>4. QED
      BY <3>2, <3>3, Zenon
  <2>3. p.texture \in Drawn /\ p.texture.size = input'.size
    <3> HIDE DEF own
    <3>1. QED
      BY <1>2, <1>3, <2>1
  <2>4. p.session = session /\ p.n = encoded + 1 /\ encoded + 1 \in Nat \ {0}
    BY <2>1
  <2>5. NextPacket(p)
    <3> HIDE DEF p
    <3>1. QED
      BY <2>2, <2>3, <2>4 DEF NextPacket
  <2>6. p \in Packets
    <3> DEFINE x == CopyResource(own, texture)
    <3>1. first \in BOOLEAN /\ x \in Drawn
      BY <1>2
    <3> HIDE DEF first, x
    <3>2. p = [kind |-> "packet", session |-> session, n |-> encoded + 1, key |-> first, texture |-> x]
      BY DEF x
    <3> HIDE DEF p
    <3>3. QED
      BY <2>1, <2>4, <3>1, <3>2 DEF Packets
  <2>7. QED
    BY <2>5, <2>6
<1> HIDE DEF own, first, p
<1>5. QED
  BY <1>1, <1>2, <1>3, <1>4 DEF Grows

LEMMA DeliverGrows ==
  ASSUME Types, NEW texture \in Drawn \cup {NoTexture}, NEW surface \in Drawn, NEW outcome,
         Deliver(texture, surface, outcome)
  PROVE  /\ Grows(outcome)
         /\ delivery' \in Drawn \cup {NoTexture}
         /\ delivery' = NoTexture \/ (texture \in Drawn /\ delivery'.size = texture.size)
<1>1. CASE texture = NoTexture
  BY <1>1 DEF Deliver, Grows, Types, EncoderOK
<1>2. CASE texture # NoTexture
  <2>1. delivery' = CopyResource(texture, surface) /\ Encode(delivery', outcome) /\ texture \in Drawn
    BY <1>2 DEF Deliver
  <2>2. delivery' \in Drawn /\ delivery'.size = texture.size
    BY <2>1, CopyKeepsSize
  <2>3. QED
    BY <2>1, <2>2, EncodeGrows
<1>3. QED
  BY <1>1, <1>2

\* The queue and its order, when the encoder and the wire grow.
LEMMA GrowsQueue ==
  ASSUME Types, up, NEW outcome, Grows(outcome), UNCHANGED <<up, session, tasks>>
  PROVE  QueueOK' /\ EncoderOK'
<1> USE DEF Types
<1>1. EncoderOK'
  BY DEF Grows, EncoderOK
<1> SUFFICES QueueOK'
  BY <1>1
<1>2. CASE UNCHANGED <<encoded, wire>>
  <2>1. input = NoTexture => wire = <<>> /\ encoded = 0 /\ \A i \in DOMAIN tasks : ~IsPacket(i)
    BY DEF QueueOK
  <2>2. CASE input = NoTexture
    BY <1>2, <2>1, <2>2 DEF QueueOK, IsPacket
  <2>3. CASE input # NoTexture
    <3>1. input' # NoTexture /\ input'.size = input.size
      BY <2>3, TextureTypes DEF Grows
    <3>2. QED
      BY <1>2, <3>1 DEF QueueOK, IsPacket
  <2>4. QED
    BY <2>2, <2>3
<1>3. CASE input' \in Drawn /\ wire' = wire
  <2>1. input' # NoTexture
    BY <1>3, TextureTypes
  <2>2. CASE input = NoTexture
    BY <1>3, <2>1, <2>2 DEF QueueOK, IsPacket
  <2>3. CASE input # NoTexture
    <3>1. input'.size = input.size
      BY <2>3 DEF Grows
    <3>2. QED
      BY <1>3, <2>1, <3>1 DEF QueueOK, IsPacket
  <2>4. QED
    BY <2>2, <2>3
<1>4. ASSUME NEW p \in Packets, wire' = Append(wire, p), NextPacket(p), input' \in Drawn
      PROVE  QueueOK'
  <2>0. wire \in Seq(Packets)
    BY DEF QueueOK
  <2>1. wire' \in Seq(Packets) /\ input' # NoTexture
    BY <1>4, <2>0, TextureTypes
  <2>2. \A i \in DOMAIN wire' : (i \in DOMAIN wire /\ wire'[i] = wire[i]) \/ wire'[i] = p
    BY <1>4, <2>0
  <2>3. /\ \A i \in DOMAIN wire : wire[i].texture.size = input'.size
        /\ \A i \in DOMAIN tasks : IsPacket(i) => tasks[i].texture.size = input'.size
    <3>1. CASE input = NoTexture
      BY <3>1 DEF QueueOK
    <3>2. CASE input # NoTexture
      <4>1. input'.size = input.size
        BY <3>2 DEF Grows
      <4>2. QED
        BY <4>1 DEF QueueOK
    <3>3. QED
      BY <3>1, <3>2
  <2>4. \A i \in DOMAIN wire' :
          /\ wire'[i].session = session
          /\ wire'[i].texture.size = input'.size
          /\ wire'[i].n = 1 => wire'[i].key
    BY <1>4, <2>2, <2>3 DEF QueueOK, NextPacket
  <2>5. QED
    BY <2>1, <2>3, <2>4 DEF QueueOK, IsPacket
<1>5. QED
  BY <1>2, <1>3, <1>4 DEF Grows

LEMMA GrowsSound ==
  ASSUME Types, Sound, up, NEW outcome, Grows(outcome), outcome # "no_lock",
         UNCHANGED <<up, session, tasks, fmt, vt, ref>>
  PROVE  Sound'
<1> USE DEF Types
<1>1. vt' # Dead /\ FirstReady' /\ Consecutive' /\ NothingBroken'
  BY DEF Sound, FirstReady, Consecutive, NothingBroken, IsPacket, Ready
<1>2. CASE UNCHANGED <<encoded, wire>>
  <2>1. (\A i \in DOMAIN tasks : ~IsPacket(i)) => Ready(Received + 1, input'.size)
    <3>1. CASE input = NoTexture
      <4>1. encoded = 0 /\ wire = <<>>
        BY <3>1 DEF QueueOK
      <4>2. Received + 1 = 1
        BY <4>1 DEF Received
      <4>3. QED
        BY <4>2 DEF Ready
    <3>2. CASE input # NoTexture
      BY <3>2 DEF Grows, Sound, WireFollows
    <3>3. QED
      BY <3>1, <3>2
  <2>2. Received' = Received
    BY <1>2 DEF Received
  <2>3. WireFollows'
    BY <1>2, <2>1, <2>2 DEF Sound, WireFollows, IsPacket, Ready
  <2>4. QED
    BY <1>1, <2>3 DEF Sound
<1>3. ASSUME NEW p \in Packets, wire' = Append(wire, p), encoded' = encoded + 1, NextPacket(p)
      PROVE  Sound'
  <2>0. wire \in Seq(Packets) /\ encoded \in Nat
    BY DEF QueueOK, EncoderOK
  <2>1. Received' = Received /\ Len(wire') = Len(wire) + 1 /\ Received + Len(wire') = encoded + 1
    BY <1>3, <2>0 DEF Received
  <2>2. \A i \in DOMAIN wire' : wire'[i].n = Received + i
    <3> SUFFICES ASSUME NEW i \in DOMAIN wire' PROVE wire'[i].n = Received + i
      OBVIOUS
    <3>1. CASE i \in DOMAIN wire
      <4>1. wire'[i] = wire[i]
        BY <1>3, <2>0, <3>1
      <4>2. QED
        BY <3>1, <4>1 DEF Sound, WireFollows
    <3>2. CASE i \notin DOMAIN wire
      <4>1. i = Len(wire') /\ wire'[i] = p
        BY <1>3, <2>0, <2>1, <3>2
      <4>2. QED
        BY <1>3, <2>1, <4>1 DEF NextPacket
    <3>3. QED
      BY <3>1, <3>2
  <2>3. (\A i \in DOMAIN tasks : ~IsPacket(i)) => Ready(Received + 1, input'.size)
    <3>1. CASE input = NoTexture
      <4>1. encoded = 0 /\ wire = <<>>
        BY <3>1 DEF QueueOK
      <4>2. Received + 1 = 1
        BY <4>1 DEF Received
      <4>3. QED
        BY <4>2 DEF Ready
    <3>2. CASE input # NoTexture
      BY <3>2 DEF Grows, Sound, WireFollows
    <3>3. QED
      BY <3>1, <3>2
  <2>4. WireFollows'
    BY <2>1, <2>2, <2>3 DEF Sound, WireFollows, IsPacket, Ready
  <2>5. QED
    BY <1>1, <2>4 DEF Sound
<1>4. QED
  BY <1>2, <1>3 DEF Grows

LEMMA PacketType ==
  ASSUME Types, NEW i \in DOMAIN tasks, IsPacket(i)
  PROVE  tasks[i] \in Packets /\ tasks[i].n \in Nat \ {0}
<1>1. tasks[i] \in Packets \cup Shows
  BY DEF Types, QueueOK
<1>2. tasks[i] \in Packets
  BY <1>1 DEF IsPacket, Shows
<1>3. QED
  BY <1>2 DEF Packets

-------------------------------------------------------------------------------
(* The main actor takes the head of its queue and may queue a picture.      *)

TakesHead(p) ==
  /\ tasks # <<>>
  /\ p \in Shows
  /\ tasks' = Tail(tasks) \/ tasks' = Append(Tail(tasks), p)

LEMMA HeadTaken ==
  ASSUME Types, NEW p, TakesHead(p)
  PROVE  /\ tasks' \in Seq(Packets \cup Shows)
         /\ Len(tasks) \in Nat \ {0}
         /\ Len(tasks') \in {Len(tasks) - 1, Len(tasks)}
         /\ tasks[1] = Head(tasks)
         /\ \A i \in 1..Len(tasks)-1 : tasks'[i] = tasks[i + 1] /\ (IsPacket(i)' <=> IsPacket(i + 1))
         /\ \A i \in DOMAIN tasks' : i < Len(tasks) \/ (tasks'[i] = p /\ ~IsPacket(i)')
<1>1. tasks \in Seq(Packets \cup Shows) /\ tasks # <<>> /\ p \in Packets \cup Shows
  BY DEF Types, QueueOK, TakesHead
<1>2. Len(tasks) \in Nat \ {0} /\ tasks[1] = Head(tasks)
  BY <1>1
<1>3. Tail(tasks) \in Seq(Packets \cup Shows) /\ Len(Tail(tasks)) = Len(tasks) - 1
  BY <1>1
<1>4. tasks' \in Seq(Packets \cup Shows) /\ Len(tasks') \in {Len(tasks) - 1, Len(tasks)}
  <2>1. CASE tasks' = Tail(tasks)
    BY <1>3, <2>1
  <2>2. CASE tasks' = Append(Tail(tasks), p)
    <3> DEFINE rest == Tail(tasks)
               All == Packets \cup Shows
    <3>1. rest \in Seq(All) /\ p \in All /\ tasks' = Append(rest, p)
      BY <1>1, <1>3, <2>2
    <3>2. Len(rest) = Len(tasks) - 1 /\ Len(tasks) \in Nat
      BY <1>2, <1>3
    <3> HIDE DEF rest, All
    <3>3. tasks' \in Seq(All) /\ Len(tasks') = Len(tasks)
      BY <3>1, <3>2
    <3>4. QED
      BY <3>3 DEF All
  <2>3. QED
    BY <2>1, <2>2 DEF TakesHead
<1>5. ASSUME NEW i \in 1..Len(tasks)-1 PROVE tasks'[i] = tasks[i + 1]
  BY <1>1, <1>3 DEF TakesHead
<1>6. ASSUME NEW i \in DOMAIN tasks', ~(i < Len(tasks)) PROVE tasks'[i] = p
  <2>1. DOMAIN tasks' = 1..Len(tasks')
    BY <1>4
  <2>2. i \in Nat /\ i = Len(tasks) /\ Len(tasks') = Len(tasks)
    BY <1>2, <1>4, <1>6, <2>1
  <2>3. tasks' = Append(Tail(tasks), p) /\ i = Len(Tail(tasks)) + 1
    BY <1>2, <1>3, <2>2 DEF TakesHead
  <2>4. QED
    BY <1>1, <1>3, <2>3
<1>7. p.kind # "packet"
  BY DEF TakesHead, Shows
<1>8. QED
  BY <1>2, <1>4, <1>5, <1>6, <1>7 DEF IsPacket

LEMMA TakenQueue ==
  ASSUME Types, NEW p, TakesHead(p), UNCHANGED <<up, session, input, encoded, wire>>
  PROVE  QueueOK'
<1> DEFINE L == Len(tasks)
<1>1. /\ tasks' \in Seq(Packets \cup Shows)
      /\ L \in Nat \ {0}
      /\ Len(tasks') \in {L - 1, L}
      /\ \A i \in 1..L-1 : tasks'[i] = tasks[i + 1] /\ (IsPacket(i)' <=> IsPacket(i + 1))
      /\ \A i \in DOMAIN tasks' : i < L \/ (tasks'[i] = p /\ ~IsPacket(i)')
  BY HeadTaken
<1>2. \A i \in DOMAIN tasks' : IsPacket(i)' =>
        i + 1 \in DOMAIN tasks /\ IsPacket(i + 1) /\ tasks'[i] = tasks[i + 1]
  <2> SUFFICES ASSUME NEW i \in DOMAIN tasks', IsPacket(i)'
               PROVE  i + 1 \in DOMAIN tasks /\ IsPacket(i + 1) /\ tasks'[i] = tasks[i + 1]
    OBVIOUS
  <2>1. i \in 1..Len(tasks') /\ i < L
    BY <1>1
  <2>2. i \in 1..L-1
    BY <1>1, <2>1
  <2>3. i + 1 \in DOMAIN tasks
    BY <1>1, <2>2 DEF Types, QueueOK
  <2>4. QED
    BY <1>1, <2>2, <2>3
<1> HIDE DEF L
<1>3. /\ \A i \in DOMAIN tasks' :
           IsPacket(i)' => tasks'[i].session = session /\ (up => tasks'[i].texture.size = input.size)
      /\ \A i, j \in DOMAIN tasks' :
           IsPacket(i)' /\ IsPacket(j)' => tasks'[i].texture.size = tasks'[j].texture.size
      /\ \A i \in DOMAIN tasks' : IsPacket(i)' /\ tasks'[i].n = 1 => tasks'[i].key
      /\ up /\ input = NoTexture => \A i \in DOMAIN tasks' : ~IsPacket(i)'
  BY <1>2 DEF Types, QueueOK
<1>4. QED
  BY <1>1, <1>3 DEF Types, QueueOK

\* Taking a picture leaves the order of the packets alone, and so does decoding
\* the first of them, which is then the reference.
LEMMA TakenSound ==
  ASSUME Types, Sound, NEW p, TakesHead(p), p.texture # Broken,
         UNCHANGED <<up, session, input, encoded, wire>>, vt' # Dead,
         \/ ~IsPacket(1) /\ UNCHANGED <<ref, fmt>>
         \/ /\ IsPacket(1)
            /\ ref' = [session |-> session, n |-> tasks[1].n]
            /\ fmt' = tasks[1].texture.size
  PROVE  Sound'
<1>0. PICK L, M \in Nat :
        /\ L = Len(tasks) /\ M = Len(tasks') /\ L # 0 /\ M \in {L - 1, L}
        /\ DOMAIN tasks = 1..L /\ DOMAIN tasks' = 1..M
  <2>1. tasks \in Seq(Packets \cup Shows)
    BY DEF Types, QueueOK
  <2>2. /\ tasks' \in Seq(Packets \cup Shows)
        /\ Len(tasks) \in Nat \ {0}
        /\ Len(tasks') \in {Len(tasks) - 1, Len(tasks)}
    BY HeadTaken
  <2>3. DOMAIN tasks = 1..Len(tasks) /\ DOMAIN tasks' = 1..Len(tasks') /\ Len(tasks') \in Nat
    BY <2>1, <2>2
  <2>4. QED
    BY <2>2, <2>3
<1>1. /\ \A i \in 1..L-1 : tasks'[i] = tasks[i + 1] /\ (IsPacket(i)' <=> IsPacket(i + 1))
      /\ \A i \in DOMAIN tasks' : i < L \/ (tasks'[i] = p /\ ~IsPacket(i)')
  BY <1>0, HeadTaken
<1>2. \A i \in 1..M : i \in 1..L-1 \/ i = L
  BY <1>0
<1>3. \A i \in DOMAIN tasks' : IsPacket(i)' =>
        /\ i \in 1..L-1 /\ i + 1 \in DOMAIN tasks
        /\ tasks'[i] = tasks[i + 1] /\ IsPacket(i + 1)
  <2> SUFFICES ASSUME NEW i \in 1..M, IsPacket(i)'
               PROVE  /\ i \in 1..L-1 /\ i + 1 \in DOMAIN tasks
                      /\ tasks'[i] = tasks[i + 1] /\ IsPacket(i + 1)
    BY <1>0
  <2>1. i < L
    BY <1>0, <1>1
  <2>2. i \in 1..L-1 /\ i + 1 \in 1..L
    BY <1>0, <2>1
  <2>3. QED
    BY <1>0, <1>1, <2>2
\* A place after the first, seen from before.
<1>9. \A k \in 2..L : k - 1 \in 1..L-1 /\ (k - 1) + 1 = k /\ (IsPacket(k - 1)' <=> IsPacket(k))
  <2> SUFFICES ASSUME NEW k \in 2..L
               PROVE  k - 1 \in 1..L-1 /\ (k - 1) + 1 = k /\ (IsPacket(k - 1)' <=> IsPacket(k))
    OBVIOUS
  <2>1. k - 1 \in 1..L-1 /\ (k - 1) + 1 = k
    BY <1>0
  <2>2. IsPacket(k - 1)' <=> IsPacket((k - 1) + 1)
    BY <1>1, <2>1
  <2>3. QED
    BY <2>1, <2>2
<1>4. FirstReady'
  <2> SUFFICES ASSUME NEW i \in DOMAIN tasks', IsPacket(i)', \A j \in 1..i-1 : ~IsPacket(j)'
               PROVE  \/ tasks'[i].n = 1
                      \/ /\ ref' = [session |-> session', n |-> tasks'[i].n - 1]
                         /\ fmt' = tasks'[i].texture.size
    BY DEF FirstReady, Ready
  <2>1. /\ i \in 1..L-1 /\ i + 1 \in DOMAIN tasks /\ 1 \in DOMAIN tasks
        /\ tasks'[i] = tasks[i + 1] /\ IsPacket(i + 1) /\ i \in Nat
    BY <1>0, <1>3
  <2>2. \A k \in 2..i : ~IsPacket(k)
    <3> SUFFICES ASSUME NEW k \in 2..i PROVE ~IsPacket(k)
      OBVIOUS
    <3>1. k \in 2..L /\ k - 1 \in 1..i-1
      BY <1>0, <2>1
    <3>2. QED
      BY <1>9, <3>1
  <2>3. CASE ~IsPacket(1)
    <3>1. \A j \in 1..(i+1)-1 : ~IsPacket(j)
      <4> SUFFICES ASSUME NEW j \in 1..(i+1)-1 PROVE ~IsPacket(j)
        OBVIOUS
      <4>1. j = 1 \/ j \in 2..i
        BY <2>1
      <4>2. QED
        BY <2>2, <2>3, <4>1
    <3>2. Ready(tasks[i + 1].n, tasks[i + 1].texture.size)
      BY <2>1, <3>1 DEF Sound, FirstReady
    <3>3. QED
      BY <2>1, <2>3, <3>2 DEF Ready
  <2>4. CASE IsPacket(1)
    <3>1. \A k \in 1+1..(i+1)-1 : ~IsPacket(k)
      <4>1. 1+1..(i+1)-1 = 2..i
        BY <2>1
      <4>2. QED
        BY <2>2, <4>1
    <3>2. 1 < i + 1
      BY <2>1
    <3>3. tasks[i + 1].n = tasks[1].n + 1
      BY <2>1, <2>4, <3>1, <3>2 DEF Sound, Consecutive
    <3>4. tasks[i + 1].texture.size = tasks[1].texture.size
      BY <2>1, <2>4 DEF Types, QueueOK
    <3>5. tasks[1].n \in Nat
      BY <2>1, <2>4, PacketType
    <3>6. tasks[i + 1].n - 1 = tasks[1].n
      BY <3>3, <3>5
    <3>7. QED
      BY <2>1, <2>4, <3>4, <3>6 DEF Ready
  <2>5. QED
    BY <2>3, <2>4
<1>5. Consecutive'
  <2> SUFFICES ASSUME NEW i \in DOMAIN tasks', NEW j \in DOMAIN tasks', i < j,
                      IsPacket(i)', IsPacket(j)', \A k \in i+1..j-1 : ~IsPacket(k)'
               PROVE  tasks'[j].n = tasks'[i].n + 1
    BY DEF Consecutive
  <2>1. /\ i \in 1..L-1 /\ i + 1 \in DOMAIN tasks /\ tasks'[i] = tasks[i + 1] /\ IsPacket(i + 1)
        /\ j \in 1..L-1 /\ j + 1 \in DOMAIN tasks /\ tasks'[j] = tasks[j + 1] /\ IsPacket(j + 1)
    BY <1>3
  <2>2. \A k \in (i+1)+1..(j+1)-1 : ~IsPacket(k)
    <3> SUFFICES ASSUME NEW k \in (i+1)+1..(j+1)-1 PROVE ~IsPacket(k)
      OBVIOUS
    <3>1. k \in 2..L /\ k - 1 \in i+1..j-1
      BY <1>0, <2>1
    <3>2. QED
      BY <1>9, <3>1
  <2>3. i + 1 < j + 1
    BY <2>1
  <2>4. QED
    BY <2>1, <2>2, <2>3 DEF Sound, Consecutive
<1>6. WireFollows'
  <2> SUFFICES ASSUME up PROVE WireFollows'
    BY DEF WireFollows
  <2>1. Received' = Received
    BY DEF Received
  <2>2. ASSUME NEW i \in DOMAIN tasks', IsPacket(i)', \A j \in i+1..Len(tasks') : ~IsPacket(j)'
        PROVE  tasks'[i].n = Received
    <3>1. i \in 1..L-1 /\ i + 1 \in DOMAIN tasks /\ tasks'[i] = tasks[i + 1] /\ IsPacket(i + 1)
      BY <1>3, <2>2
    <3>2. \A j \in (i+1)+1..Len(tasks) : ~IsPacket(j)
      <4> SUFFICES ASSUME NEW j \in (i+1)+1..L PROVE ~IsPacket(j)
        BY <1>0
      <4>1. j \in 2..L /\ j - 1 \in i+1..M
        BY <1>0, <3>1
      <4>2. j - 1 \in i+1..Len(tasks')
        BY <1>0, <4>1
      <4>3. QED
        BY <1>9, <2>2, <4>1, <4>2
    <3>3. QED
      BY <3>1, <3>2 DEF Sound, WireFollows
  <2>3. ASSUME \A i \in DOMAIN tasks' : ~IsPacket(i)'
        PROVE  Ready(Received + 1, input.size)'
    <3>1. \A i \in 2..L : ~IsPacket(i)
      <4> SUFFICES ASSUME NEW i \in 2..L PROVE ~IsPacket(i)
        OBVIOUS
      <4>1. i - 1 \in 1..M
        BY <1>0
      <4>2. QED
        BY <1>0, <1>9, <2>3, <4>1
    <3>2. CASE ~IsPacket(1)
      <4>1. \A i \in DOMAIN tasks : ~IsPacket(i)
        <5>1. \A i \in DOMAIN tasks : i = 1 \/ i \in 2..L
          BY <1>0
        <5>2. QED
          BY <3>1, <3>2, <5>1
      <4>2. Ready(Received + 1, input.size)
        BY <4>1 DEF Sound, WireFollows
      <4>3. QED
        BY <2>1, <3>2, <4>2 DEF Ready
    <3>3. CASE IsPacket(1)
      <4>1. 1 \in DOMAIN tasks /\ Len(tasks) = L /\ 1+1..L = 2..L
        BY <1>0
      <4>2. \A j \in 1+1..Len(tasks) : ~IsPacket(j)
        BY <3>1, <4>1
      <4>3. tasks[1].n = Received
        BY <3>3, <4>1, <4>2 DEF Sound, WireFollows
      <4>4. tasks[1].texture.size = input.size
        BY <3>3, <4>1 DEF Types, QueueOK
      <4>5. Received \in Nat
        BY DEF Sound, WireFollows
      <4>6. (Received + 1) - 1 = Received
        BY <4>5
      <4>7. QED
        BY <2>1, <3>3, <4>3, <4>4, <4>6 DEF Ready
    <3>4. QED
      BY <3>2, <3>3
  <2>4. \A i \in DOMAIN wire : wire[i].n = Received + i
    BY DEF Sound, WireFollows
  <2>5. Received \in Nat
    BY DEF Sound, WireFollows
  <2>6. QED
    BY <2>1, <2>2, <2>3, <2>4, <2>5 DEF WireFollows
<1>7. NothingBroken'
  <2> SUFFICES ASSUME NEW i \in DOMAIN tasks', ~IsPacket(i)' PROVE tasks'[i].texture # Broken
    BY DEF NothingBroken
  <2>1. CASE i < L
    <3>1. i \in 1..L-1 /\ i + 1 \in DOMAIN tasks
      BY <1>0, <2>1
    <3>2. tasks'[i] = tasks[i + 1] /\ ~IsPacket(i + 1)
      BY <1>1, <3>1
    <3>3. QED
      BY <3>1, <3>2 DEF Sound, NothingBroken
  <2>2. CASE ~(i < L)
    BY <1>1, <2>2
  <2>3. QED
    BY <2>1, <2>2
<1>8. QED
  BY <1>4, <1>5, <1>6, <1>7 DEF Sound

-------------------------------------------------------------------------------
(* One lemma per action.                                                    *)

LEMMA QueueSame ==
  ASSUME Types, UNCHANGED <<up, session, input, encoded, wire, tasks>>
  PROVE  QueueOK'
BY DEF Types, QueueOK, IsPacket

LEMMA SoundSame ==
  ASSUME Sound, UNCHANGED <<up, session, input, encoded, wire, tasks, fmt, vt, ref>>
  PROVE  Sound'
BY DEF Sound, FirstReady, Consecutive, WireFollows, NothingBroken, Ready, Received, IsPacket

LEMMA InvDraws ==
  ASSUME Inv, NEW s \in Sizes, Draws(s)
  PROVE  Inv'
<1>1. /\ UNCHANGED <<up, session, captureVars, encoderVars, wire, tasks, decoderVars, glassVars,
                     faultVars>>
      /\ screen' = Texture(s, screen.picture + 1) /\ screen.picture < MaxPictures
  BY DEF Draws
<1>2. DisplayOK'
  <2>1. screen.picture \in 0..MaxPictures
    BY DEF Inv, Types, DisplayOK, Drawn
  <2>2. screen.picture + 1 \in 0..MaxPictures
    BY <1>1, <2>1, VideoAssumption
  <2>3. QED
    BY <1>1, <2>2 DEF Inv, Types, DisplayOK, Drawn, Texture
<1>3. CaptureOK' /\ EncoderOK' /\ GlassOK' /\ DecoderOK' /\ spoiled' = spoiled
  BY <1>1 DEF Inv, Types, CaptureOK, EncoderOK, GlassOK, DecoderOK, captureVars, encoderVars,
              decoderVars, glassVars, faultVars
<1>4. UNCHANGED <<up, session, input, encoded, wire, tasks, fmt, vt, ref>>
  BY <1>1 DEF encoderVars, decoderVars
<1>5. QED
  BY <1>2, <1>3, <1>4, QueueSame, SoundSame DEF Inv, Types

LEMMA InvPoolFrame ==
  ASSUME Inv, PoolFrame
  PROVE  Inv'
<1>1. /\ up /\ Len(pool) < 2
      /\ pool' = Append(pool, [size |-> screen.size, surface |-> Texture(poolSize, screen.picture)])
      /\ UNCHANGED <<screen, up, session, poolSize, delivery, deliverySize, encoderVars, wire, tasks,
                     decoderVars, glassVars, faultVars>>
  BY DEF PoolFrame
<1>2. CaptureOK'
  <2> DEFINE f == [size |-> screen.size, surface |-> Texture(poolSize, screen.picture)]
             Frames == [size : Sizes, surface : Drawn]
  <2>1. f \in Frames /\ f.surface.size = poolSize
    BY <1>1 DEF Inv, Types, DisplayOK, CaptureOK, Drawn, Texture
  <2>2. pool \in Seq(Frames) /\ pool' = Append(pool, f)
    BY <1>1 DEF Inv, Types, CaptureOK
  <2> HIDE DEF f, Frames
  <2>3. /\ pool' \in Seq(Frames) /\ Len(pool') = Len(pool) + 1 /\ Len(pool) \in Nat
        /\ \A i \in DOMAIN pool' : (i \in DOMAIN pool /\ pool'[i] = pool[i]) \/ pool'[i] = f
    BY <2>1, <2>2
  <2>4. Len(pool') <= 2
    BY <1>1, <2>3
  <2>5. \A i \in DOMAIN pool' : pool'[i].surface.size = poolSize
    BY <2>1, <2>3 DEF Inv, Types, CaptureOK
  <2>6. QED
    BY <1>1, <2>3, <2>4, <2>5 DEF Inv, Types, CaptureOK, Frames
<1>3. DisplayOK' /\ EncoderOK' /\ GlassOK' /\ DecoderOK' /\ spoiled' = spoiled
  BY <1>1 DEF Inv, Types, DisplayOK, EncoderOK, GlassOK, DecoderOK, encoderVars,
              decoderVars, glassVars, faultVars
<1>4. UNCHANGED <<up, session, input, encoded, wire, tasks, fmt, vt, ref>>
  BY <1>1 DEF encoderVars, decoderVars
<1>5. QED
  BY <1>2, <1>3, <1>4, QueueSame, SoundSame DEF Inv, Types

LEMMA InvStartCapture ==
  ASSUME Inv, StartCapture
  PROVE  Inv'
<1>1. /\ ~up /\ tasks = <<>> /\ up' = TRUE /\ session' = session + 1
      /\ \/ delivery' = Blank(screen.size) /\ deliverySize' = screen.size
         \/ delivery' = NoTexture
      /\ pool' = <<>> /\ poolSize' = screen.size
      /\ input' = NoTexture /\ encoded' = 0 /\ forceIdr' = TRUE
      /\ spoiled' = IF vt = Dead THEN {"reference"} ELSE {}
      /\ UNCHANGED <<screen, wire, tasks, decoderVars, glassVars>>
  BY DEF StartCapture
<1>2. wire = <<>>
  BY <1>1 DEF Inv, Types, QueueOK
<1>3. DisplayOK' /\ EncoderOK' /\ GlassOK' /\ DecoderOK'
  BY <1>1 DEF Inv, Types, DisplayOK, EncoderOK, GlassOK, DecoderOK, decoderVars, glassVars
<1>4. CaptureOK'
  <2>1. screen.size \in Sizes
    BY DEF Inv, Types, DisplayOK, Drawn
  <2>2. Blank(screen.size) \in Drawn /\ Blank(screen.size).size = screen.size
    BY <2>1, TextureTypes
  <2>3. QED
    BY <1>1, <2>1, <2>2 DEF Inv, Types, CaptureOK
<1>5. QueueOK'
  BY <1>1, <1>2 DEF QueueOK
<1>6. ASSUME "reference" \notin spoiled' PROVE Sound'
  <2>1. vt' # Dead /\ tasks' = <<>> /\ wire' = <<>>
    BY <1>1, <1>2, <1>6 DEF decoderVars
  <2>2. Received' = 0
    <3>1. encoded' = 0
      BY <1>1
    <3>2. Len(wire') = 0
      BY <2>1
    <3>3. QED
      BY <3>1, <3>2 DEF Received
  <2>3. FirstReady' /\ Consecutive' /\ NothingBroken'
    BY <2>1 DEF FirstReady, Consecutive, NothingBroken
  <2>4. WireFollows'
    BY <2>1, <2>2 DEF WireFollows, Ready
  <2>5. QED
    BY <2>1, <2>3, <2>4 DEF Sound
<1>7. QED
  BY <1>3, <1>4, <1>5, <1>6 DEF Inv, Types

LEMMA InvCut ==
  ASSUME Inv, Cut
  PROVE  Inv'
<1>1. /\ up' = FALSE /\ pool' = <<>> /\ poolSize' = NoSize /\ delivery' = NoTexture
      /\ input' = NoTexture /\ encoded' = 0 /\ wire' = <<>>
      /\ UNCHANGED <<displayVars, session, forceIdr, tasks, decoderVars, glassVars, faultVars>>
  BY DEF Cut
<1>2. DisplayOK' /\ EncoderOK' /\ GlassOK' /\ DecoderOK' /\ spoiled' = spoiled
  BY <1>1 DEF Inv, Types, DisplayOK, EncoderOK, GlassOK, DecoderOK, displayVars, decoderVars,
              glassVars, faultVars
<1>6. CaptureOK'
  <2>1. up' = FALSE /\ pool' = <<>> /\ delivery' = NoTexture
    BY <1>1
  <2>2. Len(pool') = 0 /\ pool' \in Seq([size : Sizes, surface : Drawn]) /\ DOMAIN pool' = {}
    BY <2>1
  <2>3. QED
    BY <2>1, <2>2 DEF CaptureOK
<1>3. QueueOK'
  BY <1>1 DEF Inv, Types, QueueOK, IsPacket
<1>4. ASSUME Sound PROVE Sound'
  BY <1>1, <1>4 DEF Sound, FirstReady, Consecutive, WireFollows, NothingBroken, Ready, IsPacket,
                    decoderVars
<1>5. QED
  BY <1>2, <1>3, <1>4, <1>6 DEF Inv, Types

LEMMA InvKeyframeRequest ==
  ASSUME Inv, KeyframeRequest
  PROVE  Inv'
<1>1. /\ forceIdr' = TRUE
      /\ UNCHANGED <<displayVars, up, session, captureVars, input, encoded, wire, tasks,
                     decoderVars, glassVars, faultVars>>
  BY DEF KeyframeRequest
<1>2. DisplayOK' /\ EncoderOK' /\ GlassOK' /\ DecoderOK' /\ CaptureOK' /\ spoiled' = spoiled
  BY <1>1 DEF Inv, Types, DisplayOK, EncoderOK, CaptureOK, GlassOK, DecoderOK, displayVars,
              captureVars, decoderVars, glassVars, faultVars
<1>3. UNCHANGED <<up, session, input, encoded, wire, tasks, fmt, vt, ref>>
  BY <1>1 DEF decoderVars
<1>4. QED
  BY <1>2, <1>3, QueueSame, SoundSame DEF Inv, Types

\* What both kinds of callback do to the rest of the path.
LEMMA InvDelivered ==
  ASSUME Inv, up, NEW outcome, Grows(outcome), NEW good \in SUBSET {"picture", "capture"},
         Spoil(outcome, good), UNCHANGED <<up, session, tasks, decoderVars, glassVars>>
  PROVE  /\ EncoderOK' /\ GlassOK' /\ DecoderOK' /\ QueueOK'
         /\ "reference" \notin spoiled' => Sound'
<1>1. EncoderOK' /\ QueueOK'
  BY GrowsQueue DEF Inv
<1>2. GlassOK'
  BY DEF Inv, Types, GlassOK, glassVars
<1>3. /\ spoiled' \subseteq spoiled \cup {"capture", "picture", "reference"}
      /\ "reference" \in spoiled => "reference" \in spoiled'
      /\ outcome = "no_lock" => "reference" \in spoiled'
  BY DEF Spoil
<1>4. DecoderOK'
  BY <1>3 DEF Inv, Types, DecoderOK, decoderVars
<1>5. ASSUME "reference" \notin spoiled' PROVE Sound'
  <2>1. Sound /\ outcome # "no_lock"
    BY <1>3, <1>5 DEF Inv
  <2>2. UNCHANGED <<up, session, tasks, fmt, vt, ref>>
    BY DEF decoderVars
  <2>3. QED
    BY <2>1, <2>2, GrowsSound DEF Inv
<1>6. QED
  BY <1>1, <1>2, <1>4, <1>5

LEMMA PoolHead ==
  ASSUME Types, pool # <<>>
  PROVE  /\ Head(pool).size \in Sizes /\ Head(pool).surface \in Drawn
         /\ Tail(pool) \in Seq([size : Sizes, surface : Drawn])
         /\ Len(Tail(pool)) <= 2
         /\ \A i \in DOMAIN Tail(pool) : Tail(pool)[i].surface.size = poolSize
<1> DEFINE Frames == [size : Sizes, surface : Drawn]
<1>1. pool \in Seq(Frames) /\ pool # <<>> /\ Len(pool) <= 2
  BY DEF Types, CaptureOK
<1>2. Head(pool) \in Frames
  <2> HIDE DEF Frames
  <2>1. QED
    BY <1>1
<1>3. Tail(pool) \in Seq(Frames) /\ Len(Tail(pool)) <= 2
  <2> HIDE DEF Frames
  <2>1. QED
    BY <1>1
<1>4. \A i \in DOMAIN Tail(pool) : i + 1 \in DOMAIN pool /\ Tail(pool)[i] = pool[i + 1]
  <2> HIDE DEF Frames
  <2>1. QED
    BY <1>1
<1>5. \A i \in DOMAIN Tail(pool) : Tail(pool)[i].surface.size = poolSize
  BY <1>4 DEF Types, CaptureOK
<1>6. QED
  BY <1>2, <1>3, <1>5

LEMMA InvOnFrameArrived ==
  ASSUME Inv, OnFrameArrived
  PROVE  Inv'
<1>1. PICK outcome : /\ Deliver(delivery, Head(pool).surface, outcome)
                     /\ Spoil(outcome, {"picture"})
  BY DEF OnFrameArrived
<1>2. /\ up /\ pool # <<>> /\ Head(pool).size = deliverySize
      /\ pool' = Tail(pool)
      /\ UNCHANGED <<displayVars, up, session, poolSize, deliverySize, asking, tasks, decoderVars,
                     glassVars>>
  BY DEF OnFrameArrived
<1>3. Head(pool).surface \in Drawn /\ delivery \in Drawn \cup {NoTexture}
  BY <1>2, PoolHead DEF Inv, Types, CaptureOK
<1>4. /\ Grows(outcome)
      /\ delivery' \in Drawn \cup {NoTexture}
      /\ delivery' = NoTexture \/ (delivery \in Drawn /\ delivery'.size = delivery.size)
  BY <1>1, <1>3, DeliverGrows DEF Inv
<1>5. /\ EncoderOK' /\ GlassOK' /\ DecoderOK' /\ QueueOK'
      /\ "reference" \notin spoiled' => Sound'
  BY <1>1, <1>2, <1>4, InvDelivered
<1>6. DisplayOK'
  BY <1>2 DEF Inv, Types, DisplayOK, displayVars
<1>7. CaptureOK'
  <2>1. delivery' = NoTexture \/ delivery'.size = deliverySize
    <3>1. ASSUME delivery \in Drawn PROVE delivery.size = deliverySize
      BY <3>1, TextureTypes DEF Inv, Types, CaptureOK
    <3>2. QED
      BY <1>4, <3>1
  <2>2. QED
    BY <1>2, <1>4, <2>1, PoolHead DEF Inv, Types, CaptureOK
<1>8. QED
  BY <1>5, <1>6, <1>7 DEF Inv, Types

LEMMA InvOnFrameResized ==
  ASSUME Inv, OnFrameResized
  PROVE  Inv'
<1> DEFINE s == Head(pool).size
<1>1. PICK outcome \in Outcome({"no_texture", "no_pool", "no_encode", "no_lock"}) :
        /\ Deliver(IF outcome = "no_texture" THEN NoTexture ELSE Blank(s), Head(pool).surface, outcome)
        /\ deliverySize' = IF outcome = "no_texture" THEN deliverySize ELSE s
        /\ IF outcome = "no_pool"
             THEN pool' = Tail(pool) /\ UNCHANGED <<poolSize, fresh>>
             ELSE pool' = <<>> /\ poolSize' = s /\ fresh' = TRUE
        /\ Spoil(outcome, IF outcome = "no_pool" THEN {"picture"} ELSE {"picture", "capture"})
  BY DEF OnFrameResized
<1> DEFINE made == IF outcome = "no_texture" THEN NoTexture ELSE Blank(s)
           good == IF outcome = "no_pool" THEN {"picture"} ELSE {"picture", "capture"}
<1>2. /\ up /\ pool # <<>>
      /\ UNCHANGED <<screen, up, session, asking, tasks, decoderVars, glassVars>>
  BY DEF OnFrameResized
<1>3. s \in Sizes /\ Head(pool).surface \in Drawn
  BY <1>2, PoolHead DEF Inv
<1>4. /\ made \in Drawn \cup {NoTexture}
      /\ made \in Drawn => made = Blank(s) /\ made.size = s /\ outcome # "no_texture"
  <2> HIDE DEF s
  <2>1. NoTexture \notin Drawn /\ Blank(s) \in Drawn /\ Blank(s).size = s
    BY <1>3, TextureTypes
  <2>2. QED
    BY <2>1
<1>5. Deliver(made, Head(pool).surface, outcome) /\ Spoil(outcome, good)
  BY <1>1
<1>6. good \in SUBSET {"picture", "capture"}
  OBVIOUS
<1>7. /\ Grows(outcome)
      /\ delivery' \in Drawn \cup {NoTexture}
      /\ delivery' = NoTexture \/ (made \in Drawn /\ delivery'.size = made.size)
  <2> HIDE DEF made, good
  <2>1. QED
    BY <1>3, <1>4, <1>5, DeliverGrows DEF Inv
<1>8. /\ EncoderOK' /\ GlassOK' /\ DecoderOK' /\ QueueOK'
      /\ "reference" \notin spoiled' => Sound'
  <2> HIDE DEF made, good
  <2>1. QED
    BY <1>2, <1>5, <1>6, <1>7, InvDelivered
<1>9. DisplayOK'
  BY <1>2 DEF Inv, Types, DisplayOK
<1>10. CaptureOK'
  <2>1. delivery' = NoTexture \/ delivery'.size = deliverySize'
    <3>1. ASSUME made \in Drawn PROVE made.size = deliverySize'
      <4> HIDE DEF made
      <4>1. QED
        BY <1>1, <1>4, <3>1
    <3> HIDE DEF made
    <3>2. QED
      BY <1>7, <3>1
  <2>2. CASE outcome = "no_pool"
    <3>1. pool' = Tail(pool) /\ poolSize' = poolSize /\ up'
      BY <1>1, <1>2, <2>2
    <3>2. QED
      BY <1>2, <1>7, <2>1, <3>1, PoolHead DEF Inv, Types, CaptureOK
  <2>3. CASE outcome # "no_pool"
    <3>1. pool' = <<>> /\ poolSize' \in Sizes /\ up'
      BY <1>1, <1>2, <1>3, <2>3
    <3>2. QED
      BY <1>7, <2>1, <3>1 DEF CaptureOK
  <2>4. QED
    BY <2>2, <2>3
<1>11. QED
  BY <1>8, <1>9, <1>10 DEF Inv, Types

LEMMA WireHead ==
  ASSUME Types, wire # <<>>
  PROVE  /\ Head(wire) \in Packets /\ Head(wire) = wire[1] /\ 1 \in DOMAIN wire
         /\ Tail(wire) \in Seq(Packets)
         /\ Len(wire) \in Nat \ {0} /\ Len(Tail(wire)) = Len(wire) - 1
         /\ \A i \in DOMAIN Tail(wire) : i \in Nat /\ i + 1 \in DOMAIN wire /\ Tail(wire)[i] = wire[i + 1]
<1>1. wire \in Seq(Packets) /\ wire # <<>>
  BY DEF Types, QueueOK
<1>2. QED
  BY <1>1

LEMMA InvReceive ==
  ASSUME Inv, Receive
  PROVE  Inv'
<1> DEFINE h == Head(wire)
<1>1. /\ up /\ wire # <<>> /\ tasks' = Append(tasks, h) /\ wire' = Tail(wire)
      /\ UNCHANGED <<displayVars, up, session, captureVars, encoderVars, decoderVars, glassVars,
                     faultVars>>
  BY DEF Receive
<1>2. /\ h \in Packets /\ h = wire[1] /\ 1 \in DOMAIN wire
      /\ wire' \in Seq(Packets) /\ Len(wire) \in Nat \ {0} /\ Len(wire') = Len(wire) - 1
      /\ \A i \in DOMAIN wire' : i \in Nat /\ i + 1 \in DOMAIN wire /\ wire'[i] = wire[i + 1]
  BY <1>1, WireHead DEF Inv
<1>3. /\ h.kind = "packet" /\ h.session = session /\ h.texture.size = input.size
      /\ h.n = 1 => h.key
  BY <1>2 DEF Inv, Types, QueueOK, Packets
<1> HIDE DEF h
<1>4. PICK L \in Nat :
        /\ L = Len(tasks) /\ L + 1 = Len(tasks')
        /\ DOMAIN tasks = 1..L /\ DOMAIN tasks' = 1..L+1
        /\ tasks' \in Seq(Packets \cup Shows)
        /\ tasks'[L + 1] = h
        /\ \A i \in 1..L : tasks'[i] = tasks[i]
  <2> DEFINE All == Packets \cup Shows
  <2>1. tasks \in Seq(All) /\ h \in All /\ tasks' = Append(tasks, h)
    BY <1>1, <1>2 DEF Inv, Types, QueueOK
  <2> HIDE DEF All
  <2>2. /\ Len(tasks) \in Nat /\ Len(tasks) + 1 = Len(tasks')
        /\ DOMAIN tasks = 1..Len(tasks) /\ DOMAIN tasks' = 1..Len(tasks)+1
        /\ tasks' \in Seq(All)
        /\ tasks'[Len(tasks) + 1] = h
        /\ \A i \in 1..Len(tasks) : tasks'[i] = tasks[i]
    BY <2>1
  <2>3. QED
    BY <2>2 DEF All
<1>5. /\ \A i \in 1..L : i \in DOMAIN tasks /\ tasks'[i] = tasks[i] /\ (IsPacket(i)' <=> IsPacket(i))
      /\ IsPacket(L + 1)'
  BY <1>3, <1>4 DEF IsPacket
<1>6. \A i \in DOMAIN tasks' : i \in 1..L \/ i = L + 1
  BY <1>4
<1>7. DisplayOK' /\ CaptureOK' /\ EncoderOK' /\ GlassOK' /\ DecoderOK' /\ spoiled' = spoiled
  BY <1>1 DEF Inv, Types, DisplayOK, CaptureOK, EncoderOK, GlassOK, DecoderOK, displayVars,
              captureVars, encoderVars, decoderVars, glassVars, faultVars
<1>8. QueueOK'
  <2>1. UNCHANGED <<up, session, input, encoded>>
    BY <1>1 DEF encoderVars
  <2>2. \A i \in DOMAIN tasks' : IsPacket(i)' =>
          /\ tasks'[i].session = session /\ tasks'[i].texture.size = input.size
          /\ tasks'[i].n = 1 => tasks'[i].key
    <3> SUFFICES ASSUME NEW i \in DOMAIN tasks', IsPacket(i)'
                 PROVE  /\ tasks'[i].session = session /\ tasks'[i].texture.size = input.size
                        /\ tasks'[i].n = 1 => tasks'[i].key
      OBVIOUS
    <3>1. CASE i \in 1..L
      BY <1>1, <1>5, <3>1 DEF Inv, Types, QueueOK
    <3>2. CASE i = L + 1
      BY <1>3, <1>4, <3>2
    <3>3. QED
      BY <1>6, <3>1, <3>2
  <2>3. \A i \in DOMAIN wire' :
          /\ wire'[i].session = session /\ wire'[i].texture.size = input.size
          /\ wire'[i].n = 1 => wire'[i].key
    BY <1>2 DEF Inv, Types, QueueOK
  <2>4. ~(up /\ input = NoTexture)
    BY <1>1 DEF Inv, Types, QueueOK
  <2>5. QED
    BY <1>1, <1>2, <1>4, <2>1, <2>2, <2>3, <2>4 DEF QueueOK
<1>9. ASSUME Sound PROVE Sound'
  <2>1. UNCHANGED <<up, session, input, encoded, fmt, vt, ref>>
    BY <1>1 DEF encoderVars, decoderVars
  <2>2. Received \in Nat /\ Received' = Received + 1
    <3>1. Received \in Nat /\ encoded \in Nat
      BY <1>1, <1>9 DEF Sound, WireFollows, Inv, Types, EncoderOK
    <3>2. QED
      BY <1>2, <2>1, <3>1 DEF Received
  <2>3. h.n = Received + 1
    BY <1>1, <1>2, <1>9 DEF Sound, WireFollows
  <2>4. FirstReady'
    <3> SUFFICES ASSUME NEW i \in DOMAIN tasks', IsPacket(i)', \A j \in 1..i-1 : ~IsPacket(j)'
                 PROVE  \/ tasks'[i].n = 1
                        \/ /\ ref' = [session |-> session', n |-> tasks'[i].n - 1]
                           /\ fmt' = tasks'[i].texture.size
      BY DEF FirstReady, Ready
    <3>1. CASE i \in 1..L
      <4>1. \A j \in 1..i-1 : j \in 1..L
        BY <1>4, <3>1
      <4>2. \A j \in 1..i-1 : ~IsPacket(j)
        BY <1>5, <4>1
      <4>3. Ready(tasks[i].n, tasks[i].texture.size)
        BY <1>5, <1>9, <3>1, <4>2 DEF Sound, FirstReady
      <4>4. QED
        BY <1>5, <2>1, <3>1, <4>3 DEF Ready
    <3>2. CASE i = L + 1
      <4>1. 1..i-1 = DOMAIN tasks
        BY <1>4, <3>2
      <4>2. \A j \in DOMAIN tasks : ~IsPacket(j)
        BY <1>4, <1>5, <4>1
      <4>3. Ready(Received + 1, input.size)
        BY <1>1, <1>9, <4>2 DEF Sound, WireFollows
      <4>4. QED
        BY <1>3, <1>4, <2>1, <2>3, <3>2, <4>3 DEF Ready
    <3>3. QED
      BY <1>6, <3>1, <3>2
  <2>5. Consecutive'
    <3> SUFFICES ASSUME NEW i \in DOMAIN tasks', NEW j \in DOMAIN tasks', i < j,
                        IsPacket(i)', IsPacket(j)', \A k \in i+1..j-1 : ~IsPacket(k)'
                 PROVE  tasks'[j].n = tasks'[i].n + 1
      BY DEF Consecutive
    <3>1. i \in 1..L /\ IsPacket(i) /\ tasks'[i] = tasks[i] /\ i \in DOMAIN tasks
      <4>1. i \in 1..L
        BY <1>4
      <4>2. QED
        BY <1>5, <4>1
    <3>2. CASE j \in 1..L
      <4>1. \A k \in i+1..j-1 : k \in 1..L
        BY <1>4, <3>1, <3>2
      <4>2. \A k \in i+1..j-1 : ~IsPacket(k)
        BY <1>5, <4>1
      <4>3. QED
        BY <1>5, <1>9, <3>1, <3>2, <4>2 DEF Sound, Consecutive
    <3>3. CASE j = L + 1
      <4>1. \A k \in i+1..L : k \in i+1..j-1 /\ k \in 1..L
        BY <1>4, <3>1, <3>3
      <4>2. \A k \in i+1..Len(tasks) : ~IsPacket(k)
        BY <1>4, <1>5, <4>1
      <4>3. tasks[i].n = Received
        BY <1>1, <1>9, <3>1, <4>2 DEF Sound, WireFollows
      <4>4. QED
        BY <1>4, <2>3, <3>1, <3>3, <4>3
    <3>4. QED
      BY <1>6, <3>2, <3>3
  <2>6. WireFollows'
    <3>1. \A i \in DOMAIN wire' : wire'[i].n = Received' + i
      <4> SUFFICES ASSUME NEW i \in DOMAIN wire' PROVE wire'[i].n = Received' + i
        OBVIOUS
      <4>1. i \in Nat /\ wire'[i].n = Received + (i + 1)
        BY <1>1, <1>2, <1>9 DEF Sound, WireFollows
      <4>2. QED
        BY <2>2, <4>1
    <3>2. ASSUME NEW i \in DOMAIN tasks', IsPacket(i)', \A j \in i+1..Len(tasks') : ~IsPacket(j)'
          PROVE  tasks'[i].n = Received'
      <4>1. CASE i \in 1..L
        <5>1. L + 1 \in i+1..Len(tasks')
          BY <1>4, <4>1
        <5>2. QED
          BY <1>5, <3>2, <5>1
      <4>2. CASE i = L + 1
        BY <1>4, <2>2, <2>3, <4>2
      <4>3. QED
        BY <1>6, <4>1, <4>2
    <3>3. ~(\A i \in DOMAIN tasks' : ~IsPacket(i)')
      <4>1. L + 1 \in DOMAIN tasks'
        BY <1>4
      <4>2. QED
        BY <1>5, <4>1
    <3>4. Received' \in Nat
      BY <2>2
    <3>5. QED
      BY <3>1, <3>2, <3>3, <3>4 DEF WireFollows
  <2>7. NothingBroken'
    <3> SUFFICES ASSUME NEW i \in DOMAIN tasks', ~IsPacket(i)' PROVE tasks'[i].texture # Broken
      BY DEF NothingBroken
    <3>1. i \in 1..L
      BY <1>5, <1>6
    <3>2. QED
      BY <1>5, <1>9, <3>1 DEF Sound, NothingBroken
  <2>8. QED
    BY <1>9, <2>1, <2>4, <2>5, <2>6, <2>7 DEF Sound
<1>10. QED
  BY <1>7, <1>8, <1>9 DEF Inv, Types

\* The first packet queued can be decoded, for its size, and is its own format.
LEMMA FirstDecodable ==
  ASSUME Types, Sound, NEW i \in DOMAIN tasks, IsPacket(i), \A j \in 1..i-1 : ~IsPacket(j)
  PROVE  /\ Decodable(tasks[i])
         /\ makeFormatDescription(tasks[i], "ok") = tasks[i].texture.size
         /\ createSession(KeptSession(tasks[i].texture.size), tasks[i].texture.size, "ok")
              = tasks[i].texture.size
<1> DEFINE q == tasks[i]
           s == q.texture.size
<1>1. q \in Packets /\ q.n \in Nat \ {0} /\ q.session = session /\ (q.n = 1 => q.key)
  BY PacketType DEF Types, QueueOK
<1>2. q.texture \in Drawn
  BY <1>1 DEF Packets
<1>3. s \in Sizes
  <2> HIDE DEF q
  <2>1. QED
    BY <1>2, TextureTypes
<1>4. Ready(q.n, s)
  BY DEF Sound, FirstReady
<1>5. vt # Dead /\ vt \in {NoSize, Dead, fmt}
  BY DEF Sound, Types, DecoderOK
<1> HIDE DEF q
<1>6. makeFormatDescription(q, "ok") = s
  BY <1>1, <1>4 DEF makeFormatDescription, Ready
<1>7. createSession(KeptSession(s), s, "ok") = s
  <2> HIDE DEF s
  <2>1. QED
    BY <1>5 DEF createSession, KeptSession
<1>8. q.key \/ ref = [session |-> q.session, n |-> q.n - 1]
  BY <1>1, <1>4 DEF Ready
<1>9. Decodable(q)
  BY <1>6, <1>7, <1>8 DEF Decodable
<1>10. QED
  BY <1>6, <1>7, <1>9 DEF q

LEMMA InvDecode ==
  ASSUME Inv, Decode
  PROVE  Inv'
<1> DEFINE p == Head(tasks)
<1>1. /\ tasks # <<>> /\ p.kind = "packet"
      /\ UNCHANGED <<displayVars, up, session, captureVars, encoderVars, wire, glassVars>>
  BY DEF Decode
<1>2. PICK outcome :
        /\ fmt' = makeFormatDescription(p, outcome)
        /\ vt' = createSession(KeptSession(fmt'), fmt', outcome)
        /\ Output(p, vt', outcome)
        /\ spoiled' = IF outcome = "ok" THEN spoiled ELSE spoiled \cup {"reference"}
  BY DEF Decode
<1>3. tasks \in Seq(Packets \cup Shows) /\ 1 \in DOMAIN tasks /\ tasks[1] = p /\ IsPacket(1)
  <2>1. tasks \in Seq(Packets \cup Shows)
    BY DEF Inv, Types, QueueOK
  <2>2. 1 \in DOMAIN tasks /\ tasks[1] = p
    BY <1>1, <2>1
  <2>3. QED
    BY <1>1, <2>1, <2>2 DEF IsPacket
<1>4. p \in Packets /\ p.session = session /\ p.n \in Nat \ {0}
  BY <1>3, PacketType DEF Inv, Types, QueueOK
<1> HIDE DEF p
<1>5. p.texture \in Drawn
  BY <1>4 DEF Packets
<1>6. p.texture.size \in Sizes /\ p.texture # NoTexture /\ p.texture # Broken
  BY <1>5, TextureTypes
<1>7. PICK t \in {p.texture, NoTexture, Broken} :
        tasks' = IF t = NoTexture THEN Tail(tasks)
                 ELSE Append(Tail(tasks), [kind |-> "show", texture |-> t])
  BY <1>2 DEF Output
<1> DEFINE shownAs(x) == [kind |-> "show", texture |-> x]
<1>8. TakesHead(shownAs(IF t = NoTexture THEN p.texture ELSE t))
  <2>1. \A x \in {p.texture, Broken} : shownAs(x) \in Shows
    BY <1>5 DEF Shows
  <2>2. (IF t = NoTexture THEN p.texture ELSE t) \in {p.texture, Broken}
    BY <1>7
  <2>3. tasks' = Tail(tasks) \/ tasks' = Append(Tail(tasks), shownAs(IF t = NoTexture THEN p.texture ELSE t))
    BY <1>7
  <2> HIDE DEF shownAs
  <2>4. QED
    BY <1>1, <2>1, <2>2, <2>3 DEF TakesHead
<1>9. UNCHANGED <<up, session, input, encoded, wire>>
  BY <1>1 DEF encoderVars
<1>10. DisplayOK' /\ CaptureOK' /\ EncoderOK' /\ GlassOK'
  BY <1>1 DEF Inv, Types, DisplayOK, CaptureOK, EncoderOK, GlassOK, displayVars, captureVars,
              encoderVars, glassVars
<1>11. DecoderOK'
  <2>1. fmt' \in Sizes \cup {NoSize}
    BY <1>2, <1>6 DEF makeFormatDescription, Inv, Types, DecoderOK
  <2>2. vt' \in {NoSize, Dead, fmt'}
    <3>1. vt \in {NoSize, Dead, fmt}
      BY DEF Inv, Types, DecoderOK
    <3>2. KeptSession(fmt') \in {NoSize, Dead, fmt'}
      BY <3>1 DEF KeptSession
    <3>3. QED
      BY <1>2, <3>2 DEF createSession
  <2>3. spoiled' \subseteq {"capture", "picture", "reference"}
    BY <1>2 DEF Inv, Types, DecoderOK
  <2>4. QED
    BY <2>1, <2>2, <2>3 DEF DecoderOK
<1>12. QueueOK'
  <2> HIDE DEF shownAs
  <2>1. QED
    BY <1>8, <1>9, TakenQueue DEF Inv
<1>13. ASSUME "reference" \notin spoiled' PROVE Sound'
  <2>1. outcome = "ok" /\ Sound
    BY <1>2, <1>13 DEF Inv
  <2>2. \A j \in 1..1-1 : ~IsPacket(j)
    OBVIOUS
  <2>3. /\ Decodable(p)
        /\ makeFormatDescription(p, "ok") = p.texture.size
        /\ createSession(KeptSession(p.texture.size), p.texture.size, "ok") = p.texture.size
    BY <1>3, <2>1, <2>2, FirstDecodable DEF Inv
  <2>4. fmt' = p.texture.size /\ vt' = p.texture.size
    BY <1>2, <2>1, <2>3
  <2>5. /\ tasks' = Append(Tail(tasks), shownAs(p.texture))
        /\ ref' = [session |-> session, n |-> p.n]
    BY <1>2, <1>4, <1>6, <2>1, <2>3, <2>4 DEF Output
  <2>6. shownAs(p.texture) \in Shows /\ shownAs(p.texture).texture # Broken
    BY <1>5, <1>6 DEF Shows
  <2>7. TakesHead(shownAs(p.texture))
    <3> HIDE DEF shownAs
    <3>1. QED
      BY <1>1, <2>5, <2>6 DEF TakesHead
  <2>8. vt' # Dead
    BY <1>6, <2>4, VideoAssumption
  <2>9. ref' = [session |-> session, n |-> tasks[1].n] /\ fmt' = tasks[1].texture.size
    BY <1>3, <2>4, <2>5
  <2> HIDE DEF shownAs
  <2>10. QED
    BY <1>3, <1>9, <2>1, <2>6, <2>7, <2>8, <2>9, TakenSound DEF Inv
<1>14. QED
  BY <1>10, <1>11, <1>12, <1>13 DEF Inv, Types

LEMMA InvSetPixelBuffer ==
  ASSUME Inv, setPixelBuffer
  PROVE  Inv'
<1> DEFINE h == Head(tasks)
<1>1. /\ tasks # <<>> /\ h.kind = "show" /\ pending' = h.texture /\ tasks' = Tail(tasks)
      /\ UNCHANGED <<displayVars, up, session, captureVars, encoderVars, wire, decoderVars, shown,
                     faultVars>>
  BY DEF setPixelBuffer
<1>2. tasks \in Seq(Packets \cup Shows) /\ 1 \in DOMAIN tasks /\ tasks[1] = h
  <2>1. tasks \in Seq(Packets \cup Shows)
    BY DEF Inv, Types, QueueOK
  <2>2. QED
    BY <1>1, <2>1
<1>3. h \in Shows /\ ~IsPacket(1)
  BY <1>1, <1>2 DEF Packets, Shows, IsPacket
<1> HIDE DEF h
<1>4. h.texture \in Textures
  BY <1>3, TextureTypes DEF Shows
<1>5. DisplayOK' /\ CaptureOK' /\ EncoderOK' /\ GlassOK' /\ DecoderOK' /\ spoiled' = spoiled
  BY <1>1, <1>4 DEF Inv, Types, DisplayOK, CaptureOK, EncoderOK, GlassOK, DecoderOK, displayVars,
                    captureVars, encoderVars, decoderVars, faultVars
<1>6. UNCHANGED <<up, session, input, encoded, wire, ref, fmt, vt>>
  BY <1>1 DEF encoderVars, decoderVars
<1>7. TakesHead(h)
  BY <1>1, <1>3 DEF TakesHead
<1>8. QueueOK'
  BY <1>6, <1>7, TakenQueue DEF Inv
<1>9. ASSUME Sound PROVE Sound'
  <2>1. h.texture # Broken /\ vt' # Dead
    BY <1>2, <1>3, <1>6, <1>9 DEF Sound, NothingBroken
  <2>2. QED
    BY <1>3, <1>6, <1>7, <1>9, <2>1, TakenSound DEF Inv
<1>10. QED
  BY <1>5, <1>8, <1>9 DEF Inv, Types

LEMMA InvDraw ==
  ASSUME Inv, draw
  PROVE  Inv'
<1>1. /\ shown' = pending
      /\ UNCHANGED <<displayVars, up, session, captureVars, encoderVars, wire, tasks, decoderVars,
                     pending, faultVars>>
  BY DEF draw
<1>2. DisplayOK' /\ CaptureOK' /\ EncoderOK' /\ GlassOK' /\ DecoderOK' /\ spoiled' = spoiled
  BY <1>1 DEF Inv, Types, DisplayOK, CaptureOK, EncoderOK, GlassOK, DecoderOK, displayVars,
              captureVars, encoderVars, decoderVars, faultVars
<1>3. UNCHANGED <<up, session, input, encoded, wire, tasks, fmt, vt, ref>>
  BY <1>1 DEF encoderVars, decoderVars
<1>4. QED
  BY <1>2, <1>3, QueueSame, SoundSame DEF Inv, Types

LEMMA InvDecoderDies ==
  ASSUME Inv, DecoderDies
  PROVE  Inv'
<1>1. /\ vt' = Dead /\ spoiled' = spoiled \cup {"reference"}
      /\ UNCHANGED <<displayVars, up, session, captureVars, encoderVars, wire, tasks, fmt, ref,
                     glassVars>>
  BY DEF DecoderDies
<1>2. DisplayOK' /\ CaptureOK' /\ EncoderOK' /\ GlassOK' /\ DecoderOK'
  BY <1>1 DEF Inv, Types, DisplayOK, CaptureOK, EncoderOK, GlassOK, DecoderOK, displayVars,
              captureVars, encoderVars, glassVars
<1>3. UNCHANGED <<up, session, input, encoded, wire, tasks>>
  BY <1>1 DEF encoderVars
<1>4. QED
  BY <1>1, <1>2, <1>3, QueueSame DEF Inv, Types

LEMMA InvRelaunch ==
  ASSUME Inv, Relaunch
  PROVE  Inv'
<1>1. /\ ~up /\ tasks' = <<>> /\ fmt' = NoSize /\ vt' = NoSize
      /\ pending' = NoTexture /\ shown' = NoTexture
      /\ UNCHANGED <<displayVars, up, session, captureVars, encoderVars, wire, faultVars>>
  BY DEF Relaunch
<1>2. GlassOK'
  BY <1>1 DEF GlassOK, Textures
<1>3. DisplayOK' /\ CaptureOK' /\ EncoderOK' /\ DecoderOK'
  BY <1>1 DEF Inv, Types, DisplayOK, CaptureOK, EncoderOK, DecoderOK, displayVars,
              captureVars, encoderVars, faultVars
<1>4. QueueOK'
  <2>1. tasks' = <<>> /\ UNCHANGED <<up, session, input, encoded, wire>>
    BY <1>1 DEF encoderVars
  <2>2. QED
    BY <2>1 DEF Inv, Types, QueueOK
<1>5. Sound'
  <2>1. vt' # Dead
    BY <1>1, VideoAssumption
  <2>2. QED
    BY <1>1, <2>1 DEF Sound, FirstReady, Consecutive, WireFollows, NothingBroken
<1>6. QED
  BY <1>2, <1>3, <1>4, <1>5 DEF Inv, Types

LEMMA InvNext == Inv /\ [Next]_vars => Inv'
<1> SUFFICES ASSUME Inv, [Next]_vars PROVE Inv'
  OBVIOUS
<1>1. CASE UNCHANGED vars
  <2>1. /\ UNCHANGED <<displayVars, up, session, captureVars, encoderVars, wire, tasks, decoderVars,
                       glassVars, faultVars>>
    BY <1>1 DEF vars
  <2>2. DisplayOK' /\ CaptureOK' /\ EncoderOK' /\ GlassOK' /\ DecoderOK' /\ spoiled' = spoiled
    BY <2>1 DEF Inv, Types, DisplayOK, CaptureOK, EncoderOK, GlassOK, DecoderOK, displayVars,
                captureVars, encoderVars, decoderVars, glassVars, faultVars
  <2>3. UNCHANGED <<up, session, input, encoded, wire, tasks, fmt, vt, ref>>
    BY <2>1 DEF encoderVars, decoderVars
  <2>4. QED
    BY <2>2, <2>3, QueueSame, SoundSame DEF Inv, Types
<1>2. CASE ChangePicture \/ ChangeMode
  <2>1. screen.size \in Sizes
    BY DEF Inv, Types, DisplayOK, Drawn
  <2>2. QED
    BY <1>2, <2>1, InvDraws DEF ChangePicture, ChangeMode
<1>3. CASE Host
  BY <1>3, InvStartCapture, InvCut, InvKeyframeRequest, InvOnFrameArrived, InvOnFrameResized DEF Host
<1>4. CASE Device
  BY <1>4, InvReceive, InvDecode, InvSetPixelBuffer, InvDraw DEF Device
<1>5. QED
  BY <1>1, <1>2, <1>3, <1>4, InvPoolFrame, InvDecoderDies, InvRelaunch DEF Next

THEOREM Invariance == Spec => []Inv
BY InvInit, InvNext, PTL DEF Spec

-------------------------------------------------------------------------------

\* Textures, pool and packets keep the sizes they were made with, and the
\* packets under way are of the session that runs and of its encoder's size.
THEOREM TypesAreRight == Spec => []TypeOK
<1>1. Inv => TypeOK
  <2> SUFFICES ASSUME Types PROVE TypeOK
    BY DEF Inv
  <2>1. delivery \in Textures /\ input \in Textures
    BY TextureTypes DEF Types, CaptureOK, EncoderOK
  <2>2. ASSUME up, NEW i \in DOMAIN (wire \o tasks), (wire \o tasks)[i].kind = "packet"
        PROVE  /\ (wire \o tasks)[i].session = session
               /\ (wire \o tasks)[i].texture.size = input.size
    <3>1. wire \in Seq(Packets) /\ tasks \in Seq(Packets \cup Shows)
      BY DEF Types, QueueOK
    <3>2. \/ i \in DOMAIN wire /\ (wire \o tasks)[i] = wire[i]
          \/ i - Len(wire) \in DOMAIN tasks /\ (wire \o tasks)[i] = tasks[i - Len(wire)]
      BY <3>1
    <3>3. QED
      BY <2>2, <3>2 DEF Types, QueueOK, IsPacket
  <2>3. QED
    BY <2>1, <2>2 DEF TypeOK, Types, CaptureOK, GlassOK, DecoderOK
<1>2. QED
  BY <1>1, Invariance, PTL

\* Whatever sessions came before and however the display's mode changed, the
\* iPad can decode every packet it is given, and shows nothing broken, unless
\* a fault of this session took a picture that others refer to, or the decoder.
THEOREM NothingIsBroken == Spec => []NeverBroken
<1>1. Inv => NeverBroken
  <2> SUFFICES ASSUME Types, Sound, NEW i \in DOMAIN tasks
               PROVE  IF tasks[i].kind = "packet"
                        THEN (\A j \in 1..(i - 1) : tasks[j].kind # "packet") => Decodable(tasks[i])
                        ELSE tasks[i].texture # Broken
    BY DEF Inv, NeverBroken
  <2>1. CASE IsPacket(i)
    BY <2>1, FirstDecodable DEF IsPacket
  <2>2. CASE ~IsPacket(i)
    BY <2>2 DEF Sound, NothingBroken, IsPacket
  <2>3. QED
    BY <2>1, <2>2 DEF IsPacket
<1>2. QED
  BY <1>1, Invariance, PTL
====
