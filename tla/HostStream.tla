------------------------------ MODULE HostStream ------------------------------
(***************************************************************************)
(* What the host promises the iPad about the byte stream of one session:   *)
(* HELLO, then WELCOME, then VIDEO_FRAMEs numbered consecutively (modulo   *)
(* the width of the seq field) interleaved with PONGs that answer the      *)
(* iPad's PINGs in order, each once.  Nothing is said about threads, locks *)
(* or the encoder: StreamingSession is shown to implement this.            *)
(***************************************************************************)
EXTENDS Naturals, Sequences

CONSTANTS
  Tokens,   \* PING tokens
  SeqModulus    \* VIDEO_FRAME.seq is a counter modulo SeqModulus (2^32 in the code)

VARIABLES
  wire,     \* messages sent and not yet read by the iPad
  stage,    \* what the greeting still owes: "hello", "welcome" or "stream"
  next,     \* seq of the next VIDEO_FRAME
  pings,    \* tokens of the PINGs not answered yet, oldest first
  open      \* FALSE once either end has closed the channel

vars == <<wire, stage, next, pings, open>>

HelloMsg == [type |-> "HELLO"]
WelcomeMsg == [type |-> "WELCOME"]
PongMsg(t) == [type |-> "PONG", token |-> t]
VideoMsg(s, k) == [type |-> "VIDEO", seq |-> s, key |-> k]

HostMsgs ==
  {HelloMsg, WelcomeMsg} \cup {PongMsg(t) : t \in Tokens}
    \cup {VideoMsg(s, k) : s \in 0..SeqModulus-1, k \in BOOLEAN}

Init ==
  /\ wire = <<>>
  /\ stage = "hello"
  /\ next = 0
  /\ pings = <<>>
  /\ open = TRUE

\* What is sent into a closed channel may be lost.
Emit(m) ==
  \/ wire' = Append(wire, m)
  \/ ~open /\ wire' = wire

Hello ==
  /\ stage = "hello"
  /\ Emit(HelloMsg)
  /\ stage' = "welcome"
  /\ UNCHANGED <<next, pings, open>>

Welcome ==
  /\ stage = "welcome"
  /\ Emit(WelcomeMsg)
  /\ stage' = "stream"
  /\ UNCHANGED <<next, pings, open>>

Video ==
  /\ stage = "stream"
  /\ \E k \in BOOLEAN : Emit(VideoMsg(next, k))
  /\ next' = (next + 1) % SeqModulus
  /\ UNCHANGED <<stage, pings, open>>

Answer ==
  /\ stage = "stream"
  /\ pings # <<>>
  /\ Emit(PongMsg(Head(pings)))
  /\ pings' = Tail(pings)
  /\ UNCHANGED <<stage, next, open>>

Ask ==
  /\ open
  /\ \E t \in Tokens : pings' = Append(pings, t)
  /\ UNCHANGED <<wire, stage, next, open>>

Deliver ==
  /\ wire # <<>>
  /\ wire' = Tail(wire)
  /\ UNCHANGED <<stage, next, pings, open>>

Cut ==
  /\ open
  /\ open' = FALSE
  /\ UNCHANGED <<wire, stage, next, pings>>

Next == Hello \/ Welcome \/ Video \/ Answer \/ Ask \/ Deliver \/ Cut

Spec == Init /\ [][Next]_vars
===============================================================================
