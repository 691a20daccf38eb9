-------------------------- MODULE MCStreamingSession --------------------------
(* Constant values for the runs of StreamingSession. *)
EXTENDS StreamingSession, TLC

MCPeerMsgs ==
  {[type |-> x] : x \in {"KEYFRAME_REQUEST", "DISCONNECT"}}
    \cup {[type |-> "PING", token |-> t] : t \in Tokens}

MCRequests ==
  {[type |-> x] : x \in {"KEYFRAME_REQUEST", "IGNORED", "CORRUPT"}}
    \cup {[type |-> "PING", token |-> t] : t \in Tokens}

MCQuietPeer ==
  {[type |-> x] : x \in {"KEYFRAME_REQUEST", "IGNORED"}}

MCHandlerSymmetry == Permutations(Handlers)
===============================================================================
