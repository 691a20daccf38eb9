-------------------------------- MODULE Pairing --------------------------------
(***************************************************************************)
(* Pairing and reconnecting: the trust-on-first-use handshake between the  *)
(* host (SecureByteChannel::Establish, blocking) and an iPad               *)
(* (SecureTransport.establish and VideoSession.accept, callbacks), with    *)
(* the identities and pins they keep in persistent stores, crashes and     *)
(* restarts of either side and a cable that may be pulled at any moment.   *)
(*                                                                         *)
(* The host has one tunnel at a time.  An iPad accepts every connection,   *)
(* also while handshakes of earlier ones are under way: each has its own   *)
(* SecureTransport, and the pin that was stored when it was accepted.      *)
(*                                                                         *)
(* An identity is a pair <<n, k>>, the k-th that node n has generated.     *)
(* The devices are honest: a hello names the public key of its sender and  *)
(* a confirm, the signature over the transcript, its secret key.           *)
(***************************************************************************)
EXTENDS Naturals, Sequences

CONSTANTS
  Devices,  \* iPads that run the app
  Slots,    \* bound: connections an iPad may have at once
  MaxIds,   \* bound: identities each side generates
  Faults,   \* writes to a store that may fail
  Misreads  \* reads of a store that may fail

Host == "host"
Nodes == {Host} \cup Devices
None == <<Host, 0>>
Items == {"host_self", "host_peer", "device_self", "device_peer"}

\* A tunnel is named after its end at an iPad; the host has one end.
Tunnels == Devices \X Slots
HostEnd == <<Host, 0>>
Ends == {HostEnd} \cup Tunnels
Node(e) == e[1]

ASSUME PairingAssumption ==
  /\ Host \notin Devices
  /\ MaxIds \in Nat
  /\ Faults \subseteq Items
  /\ Misreads \subseteq Items

VARIABLES
  store,    \* persistent: [pk, sk, peer] of each node, None when absent
  made,     \* number of identities each node has generated
  trusted,  \* history: every identity that the host has ever pinned
  up,       \* each program: "off", "keys" (an iPad between its two writes), "on"
  id,       \* keys [pk, sk] each running node uses
  pc,       \* where each end is in the handshake
  heard,    \* identity in the hello the end has consumed
  pinned,   \* an iPad's pin as loaded when it accepted the connection
  cur,      \* the host's tunnel, or its last one; HostEnd at first
  link,     \* cur: "none", "up", "cut" (by a crash too), "closed" by a side that
            \* refuses, or "unsaved": by the host, which could not save its pin
  in        \* messages on their way to each end

storeVars == <<store, trusted>>
nodeVars == <<store, made, trusted, up, id>>
linkVars == <<cur, link>>
vars == <<nodeVars, pc, heard, pinned, linkVars, in>>

Keys(p, s) == [pk |-> p, sk |-> s]

Init ==
  /\ store = [n \in Nodes |-> [pk |-> None, sk |-> None, peer |-> None]]
  /\ made = [n \in Nodes |-> 0]
  /\ trusted = {}
  /\ up = [n \in Nodes |-> "off"]
  /\ id = [n \in Nodes |-> Keys(None, None)]
  /\ pc = [e \in Ends |-> "idle"]
  /\ heard = [e \in Ends |-> None]
  /\ pinned = [t \in Tunnels |-> None]
  /\ cur = HostEnd
  /\ link = "none"
  /\ in = [e \in Ends |-> <<>>]

Goto(e, l) == pc' = [pc EXCEPT ![e] = l]

Msg(kind, i) == [kind |-> kind, from |-> i]

\* What is written to a tunnel that is down is lost.
Up(t) == link = "up" /\ cur = t
Carried(e) == link = "up" /\ e \in {HostEnd, cur}
Other(e) == IF e = HostEnd THEN cur ELSE HostEnd

\* e reads a message of this kind and answers.
ReadThenSend(e, kind, reply) ==
  /\ in[e] # <<>>
  /\ Head(in[e]).kind = kind
  /\ in' = IF Carried(e) THEN [in EXCEPT ![e] = Tail(@), ![Other(e)] = @ \o reply]
                         ELSE [in EXCEPT ![e] = Tail(@)]

\* A read of v may fail, and a write may be lost: LoadSelf, LoadPeer and read
\* take every failure for an absent item.
Read(item, v) == {v} \cup (IF item \in Misreads THEN {None} ELSE {})
Writes(item) == {TRUE} \cup (IF item \in Faults THEN {FALSE} ELSE {})

-------------------------------------------------------------------------------
(* Starting and stopping the programs.                                      *)

SelfItem(n) == IF n = Host THEN "host_self" ELSE "device_self"

LoadIdentity(n) ==
  /\ up[n] = "off"
  /\ store[n].pk # None /\ store[n].sk # None
  /\ up' = [up EXCEPT ![n] = "on"]
  /\ id' = [id EXCEPT ![n] = Keys(store[n].pk, store[n].sk)]
  /\ UNCHANGED <<storeVars, made, pc, heard, pinned, linkVars, in>>

\* LoadOrCreateIdentity: a new identity is used whether or not it was saved.  The
\* host saves it in one blob, an iPad one key after the other.
CreateIdentity(n) ==
  /\ up[n] = "off"
  /\ made[n] < MaxIds
  /\ None \in Read(SelfItem(n), store[n].pk) \cup Read(SelfItem(n), store[n].sk)
  /\ made' = [made EXCEPT ![n] = @ + 1]
  /\ up' = [up EXCEPT ![n] = IF n = Host THEN "on" ELSE "keys"]
  /\ LET new == <<n, made[n] + 1>>
     IN  /\ id' = [id EXCEPT ![n] = Keys(new, new)]
         /\ \E ok \in Writes(SelfItem(n)) :
              store' = IF ~ok THEN store
                       ELSE IF n = Host THEN [store EXCEPT ![n] = [@ EXCEPT !.pk = new, !.sk = new]]
                       ELSE [store EXCEPT ![n].pk = new]
  /\ UNCHANGED <<trusted, pc, heard, pinned, linkVars, in>>

SaveSecret(d) ==
  /\ up[d] = "keys"
  /\ up' = [up EXCEPT ![d] = "on"]
  /\ \E ok \in Writes(SelfItem(d)) :
       store' = IF ok THEN [store EXCEPT ![d].sk = id[d].sk] ELSE store
  /\ UNCHANGED <<trusted, made, id, pc, heard, pinned, linkVars, in>>

\* Mutated form: what the peer said is kept for the next attempt.
ForgetPinOnly(E) ==
  /\ heard' = heard
  /\ pinned' = [t \in Tunnels |-> IF t \in E THEN None ELSE pinned[t]]

\* What these ends held of their connections is gone.
Forget(E) ==
  /\ heard' = [e \in Ends |-> IF e \in E THEN None ELSE heard[e]]
  /\ pinned' = [t \in Tunnels |-> IF t \in E THEN None ELSE pinned[t]]

\* Nobody reads what is still on its way to them.
Leave(E, how) ==
  /\ pc' = [e \in Ends |-> IF e \in E THEN "idle" ELSE pc[e]]
  /\ in' = [e \in Ends |-> IF e \in E THEN <<>> ELSE in[e]]
  /\ Forget(E)
  /\ link' = IF link = "up" /\ (HostEnd \in E \/ cur \in E) THEN how ELSE link
  /\ cur' = cur

Crash(n) ==
  /\ up[n] # "off"
  /\ up' = [up EXCEPT ![n] = "off"]
  /\ id' = [id EXCEPT ![n] = Keys(None, None)]
  /\ Leave({e \in Ends : Node(e) = n}, "cut")
  /\ UNCHANGED <<storeVars, made>>

\* The host connects to the app on an iPad, which may still be in the handshakes
\* of earlier connections; both send their hello at once.
Connect(t) ==
  /\ up[Host] = "on" /\ pc[HostEnd] = "idle"
  /\ up[Node(t)] = "on" /\ pc[t] = "idle"
  /\ pc' = [pc EXCEPT ![HostEnd] = "hello", ![t] = "hello"]
  /\ \E p \in Read("device_peer", store[Node(t)].peer) : pinned' = [pinned EXCEPT ![t] = p]
  /\ cur' = t
  /\ link' = "up"
  /\ in' = [in EXCEPT ![HostEnd] = <<Msg("hello", id[Node(t)].pk)>>,
                      ![t] = <<Msg("hello", id[Host].pk)>>]
  /\ UNCHANGED <<nodeVars, heard>>

\* The cable is pulled, or the session on this connection ends.
Cut ==
  /\ link = "up"
  /\ link' = "cut"
  /\ UNCHANGED <<nodeVars, pc, heard, pinned, cur, in>>

\* Mutated form: the end of a closed connection is not an error of the read.
AbortOnErrorOnly(e) ==
  /\ ~Carried(e) /\ link = "cut"
  /\ pc[e] \notin {"idle", "learn"}
  /\ Leave({e}, "cut")
  /\ UNCHANGED nodeVars

\* A read fails once the tunnel is down: whatever was in flight may be lost.
Abort(e) ==
  /\ ~Carried(e)
  /\ pc[e] \notin {"idle", "learn"}
  /\ Leave({e}, "cut")
  /\ UNCHANGED nodeVars

-------------------------------------------------------------------------------
(* The host, Establish.                                                     *)

ConsumeHello(e) ==
  /\ pc[e] = "hello"
  /\ ReadThenSend(e, "hello", <<Msg("confirm", id[Node(e)].sk)>>)
  /\ heard' = [heard EXCEPT ![e] = Head(in[e]).from]
  /\ Goto(e, "confirm")
  /\ UNCHANGED <<nodeVars, pinned, linkVars>>

\* The confirm is there; its signature is good if one identity made both.
HasConfirm(e) == pc[e] = "confirm" /\ in[e] # <<>> /\ Head(in[e]).kind = "confirm"
Signed(e) == Head(in[e]).from = heard[e]

PinRead == Read("host_peer", store[Host].peer)

\* Mutated form: any pinned host refuses.
HostRefusesPinned ==
  /\ HasConfirm(HostEnd)
  /\ (\E p \in PinRead : p # None) \/ ~Signed(HostEnd)
  /\ Leave({HostEnd}, "closed")
  /\ UNCHANGED nodeVars

HostRefuses ==
  /\ HasConfirm(HostEnd)
  /\ (\E p \in PinRead : p \notin {None, heard[HostEnd]}) \/ ~Signed(HostEnd)
  /\ Leave({HostEnd}, "closed")
  /\ UNCHANGED nodeVars

\* The host pins before it sends its header.
HostVerify ==
  /\ HasConfirm(HostEnd) /\ Signed(HostEnd)
  /\ ReadThenSend(HostEnd, "confirm", <<>>)
  /\ \E p \in PinRead : p \in {None, heard[HostEnd]}
  /\ store' = [store EXCEPT ![Host].peer = heard[HostEnd]]
  /\ trusted' = trusted \cup {heard[HostEnd]}
  /\ Goto(HostEnd, "pinned")
  /\ UNCHANGED <<made, up, id, heard, pinned, linkVars>>

\* Mutated form: the attempt goes on without the pin.
HostSaveIgnored ==
  /\ "host_peer" \in Faults
  /\ HasConfirm(HostEnd) /\ Signed(HostEnd)
  /\ ReadThenSend(HostEnd, "confirm", <<>>)
  /\ None \in PinRead
  /\ Goto(HostEnd, "pinned")
  /\ UNCHANGED <<nodeVars, heard, pinned, linkVars>>

\* Fail closed if the pin cannot be persisted.
HostSaveFails ==
  /\ "host_peer" \in Faults
  /\ HasConfirm(HostEnd) /\ Signed(HostEnd)
  /\ None \in PinRead
  /\ Leave({HostEnd}, "unsaved")
  /\ UNCHANGED nodeVars

HostSendsHeader ==
  /\ pc[HostEnd] = "pinned"
  /\ in' = IF link = "up" THEN [in EXCEPT ![cur] = Append(@, Msg("header", id[Host].pk))]
                          ELSE in
  /\ Goto(HostEnd, "header")
  /\ UNCHANGED <<nodeVars, heard, pinned, linkVars>>

HostReady ==
  /\ pc[HostEnd] = "header"
  /\ ReadThenSend(HostEnd, "header", <<>>)
  /\ Goto(HostEnd, "ready")
  /\ UNCHANGED <<nodeVars, heard, pinned, linkVars>>

-------------------------------------------------------------------------------
(* An iPad: it sends its header as soon as the confirm verifies, and pins   *)
(* only after the host's header, in a task of its own.                      *)

DeviceRefuses(t) ==
  /\ HasConfirm(t)
  /\ pinned[t] \notin {None, heard[t]} \/ ~Signed(t)
  /\ Leave({t}, "closed")
  /\ UNCHANGED nodeVars

\* Mutated form: the iPad pins when the confirm verifies.
DeviceVerifyAndPin(t) ==
  /\ HasConfirm(t) /\ Signed(t)
  /\ pinned[t] \in {None, heard[t]}
  /\ ReadThenSend(t, "confirm", <<Msg("header", id[Node(t)].pk)>>)
  /\ store' = [store EXCEPT ![Node(t)].peer = heard[t]]
  /\ Goto(t, "header")
  /\ UNCHANGED <<trusted, made, up, id, heard, pinned, linkVars>>

DeviceVerify(t) ==
  /\ HasConfirm(t) /\ Signed(t)
  /\ pinned[t] \in {None, heard[t]}
  /\ ReadThenSend(t, "confirm", <<Msg("header", id[Node(t)].pk)>>)
  /\ Goto(t, "header")
  /\ UNCHANGED <<nodeVars, heard, pinned, linkVars>>

\* Mutated form: the session goes on while the pin is still to be saved.
DeviceReadyEarly(t) ==
  /\ pc[t] = "header"
  /\ ReadThenSend(t, "header", <<>>)
  /\ Goto(t, "ready")
  /\ UNCHANGED <<nodeVars, heard, pinned, linkVars>>

DeviceReady(t) ==
  /\ pc[t] = "header"
  /\ ReadThenSend(t, "header", <<>>)
  /\ Goto(t, "learn")
  /\ UNCHANGED <<nodeVars, heard, pinned, linkVars>>

\* If the connection was accepted without a pin, the identity is saved over
\* whatever the store has by now.  The write's status is not looked at.
DeviceLearns(t) ==
  /\ pc[t] = "learn"
  /\ \/ /\ pinned[t] # None
        /\ store' = store
        /\ Goto(t, "ready")
     \/ /\ pinned[t] = None
        /\ store' = [store EXCEPT ![Node(t)].peer = heard[t]]
        /\ Goto(t, "ready")
     \/ /\ pinned[t] = None
        /\ "device_peer" \in Faults
        /\ store' = store
        /\ Goto(t, "unpinned")
  /\ UNCHANGED <<trusted, made, up, id, heard, pinned, linkVars, in>>

-------------------------------------------------------------------------------
HostStep ==
  \/ ConsumeHello(HostEnd) \/ HostRefuses \/ HostVerify \/ HostSaveFails
  \/ HostSendsHeader \/ HostReady \/ Abort(HostEnd)

DeviceStep(t) ==
  \/ ConsumeHello(t) \/ DeviceRefuses(t) \/ DeviceVerify(t)
  \/ DeviceReady(t) \/ DeviceLearns(t) \/ Abort(t)

Next ==
  \/ \E n \in Nodes : LoadIdentity(n) \/ CreateIdentity(n) \/ Crash(n)
  \/ \E d \in Devices : SaveSecret(d)
  \/ Cut
  \/ HostStep
  \/ \E t \in Tunnels : Connect(t) \/ DeviceStep(t)

Spec == Init /\ [][Next]_vars

\* The host's thread runs, and an iPad's connections call back when they end.
\* An iPad may fall silent: that it ever answers is not assumed, nor anything of
\* crashes, restarts, connection attempts or the cable.
FairSpec ==
  /\ Spec
  /\ WF_vars(HostStep)
  /\ \A t \in Tunnels : WF_vars(Abort(t) \/ DeviceLearns(t))

\* The iPads answer.
Answering == \A t \in Tunnels : WF_vars(DeviceStep(t))

-------------------------------------------------------------------------------
(* Properties.                                                              *)

Ids == Nodes \X (0..MaxIds)

Messages == [kind : {"hello", "confirm", "header"}, from : Ids]

TypeOK ==
  /\ store \in [Nodes -> [pk : Ids, sk : Ids, peer : Ids]]
  /\ made \in [Nodes -> 0..MaxIds]
  /\ trusted \subseteq Ids
  /\ up \in [Nodes -> {"off", "keys", "on"}]
  /\ id \in [Nodes -> [pk : Ids, sk : Ids]]
  /\ pc \in [Ends -> {"idle", "hello", "confirm", "pinned", "header", "learn", "ready",
                      "unpinned"}]
  /\ heard \in [Ends -> Ids]
  /\ \A e \in Ends : heard[e] # None <=> pc[e] \notin {"idle", "hello"}
  /\ pinned \in [Tunnels -> Ids]
  /\ cur \in Ends
  /\ link \in {"none", "up", "cut", "closed", "unsaved"}
  /\ in \in [Ends -> Seq(Messages)]

\* The host streams only to the device it has pinned in its store, and only if
\* the pin could be saved.
HostTrustsItsPin ==
  pc[HostEnd] \in {"pinned", "header", "ready"} =>
    store[Host].peer # None /\ store[Host].peer = heard[HostEnd]

\* When both sides are ready the host has pinned the device.  The device, if its
\* write did not fail, has pinned the host, unless the host has had another
\* identity before, which an earlier connection may have learned since.
MutualPins ==
  link = "up" /\ pc[HostEnd] = "ready" /\ pc[cur] = "ready" =>
    /\ store[Host].peer = id[Node(cur)].pk
    /\ made[Host] = 1 => store[Node(cur)].peer = id[Host].pk

\* "Mutual pinning: the host pins the iPad's identity and the iPad pins the
\* host's" (docs/SECURITY.md), in every session.  It does not hold: savePinnedPeer
\* may fail, and the iPad streams all the same.
BothPin ==
  link = "up" /\ pc[HostEnd] = "ready" /\ pc[cur] \in {"ready", "unpinned"} =>
    store[Host].peer # None /\ store[Node(cur)].peer # None

\* A device that the host refuses learns nothing: an iPad pins a host only when
\* that host has pinned it, whatever is lost and whoever crashes in between.
PinnedByItsHost ==
  [][\A d \in Devices : store'[d].peer # store[d].peer => id[d].pk \in trusted]_vars

\* What each side promises of pins: "An unknown / changed identity is refused"
\* (docs/SECURITY.md), so that a pin is never replaced or dropped.
PinIsForever ==
  [][\A n \in Nodes : store[n].peer # None => store'[n].peer = store[n].peer]_vars

\* A device that has pinned the host still knows it by that identity, which is
\* "generated once and stored in OS secure storage" (docs/SECURITY.md).
HostRecognised ==
  \A d \in Devices :
    store[d].peer # None /\ up[Host] = "on" => store[d].peer = id[Host].pk

\* An identity is a "keypair" (docs/SECURITY.md): what a program signs verifies
\* against the key it announces.
KeysBelongTogether == \A n \in Nodes : id[n].pk = id[n].sk

\* Only an iPad that is silent on an open tunnel holds the host in a handshake:
\* one that goes on for ever has read all there is and the tunnel is up.  And an
\* iPad gives up every connection that has ended under it.
HandshakeEnds ==
  /\ <>[](pc[HostEnd] \in {"hello", "confirm", "pinned", "header"})
       => <>[](link = "up" /\ in[HostEnd] = <<>>)
  /\ \A t \in Tunnels : (pc[t] # "idle" /\ ~Up(t)) ~> pc[t] = "idle"

\* Devices that have paired get through every handshake that is not cut short, if
\* the iPad answers: neither refuses the other.  (A host that could not read its
\* pin takes the iPad for a new one, and closes if it cannot save it again.)
Paired(t) ==
  /\ store[Host].peer = id[Node(t)].pk
  /\ pinned[t] = id[Host].pk
  /\ id[Node(t)].pk = id[Node(t)].sk

PairedReconnect ==
  Answering =>
    \A t \in Tunnels :
      (pc[HostEnd] = "hello" /\ cur = t /\ Paired(t))
        ~> (pc[HostEnd] = "ready" \/ link \in {"cut", "unsaved"})
===============================================================================
