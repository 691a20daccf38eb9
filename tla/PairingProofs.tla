----------------------------- MODULE PairingProofs -----------------------------
(***************************************************************************)
(* Proofs about Pairing: its types, and whom the host and the iPads pin,   *)
(* for any number of iPads, of connections to each at once and of          *)
(* identities, whatever reads and writes of a store fail, whoever crashes  *)
(* and wherever a handshake is cut.                                        *)
(***************************************************************************)
EXTENDS Pairing, SequenceTheorems, TLAPS

Kinds == {"hello", "confirm", "header"}
Real == Ids \ {None}

From(S) == [kind : Kinds, from : S]
NoHeader == [kind : Kinds \ {"header"}, from : Ids]

\* What a program with the keys k says in a handshake.
Said(k) == {Msg("hello", k.pk), Msg("confirm", k.sk), Msg("header", k.pk)}

\* The identities the host has generated.
HostIds == {<<Host, j>> : j \in 1..made[Host]}

\* A running program has an identity, and only it is in handshakes.
Known ==
  /\ \A n \in Nodes : up[n] # "off" => id[n].pk \in Real /\ id[n].sk \in Real
  /\ \A e \in Ends : pc[e] # "idle" => up[Node(e)] = "on"
  /\ in \in [Ends -> Seq(From(Real))]

\* While a tunnel is up both of its ends are those that opened it.
Joined ==
  link = "up" =>
    /\ cur \in Tunnels
    /\ pc[HostEnd] # "idle" /\ pc[cur] # "idle"
    /\ heard[HostEnd] \in {None, id[Node(cur)].pk}
    /\ in[HostEnd] \in Seq(Said(id[Node(cur)]))

\* The host has trusted whom it has pinned.
Trusted == store[Host].peer \in trusted \cup {None}

\* The host's header says that the host has pinned the iPad.
Headers ==
  \A t \in Tunnels :
    pc[t] \in {"hello", "confirm", "header"} /\ id[Node(t)].pk \notin trusted =>
      in[t] \in Seq(NoHeader)

\* An iPad about to pin the host was pinned by it.
Learning == \A t \in Tunnels : pc[t] = "learn" => id[Node(t)].pk \in trusted

\* Whatever an iPad hears, or has pinned, is one of the host's identities.
Named ==
  /\ \A t \in Tunnels : heard[t] \in HostIds \cup {None} /\ in[t] \in Seq(From(HostIds))
  /\ \A d \in Devices : store[d].peer \in HostIds \cup {None}
  /\ id[Host].pk \in HostIds \cup {None} /\ id[Host].sk \in HostIds \cup {None}
  /\ store[Host].pk \in HostIds \cup {None} /\ store[Host].sk \in HostIds \cup {None}

\* An iPad that is ready, or was accepted with a pin, has one.
Learned ==
  \A t \in Tunnels : pinned[t] # None \/ pc[t] = "ready" => store[Node(t)].peer # None

IInv ==
  /\ TypeOK /\ Known /\ Joined /\ HostTrustsItsPin /\ Trusted /\ Headers /\ Learning
  /\ Named /\ Learned

-------------------------------------------------------------------------------
(* Sequences keep the type of their elements.                               *)

LEMMA ReadType ==
  ASSUME NEW S, NEW s \in Seq(S), s # <<>>
  PROVE  Head(s) \in S /\ Tail(s) \in Seq(S)
OBVIOUS

LEMMA WriteType ==
  ASSUME NEW S, NEW s \in Seq(S), NEW m \in S
  PROVE  s \o <<m>> \in Seq(S) /\ Append(s, m) \in Seq(S)
OBVIOUS

LEMMA JoinType ==
  ASSUME NEW S, NEW s \in Seq(S), NEW r \in Seq(S)
  PROVE  s \o r \in Seq(S)
OBVIOUS

LEMMA Narrower ==
  ASSUME NEW S, NEW T, S \subseteq T
  PROVE  Seq(S) \subseteq Seq(T)
OBVIOUS

LEMMA SingleType ==
  ASSUME NEW S, NEW m \in S
  PROVE  <<m>> \in Seq(S)
OBVIOUS

LEMMA NoHeaderRead ==
  ASSUME NEW s \in Seq(NoHeader), s # <<>>
  PROVE  Head(s).kind # "header"
<1>1. Head(s) \in NoHeader
  BY ReadType
<1> QED BY <1>1 DEF NoHeader

LEMMA FromRead ==
  ASSUME NEW S, NEW s \in Seq(From(S)), s # <<>>
  PROVE  Head(s).from \in S
<1>1. Head(s) \in From(S)
  BY ReadType
<1> QED BY <1>1 DEF From

-------------------------------------------------------------------------------
(* Ends, nodes and identities.                                              *)

LEMMA EndsAndNodes ==
  /\ HostEnd \in Ends /\ Node(HostEnd) = Host /\ Host \in Nodes /\ Devices \subseteq Nodes
  /\ HostEnd \notin Tunnels /\ Tunnels \subseteq Ends /\ Host \notin Devices
  /\ \A t \in Tunnels : Node(t) \in Devices /\ Node(t) # Host
  /\ \A e \in Ends : Node(e) \in Nodes /\ (Node(e) = Host <=> e = HostEnd)
  /\ \A e \in Ends : e = HostEnd \/ e \in Tunnels
BY PairingAssumption DEF Ends, HostEnd, Node, Tunnels, Nodes

LEMMA NewIdentity ==
  ASSUME NEW n \in Nodes, NEW k \in Nat, k < MaxIds
  PROVE  <<n, k + 1>> \in Real
BY PairingAssumption DEF Real, Ids, None, Host

LEMMA NoneIsId == None \in Ids
BY PairingAssumption DEF Ids, None, Nodes

\* What of the state a crash, a refusal or a failed read leaves.
LEMMA LeaveEffect ==
  ASSUME TypeOK, NEW E, NEW how \in {"cut", "closed", "unsaved"}, Leave(E, how)
  PROVE  /\ pc' \in [Ends -> {"idle", "hello", "confirm", "pinned", "header", "learn", "ready",
                              "unpinned"}]
         /\ in' \in [Ends -> Seq(Messages)] /\ heard' \in [Ends -> Ids]
         /\ pinned' \in [Tunnels -> Ids] /\ link' \in {"none", "up", "cut", "closed", "unsaved"}
         /\ cur' = cur
         /\ \A e \in Ends : IF e \in E
                            THEN pc'[e] = "idle" /\ heard'[e] = None /\ in'[e] = <<>>
                            ELSE pc'[e] = pc[e] /\ heard'[e] = heard[e] /\ in'[e] = in[e]
         /\ \A t \in Tunnels : pinned'[t] \in {None, pinned[t]}
         /\ link' = "up" => link = "up" /\ HostEnd \notin E /\ cur \notin E
<1>1. <<>> \in Seq(Messages)
  BY EmptySeq
<1> QED BY <1>1, NoneIsId DEF TypeOK, Leave, Forget

-------------------------------------------------------------------------------

LEMMA InvInit == Init => IInv
<1> SUFFICES ASSUME Init PROVE IInv
  OBVIOUS
<1> USE DEF Init, Keys
<1>1. \A S : <<>> \in Seq(S)
  BY EmptySeq
<1>2. TypeOK
  <2>1. 0 \in 0..MaxIds
    BY PairingAssumption
  <2> QED BY <1>1, <2>1, NoneIsId, EndsAndNodes DEF TypeOK
<1>3. Known
  BY <1>1, EndsAndNodes DEF Known
<1>4. Joined /\ HostTrustsItsPin /\ Trusted /\ Headers /\ Learning /\ Learned
  BY EndsAndNodes DEF Joined, HostTrustsItsPin, Trusted, Headers, Learning, Learned
<1>5. Named
  BY <1>1, EndsAndNodes DEF Named
<1> QED BY <1>2, <1>3, <1>4, <1>5 DEF IInv

\* What an end that reads and answers leaves unread anywhere.
LEMMA ReadSend ==
  ASSUME in \in [Ends -> Seq(Messages)], cur \in Ends,
         NEW f \in Ends, NEW kind, NEW reply, ReadThenSend(f, kind, reply),
         Carried(f) => Other(f) # f, NEW e \in Ends, NEW S, in[e] \in Seq(S),
         Carried(f) /\ e = Other(f) => reply \in Seq(S)
  PROVE  in'[e] \in Seq(S)
<1>1. Other(f) \in Ends
  BY EndsAndNodes DEF Other
<1>2. in[f] # <<>>
  BY DEF ReadThenSend
<1>3. e = f => Tail(in[f]) \in Seq(S)
  BY <1>2, ReadType
<1>4. CASE ~Carried(f)
  <2>1. in' = [in EXCEPT ![f] = Tail(in[f])]
    BY <1>4 DEF ReadThenSend
  <2> QED BY <2>1, <1>3
<1>5. CASE Carried(f)
  <2>1. in' = [in EXCEPT ![f] = Tail(in[f]), ![Other(f)] = in[Other(f)] \o reply]
    BY <1>5 DEF ReadThenSend
  <2>2. CASE e = Other(f)
    <3>1. in'[e] = in[e] \o reply
      BY <1>1, <1>5, <2>1, <2>2
    <3> QED BY <1>5, <2>2, <3>1, JoinType
  <2>3. CASE e # Other(f)
    BY <1>1, <1>3, <2>1, <2>3
  <2> QED BY <2>2, <2>3
<1> QED BY <1>4, <1>5

LEMMA ReadSendType ==
  ASSUME in \in [Ends -> Seq(Messages)], cur \in Ends, NEW f \in Ends, NEW kind, NEW reply,
         ReadThenSend(f, kind, reply)
  PROVE  DOMAIN in' = Ends /\ in' = [e \in Ends |-> in'[e]]
BY DEF ReadThenSend

\* The messages that can be sent to e while its tunnel is up.
MaySend(e, m) ==
  /\ Carried(e)
  /\ \/ m = Msg("confirm", id[Node(Other(e))].sk)
     \/ /\ m = Msg("header", id[Node(Other(e))].pk)
        /\ e # HostEnd => pc[HostEnd] = "pinned"

\* Without a new connection, what an end has to read is what it had, and what it
\* may be sent.
LEMMA Delivery ==
  ASSUME TypeOK, link = "up" => cur \in Tunnels, [Next]_vars, NEW e \in Ends, NEW S,
         in[e] \in Seq(S), \A m : MaySend(e, m) => m \in S,
         \A t \in Tunnels : Connect(t) => e # HostEnd /\ e # t
  PROVE  in'[e] \in Seq(S)
<1> USE EndsAndNodes
<1>0. /\ in \in [Ends -> Seq(Messages)] /\ cur \in Ends /\ <<>> \in Seq(S)
      /\ \A f \in Ends : Carried(f) => Other(f) # f
  BY EmptySeq DEF TypeOK, Carried, Other
<1>1. ASSUME NEW f \in Ends, Carried(f), e = Other(f)
      PROVE  /\ Carried(e) /\ Other(e) = f
             /\ Msg("confirm", id[Node(f)].sk) \in S
             /\ (f = HostEnd => pc[HostEnd] = "pinned") => Msg("header", id[Node(f)].pk) \in S
  <2>1. Carried(e) /\ Other(e) = f
    BY <1>1 DEF Carried, Other
  <2>2. MaySend(e, Msg("confirm", id[Node(f)].sk))
    BY <2>1 DEF MaySend
  <2>3. (f = HostEnd => pc[HostEnd] = "pinned") => MaySend(e, Msg("header", id[Node(f)].pk))
    BY <2>1 DEF MaySend, Other
  <2> QED BY <2>1, <2>2, <2>3
<1>2. ASSUME NEW f \in Ends, ConsumeHello(f) PROVE in'[e] \in Seq(S)
  <2>1. ReadThenSend(f, "hello", <<Msg("confirm", id[Node(f)].sk)>>)
    BY <1>2 DEF ConsumeHello
  <2>2. Carried(f) /\ e = Other(f) => <<Msg("confirm", id[Node(f)].sk)>> \in Seq(S)
    BY <1>1, SingleType
  <2> QED BY <1>0, <2>1, <2>2, ReadSend
<1>3. ASSUME NEW t \in Tunnels, DeviceVerify(t) PROVE in'[e] \in Seq(S)
  <2>1. ReadThenSend(t, "confirm", <<Msg("header", id[Node(t)].pk)>>)
    BY <1>3 DEF DeviceVerify
  <2>2. Carried(t) /\ e = Other(t) => <<Msg("header", id[Node(t)].pk)>> \in Seq(S)
    BY <1>1, SingleType
  <2> QED BY <1>0, <2>1, <2>2, ReadSend
<1>4. ASSUME NEW f \in Ends, NEW kind, ReadThenSend(f, kind, <<>>) PROVE in'[e] \in Seq(S)
  BY <1>0, <1>4, ReadSend
<1>5. CASE HostVerify \/ HostReady \/ \E t \in Tunnels : DeviceReady(t)
  BY <1>4, <1>5 DEF HostVerify, HostReady, DeviceReady
<1>6. CASE HostSendsHeader
  <2>1. CASE link = "up" /\ e = cur
    <3>1. in'[e] = Append(in[e], Msg("header", id[Host].pk))
      BY <1>0, <1>6, <2>1 DEF HostSendsHeader
    <3>2. Carried(HostEnd) /\ e = Other(HostEnd) /\ pc[HostEnd] = "pinned"
      BY <1>6, <2>1 DEF Carried, Other, HostSendsHeader
    <3>3. Msg("header", id[Host].pk) \in S
      BY <1>1, <3>2
    <3> QED BY <3>1, <3>3, WriteType
  <2>2. CASE ~(link = "up" /\ e = cur)
    BY <1>0, <1>6, <2>2 DEF HostSendsHeader
  <2> QED BY <2>1, <2>2
<1>7. ASSUME NEW E, NEW how \in {"cut", "closed", "unsaved"}, Leave(E, how) PROVE in'[e] \in Seq(S)
  BY <1>0, <1>7, LeaveEffect
<1>8. CASE \/ \E n \in Nodes : Crash(n)
           \/ \E f \in Ends : Abort(f)
           \/ HostRefuses \/ HostSaveFails
           \/ \E t \in Tunnels : DeviceRefuses(t)
  BY <1>7, <1>8 DEF Crash, Abort, HostRefuses, HostSaveFails, DeviceRefuses
<1>9. ASSUME NEW t \in Tunnels, Connect(t) PROVE in'[e] \in Seq(S)
  BY <1>0, <1>9 DEF Connect
<1>10. CASE \/ \E n \in Nodes : LoadIdentity(n) \/ CreateIdentity(n)
            \/ \E d \in Devices : SaveSecret(d)
            \/ Cut
            \/ \E t \in Tunnels : DeviceLearns(t)
            \/ UNCHANGED vars
  BY <1>10 DEF LoadIdentity, CreateIdentity, SaveSecret, Cut, DeviceLearns, vars
<1> QED
  BY <1>2, <1>3, <1>5, <1>6, <1>8, <1>9, <1>10 DEF Next, HostStep, DeviceStep

-------------------------------------------------------------------------------
(* Types.                                                                   *)

Stages == {"idle", "hello", "confirm", "pinned", "header", "learn", "ready", "unpinned"}

\* TypeOK and Known but for the messages on their way.
Types ==
  /\ store \in [Nodes -> [pk : Ids, sk : Ids, peer : Ids]]
  /\ made \in [Nodes -> 0..MaxIds]
  /\ trusted \subseteq Ids
  /\ up \in [Nodes -> {"off", "keys", "on"}]
  /\ id \in [Nodes -> [pk : Ids, sk : Ids]]
  /\ pc \in [Ends -> Stages]
  /\ heard \in [Ends -> Ids]
  /\ \A e \in Ends : heard[e] # None <=> pc[e] \notin {"idle", "hello"}
  /\ pinned \in [Tunnels -> Ids]
  /\ cur \in Ends
  /\ link \in {"none", "up", "cut", "closed", "unsaved"}
  /\ \A n \in Nodes : up[n] # "off" => id[n].pk \in Real /\ id[n].sk \in Real
  /\ \A e \in Ends : pc[e] # "idle" => up[Node(e)] = "on"

Stored == [pk : Ids, sk : Ids, peer : Ids]

LEMMA StoreType ==
  ASSUME NEW st \in [Nodes -> Stored], NEW n \in Nodes, NEW v \in Ids
  PROVE  /\ [st EXCEPT ![n].pk = v] \in [Nodes -> Stored]
         /\ [st EXCEPT ![n].sk = v] \in [Nodes -> Stored]
         /\ [st EXCEPT ![n].peer = v] \in [Nodes -> Stored]
         /\ [st EXCEPT ![n] = [@ EXCEPT !.pk = v, !.sk = v]] \in [Nodes -> Stored]
<1>1. st[n] \in Stored
  OBVIOUS
<1>2. \A r : [st[n] EXCEPT !.pk = v] \in Stored /\ [st[n] EXCEPT !.sk = v] \in Stored
             /\ [st[n] EXCEPT !.peer = v] \in Stored
             /\ [st[n] EXCEPT !.pk = v, !.sk = v] \in Stored
  BY <1>1 DEF Stored
<1> QED BY <1>2

\* A new identity, and what is written of it.
LEMMA CreateEffect ==
  ASSUME TypeOK, NEW n \in Nodes, CreateIdentity(n)
  PROVE  LET new == <<n, made[n] + 1>> IN
         /\ new \in Real /\ made[n] + 1 \in 0..MaxIds
         /\ id' = [id EXCEPT ![n] = [pk |-> new, sk |-> new]]
         /\ made' = [made EXCEPT ![n] = made[n] + 1]
         /\ up[n] = "off" /\ up' \in [Nodes -> {"off", "keys", "on"}]
         /\ \A m \in Nodes : m # n => up'[m] = up[m]
         /\ store' \in [Nodes -> [pk : Ids, sk : Ids, peer : Ids]]
         /\ \A m \in Nodes : /\ store'[m].peer = store[m].peer
                             /\ store'[m].pk \in {store[m].pk, <<m, made'[m]>>}
                             /\ store'[m].sk \in {store[m].sk, <<m, made'[m]>>}
         /\ UNCHANGED <<trusted, pc, heard, pinned, linkVars, in>>
<1> DEFINE new == <<n, made[n] + 1>>
<1>1. new \in Real /\ new \in Ids /\ made[n] + 1 \in 0..MaxIds
  BY NewIdentity, PairingAssumption DEF TypeOK, CreateIdentity, Real
<1>2. /\ id' = [id EXCEPT ![n] = [pk |-> new, sk |-> new]]
      /\ made' = [made EXCEPT ![n] = made[n] + 1]
      /\ up[n] = "off" /\ up' \in [Nodes -> {"off", "keys", "on"}]
      /\ \A m \in Nodes : m # n => up'[m] = up[m]
      /\ UNCHANGED <<trusted, pc, heard, pinned, linkVars, in>>
  BY DEF CreateIdentity, Keys, TypeOK
<1>3. \/ store' = store
      \/ store' = [store EXCEPT ![n] = [@ EXCEPT !.pk = new, !.sk = new]]
      \/ store' = [store EXCEPT ![n].pk = new]
  BY DEF CreateIdentity
<1>4. made'[n] = made[n] + 1
  BY <1>2 DEF TypeOK
<1> HIDE DEF new
<1>5. /\ store' \in [Nodes -> [pk : Ids, sk : Ids, peer : Ids]]
      /\ \A m \in Nodes : /\ store'[m].peer = store[m].peer
                          /\ store'[m].pk \in {store[m].pk} \cup (IF m = n THEN {new} ELSE {})
                          /\ store'[m].sk \in {store[m].sk} \cup (IF m = n THEN {new} ELSE {})
  <2>0. store \in [Nodes -> Stored]
    BY DEF TypeOK, Stored
  <2>1. store' \in [Nodes -> Stored]
    <3>1. /\ [store EXCEPT ![n] = [@ EXCEPT !.pk = new, !.sk = new]] \in [Nodes -> Stored]
          /\ [store EXCEPT ![n].pk = new] \in [Nodes -> Stored]
      BY <1>1, <2>0, StoreType
    <3> QED BY <1>3, <2>0, <3>1, Zenon
  <2>2. \A m \in Nodes : m # n => store'[m] = store[m]
    BY <1>3, <2>0
  <2>3. store'[n] \in {store[n], [store[n] EXCEPT !.pk = new],
                      [store[n] EXCEPT !.pk = new, !.sk = new]}
    BY <1>3, <2>0
  <2>4. /\ store'[n].peer = store[n].peer
        /\ store'[n].pk \in {store[n].pk, new} /\ store'[n].sk \in {store[n].sk, new}
    BY <2>0, <2>3 DEF Stored
  <2> QED BY <2>1, <2>2, <2>4 DEF Stored
<1>6. new = <<n, made'[n]>>
  BY <1>4 DEF new
<1> QED BY <1>1, <1>2, <1>5, <1>6 DEF new

LEMMA TypesStep ==
  ASSUME TypeOK, Known, [Next]_vars
  PROVE  Types'
<1> USE EndsAndNodes, NoneIsId
<1>0. Types
  BY DEF TypeOK, Known, Types, Stages
<1>1. ASSUME NEW n \in Nodes, LoadIdentity(n) PROVE Types'
  <2>1. store[n].pk \in Real /\ store[n].sk \in Real
    BY <1>1 DEF LoadIdentity, TypeOK, Real
  <2> QED BY <1>0, <1>1, <2>1 DEF LoadIdentity, Types, storeVars, linkVars, Keys, Real
<1>2. ASSUME NEW n \in Nodes, CreateIdentity(n) PROVE Types'
  <2> DEFINE new == <<n, made[n] + 1>>
  <2>1. /\ new \in Real /\ made[n] + 1 \in 0..MaxIds
        /\ id' = [id EXCEPT ![n] = [pk |-> new, sk |-> new]]
        /\ made' = [made EXCEPT ![n] = made[n] + 1]
        /\ up[n] = "off" /\ up' \in [Nodes -> {"off", "keys", "on"}]
        /\ \A m \in Nodes : m # n => up'[m] = up[m]
        /\ store' \in [Nodes -> [pk : Ids, sk : Ids, peer : Ids]]
        /\ UNCHANGED <<trusted, pc, heard, pinned, linkVars, in>>
    BY <1>2, CreateEffect
  <2> HIDE DEF new
  <2> QED BY <1>0, <2>1 DEF Types, linkVars, Real
<1>3. ASSUME NEW d \in Devices, SaveSecret(d) PROVE Types'
  <2>1. store' \in [Nodes -> [pk : Ids, sk : Ids, peer : Ids]]
    <3>1. id[d].sk \in Ids /\ d \in Nodes /\ store \in [Nodes -> Stored]
      BY <1>0 DEF Types, Stored
    <3>2. [store EXCEPT ![d].sk = id[d].sk] \in [Nodes -> Stored]
      BY <3>1, StoreType
    <3>3. store' = store \/ store' = [store EXCEPT ![d].sk = id[d].sk]
      BY <1>3 DEF SaveSecret
    <3> QED BY <3>1, <3>2, <3>3, Zenon DEF Stored
  <2> QED BY <1>0, <1>3, <2>1 DEF Types, SaveSecret, linkVars
<1>4. ASSUME NEW n \in Nodes, Crash(n) PROVE Types'
  <2>1. Leave({e \in Ends : Node(e) = n}, "cut")
    BY <1>4 DEF Crash
  <2>2. /\ up' = [up EXCEPT ![n] = "off"] /\ id' = [id EXCEPT ![n] = [pk |-> None, sk |-> None]]
        /\ UNCHANGED <<storeVars, made>>
    BY <1>4 DEF Crash, Keys
  <2> QED BY <1>0, <2>1, <2>2, LeaveEffect DEF Types, storeVars, Stages
<1>5. ASSUME NEW E, NEW how \in {"cut", "closed", "unsaved"}, Leave(E, how), UNCHANGED nodeVars PROVE Types'
  BY <1>0, <1>5, LeaveEffect DEF Types, nodeVars, Stages
<1>6. CASE HostRefuses \/ HostSaveFails \/ \E t \in Tunnels : DeviceRefuses(t)
  BY <1>5, <1>6 DEF HostRefuses, HostSaveFails, DeviceRefuses
<1>7. CASE \E e \in Ends : Abort(e)
  BY <1>5, <1>7 DEF Abort
<1>8. ASSUME NEW t \in Tunnels, Connect(t) PROVE Types'
  <2>1. \E p \in Ids : pinned' = [pinned EXCEPT ![t] = p]
    BY <1>0, <1>8 DEF Connect, Read, Types
  <2>2. /\ up[Host] = "on" /\ up[Node(t)] = "on" /\ pc[HostEnd] = "idle" /\ pc[t] = "idle"
        /\ pc' = [pc EXCEPT ![HostEnd] = "hello", ![t] = "hello"]
        /\ cur' = t /\ link' = "up" /\ UNCHANGED <<nodeVars, heard>>
    BY <1>8 DEF Connect
  <2>3. /\ pc' \in [Ends -> Stages] /\ pinned' \in [Tunnels -> Ids] /\ cur' \in Ends
        /\ UNCHANGED <<store, made, trusted, up, id, heard>>
    BY <1>0, <2>1, <2>2 DEF Types, nodeVars, Stages
  <2>4. \A e \in Ends : heard'[e] # None <=> pc'[e] \notin {"idle", "hello"}
    BY <1>0, <2>2, <2>3 DEF Types
  <2>5. \A e \in Ends : pc'[e] # "idle" => up'[Node(e)] = "on"
    BY <1>0, <2>2, <2>3 DEF Types
  <2> QED BY <1>0, <2>2, <2>3, <2>4, <2>5 DEF Types
<1>9. CASE Cut \/ UNCHANGED vars
  BY <1>0, <1>9 DEF Cut, vars, Types, nodeVars, linkVars
<1>10. ASSUME NEW e \in Ends, ConsumeHello(e) PROVE Types'
  <2>1. in[e] # <<>> /\ pc[e] = "hello" /\ heard' = [heard EXCEPT ![e] = Head(in[e]).from]
        /\ pc' = [pc EXCEPT ![e] = "confirm"] /\ UNCHANGED <<nodeVars, pinned, linkVars>>
    BY <1>10 DEF ConsumeHello, ReadThenSend, Goto
  <2>2. Head(in[e]).from \in Real
    BY <2>1, FromRead DEF Known
  <2> QED BY <1>0, <2>1, <2>2 DEF Types, nodeVars, linkVars, Stages, Real
<1>11. CASE HostVerify
  <2>1. heard[HostEnd] \in Ids /\ pc[HostEnd] = "confirm"
    BY <1>0, <1>11 DEF Types, HostVerify, HasConfirm
  <2>2. store' \in [Nodes -> [pk : Ids, sk : Ids, peer : Ids]]
    BY <1>0, <1>11, <2>1, StoreType DEF Types, HostVerify, Stored
  <2> QED BY <1>0, <1>11, <2>1, <2>2 DEF Types, HostVerify, Goto, linkVars, Stages
<1>12. CASE HostSendsHeader \/ HostReady
  BY <1>0, <1>12 DEF HostSendsHeader, HostReady, Types, Goto, nodeVars, linkVars, Stages
<1>13. ASSUME NEW t \in Tunnels, DeviceVerify(t) \/ DeviceReady(t) PROVE Types'
  BY <1>0, <1>13 DEF DeviceVerify, DeviceReady, HasConfirm, Types, Goto, nodeVars, linkVars, Stages
<1>14. ASSUME NEW t \in Tunnels, DeviceLearns(t) PROVE Types'
  <2>1. store' = store \/ store' = [store EXCEPT ![Node(t)].peer = heard[t]]
    BY <1>14 DEF DeviceLearns
  <2>2. store' \in [Nodes -> [pk : Ids, sk : Ids, peer : Ids]]
    <3>1. heard[t] \in Ids /\ Node(t) \in Nodes /\ store \in [Nodes -> Stored]
      BY <1>0 DEF Types, Stored
    <3>2. [store EXCEPT ![Node(t)].peer = heard[t]] \in [Nodes -> Stored]
      BY <3>1, StoreType
    <3> QED BY <2>1, <3>1, <3>2, Zenon DEF Stored
  <2>3. /\ pc[t] = "learn" /\ \E l \in {"ready", "unpinned"} : pc' = [pc EXCEPT ![t] = l]
        /\ UNCHANGED <<trusted, made, up, id, heard, pinned, linkVars, in>>
    BY <1>14 DEF DeviceLearns, Goto
  <2> QED BY <1>0, <2>2, <2>3 DEF Types, linkVars, Stages
<1> QED
  BY <1>1, <1>2, <1>3, <1>4, <1>6, <1>7, <1>8, <1>9, <1>10, <1>11, <1>12, <1>13, <1>14
     DEF Next, HostStep, DeviceStep

LEMMA InIsFunction ==
  ASSUME TypeOK, [Next]_vars
  PROVE  in' = [e \in Ends |-> in'[e]]
<1> USE EndsAndNodes DEF TypeOK
<1>1. ASSUME NEW f \in Ends, NEW kind, NEW reply, ReadThenSend(f, kind, reply)
      PROVE  in' = [e \in Ends |-> in'[e]]
  BY <1>1, ReadSendType
<1>2. ASSUME NEW E, NEW how, Leave(E, how) PROVE in' = [e \in Ends |-> in'[e]]
  BY <1>2 DEF Leave
<1>3. CASE \/ \E e \in Ends : ConsumeHello(e)
           \/ HostVerify \/ HostReady
           \/ \E t \in Tunnels : DeviceVerify(t) \/ DeviceReady(t)
  BY <1>1, <1>3 DEF ConsumeHello, HostVerify, HostReady, DeviceVerify, DeviceReady
<1>4. CASE \/ \E n \in Nodes : Crash(n)
           \/ \E f \in Ends : Abort(f)
           \/ HostRefuses \/ HostSaveFails
           \/ \E t \in Tunnels : DeviceRefuses(t)
  BY <1>2, <1>4 DEF Crash, Abort, HostRefuses, HostSaveFails, DeviceRefuses
<1>5. CASE HostSendsHeader \/ \E t \in Tunnels : Connect(t)
  BY <1>5 DEF HostSendsHeader, Connect
<1>6. CASE \/ \E n \in Nodes : LoadIdentity(n) \/ CreateIdentity(n)
           \/ \E d \in Devices : SaveSecret(d)
           \/ Cut
           \/ \E t \in Tunnels : DeviceLearns(t)
           \/ UNCHANGED vars
  BY <1>6 DEF LoadIdentity, CreateIdentity, SaveSecret, Cut, DeviceLearns, vars
<1> QED BY <1>3, <1>4, <1>5, <1>6 DEF Next, HostStep, DeviceStep

LEMMA TypeStep ==
  ASSUME TypeOK, Known, Joined, [Next]_vars
  PROVE  TypeOK' /\ Known'
<1> USE EndsAndNodes
<1>1. ASSUME NEW e \in Ends PROVE in'[e] \in Seq(From(Real))
  <2>1. CASE \E t \in Tunnels : Connect(t) /\ (e = HostEnd \/ e = t)
    <3>1. PICK t \in Tunnels : Connect(t) /\ (e = HostEnd \/ e = t)
      BY <2>1
    <3>2. id[Host].pk \in Real /\ id[Node(t)].pk \in Real
      BY <3>1 DEF Connect, Known
    <3>3. \E i \in Real : in'[e] = <<Msg("hello", i)>>
      BY <3>1, <3>2 DEF Connect, TypeOK
    <3>4. \A i \in Real : Msg("hello", i) \in From(Real)
      BY DEF Msg, From, Kinds
    <3> QED BY <3>3, <3>4, SingleType
  <2>2. CASE ~\E t \in Tunnels : Connect(t) /\ (e = HostEnd \/ e = t)
    <3>1. ASSUME NEW m, MaySend(e, m) PROVE m \in From(Real)
      <4>1. Other(e) \in Ends /\ pc[Other(e)] # "idle"
        BY <3>1 DEF MaySend, Carried, Other, Joined
      <4>2. id[Node(Other(e))].pk \in Real /\ id[Node(Other(e))].sk \in Real
        BY <4>1 DEF Known
      <4> QED BY <3>1, <4>2 DEF MaySend, Msg, From, Kinds
    <3>2. (link = "up" => cur \in Tunnels) /\ in[e] \in Seq(From(Real))
      BY DEF Joined, Known
    <3>3. \A t \in Tunnels : Connect(t) => e # HostEnd /\ e # t
      BY <2>2
    <3> QED BY <3>1, <3>2, <3>3, Delivery
  <2> QED BY <2>1, <2>2
<1>2. in' \in [Ends -> Seq(From(Real))]
  BY <1>1, InIsFunction
<1>3. in' \in [Ends -> Seq(Messages)]
  <2>1. From(Real) \subseteq Messages
    BY DEF From, Messages, Kinds, Real
  <2> QED BY <1>2, <2>1, Narrower
<1>4. Types'
  BY TypesStep
<1> QED BY <1>2, <1>3, <1>4 DEF Types, TypeOK, Known, Stages

-------------------------------------------------------------------------------
(* Steps of a connection.                                                   *)

LEMMA JoinedStep ==
  ASSUME TypeOK, Known, Joined, [Next]_vars
  PROVE  Joined'
<1> USE EndsAndNodes
<1> SUFFICES ASSUME link' = "up" PROVE Joined'
  BY DEF Joined
<1>0. link # "up" => \E t \in Tunnels : Connect(t)
  <2>1. \A E : \A how \in {"cut", "closed", "unsaved"} : Leave(E, how) => link' # "up" \/ link = "up"
    BY DEF Leave
  <2> QED
    BY <2>1 DEF Next, HostStep, DeviceStep, Crash, Abort, HostRefuses, HostSaveFails, DeviceRefuses,
         LoadIdentity, CreateIdentity, SaveSecret, Cut, DeviceLearns, ConsumeHello,
         HostVerify, HostReady, HostSendsHeader, DeviceVerify, DeviceReady, vars, linkVars
<1>1. ASSUME NEW t \in Tunnels, Connect(t) PROVE Joined'
  <2>1. /\ cur' = t /\ pc'[HostEnd] = "hello" /\ pc'[t] = "hello" /\ heard' = heard /\ id' = id
        /\ in'[HostEnd] = <<Msg("hello", id[Node(t)].pk)>> /\ pc[HostEnd] = "idle"
    BY <1>1 DEF Connect, nodeVars, TypeOK
  <2>2. heard[HostEnd] = None
    BY <2>1 DEF TypeOK
  <2>3. in'[HostEnd] \in Seq(Said(id'[Node(t)]))
    BY <2>1, SingleType DEF Said
  <2> QED BY <2>1, <2>2, <2>3 DEF Joined
<1>2. CASE ~\E t \in Tunnels : Connect(t)
  <2>0. /\ link = "up" /\ cur \in Tunnels /\ cur' = cur
        /\ pc[HostEnd] # "idle" /\ pc[cur] # "idle"
        /\ heard[HostEnd] \in {None, id[Node(cur)].pk}
        /\ in[HostEnd] \in Seq(Said(id[Node(cur)]))
    <3>1. link = "up"
      BY <1>0, <1>2
    <3>2. cur' = cur
      BY <1>2 DEF Next, HostStep, DeviceStep, Crash, Abort, HostRefuses, HostSaveFails,
         DeviceRefuses, LoadIdentity, CreateIdentity, SaveSecret, Cut, DeviceLearns, ConsumeHello,
         HostVerify, HostReady, HostSendsHeader, DeviceVerify, DeviceReady, vars, linkVars, Leave
    <3> QED BY <3>1, <3>2 DEF Joined
  <2>1. in'[HostEnd] \in Seq(Said(id[Node(cur)]))
    <3>1. \A m : MaySend(HostEnd, m) => m \in Said(id[Node(cur)])
      BY DEF MaySend, Other, Said
    <3> QED BY <1>2, <2>0, <3>1, Delivery
  <2>2. ASSUME NEW E, NEW how \in {"cut", "closed", "unsaved"}, Leave(E, how)
        PROVE  /\ HostEnd \notin E /\ cur \notin E /\ heard'[HostEnd] = heard[HostEnd]
               /\ pc'[HostEnd] = pc[HostEnd] /\ pc'[cur] = pc[cur]
    BY <2>0, <2>2, LeaveEffect
  <2>3. pc'[HostEnd] # "idle" /\ pc'[cur] # "idle" /\ heard'[HostEnd] \in {None, id[Node(cur)].pk}
    <3>1. CASE \/ \E n \in Nodes : Crash(n)
               \/ \E f \in Ends : Abort(f)
               \/ HostRefuses \/ HostSaveFails
               \/ \E t \in Tunnels : DeviceRefuses(t)
      BY <2>0, <2>2, <3>1 DEF Crash, Abort, HostRefuses, HostSaveFails, DeviceRefuses
    <3>2. ASSUME NEW e \in Ends, ConsumeHello(e)
          PROVE  pc'[HostEnd] # "idle" /\ pc'[cur] # "idle" /\ heard'[HostEnd] \in {None, id[Node(cur)].pk}
      <4>1. /\ in[e] # <<>> /\ Head(in[e]).kind = "hello"
            /\ heard' = [heard EXCEPT ![e] = Head(in[e]).from] /\ pc' = [pc EXCEPT ![e] = "confirm"]
        BY <3>2 DEF ConsumeHello, ReadThenSend, Goto
      <4>2. pc'[HostEnd] # "idle" /\ pc'[cur] # "idle"
        BY <2>0, <4>1 DEF TypeOK
      <4>3. CASE e = HostEnd
        <5>1. Head(in[HostEnd]) \in Said(id[Node(cur)])
          BY <2>0, <4>1, <4>3, ReadType
        <5>2. Head(in[HostEnd]).from = id[Node(cur)].pk
          BY <4>1, <4>3, <5>1 DEF Said, Msg
        <5> QED BY <4>1, <4>2, <4>3, <5>2 DEF TypeOK
      <4>4. CASE e # HostEnd
        BY <2>0, <4>1, <4>2, <4>4 DEF TypeOK
      <4> QED BY <4>3, <4>4
    <3>3. CASE \/ \E n \in Nodes : LoadIdentity(n) \/ CreateIdentity(n)
               \/ \E d \in Devices : SaveSecret(d)
               \/ Cut \/ UNCHANGED vars
      BY <2>0, <3>3 DEF LoadIdentity, CreateIdentity, SaveSecret, Cut, vars, nodeVars, linkVars
    <3>4. CASE HostVerify \/ HostSendsHeader \/ HostReady
      BY <2>0, <3>4 DEF HostVerify, HostSendsHeader, HostReady, Goto, TypeOK
    <3>5. CASE \E t \in Tunnels : DeviceVerify(t) \/ DeviceReady(t) \/ DeviceLearns(t)
      BY <2>0, <3>5 DEF DeviceVerify, DeviceReady, DeviceLearns, Goto, TypeOK
    <3> QED BY <1>2, <3>1, <3>2, <3>3, <3>4, <3>5 DEF Next, HostStep, DeviceStep
  <2>4. id'[Node(cur)] = id[Node(cur)]
    <3>1. up[Node(cur)] = "on"
      BY <2>0 DEF Known
    <3>2. ASSUME NEW n \in Nodes, Crash(n) PROVE n # Node(cur)
      <4>1. Leave({e \in Ends : Node(e) = n}, "cut")
        BY <3>2 DEF Crash
      <4> QED BY <2>0, <2>2, <4>1
    <3>3. ASSUME NEW n \in Nodes, LoadIdentity(n) \/ CreateIdentity(n)
          PROVE  id'[Node(cur)] = id[Node(cur)]
      BY <3>1, <3>3 DEF LoadIdentity, CreateIdentity, TypeOK
    <3>4. CASE \E n \in Nodes : Crash(n)
      BY <3>2, <3>4 DEF Crash, TypeOK
    <3> QED
      BY <1>2, <3>3, <3>4 DEF Next, HostStep, DeviceStep, Abort, HostRefuses, HostSaveFails,
         DeviceRefuses, SaveSecret, Cut, DeviceLearns, ConsumeHello, HostVerify, HostReady,
         HostSendsHeader, DeviceVerify, DeviceReady, vars, nodeVars
  <2> QED BY <2>0, <2>1, <2>3, <2>4 DEF Joined
<1> QED BY <1>1, <1>2

\* How a pin changes.
LEMMA PeerStep ==
  ASSUME TypeOK, [Next]_vars, NEW n \in Nodes
  PROVE  \/ store'[n].peer = store[n].peer
         \/ HostVerify /\ n = Host /\ store'[n].peer = heard[HostEnd]
         \/ \E t \in Tunnels : DeviceLearns(t) /\ n = Node(t) /\ store'[n].peer = heard[t]
<1> USE EndsAndNodes
<1>1. CASE \E m \in Nodes : CreateIdentity(m)
  <2>1. store'[n].peer = store[n].peer
    BY <1>1, CreateEffect
  <2> QED BY <2>1
<1>2. CASE \E d \in Devices : SaveSecret(d)
  BY <1>2 DEF SaveSecret, TypeOK
<1>3. CASE HostVerify
  BY <1>3 DEF HostVerify, TypeOK
<1>4. CASE \E t \in Tunnels : DeviceLearns(t)
  BY <1>4 DEF DeviceLearns, TypeOK
<1> QED
  BY <1>1, <1>2, <1>3, <1>4 DEF Next, HostStep, DeviceStep, Crash, Abort, HostRefuses,
     HostSaveFails, DeviceRefuses, LoadIdentity, Cut, Connect, ConsumeHello, HostReady,
     HostSendsHeader, DeviceVerify, DeviceReady, vars, nodeVars, storeVars

\* How an end moves on.
Moved(e) ==
  \/ pc'[e] = "idle"
  \/ \E t \in Tunnels : Connect(t) /\ e \in {HostEnd, t}
  \/ ConsumeHello(e)
  \/ /\ heard'[e] = heard[e]
     /\ \/ pc'[e] = pc[e]
        \/ e = HostEnd /\ (HostVerify \/ HostSendsHeader \/ HostReady)
        \/ e \in Tunnels /\ (DeviceVerify(e) \/ DeviceReady(e) \/ DeviceLearns(e))

LEMMA EndStep ==
  ASSUME TypeOK, [Next]_vars, NEW e \in Ends
  PROVE  Moved(e)
<1> USE EndsAndNodes
<1>1. ASSUME NEW E, NEW how \in {"cut", "closed", "unsaved"}, Leave(E, how) PROVE Moved(e)
  BY <1>1, LeaveEffect DEF Moved
<1>2. CASE \/ \E n \in Nodes : Crash(n)
           \/ \E f \in Ends : Abort(f)
           \/ HostRefuses \/ HostSaveFails
           \/ \E t \in Tunnels : DeviceRefuses(t)
  BY <1>1, <1>2 DEF Crash, Abort, HostRefuses, HostSaveFails, DeviceRefuses
<1>3. CASE \/ \E n \in Nodes : LoadIdentity(n) \/ CreateIdentity(n)
           \/ \E d \in Devices : SaveSecret(d)
           \/ Cut \/ UNCHANGED vars
  BY <1>3 DEF LoadIdentity, CreateIdentity, SaveSecret, Cut, vars, nodeVars, linkVars, Moved
<1>4. CASE HostVerify \/ HostSendsHeader \/ HostReady
  BY <1>4 DEF HostVerify, HostSendsHeader, HostReady, Goto, TypeOK, Moved
<1>5. CASE \E t \in Tunnels : DeviceVerify(t) \/ DeviceReady(t) \/ DeviceLearns(t)
  BY <1>5 DEF DeviceVerify, DeviceReady, DeviceLearns, Goto, TypeOK, Moved
<1>6. CASE \E t \in Tunnels : Connect(t)
  BY <1>6 DEF Connect, TypeOK, Moved
<1>7. CASE \E f \in Ends : ConsumeHello(f)
  BY <1>7 DEF ConsumeHello, Goto, TypeOK, Moved
<1> QED
  BY <1>2, <1>3, <1>4, <1>5, <1>6, <1>7 DEF Next, HostStep, DeviceStep

\* Nobody changes keys in a handshake, and nobody is distrusted again.
LEMMA IdStep ==
  ASSUME TypeOK, Known, [Next]_vars, NEW e \in Ends, pc'[e] # "idle"
  PROVE  id'[Node(e)] = id[Node(e)]
<1> USE EndsAndNodes
<1>1. ASSUME NEW n \in Nodes, Crash(n) PROVE n # Node(e)
  <2>1. Leave({f \in Ends : Node(f) = n}, "cut")
    BY <1>1 DEF Crash
  <2> QED BY <2>1, LeaveEffect
<1>2. ASSUME NEW n \in Nodes, LoadIdentity(n) \/ CreateIdentity(n) PROVE n # Node(e)
  <2>1. pc' = pc /\ up[n] = "off"
    BY <1>2 DEF LoadIdentity, CreateIdentity
  <2> QED BY <2>1 DEF Known
<1>3. CASE \E n \in Nodes : Crash(n)
  BY <1>1, <1>3 DEF Crash, TypeOK
<1>4. CASE \E n \in Nodes : LoadIdentity(n) \/ CreateIdentity(n)
  BY <1>2, <1>4 DEF LoadIdentity, CreateIdentity, TypeOK
<1> QED
  BY <1>3, <1>4 DEF Next, HostStep, DeviceStep, Abort, HostRefuses, HostSaveFails,
     DeviceRefuses, SaveSecret, Cut, Connect, DeviceLearns, ConsumeHello, HostVerify, HostReady,
     HostSendsHeader, DeviceVerify, DeviceReady, vars, nodeVars

LEMMA TrustGrows ==
  ASSUME TypeOK, [Next]_vars
  PROVE  trusted \subseteq trusted'
<1>1. CASE \E n \in Nodes : CreateIdentity(n)
  BY <1>1, CreateEffect
<1> QED
  BY <1>1 DEF Next, HostStep, DeviceStep, Crash, Abort, HostRefuses, HostSaveFails,
     DeviceRefuses, LoadIdentity, SaveSecret, Cut, Connect, DeviceLearns, ConsumeHello, HostVerify,
     HostReady, HostSendsHeader, DeviceVerify, DeviceReady, vars, nodeVars, storeVars

-------------------------------------------------------------------------------
(* The host's pin.                                                          *)

LEMMA TrustStep ==
  ASSUME IInv, [Next]_vars
  PROVE  HostTrustsItsPin' /\ Trusted'
<1> USE EndsAndNodes
<1>0. TypeOK /\ HostTrustsItsPin /\ Trusted
  BY DEF IInv
<1>1. /\ Moved(HostEnd) /\ trusted \subseteq trusted'
      /\ store'[Host].peer = store[Host].peer \/ (HostVerify /\ store'[Host].peer = heard[HostEnd])
  BY <1>0, EndStep, TrustGrows, PeerStep
<1>2. CASE HostVerify
  <2>1. /\ store'[Host].peer = heard[HostEnd] /\ heard' = heard /\ pc[HostEnd] = "confirm"
        /\ trusted' = trusted \cup {heard[HostEnd]}
    BY <1>0, <1>2 DEF HostVerify, HasConfirm, TypeOK
  <2>2. heard[HostEnd] # None
    BY <1>0, <2>1 DEF TypeOK
  <2> QED BY <2>1, <2>2 DEF HostTrustsItsPin, Trusted
<1>3. CASE ~HostVerify
  <2>1. store'[Host].peer = store[Host].peer
    BY <1>1, <1>3
  <2>2. Trusted'
    BY <1>0, <1>1, <2>1 DEF Trusted
  <2>3. HostTrustsItsPin'
    <3> SUFFICES ASSUME pc'[HostEnd] \in {"pinned", "header", "ready"}
                 PROVE  store'[Host].peer # None /\ store'[Host].peer = heard'[HostEnd]
      BY DEF HostTrustsItsPin
    <3>1. ~ConsumeHello(HostEnd) /\ ~\E t \in Tunnels : Connect(t)
      BY <1>0 DEF ConsumeHello, Connect, Goto, TypeOK
    <3>2. heard'[HostEnd] = heard[HostEnd]
          /\ (pc'[HostEnd] = pc[HostEnd] \/ HostSendsHeader \/ HostReady)
      BY <1>1, <1>3, <3>1 DEF Moved
    <3>3. pc[HostEnd] \in {"pinned", "header", "ready"}
      BY <3>2 DEF HostSendsHeader, HostReady
    <3> QED BY <1>0, <2>1, <3>2, <3>3 DEF HostTrustsItsPin
  <2> QED BY <2>2, <2>3
<1> QED BY <1>2, <1>3

\* The host that sends its header has trusted the iPad it is connected to.
LEMMA PinnedIsTrusted ==
  ASSUME IInv, link = "up", pc[HostEnd] \in {"pinned", "header", "ready"}
  PROVE  /\ cur \in Tunnels /\ store[Host].peer = id[Node(cur)].pk
         /\ id[Node(cur)].pk \in trusted
BY EndsAndNodes DEF IInv, Joined, HostTrustsItsPin, Trusted

-------------------------------------------------------------------------------
(* The iPad's pin.                                                          *)

LEMMA HeadersStep ==
  ASSUME IInv, [Next]_vars
  PROVE  Headers' /\ Learning'
<1> USE EndsAndNodes
<1>0. TypeOK /\ Known /\ Joined /\ Headers /\ Learning
  BY DEF IInv
<1>1. ASSUME NEW t \in Tunnels, pc'[t] \in {"hello", "confirm", "header"},
             id'[Node(t)].pk \notin trusted'
      PROVE  in'[t] \in Seq(NoHeader)
  <2>1. id[Node(t)].pk \notin trusted /\ Moved(t)
    BY <1>0, <1>1, IdStep, TrustGrows, EndStep
  <2>2. CASE Connect(t)
    <3>1. in'[t] = <<Msg("hello", id[Host].pk)>> /\ id[Host].pk \in Ids
      BY <1>0, <2>2 DEF Connect, TypeOK
    <3>2. Msg("hello", id[Host].pk) \in NoHeader
      BY <3>1 DEF NoHeader, Msg, Kinds
    <3> QED BY <3>1, <3>2, SingleType
  <2>3. CASE ~Connect(t)
    <3>1. pc[t] \in {"hello", "confirm", "header"}
      <4>1. ~DeviceReady(t) /\ ~DeviceLearns(t)
        BY <1>0, <1>1 DEF DeviceReady, DeviceLearns, Goto, TypeOK
      <4>2. CASE pc'[t] = pc[t]
        BY <1>1, <4>2
      <4>3. CASE ConsumeHello(t) \/ DeviceVerify(t)
        BY <4>3 DEF ConsumeHello, DeviceVerify, HasConfirm
      <4>4. ~\E t2 \in Tunnels : Connect(t2) /\ t \in {HostEnd, t2}
        BY <2>3
      <4> QED BY <1>1, <2>1, <4>1, <4>2, <4>3, <4>4 DEF Moved
    <3>2. in[t] \in Seq(NoHeader)
      BY <1>0, <2>1, <3>1 DEF Headers
    <3>3. ASSUME NEW m, MaySend(t, m) PROVE m \in NoHeader
      <4>1. link = "up" /\ cur = t /\ Other(t) = HostEnd
        BY <3>3 DEF MaySend, Carried, Other
      <4>2. pc[HostEnd] # "pinned"
        BY <2>1, <4>1, PinnedIsTrusted
      <4>3. m = Msg("confirm", id[Host].sk) /\ id[Host].sk \in Ids
        BY <1>0, <3>3, <4>1, <4>2 DEF MaySend, TypeOK
      <4> QED BY <4>3 DEF NoHeader, Msg, Kinds
    <3>4. (link = "up" => cur \in Tunnels) /\ \A t2 \in Tunnels : Connect(t2) => t # HostEnd /\ t # t2
      BY <1>0, <2>3 DEF Joined
    <3> QED BY <1>0, <3>2, <3>3, <3>4, Delivery
  <2> QED BY <2>2, <2>3
<1>2. ASSUME NEW t \in Tunnels, pc'[t] = "learn" PROVE id'[Node(t)].pk \in trusted'
  <2>1. id'[Node(t)] = id[Node(t)] /\ trusted \subseteq trusted' /\ Moved(t)
    BY <1>0, <1>2, IdStep, TrustGrows, EndStep
  <2>2. pc[t] = "learn" \/ DeviceReady(t)
    <3>1. ~DeviceVerify(t) /\ ~DeviceLearns(t) /\ ~ConsumeHello(t)
      BY <1>0, <1>2 DEF DeviceVerify, DeviceLearns, ConsumeHello, Goto, TypeOK
    <3>2. ~\E t2 \in Tunnels : Connect(t2) /\ t \in {HostEnd, t2}
      BY <1>0, <1>2 DEF Connect, TypeOK
    <3> QED BY <1>2, <2>1, <3>1, <3>2 DEF Moved
  <2>3. CASE DeviceReady(t)
    <3>1. pc[t] = "header" /\ in[t] # <<>> /\ Head(in[t]).kind = "header"
      BY <2>3 DEF DeviceReady, ReadThenSend
    <3> QED BY <1>0, <2>1, <3>1, NoHeaderRead DEF Headers
  <2> QED BY <1>0, <2>1, <2>2, <2>3 DEF Learning
<1> QED BY <1>1, <1>2 DEF Headers, Learning

\* No identity of the host's is forgotten, and a new one is its own.
LEMMA HostKeys ==
  ASSUME TypeOK, Named, [Next]_vars
  PROVE  /\ HostIds \subseteq HostIds'
         /\ id'[Host].pk \in HostIds' \cup {None} /\ id'[Host].sk \in HostIds' \cup {None}
         /\ store'[Host].pk \in HostIds' \cup {None} /\ store'[Host].sk \in HostIds' \cup {None}
<1> USE EndsAndNodes
<1>0. /\ id[Host].pk \in HostIds \cup {None} /\ id[Host].sk \in HostIds \cup {None}
      /\ store[Host].pk \in HostIds \cup {None} /\ store[Host].sk \in HostIds \cup {None}
  BY DEF Named
<1>1. ASSUME NEW n \in Nodes, CreateIdentity(n)
      PROVE  /\ HostIds \subseteq HostIds'
             /\ id'[Host].pk \in HostIds' \cup {None} /\ id'[Host].sk \in HostIds' \cup {None}
             /\ store'[Host].pk \in HostIds' \cup {None} /\ store'[Host].sk \in HostIds' \cup {None}
  <2> DEFINE new == <<n, made[n] + 1>>
  <2>1. /\ id' = [id EXCEPT ![n] = [pk |-> new, sk |-> new]]
        /\ made' = [made EXCEPT ![n] = made[n] + 1]
        /\ store'[Host].pk \in {store[Host].pk, <<Host, made'[Host]>>}
        /\ store'[Host].sk \in {store[Host].sk, <<Host, made'[Host]>>}
    BY <1>1, CreateEffect
  <2>2. made[n] \in Nat /\ made[Host] \in Nat /\ n \in Nodes /\ made'[Host] \in {made[Host], made[Host] + 1}
    BY <2>1, PairingAssumption DEF TypeOK
  <2>3. HostIds \subseteq HostIds'
    BY <2>2 DEF HostIds
  <2>4. CASE n = Host
    <3>1. made'[Host] = made[Host] + 1
      BY <2>1, <2>4 DEF TypeOK
    <3>2. <<Host, made'[Host]>> \in HostIds'
      BY <2>2, <3>1 DEF HostIds
    <3>3. id'[Host] = [pk |-> new, sk |-> new] /\ new = <<Host, made'[Host]>>
      BY <2>1, <2>4, <3>1 DEF TypeOK
    <3> HIDE DEF new
    <3> QED BY <1>0, <2>1, <2>3, <3>2, <3>3
  <2>5. CASE n # Host
    <3>1. id'[Host] = id[Host]
      BY <2>1, <2>5 DEF TypeOK
    <3>2. store'[Host] = store[Host]
      BY <1>1, <2>5 DEF CreateIdentity, TypeOK
    <3> QED BY <1>0, <2>3, <3>1, <3>2
  <2> QED BY <2>4, <2>5
<1>2. CASE ~\E n \in Nodes : CreateIdentity(n)
  <2>1. made' = made
    BY <1>2 DEF Next, HostStep, DeviceStep, Crash, Abort, HostRefuses, HostSaveFails,
       DeviceRefuses, LoadIdentity, SaveSecret, Cut, Connect, DeviceLearns, ConsumeHello,
       HostVerify, HostReady, HostSendsHeader, DeviceVerify, DeviceReady, vars, nodeVars, storeVars
  <2>2. HostIds' = HostIds
    BY <2>1 DEF HostIds
  <2>3. store'[Host].pk = store[Host].pk /\ store'[Host].sk = store[Host].sk
    <3>1. CASE \E d \in Devices : SaveSecret(d)
      BY <3>1 DEF SaveSecret, TypeOK
    <3>2. CASE HostVerify
      BY <3>2 DEF HostVerify, TypeOK
    <3>3. CASE \E t \in Tunnels : DeviceLearns(t)
      BY <3>3 DEF DeviceLearns, TypeOK
    <3> QED
      BY <1>2, <3>1, <3>2, <3>3 DEF Next, HostStep, DeviceStep, Crash, Abort, HostRefuses,
         HostSaveFails, DeviceRefuses, LoadIdentity, Cut, Connect, ConsumeHello, HostReady,
         HostSendsHeader, DeviceVerify, DeviceReady, vars, nodeVars, storeVars
  <2>4. id'[Host] \in {id[Host], Keys(store[Host].pk, store[Host].sk), Keys(None, None)}
    <3>1. ASSUME NEW n \in Nodes, LoadIdentity(n)
          PROVE  id'[Host] \in {id[Host], Keys(store[Host].pk, store[Host].sk)}
      BY <3>1 DEF LoadIdentity, TypeOK
    <3>2. ASSUME NEW n \in Nodes, Crash(n) PROVE id'[Host] \in {id[Host], Keys(None, None)}
      BY <3>2 DEF Crash, TypeOK
    <3> QED
      BY <1>2, <3>1, <3>2 DEF Next, HostStep, DeviceStep, Abort, HostRefuses, HostSaveFails,
         DeviceRefuses, SaveSecret, Cut, Connect, DeviceLearns, ConsumeHello,
         HostVerify, HostReady, HostSendsHeader, DeviceVerify, DeviceReady, vars, nodeVars
  <2> QED BY <1>0, <2>2, <2>3, <2>4 DEF Keys
<1> QED BY <1>1, <1>2

LEMMA NamedStep ==
  ASSUME IInv, [Next]_vars
  PROVE  Named'
<1> USE EndsAndNodes
<1>0. TypeOK /\ Known /\ Joined /\ Named /\ TypeOK' /\ HostIds \subseteq HostIds'
  BY TypeStep, HostKeys DEF IInv
<1>1. ASSUME NEW t \in Tunnels PROVE heard'[t] \in HostIds' \cup {None}
  <2>1. heard[t] \in HostIds \cup {None} /\ in[t] \in Seq(From(HostIds)) /\ Moved(t)
    BY <1>0, EndStep DEF Named
  <2>2. CASE ConsumeHello(t)
    <3>1. in[t] # <<>> /\ heard'[t] = Head(in[t]).from
      BY <1>0, <2>2 DEF ConsumeHello, ReadThenSend, TypeOK
    <3> QED BY <1>0, <2>1, <3>1, FromRead
  <2>3. CASE \E t2 \in Tunnels : Connect(t2) /\ t \in {HostEnd, t2}
    BY <1>0, <2>1, <2>3 DEF Connect
  <2>4. CASE pc'[t] = "idle"
    BY <1>0, <2>4 DEF TypeOK
  <2>5. CASE heard'[t] = heard[t]
    BY <1>0, <2>1, <2>5
  <2> QED BY <2>1, <2>2, <2>3, <2>4, <2>5 DEF Moved
<1>2. ASSUME up[Host] = "on" PROVE id[Host].pk \in HostIds /\ id[Host].sk \in HostIds
  BY <1>0, <1>2 DEF Named, Known, Real
<1>3. ASSUME NEW t \in Tunnels PROVE in'[t] \in Seq(From(HostIds'))
  <2>1. CASE Connect(t)
    <3>1. in'[t] = <<Msg("hello", id[Host].pk)>> /\ id[Host].pk \in HostIds
      BY <1>0, <1>2, <2>1 DEF Connect, TypeOK
    <3>2. Msg("hello", id[Host].pk) \in From(HostIds')
      BY <1>0, <3>1 DEF From, Msg, Kinds
    <3> QED BY <3>1, <3>2, SingleType
  <2>2. CASE ~Connect(t)
    <3>1. ASSUME NEW m, MaySend(t, m) PROVE m \in From(HostIds)
      <4>1. Other(t) = HostEnd /\ link = "up"
        BY <3>1 DEF MaySend, Carried, Other
      <4>2. id[Host].pk \in HostIds /\ id[Host].sk \in HostIds
        BY <1>0, <1>2, <4>1 DEF Joined, Known
      <4> QED BY <3>1, <4>1, <4>2 DEF MaySend, From, Msg, Kinds
    <3>2. /\ in[t] \in Seq(From(HostIds)) /\ (link = "up" => cur \in Tunnels)
          /\ \A t2 \in Tunnels : Connect(t2) => t # HostEnd /\ t # t2
      BY <1>0, <2>2 DEF Named, Joined
    <3>3. in'[t] \in Seq(From(HostIds))
      BY <1>0, <3>1, <3>2, Delivery
    <3>4. From(HostIds) \subseteq From(HostIds')
      BY <1>0 DEF From
    <3> QED BY <3>3, <3>4, Narrower
  <2> QED BY <2>1, <2>2
<1>4. ASSUME NEW d \in Devices PROVE store'[d].peer \in HostIds' \cup {None}
  <2>1. \/ store'[d].peer = store[d].peer
        \/ \E t \in Tunnels : store'[d].peer = heard[t]
    BY <1>0, PeerStep
  <2> QED BY <1>0, <2>1 DEF Named
<1> QED BY <1>0, <1>1, <1>3, <1>4, HostKeys DEF Named

LEMMA LearnedStep ==
  ASSUME IInv, [Next]_vars
  PROVE  Learned'
<1> USE EndsAndNodes
<1>0. TypeOK /\ Learned /\ TypeOK'
  BY TypeStep DEF IInv
<1>1. ASSUME NEW t \in Tunnels, store[Node(t)].peer # None PROVE store'[Node(t)].peer # None
  <2>1. \/ store'[Node(t)].peer = store[Node(t)].peer
        \/ \E t2 \in Tunnels : DeviceLearns(t2) /\ store'[Node(t)].peer = heard[t2]
    BY <1>0, PeerStep
  <2>2. \A t2 \in Tunnels : DeviceLearns(t2) => heard[t2] # None
    BY <1>0 DEF DeviceLearns, TypeOK
  <2> QED BY <1>1, <2>1, <2>2
<1>2. ASSUME NEW t \in Tunnels, pinned'[t] # None PROVE store'[Node(t)].peer # None
  <2>1. CASE \E t2 \in Tunnels : Connect(t2)
    <3>1. PICK t2 \in Tunnels : Connect(t2)
      BY <2>1
    <3>2. /\ store' = store
          /\ \E p \in {store[Node(t2)].peer, None} : pinned' = [pinned EXCEPT ![t2] = p]
      BY <3>1 DEF Connect, nodeVars, storeVars, Read
    <3> QED BY <1>0, <1>2, <3>2 DEF Learned, TypeOK
  <2>2. CASE ~\E t2 \in Tunnels : Connect(t2)
    <3>1. \A E : \A how \in {"cut", "closed", "unsaved"} : Leave(E, how) => pinned'[t] \in {None, pinned[t]}
      BY <1>0, LeaveEffect
    <3>2. pinned'[t] \in {None, pinned[t]}
      BY <2>2, <3>1 DEF Next, HostStep, DeviceStep, Crash, Abort, HostRefuses, HostSaveFails,
         DeviceRefuses, LoadIdentity, CreateIdentity, SaveSecret, Cut, DeviceLearns, ConsumeHello,
         HostVerify, HostReady, HostSendsHeader, DeviceVerify, DeviceReady, vars
    <3> QED BY <1>0, <1>1, <1>2, <3>2 DEF Learned
  <2> QED BY <2>1, <2>2
<1>3. ASSUME NEW t \in Tunnels, pc'[t] = "ready" PROVE store'[Node(t)].peer # None
  <2>1. Moved(t)
    BY <1>0, EndStep
  <2>2. pc[t] = "ready" \/ DeviceLearns(t)
    <3>1. ~DeviceVerify(t) /\ ~DeviceReady(t) /\ ~ConsumeHello(t)
      BY <1>0, <1>3 DEF DeviceVerify, DeviceReady, ConsumeHello, Goto, TypeOK
    <3>2. ~\E t2 \in Tunnels : Connect(t2) /\ t \in {HostEnd, t2}
      BY <1>0, <1>3 DEF Connect, TypeOK
    <3> QED BY <1>3, <2>1, <3>1, <3>2 DEF Moved
  <2>3. CASE DeviceLearns(t)
    <3>1. CASE pinned[t] # None
      BY <1>0, <1>1, <3>1 DEF Learned
    <3>2. CASE pinned[t] = None
      <4>1. store' = [store EXCEPT ![Node(t)].peer = heard[t]] /\ pc[t] = "learn"
        BY <1>0, <1>3, <2>3, <3>2 DEF DeviceLearns, Goto, TypeOK
      <4>2. heard[t] # None /\ Node(t) \in Nodes
        BY <1>0, <4>1 DEF TypeOK
      <4>3. store'[Node(t)].peer = heard[t]
        <5>1. \A n \in Nodes : store[n] \in [pk : Ids, sk : Ids, peer : Ids] /\ n \in DOMAIN store
          BY <1>0 DEF TypeOK
        <5> QED BY <4>1, <4>2, <5>1
      <4> QED BY <4>2, <4>3
    <3> QED BY <3>1, <3>2
  <2> QED BY <1>0, <1>1, <2>2, <2>3 DEF Learned
<1> QED BY <1>2, <1>3 DEF Learned

-------------------------------------------------------------------------------

LEMMA InvStep == IInv /\ [Next]_vars => IInv'
<1> SUFFICES ASSUME IInv, [Next]_vars PROVE IInv'
  OBVIOUS
<1>1. TypeOK' /\ Known' /\ Joined'
  BY TypeStep, JoinedStep DEF IInv
<1> QED BY <1>1, TrustStep, HeadersStep, NamedStep, LearnedStep DEF IInv

LEMMA Invariance == Spec => []IInv
BY InvInit, InvStep, PTL DEF Spec

\* The stores, the programs and the handshakes hold only what their types allow,
\* whatever is read, written or lost.
THEOREM TypeCorrect == Spec => []TypeOK
<1>1. IInv => TypeOK
  BY DEF IInv
<1> QED BY <1>1, Invariance, PTL

\* SecureByteChannel::Establish hands out a connection only to the device that
\* the host's store has as its pin, although saving the pin, or reading it, may
\* fail on the way and several connections may have been attempted before.
THEOREM HostIsPinned == Spec => []HostTrustsItsPin
<1>1. IInv => HostTrustsItsPin
  BY DEF IInv
<1> QED BY <1>1, Invariance, PTL

\* When both sides are ready each has the other's identity in its store: the
\* device may have lost the host's only to a later identity of the host.
THEOREM PinsAreMutual == Spec => []MutualPins
<1>1. IInv => MutualPins
  <2> SUFFICES ASSUME IInv, link = "up", pc[HostEnd] = "ready", pc[cur] = "ready"
               PROVE  /\ store[Host].peer = id[Node(cur)].pk
                      /\ made[Host] = 1 => store[Node(cur)].peer = id[Host].pk
    BY DEF MutualPins
  <2> USE EndsAndNodes
  <2>1. cur \in Tunnels /\ store[Host].peer = id[Node(cur)].pk
    BY PinnedIsTrusted
  <2>2. ASSUME made[Host] = 1 PROVE store[Node(cur)].peer = id[Host].pk
    <3>1. HostIds = {<<Host, 1>>}
      BY <2>2 DEF HostIds
    <3>2. store[Node(cur)].peer \in HostIds
      BY <2>1 DEF IInv, Learned, Named
    <3>3. id[Host].pk \in HostIds
      BY DEF IInv, Known, Named, Real
    <3> QED BY <3>1, <3>2, <3>3
  <2> QED BY <2>1, <2>2
<1> QED BY <1>1, Invariance, PTL

\* An iPad pins the host only when the host has pinned it: whatever is lost and
\* whoever crashes in between, a device that the host refuses learns nothing.
THEOREM PinnedFirstByHost == Spec => PinnedByItsHost
<1>1. IInv /\ [Next]_vars =>
        \A d \in Devices : store'[d].peer # store[d].peer => id[d].pk \in trusted
  <2> SUFFICES ASSUME IInv, [Next]_vars, NEW d \in Devices, store'[d].peer # store[d].peer
               PROVE  id[d].pk \in trusted
    OBVIOUS
  <2> USE EndsAndNodes
  <2>1. \E t \in Tunnels : DeviceLearns(t) /\ d = Node(t)
    BY PeerStep DEF IInv
  <2> QED BY <2>1 DEF IInv, Learning, DeviceLearns
<1> QED BY <1>1, Invariance, PTL DEF Spec, PinnedByItsHost
================================================================================
