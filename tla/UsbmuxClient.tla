----------------------------- MODULE UsbmuxClient -----------------------------
(***************************************************************************)
(* The usbmux client (windows-host/transport/usbmux/src) as the worker of  *)
(* the tray application uses it: WaitForDevice listens on one socket, then *)
(* Connect opens another, which becomes the tunnel to the iPad's app.  The *)
(* service answers in packets, a header and a plist, which the client      *)
(* reads in pieces from a byte stream that, after the answer to Connect,   *)
(* carries the app's own bytes.                                            *)
(*                                                                         *)
(* A plist is the sequence of its entries, in the order of the text; one   *)
(* entry, and one half of a header, stand for the bytes of it.             *)
(***************************************************************************)
EXTENDS Messages, FiniteSets

CONSTANTS
  Devices,     \* device ids, numbers
  ListenPorts, \* ports an app may listen on
  Texts,       \* configuration files
  MaxPackets,  \* packets WaitForDevice reads, 64
  MaxSent,     \* bound: bytes an app sends on a tunnel
  MaxBacklog,  \* bound: bytes of events in flight
  MaxFaults    \* bound: late answers, odd answers, refused or broken sockets

ASSUME UsbmuxAssumption ==
  /\ Devices \subseteq Nat \ {0} /\ \A d \in Devices : d < Word * Word
  /\ ListenPorts \subseteq PortRange \ {0}
  /\ Texts \subseteq Seq(Lines)
  /\ MaxPackets \in Nat \ {0}
  /\ MaxSent \in Nat /\ MaxBacklog \in Nat /\ MaxFaults \in Nat

VARIABLES
  config,    \* the worker's configuration
  pc,        \* where the worker is
  sockets,   \* sockets opened and not closed
  got,       \* what RecvPacket has read of a packet
  skipped,   \* packets WaitForDevice has read
  dev,       \* the device found
  taken,     \* bytes read from the tunnel
  inbox,     \* bytes sent to the client's socket and not yet read
  req,       \* what the service was asked on that socket
  told,      \* devices it was told of
  linked,    \* the app it is a tunnel to
  sent,      \* bytes that app has sent
  service,   \* the service runs
  attached,  \* devices attached
  app,       \* the port each device's app listens on, 0 for none
  faults     \* faults so far

clientVars == <<config, pc, sockets, got, skipped, dev, taken>>
socketVars == <<inbox, req, told, linked, sent>>
worldVars == <<service, attached, app>>
muxVars == <<clientVars, socketVars, worldVars, faults>>

NoDevice == 0
NoReq == [type |-> "none"]
NoLink == [device |-> NoDevice, port |-> 0]

-------------------------------------------------------------------------------
(* Packets and plists.                                                      *)

HeaderSize == 2

EncodePacket(tag, plist) ==
  <<[length |-> HeaderSize + Len(plist)], [tag |-> tag]>> \o plist

Entry(key, tag, text) == [key |-> key, tag |-> tag, text |-> text]

\* The value belongs to the first occurrence of the key, if it has that type.
value_after_key(plist, key, tag, absent) ==
  LET at == {i \in DOMAIN plist : plist[i].key = key}
      first == CHOOSE i \in at : \A j \in at : i <= j
  IN  IF at = {} \/ plist[first].tag # tag THEN absent ELSE plist[first].text

PlistGetInteger(plist, key) == value_after_key(plist, key, "integer", Junk)

ParseMessageType(plist) == value_after_key(plist, "MessageType", "string", "")

\* static_cast<int> of a long long, if there is one: its low 32 bits.
ToInt(number) == IF number = Junk THEN Junk ELSE Narrow(number)

ParseResultNumber(plist) == ToInt(PlistGetInteger(plist, "Number"))

ParseAttached(plist) ==
  IF ParseMessageType(plist) = "Attached" THEN ToInt(PlistGetInteger(plist, "DeviceID"))
  ELSE Junk

EncodePortBigEndian(port) == ((port * Base) % Word) + (port \div Base)

BuildConnectPlist(device_id, device_port) ==
  [type |-> "connect", device |-> device_id, port |-> EncodePortBigEndian(device_port)]

kResultOk == 0
kResultBadDevice == 2
kResultConnRefused == 3

-------------------------------------------------------------------------------

MuxInit ==
  /\ config \in {ParseConfig(t) : t \in Texts}
  /\ pc = "idle" /\ sockets = 0 /\ got = <<>> /\ skipped = 0
  /\ dev = NoDevice /\ taken = 0
  /\ inbox = <<>> /\ req = NoReq /\ told = {} /\ linked = NoLink /\ sent = 0
  /\ service \in BOOLEAN /\ attached \in SUBSET Devices
  /\ app \in [Devices -> ListenPorts \cup {0}]
  /\ faults = 0

\* A new socket; the service has not been asked anything on it.
DialTcp(request) ==
  /\ sockets' = sockets + 1
  /\ req' = request
  /\ inbox' = <<>> /\ told' = {} /\ linked' = NoLink /\ sent' = 0
  /\ got' = <<>>

close_sock ==
  /\ sockets' = sockets - 1
  /\ req' = NoReq /\ inbox' = <<>> /\ told' = {} /\ linked' = NoLink /\ sent' = 0
  /\ got' = <<>>

Fault == faults < MaxFaults /\ faults' = faults + 1

-------------------------------------------------------------------------------
(* RecvPacket, on either socket.                                            *)

Reading == pc \in {"listen", "connect"}

\* What RecvExact still needs: of the header, then of the whole packet.
Need == IF Len(got) < HeaderSize THEN HeaderSize - Len(got) ELSE got[1].length - Len(got)

Complete == Len(got) >= HeaderSize /\ Need = 0
IllFormed == Len(got) >= HeaderSize /\ got[1].length < HeaderSize
Payload == Drop(got, HeaderSize)

\* A mutant of RecvExact: the answer to Connect is read with what follows it.
RecvGreedy ==
  /\ Reading /\ Need > 0 /\ inbox # <<>>
  /\ \E k \in 1..Len(inbox) :
       /\ k <= Need \/ pc = "connect"
       /\ got' = got \o SubSeq(inbox, 1, IF k < Need THEN k ELSE Need)
       /\ inbox' = Drop(inbox, k)
  /\ UNCHANGED <<config, pc, sockets, skipped, dev, taken, req, told, linked, sent,
                 worldVars, faults>>

RecvExact ==
  /\ Reading /\ Need > 0 /\ inbox # <<>>
  /\ \E k \in 1..Len(inbox) :
       /\ k <= Need
       /\ got' = got \o SubSeq(inbox, 1, k)
       /\ inbox' = Drop(inbox, k)
  /\ UNCHANGED <<config, pc, sockets, skipped, dev, taken, req, told, linked, sent,
                 worldVars, faults>>

\* The peer has closed the socket.
Hangup == req.type = "hangup"

\* Nothing the service still has to say.
Silent == req.type = "events" /\ told = attached

\* Nothing comes within the timeout, the socket is at its end, or the header
\* is not one; if the service owes an answer it is late.
RecvPacketFails ==
  \/ IllFormed /\ UNCHANGED faults
  \/ /\ ~IllFormed /\ Need > 0 /\ inbox = <<>>
     /\ IF Hangup \/ Silent THEN UNCHANGED faults ELSE Fault

-------------------------------------------------------------------------------
(* WaitForDevice.                                                           *)

\* No socket, or the request cannot be sent and the socket is closed again.
WaitConnectFails ==
  /\ pc = "idle"
  /\ IF service THEN Fault ELSE UNCHANGED faults
  /\ UNCHANGED <<config, pc, sockets, got, skipped, dev, taken, socketVars, worldVars>>

Listen ==
  /\ pc = "idle" /\ service
  /\ DialTcp([type |-> "listen"])
  /\ skipped' = 0
  /\ pc' = "listen"
  /\ UNCHANGED <<config, dev, taken, worldVars, faults>>

\* A mutant of WaitFails: the socket is not closed when nothing comes.
WaitFailsLeaking ==
  /\ pc = "listen"
  /\ RecvPacketFails
  /\ req' = NoReq /\ inbox' = <<>> /\ told' = {} /\ linked' = NoLink /\ sent' = 0
  /\ got' = <<>>
  /\ pc' = "idle"
  /\ UNCHANGED <<config, sockets, skipped, dev, taken, worldVars>>

WaitFails ==
  /\ pc = "listen"
  /\ RecvPacketFails
  /\ close_sock
  /\ pc' = "idle"
  /\ UNCHANGED <<config, skipped, dev, taken, worldVars>>

DeviceFound ==
  /\ pc = "listen" /\ Complete
  /\ ParseAttached(Payload) # Junk
  /\ dev' = ParseAttached(Payload)
  /\ close_sock
  /\ pc' = "found"
  /\ UNCHANGED <<config, skipped, taken, worldVars, faults>>

\* A mutant of SkipPacket: the answer to Listen is taken for the end of the list.
SkipNothing ==
  /\ pc = "listen" /\ Complete
  /\ ParseAttached(Payload) = Junk
  /\ close_sock
  /\ pc' = "idle"
  /\ UNCHANGED <<config, skipped, dev, taken, worldVars, faults>>

SkipPacket ==
  /\ pc = "listen" /\ Complete
  /\ ParseAttached(Payload) = Junk
  /\ skipped' = skipped + 1
  /\ IF skipped' < MaxPackets
       THEN /\ got' = <<>>
            /\ UNCHANGED <<pc, sockets, socketVars>>
       ELSE /\ close_sock
            /\ pc' = "idle"
  /\ UNCHANGED <<config, dev, taken, worldVars, faults>>

-------------------------------------------------------------------------------
(* Connect.                                                                 *)

\* As WaitConnectFails.
ConnectFails ==
  /\ pc = "found"
  /\ IF service THEN Fault ELSE UNCHANGED faults
  /\ pc' = "pause"
  /\ UNCHANGED <<config, sockets, got, skipped, dev, taken, socketVars, worldVars>>

Connect ==
  /\ pc = "found" /\ service
  /\ DialTcp(BuildConnectPlist(dev, config.device_port))
  /\ pc' = "connect"
  /\ UNCHANGED <<config, skipped, dev, taken, worldVars, faults>>

ConnectGetsNothing ==
  /\ pc = "connect"
  /\ RecvPacketFails
  /\ close_sock
  /\ pc' = "pause"
  /\ UNCHANGED <<config, skipped, dev, taken, worldVars>>

\* A number that says why not, or an answer without a number.
ConnectRefused ==
  /\ pc = "connect" /\ Complete
  /\ ParseResultNumber(Payload) # kResultOk
  /\ close_sock
  /\ pc' = "pause"
  /\ UNCHANGED <<config, skipped, dev, taken, worldVars, faults>>

Connected ==
  /\ pc = "connect" /\ Complete
  /\ ParseResultNumber(Payload) = kResultOk
  /\ got' = <<>>
  /\ pc' = "tunnel"
  /\ UNCHANGED <<config, sockets, skipped, dev, taken, socketVars, worldVars, faults>>

\* Tunnel::Recv
TunnelRecv ==
  /\ pc = "tunnel" /\ inbox # <<>>
  /\ \E k \in 1..Len(inbox) : taken' = taken + k /\ inbox' = Drop(inbox, k)
  /\ UNCHANGED <<config, pc, sockets, got, skipped, dev, req, told, linked, sent,
                 worldVars, faults>>

\* Tunnel::Close, at the end of a session or of a handshake that failed.
TunnelClose ==
  /\ pc = "tunnel"
  /\ close_sock
  /\ dev' = NoDevice /\ taken' = 0
  /\ pc' \in {"idle", "pause"}
  /\ UNCHANGED <<config, skipped, worldVars, faults>>

Retry ==
  /\ pc = "pause"
  /\ pc' = "idle"
  /\ dev' = NoDevice
  /\ UNCHANGED <<config, sockets, got, skipped, taken, socketVars, worldVars, faults>>

Client ==
  \/ RecvExact \/ WaitConnectFails \/ Listen \/ WaitFails \/ DeviceFound \/ SkipPacket
  \/ ConnectFails \/ Connect \/ ConnectGetsNothing \/ ConnectRefused \/ Connected
  \/ TunnelRecv \/ Retry

-------------------------------------------------------------------------------
(* The service.                                                             *)

Send(plist) == inbox' = inbox \o EncodePacket(1, plist)

Result(number) ==
  <<Entry("MessageType", "string", "Result"), Entry("Number", "integer", number)>>

\* An event names a device; its properties follow.
AttachedEvent(d) ==
  <<Entry("MessageType", "string", "Attached"), Entry("DeviceID", "integer", d),
    Entry("Properties", "dict", "")>>

DetachedEvent(d) ==
  <<Entry("MessageType", "string", "Detached"), Entry("DeviceID", "integer", d)>>

AnswerListen ==
  /\ service /\ req.type = "listen"
  /\ Send(Result(kResultOk))
  /\ req' = [type |-> "events"]
  /\ UNCHANGED <<clientVars, told, linked, sent, worldVars, faults>>

AnnounceAttached ==
  /\ service /\ req.type = "events" /\ Len(inbox) < MaxBacklog
  /\ \E d \in attached \ told : Send(AttachedEvent(d)) /\ told' = told \cup {d}
  /\ UNCHANGED <<clientVars, req, linked, sent, worldVars, faults>>

AnnounceDetached ==
  /\ service /\ req.type = "events" /\ Len(inbox) < MaxBacklog
  /\ \E d \in told \ attached : Send(DetachedEvent(d)) /\ told' = told \ {d}
  /\ UNCHANGED <<clientVars, req, linked, sent, worldVars, faults>>

ntohs(port) == ((port * Base) % Word) + (port \div Base)

AnswerConnect ==
  /\ service /\ req.type = "connect"
  /\ LET number == IF req.device \notin attached THEN kResultBadDevice
                   ELSE IF app[req.device] # ntohs(req.port) THEN kResultConnRefused
                   ELSE kResultOk
     IN  /\ Send(Result(number))
         /\ req' = [type |-> IF number = kResultOk THEN "tunnel" ELSE "answered"]
         /\ linked' = IF number = kResultOk
                        THEN [device |-> req.device, port |-> app[req.device]]
                        ELSE NoLink
  /\ UNCHANGED <<clientVars, told, sent, worldVars, faults>>

\* A header that is too short, no number, or a number of another failure.
AnswerOddly ==
  /\ service /\ req.type = "connect"
  /\ Fault
  /\ inbox' \in {<<[length |-> 0], [tag |-> 2]>>, EncodePacket(2, SubSeq(Result(0), 1, 1)),
                 EncodePacket(2, Result(1))}
  /\ req' = [type |-> "answered"]
  /\ UNCHANGED <<clientVars, told, linked, sent, worldVars>>

\* The app may write as soon as it is connected.
AppSends ==
  /\ req.type = "tunnel" /\ sent < MaxSent
  /\ sent' = sent + 1
  /\ inbox' = Append(inbox, [byte |-> sent'])
  /\ UNCHANGED <<clientVars, req, told, linked, worldVars, faults>>

HangsUp == IF sockets = 0 THEN UNCHANGED req ELSE req' = [type |-> "hangup"]

ServiceStops ==
  /\ service
  /\ service' = FALSE
  /\ HangsUp
  /\ UNCHANGED <<clientVars, inbox, told, linked, sent, attached, app, faults>>

ServiceStarts ==
  /\ ~service
  /\ service' = TRUE
  /\ UNCHANGED <<clientVars, socketVars, attached, app, faults>>

Attach ==
  /\ \E d \in Devices \ attached : attached' = attached \cup {d}
  /\ UNCHANGED <<clientVars, socketVars, service, app, faults>>

Detach ==
  /\ \E d \in attached :
       /\ attached' = attached \ {d}
       /\ IF linked.device = d THEN HangsUp ELSE UNCHANGED req
  /\ UNCHANGED <<clientVars, inbox, told, linked, sent, service, app, faults>>

AppChanges ==
  /\ \E d \in Devices, p \in ListenPorts \cup {0} :
       /\ p # app[d]
       /\ app' = [app EXCEPT ![d] = p]
       /\ IF linked.device = d THEN HangsUp ELSE UNCHANGED req
  /\ UNCHANGED <<clientVars, inbox, told, linked, sent, service, attached, faults>>

Service ==
  \/ AnswerListen \/ AnnounceAttached \/ AnnounceDetached \/ AnswerConnect \/ AppSends
World == AnswerOddly \/ ServiceStops \/ ServiceStarts \/ Attach \/ Detach \/ AppChanges
===============================================================================
