------------------------------ MODULE Network -------------------------------
(***************************************************************************)
(* The network services: rtl8139_service (its main thread receives, a      *)
(* second one transmits), network_service (ARP, IPv4, UDP) and the echo    *)
(* program network_test.  They talk over rtl_ep, net_ep and app_ep and     *)
(* pass packets in one shared page: received frames at offset 0, frames to *)
(* send at 2048, UDP payloads at 3072.  A frame is its header and its      *)
(* body, which are copied one after the other.                             *)
(***************************************************************************)
EXTENDS UserCalls, FiniteSets

CONSTANTS Incoming,   \* the packets that may arrive, each once
          MaxHurried  \* bound: packets that arrive while something still moves

\* Header: kind of packet and peer.  Body: the peer whose payload it is.
Gateway == "gateway"
Nothing == "nothing"
Packet(kind, peer) == [head |-> [kind |-> kind, peer |-> peer], body |-> peer]
ArpReply == Packet("arp_reply", Gateway)
Blank    == Packet(Nothing, Nothing)

ASSUME NetworkAssumption ==
  /\ \A p \in Incoming : p.head.kind \in {"arp_request", "udp"}
  /\ MaxHurried \in Nat

\* The values of Threads, EndpointIds and Lines.
Programs         == {"rx", "tx", "net", "app"}
NetworkEndpoints == {"rtl_ep", "net_ep", "app_ep"}
Nic              == 11

\* Message: rdi, and the peer's address (rsi, rdx) where there is one.
Message(type, peer) == [type |-> type, peer |-> peer]
ZeroMessage == Message("zero", Nothing)

VARIABLES
  pc,         \* where each program is
  rx_area, tx_area, app_area,   \* the shared page
  tx_buf,     \* the frame in the transmit DMA buffer
  net,        \* network_service: OUR_MAC known, gateway resolved, port bound
  nic,        \* the card: receive ring, frames to send, ISR, latched edge
  wire,       \* history: the frames sent, in order
  arrived,    \* history: the packets that have arrived
  calm,       \* history: no message was sent when nobody waited for it, no
              \* packet arrived before the previous one had been dealt with
  due         \* history: the packets to be echoed, as long as it was calm

areaVars == <<rx_area, tx_area, app_area, tx_buf>>
envVars  == <<nic, wire, arrived>>
notes    == <<calm, due>>
vars     == <<callVars, pc, areaVars, net, envVars, notes>>

Init ==
  /\ CallsInit
  /\ msg_buf = [t \in Programs |-> ZeroMessage]
  /\ pc = [t \in Programs |-> IF t = "tx" THEN "absent" ELSE "start"]
  /\ rx_area = Blank /\ tx_area = Blank /\ app_area = Nothing /\ tx_buf = Blank
  /\ net = [mac |-> FALSE, resolved |-> FALSE, bound |-> FALSE]
  /\ nic = [ring |-> <<>>, out |-> <<>>, isr |-> {}, edge |-> FALSE]
  /\ wire = <<>>
  /\ arrived = {}
  /\ calm = TRUE /\ due = {}

-----------------------------------------------------------------------------
(* The kinds of steps the programs are made of.                            *)

\* History: whether it is still calm, and packets that are now due.
Note(still, packets) ==
  /\ calm' = (calm /\ still)
  /\ due' = IF calm' THEN due \cup packets ELSE {}

Goto(t, label) == pc' = [pc EXCEPT ![t] = label]
At(t, label) == pc[t] = label /\ ~Blocked(t)

Jump(t, label, next) ==
  At(t, label) /\ Goto(t, next)
    /\ UNCHANGED <<callVars, areaVars, net, envVars, notes>>

SendMsg(t, label, e, m, next) ==
  At(t, label) /\ Send(t, e, m) /\ Goto(t, next)
    /\ Note(HasReceiver(e), {})
    /\ UNCHANGED <<areaVars, net, envVars>>

RecvMsg(t, label, e, next) ==
  At(t, label) /\ Recv(t, e) /\ Goto(t, next)
    /\ UNCHANGED <<areaVars, net, envVars, notes>>

\* The type of the message a program has received last.
Got(t) == msg_buf[t].type

\* What remains unchanged in a step that only writes the shared page.
OnlyAreas == UNCHANGED <<callVars, net, envVars, notes>>

-----------------------------------------------------------------------------
(* rtl8139_service.                                                        *)

\* Map the buffers, set the card up, start the transmit thread.  When a
\* mapping fails the program spins for ever.
RxStart ==
  \/ /\ At("rx", "start")
     /\ pc' = [pc EXCEPT !["rx"] = "send_mac", !["tx"] = "recv"]
     /\ UNCHANGED <<callVars, areaVars, net, envVars, notes>>
  \/ Jump("rx", "start", "spin")

RxWaitIrq ==
  /\ At("rx", "wait") /\ WaitIrq("rx", Nic) /\ Goto("rx", "status")
  /\ UNCHANGED <<areaVars, net, envVars, notes>>

\* The bits that are set when ISR is read decide what is done.
RxReadStatus ==
  Jump("rx", "status", CASE nic.isr = {"TOK", "ROK"} -> "tok_rok"
                         [] nic.isr = {"TOK"} -> "tok"
                         [] nic.isr = {"ROK"} -> "drain"
                         [] nic.isr = {} -> "wait")

\* Writing a bit to ISR clears it.
ClearIsr(label, bits, next) ==
  /\ At("rx", label)
  /\ nic' = [nic EXCEPT !.isr = @ \ bits]
  /\ Goto("rx", next)
  /\ UNCHANGED <<callVars, areaVars, net, wire, arrived, notes>>

\* The loop over the receive ring, until the card says that it is empty: a
\* packet is copied, header first, and announced.
RxCopy ==
  /\ \/ /\ At("rx", "drain") /\ nic.ring # <<>>
        /\ rx_area' = [rx_area EXCEPT !.head = Head(nic.ring).head]
        /\ Goto("rx", "copy_body")
     \/ /\ At("rx", "copy_body")
        /\ rx_area' = [rx_area EXCEPT !.body = Head(nic.ring).body]
        /\ Goto("rx", "send_rx")
  /\ OnlyAreas /\ UNCHANGED <<tx_area, app_area, tx_buf>>

\* Move rx_offset and CAPR past the packet (module RxRing).
RxAdvance ==
  /\ At("rx", "advance")
  /\ nic' = [nic EXCEPT !.ring = Tail(@)]
  /\ Goto("rx", "drain")
  /\ UNCHANGED <<callVars, areaVars, net, wire, arrived, notes>>

Rx ==
  \/ RxStart
  \/ SendMsg("rx", "send_mac", "net_ep", Message("mac", Nothing), "wait")
  \/ RxWaitIrq \/ RxReadStatus
  \/ ClearIsr("tok", {"TOK"}, "wait") \/ ClearIsr("tok_rok", {"TOK"}, "drain")
  \/ RxCopy
  \/ SendMsg("rx", "send_rx", "net_ep", Message("rx", Nothing), "advance")
  \/ RxAdvance
  \/ nic.ring = <<>> /\ Jump("rx", "drain", "rok")
  \/ ClearIsr("rok", {"ROK"}, "wait")

TxRequest == Got("tx") = "tx"

\* Copy the frame from the shared page to the DMA buffer, header first.
TxCopy ==
  /\ \/ /\ At("tx", "got") /\ TxRequest
        /\ tx_buf' = [tx_buf EXCEPT !.head = tx_area.head]
        /\ Goto("tx", "copy_body")
     \/ /\ At("tx", "copy_body")
        /\ tx_buf' = [tx_buf EXCEPT !.body = tx_area.body]
        /\ Goto("tx", "transmit")
  /\ OnlyAreas /\ UNCHANGED <<rx_area, tx_area, app_area>>

\* The writes to TX_ADDR and TX_STATUS.
TxTransmit ==
  /\ At("tx", "transmit")
  /\ nic' = [nic EXCEPT !.out = Append(@, tx_buf)]
  /\ Goto("tx", "ack")
  /\ UNCHANGED <<callVars, areaVars, net, wire, arrived, notes>>

Tx ==
  \/ RecvMsg("tx", "recv", "rtl_ep", "got")
  \/ ~TxRequest /\ RecvMsg("tx", "got", "rtl_ep", "got")
  \/ TxCopy \/ TxTransmit
  \/ SendMsg("tx", "ack", "net_ep", Message("ack", Nothing), "recv")

-----------------------------------------------------------------------------
(* network_service.                                                        *)

\* Mutant: datagrams are sent before the gateway's address is known.
CanSendAlways == Got("net") = "send"

\* Mutant: the request to bind a port is taken for a datagram to send.
CanSendOnBind == Got("net") \in {"send", "bind"} /\ net.resolved

CanSend == Got("net") = "send" /\ net.resolved

\* The arms of the match that only note something, or nothing.
NetIgnores ==
  \/ Got("net") \in {"ack", "zero"}
  \/ Got("net") = "send" /\ ~net.resolved

NetBind ==
  /\ At("net", "got") /\ Got("net") = "bind"
  /\ net' = [net EXCEPT !.bound = TRUE]
  /\ Goto("net", "recv")
  /\ UNCHANGED <<callVars, areaVars, envVars, notes>>

\* handle_arp, handle_ipv4 and handle_udp, up to the copying.
NetParse ==
  LET head == rx_area.head
  IN  /\ At("net", "got") /\ Got("net") = "rx"
      /\ net' = [net EXCEPT !.resolved = @ \/ head = ArpReply.head]
      /\ Goto("net", CASE head.kind = "arp_request" -> "arp_reply"
                       [] head.kind = "udp" /\ net.bound -> "payload"
                       [] OTHER -> "recv")
      /\ UNCHANGED <<callVars, areaVars, envVars, notes>>

\* Write the header of the frame to send.
NetFrame(kind, peer, next) ==
  /\ tx_area' = [tx_area EXCEPT !.head = [kind |-> kind, peer |-> peer]]
  /\ Goto("net", next)
  /\ UNCHANGED <<callVars, envVars, notes, rx_area, app_area, tx_buf>>

\* The driver's MAC address: send_arp_request.  An ARP frame has no body.
NetMac ==
  /\ At("net", "got") /\ Got("net") = "mac"
  /\ net' = [net EXCEPT !.mac = TRUE]
  /\ NetFrame("arp_request", Gateway, "send_tx")

NetArpReply ==
  /\ At("net", "arp_reply")
  /\ NetFrame("arp_reply", rx_area.head.peer, "send_tx")
  /\ UNCHANGED net

\* Mutant: the application is told of a payload that is not there yet.
NetPayloadSkipped == Jump("net", "payload", "notify")

\* handle_udp: the payload is copied for the application, whose notification
\* carries the sender's address, read from the packet once more.
NetPayload ==
  /\ At("net", "payload")
  /\ app_area' = rx_area.body
  /\ Goto("net", "notify")
  /\ OnlyAreas /\ UNCHANGED <<rx_area, tx_area, tx_buf>>

\* send_udp: header, then payload.
NetUdp ==
  \/ /\ At("net", "got") /\ CanSend
     /\ NetFrame("udp", msg_buf["net"].peer, "udp_body")
     /\ UNCHANGED net
  \/ /\ At("net", "udp_body")
     /\ tx_area' = [tx_area EXCEPT !.body = app_area]
     /\ Goto("net", "send_tx")
     /\ OnlyAreas /\ UNCHANGED <<rx_area, app_area, tx_buf>>

Net ==
  \/ Jump("net", "start", "recv") \/ Jump("net", "start", "spin")
  \/ RecvMsg("net", "recv", "net_ep", "got")
  \/ NetIgnores /\ RecvMsg("net", "got", "net_ep", "got")
  \/ NetBind \/ NetMac \/ NetParse \/ NetArpReply \/ NetPayload \/ NetUdp
  \/ SendMsg("net", "notify", "app_ep", Message("recv", rx_area.head.peer), "recv")
  \/ SendMsg("net", "send_tx", "rtl_ep", Message("tx", Nothing), "recv")

-----------------------------------------------------------------------------
(* network_test.                                                           *)

App ==
  \/ Jump("app", "start", "bind") \/ Jump("app", "start", "spin")
  \/ SendMsg("app", "bind", "net_ep", Message("bind", Nothing), "recv")
  \/ RecvMsg("app", "recv", "app_ep", "got")
  \/ Got("app") # "recv" /\ RecvMsg("app", "got", "app_ep", "got")
  \/ /\ Got("app") = "recv"
     /\ SendMsg("app", "got", "net_ep", Message("send", msg_buf["app"].peer), "recv")

-----------------------------------------------------------------------------
(* The card, its interrupt, and the network.                               *)

\* A bit of ISR is set.  The line is edge triggered (route_irq): only the
\* change from no bit to some bit makes an interrupt.
Raise(card, bit) ==
  [card EXCEPT !.isr = @ \cup {bit}, !.edge = @ \/ card.isr = {}]

Transmitted ==
  /\ nic.out # <<>>
  /\ wire' = Append(wire, Head(nic.out))
  /\ nic' = Raise([nic EXCEPT !.out = Tail(@)], "TOK")
  /\ UNCHANGED <<callVars, pc, areaVars, net, arrived, notes>>

\* Every program waits for its next message or interrupt, the card for work.
Quiet ==
  /\ \A t \in Programs : Blocked(t)
  /\ nic.isr = {} /\ nic.ring = <<>> /\ nic.out = <<>>

\* The packets that network_test is to send back, port and gateway being known.
Echoable ==
  {p \in Incoming : p.head.kind = "udp" /\ net.bound /\ net.resolved}

\* A packet is received once the driver has enabled the card.
Arrive(p) ==
  /\ p \notin arrived
  /\ pc["rx"] \notin {"start", "spin"}
  /\ arrived' = arrived \cup {p}
  /\ nic' = Raise([nic EXCEPT !.ring = Append(@, p)], "ROK")
  /\ Note(Quiet, {p} \cap Echoable)
  /\ UNCHANGED <<callVars, pc, areaVars, net, wire>>

\* The gateway answers the request for its address.
GatewayReplies ==
  /\ \E i \in DOMAIN wire : wire[i].head.kind = "arp_request"
  /\ Arrive(ArpReply)

\* rtl8139_interrupt_handler.
NicInterrupt ==
  /\ nic.edge
  /\ nic' = [nic EXCEPT !.edge = FALSE]
  /\ UnblockIrq(Nic)
  /\ UNCHANGED <<pc, areaVars, net, wire, arrived, notes>>

PacketArrives ==
  /\ Quiet \/ Cardinality(arrived \cap Incoming) < MaxHurried
  /\ \E p \in Incoming : Arrive(p)

Next ==
  Rx \/ Tx \/ Net \/ App \/ Transmitted \/ NicInterrupt \/ GatewayReplies
    \/ PacketArrives

Spec == Init /\ [][Next]_vars
=============================================================================
