------------------------- MODULE NetworkProperties --------------------------
(* What is claimed of the network services.                                *)
EXTENDS Network

Udp(p) == p.head.kind = "udp"

Echoes == {i \in DOMAIN wire : Udp(wire[i])}

\* No packet leads to two frames: apart from the request for the gateway's
\* address, the frames sent never outnumber the packets received, the reply
\* that made the address known not counted.  So it is although messages
\* between the programs are lost, zero messages are made up, and packets are
\* overwritten and read twice.
NoExtraFrames ==
  Len(wire) <= Cardinality(arrived) + (IF net.resolved THEN 0 ELSE 1)

\* A UDP frame leaves only when the driver's message with its MAC address and
\* the gateway's ARP reply have both been processed, whatever was lost on the
\* way.
UdpFramesAddressed == Echoes # {} => net.mac /\ net.resolved

\* Nothing moves any more: every program waits, no interrupt is pending, the
\* card has nothing to send.
Still == (\A t \in Programs : Blocked(t)) /\ ~nic.edge /\ nic.out = <<>>

\* By then every packet that was due has been echoed with its own payload, and
\* none lies forgotten in the card: the handing over of the shared page and of
\* the card's interrupts from program to program works, as long as no message
\* was sent to nobody and no packet overtook another.
QuietPacketsEchoed == Still => due \subseteq {wire[i] : i \in DOMAIN wire}
=============================================================================
