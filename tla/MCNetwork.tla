----------------------------- MODULE MCNetwork ------------------------------
(* Constants for model checking Network.                                   *)
EXTENDS NetworkProperties, TLC

CONSTANT Hosts     \* peers that send one datagram each

MCMessages ==
  {Message(t, p) : t \in {"zero", "mac", "rx", "tx", "ack", "bind", "send", "recv"},
                   p \in {Nothing, Gateway} \cup Hosts}
MCLines == {Nic}

MCPackets ==
  {Packet("udp", h) : h \in Hosts} \cup {Packet("arp_request", Gateway)}

MCSymmetry == Permutations(Hosts)
=============================================================================
