------------------------------- MODULE RxRing -------------------------------
(***************************************************************************)
(* The receive ring of the network card and the way rtl8139_service walks  *)
(* it.  The card writes each frame, a 4-byte header with its length before *)
(* it, at the next multiple of 4; a frame that reaches past the end of the *)
(* ring is not split (the WRAP bit of RCR) but runs on into the memory     *)
(* behind it.  The driver keeps its own offset and tells the card through  *)
(* the 16-bit register CAPR, 16 below it, how far it has read.             *)
(***************************************************************************)
EXTENDS Integers, Sequences

CONSTANTS Ring,      \* bytes in the ring: 8192
          Lengths,   \* frame lengths the card stores, CRC included
          TxBase,    \* offset of the transmit buffers in the DMA pool: 16384
          Ids        \* frames are numbered modulo this

ASSUME RingAssumption ==
  /\ Ring \in Nat \ {0} /\ Ring % 4 = 0 /\ 2^16 % Ring = 0
  /\ Lengths \subseteq {n \in Nat : n > 4 /\ n + 8 <= Ring}
  /\ TxBase \in Nat /\ Ring + Ring <= TxBase
  /\ Ids \in Nat \ {0}

VARIABLES
  stored,      \* the frames in the ring's memory: where, length, number
  cbr,         \* card: where the next frame goes
  rdptr,       \* card: how far the driver has read, from CAPR
  rx_offset,   \* driver
  loop,        \* driver: "test" CommandRegister.BUFE, or "advance"
  frame,       \* driver: the frame copied last
  unread,      \* history: the frames received and not yet copied
  next         \* history: number of the next frame

cardVars == <<stored, cbr, rdptr, next>>
ringVars == <<stored, cbr, rdptr, rx_offset, loop, frame, unread, next>>

NoFrame == [at |-> 0, length |-> 0, id |-> 0]

RingInit ==
  /\ stored = {} /\ cbr = 0 /\ rdptr = 0 /\ next = 0
  /\ rx_offset = 0 /\ loop = "test" /\ frame = NoFrame
  /\ unread = <<>>

-----------------------------------------------------------------------------
\* (n + 3) & !3
Align(n) == ((n + 3) \div 4) * 4

\* Mutant: the header is left out.
AdvanceBare(from, length) ==
  LET n == Align(from + length) IN IF n >= Ring THEN n - Ring ELSE n

\* The driver's next offset.
Advance(from, length) ==
  LET n == Align(from + length + 4) IN IF n >= Ring THEN n - Ring ELSE n

\* Mutant: CAPR is given the offset itself.
CaprPlain(from) == from % 2^16

\* rx_offset - 16 in wrapping 32-bit arithmetic, cut to the port's 16 bits.
Capr(from) == (from - 16) % 2^16

-----------------------------------------------------------------------------
(* The card.                                                               *)

Size(length) == Align(length + 4)

\* What the card makes of CAPR.
ReadPointer(capr) == (capr + 16) % Ring

\* Where the card goes on after a frame of the given size.
After(at, size) == IF at + size >= Ring THEN at + size - Ring ELSE at + size

Used == (cbr - rdptr) % Ring

Overlaps(f, at, size) == f.at < at + size /\ at < f.at + Size(f.length)

\* A frame is stored if there is room, otherwise lost.
Receive(length) ==
  LET f == [at |-> cbr, length |-> length, id |-> next]
  IN  /\ Used + Size(length) < Ring
      /\ stored' = {g \in stored : ~Overlaps(g, cbr, Size(length))} \cup {f}
      /\ cbr' = After(cbr, Size(length))
      /\ unread' = Append(unread, f)
      /\ next' = (next + 1) % Ids
      /\ UNCHANGED <<rdptr, rx_offset, loop, frame>>

-----------------------------------------------------------------------------
(* The driver.                                                             *)

\* BUFE is clear: read the header at rx_offset and copy the frame.
Copy ==
  /\ loop = "test"
  /\ cbr # rdptr
  /\ frame' \in {f \in stored : f.at = rx_offset}
  /\ unread' = IF unread = <<>> THEN <<>> ELSE Tail(unread)
  /\ loop' = "advance"
  /\ UNCHANGED <<cardVars, rx_offset>>

\* Announce the frame (module Network), then move on and write CAPR.
MoveOn ==
  /\ loop = "advance"
  /\ rx_offset' = Advance(rx_offset, frame.length)
  /\ rdptr' = ReadPointer(Capr(rx_offset'))
  /\ loop' = "test"
  /\ UNCHANGED <<stored, cbr, frame, unread, next>>

RingNext == (\E n \in Lengths : Receive(n)) \/ Copy \/ MoveOn

RingSpec == RingInit /\ [][RingNext]_ringVars

-----------------------------------------------------------------------------
\* Where the driver ought to look next: where the oldest frame it has not
\* read begins, or where the card will write.
Target == IF unread = <<>> THEN cbr ELSE Head(unread).at

\* There it looks, over any sequence of lengths and any number of turns
\* around the ring; so every frame is copied once, in the order received.
InStep ==
  IF loop = "test" THEN rx_offset = Target
  ELSE Advance(rx_offset, frame.length) = Target

\* The frames not read yet are in memory as they were received, and so is the
\* one being copied: the card never overwrites what the driver has not given
\* back through CAPR.  Nor does a frame that runs past the end of the ring
\* reach the transmit buffers.
NothingOverwritten ==
  /\ \A i \in DOMAIN unread : unread[i] \in stored
  /\ loop = "advance" => frame \in stored
  /\ \A f \in stored : f.at + 4 + f.length <= TxBase
=============================================================================
