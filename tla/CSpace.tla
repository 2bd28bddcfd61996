------------------------------- MODULE CSpace -------------------------------
(***************************************************************************)
(* The capability space of a process (capability/mod.rs): a growable       *)
(* vector of optional capabilities, addressed by handle.  A handle is the  *)
(* 0-based slot index; handle h is element h + 1 of the sequence.  A       *)
(* capability names an object (endpoint, process, interrupt line, ...) by  *)
(* number.                                                                 *)
(***************************************************************************)
EXTENDS Naturals, Sequences

Rights == {"SEND", "RECEIVE", "WAIT"}

CapType == {"Endpoint", "Process", "Interrupt", "PortIO", "MemoryMap"}

Capability == [type : CapType, obj : Nat, rights : SUBSET Rights]

\* An empty slot (None).
NoCap == [type |-> "None", obj |-> 0, rights |-> {}]

Slots == Seq(Capability \cup {NoCap})

\* CSpace::get: no capability beyond the end of the vector.
Get(cs, h) == IF h < Len(cs) THEN cs[h + 1] ELSE NoCap

FreeSlots(cs) == {i \in DOMAIN cs : cs[i] = NoCap}

\* Mutant: the last slot is taken for a free one.
InsertLast(cs, cap) ==
  IF cs = <<>> THEN <<cap>> ELSE [cs EXCEPT ![Len(cs)] = cap]

\* CSpace::insert: the first empty slot, otherwise a new one at the end.
Insert(cs, cap) ==
  IF FreeSlots(cs) = {}
  THEN Append(cs, cap)
  ELSE LET first == CHOOSE i \in FreeSlots(cs) :
                      \A j \in FreeSlots(cs) : i <= j
       IN  [cs EXCEPT ![first] = cap]

\* CSpace::insert_at: grow with empty slots up to the index, overwrite it.
InsertAt(cs, h, cap) ==
  LET size == IF h < Len(cs) THEN Len(cs) ELSE h + 1
  IN  [i \in 1..size |-> CASE i = h + 1   -> cap
                           [] i # h + 1 /\ i <= Len(cs) -> cs[i]
                           [] OTHER -> NoCap]
=============================================================================
