----------------------------- MODULE MCDevices -----------------------------
(***************************************************************************)
(* One instance of five models that share no state: the keyboard service,  *)
(* the receive ring of the network card, the terminal's cursor, the search *)
(* of the initial archive and the header checksum.  A behaviour is a       *)
(* behaviour of one of them, chosen at the start; the others are idle.     *)
(***************************************************************************)
EXTENDS Keyboard, RxRing, Terminal, TarSearch, Checksum

\* Frame lengths of every residue modulo 4, short and long.
MCLengths == {5, 7, 10, 12, 18}

VARIABLE subject

allVars == <<subject, keyboardVars, ringVars, termVars, tarVars, sumVars>>

\* An empty archive, searched in vain; nothing to add up.
TarIdle ==
  /\ members = <<>> /\ archive = Archive(<<>>) /\ name \in Names
  /\ name = CHOOSE n \in Names : TRUE
  /\ offset = 0 /\ result = None

SumIdle == bytes = <<>> /\ pos = 0 /\ sum = 0 /\ csum = NoSum

DevicesInit ==
  /\ subject \in {"keyboard", "ring", "terminal", "archive", "checksum"}
  /\ KeyboardInit /\ (subject = "keyboard" \/ ~full)
  /\ RingInit
  /\ Init
  /\ IF subject = "archive" THEN TarInit ELSE TarIdle
  /\ IF subject = "checksum" THEN SumInit ELSE SumIdle

KeyboardOnly(A) ==
  subject = "keyboard" /\ A /\ UNCHANGED <<subject, ringVars, termVars, tarVars, sumVars>>
RingOnly(A) ==
  subject = "ring" /\ A /\ UNCHANGED <<subject, keyboardVars, termVars, tarVars, sumVars>>
TerminalOnly(A) ==
  subject = "terminal" /\ A /\ UNCHANGED <<subject, keyboardVars, ringVars, tarVars, sumVars>>
ArchiveOnly(A) ==
  subject = "archive" /\ A /\ UNCHANGED <<subject, keyboardVars, ringVars, termVars, sumVars>>
SumOnly(A) ==
  subject = "checksum" /\ A /\ UNCHANGED <<subject, keyboardVars, ringVars, termVars, tarVars>>

DevicesNext ==
  \/ KeyboardOnly(KeyboardNext) \/ RingOnly(RingNext) \/ TerminalOnly(Next)
  \/ ArchiveOnly(TarNext) \/ SumOnly(SumNext)

\* The fairness of Keyboard and of TarSearch.
DevicesSpec ==
  /\ DevicesInit /\ [][DevicesNext]_allVars
  /\ WF_allVars(KeyboardOnly(ServiceStep))
  /\ WF_allVars(KeyboardOnly(Load))
  /\ WF_allVars(KeyboardOnly(KeyboardInterrupt))
  /\ WF_allVars(ArchiveOnly(TarNext))
=============================================================================
