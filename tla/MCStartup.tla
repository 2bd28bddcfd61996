----------------------------- MODULE MCStartup -----------------------------
(***************************************************************************)
(* One instance of three models that share no state: what init hands to    *)
(* the services (Bootstrap), the set-up of the interrupt hardware          *)
(* (InterruptSetup) and the kernel's spin locks (Locks).  A behaviour is a *)
(* behaviour of one of them, chosen at the start; the others stay in an    *)
(* initial state.                                                          *)
(***************************************************************************)
EXTENDS BootstrapProperties, InterruptSetup, Locks

CONSTANTS t1, t2, t3

\* An I/O APIC with the ISA lines and one without, the usual override of the
\* timer's line, another address of the local APIC.
MCEntries == {Ioapic(100, 0), Ioapic(200, 24), Override(0, 2), LapicAddress(2)}

\* Two threads of one process, one of another.
MCThread == {t1, t2, t3}
MCProcessOf == [t \in MCThread |-> IF t = t3 THEN 2 ELSE 1]

VARIABLE subject

allVars == <<subject, bootVars, interruptVars, lockVars>>

\* A machine whose firmware reports nothing.
SilentFirmware == [rsdp |-> FALSE, madt |-> FALSE, entries |-> <<>>, nic |-> NoNic]

StartupInit ==
  /\ subject \in {"handles", "interrupts", "locks"}
  /\ BootInit /\ (subject = "handles" \/ machine = CHOOSE m \in Machine : TRUE)
  /\ InterruptInit /\ (subject = "interrupts" \/ firmware = SilentFirmware)
  /\ LockInit

Handles(A) == subject = "handles" /\ A /\ UNCHANGED <<subject, interruptVars, lockVars>>
Interrupts(A) == subject = "interrupts" /\ A /\ UNCHANGED <<subject, bootVars, lockVars>>
LocksOnly(A) == subject = "locks" /\ A /\ UNCHANGED <<subject, bootVars, interruptVars>>

StartupNext == Handles(BootNext) \/ Interrupts(InterruptNext) \/ LocksOnly(LockNext)

\* The fairness of InterruptSetup.
StartupSpec ==
  /\ StartupInit /\ [][StartupNext]_allVars
  /\ WF_allVars(Interrupts(SetupStep))
  /\ WF_allVars(Interrupts(Timer))
  /\ \A line \in {1, 14} \cup NicLines : WF_allVars(Interrupts(Device(line)))
=============================================================================
