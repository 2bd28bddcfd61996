--------------------------- MODULE InterruptSetup ---------------------------
(***************************************************************************)
(* The interrupt hardware from arch::init to the running system: the ACPI  *)
(* tables give the addresses of the local APIC and of an I/O APIC          *)
(* (acpi.rs), the timer moves from the PIT behind the 8259 PICs to the     *)
(* local APIC (apic.rs, timer.rs, interrupts.rs), the device lines are     *)
(* routed (ioapic.rs, arch/x86_64/mod.rs, main.rs), and the handlers wake  *)
(* the threads waiting for a line and acknowledge the interrupt (idt.rs,   *)
(* scheduler.rs).                                                          *)
(***************************************************************************)
EXTENDS Naturals, Sequences

CONSTANTS
  Entries,     \* MADT entries the firmware may list
  MaxEntries,  \* how many of them at most
  NicLines     \* interrupt lines of the network card, NoNic without one

LOCAL Lists == INSTANCE SequencesExt

VARIABLES
  firmware,      \* what the boot loader hands over
  boot_pc,       \* the next step of the boot
  LAPIC_ADDR, IOAPIC_ADDR,
  lapic_enabled, \* bit 8 of the spurious vector register
  lapic_timer,   \* the local APIC timer runs
  lapic_isr,     \* vectors in service at the local APIC
  pic_unmasked,  \* PIC lines that are not masked
  pic_isr,       \* PIC lines in service
  redirection,   \* vector of each I/O APIC pin, or Masked
  raised,        \* device lines with an edge not yet delivered
  woken,         \* device lines whose waiter was woken last time
  tick           \* flips at every timer interrupt

setupVars == <<firmware, boot_pc>>
apicVars == <<LAPIC_ADDR, IOAPIC_ADDR, lapic_enabled, lapic_timer, redirection>>
picVars  == <<pic_unmasked, pic_isr, lapic_isr>>
runVars  == <<raised, woken, tick>>
interruptVars == <<setupVars, apicVars, picVars, runVars>>

Unknown == 0           \* LAPIC_ADDR and IOAPIC_ADDR before the MADT is read
DefaultLapic == 1      \* local_apic_addr of the MADT header
Masked == 0
NoNic == 0

\* MADT entries: an I/O APIC at an address with its first interrupt number,
\* a source override, another address of the local APIC.
Ioapic(addr, base) == [type |-> 1, a |-> addr, b |-> base]
Override(source, gsi) == [type |-> 2, a |-> source, b |-> gsi]
LapicAddress(addr) == [type |-> 5, a |-> addr, b |-> 0]

Firmware ==
  [rsdp : BOOLEAN, madt : BOOLEAN,
   entries : UNION {[1..n -> Entries] : n \in 0..MaxEntries},
   nic : NicLines]

Ioapics == {e.a : e \in {x \in Entries : x.type = 1}}
Pins == 0..23

Devices == {1, 14} \cup ({firmware.nic} \ {NoNic})

InterruptInit ==
  /\ firmware \in Firmware
  /\ boot_pc = "acpi"
  /\ LAPIC_ADDR = Unknown /\ IOAPIC_ADDR = Unknown
  /\ lapic_enabled = FALSE /\ lapic_timer = FALSE
  /\ pic_unmasked = {} /\ pic_isr = {} /\ lapic_isr = {}
  /\ redirection = [i \in Ioapics |-> [p \in Pins |-> Masked]]
  /\ raised = {} /\ woken = {} /\ tick = FALSE

SetupAt(from, to) == boot_pc = from /\ boot_pc' = to /\ UNCHANGED <<firmware, runVars>>

\* parse_madt: the first I/O APIC is used, the last local APIC address; a
\* source override is only logged.
ParseEntry(found, e) ==
  [lapic |-> IF e.type = 5 THEN e.a ELSE found.lapic,
   ioapic |-> IF e.type = 1 /\ found.ioapic = Unknown THEN e.a ELSE found.ioapic]

ParseMadt ==
  Lists!FoldLeft(ParseEntry, [lapic |-> DefaultLapic, ioapic |-> Unknown],
                 firmware.entries)

\* acpi::init: without a MADT both addresses stay unknown.
acpi_init ==
  /\ SetupAt("acpi", "apic")
  /\ IF firmware.rsdp /\ firmware.madt
     THEN LAPIC_ADDR' = ParseMadt.lapic /\ IOAPIC_ADDR' = ParseMadt.ioapic
     ELSE UNCHANGED <<LAPIC_ADDR, IOAPIC_ADDR>>
  /\ UNCHANGED <<lapic_enabled, lapic_timer, redirection, picVars>>

\* apic::init
apic_init ==
  /\ SetupAt("apic", "ioapic")
  /\ lapic_enabled' = (LAPIC_ADDR # Unknown)
  /\ UNCHANGED <<LAPIC_ADDR, IOAPIC_ADDR, lapic_timer, redirection, picVars>>

\* ioapic::init masks every pin.
ioapic_init ==
  /\ SetupAt("ioapic", "pic")
  /\ redirection' = IF IOAPIC_ADDR = Unknown THEN redirection
                    ELSE [redirection EXCEPT ![IOAPIC_ADDR] = [p \in Pins |-> Masked]]
  /\ UNCHANGED <<LAPIC_ADDR, IOAPIC_ADDR, lapic_enabled, lapic_timer, picVars>>

\* interrupts::init leaves the PIC masks as they were; timer::init unmasks
\* line 0.
timer_init ==
  /\ SetupAt("pic", IF firmware.rsdp THEN "calibrate" ELSE "nic")
  /\ pic_unmasked' = pic_unmasked \cup {0}
  /\ UNCHANGED <<apicVars, pic_isr, lapic_isr>>

\* apic::calibrate_timer: disable_pit_interrupts, then the periodic timer.
calibrate_timer ==
  /\ SetupAt("calibrate", "disable_pic")
  /\ IF LAPIC_ADDR = Unknown THEN UNCHANGED <<lapic_timer, pic_unmasked>>
     ELSE lapic_timer' = TRUE /\ pic_unmasked' = pic_unmasked \ {0}
  /\ UNCHANGED <<LAPIC_ADDR, IOAPIC_ADDR, lapic_enabled, redirection, pic_isr, lapic_isr>>

disable_pic ==
  /\ SetupAt("disable_pic", "route")
  /\ pic_unmasked' = {}
  /\ UNCHANGED <<apicVars, pic_isr, lapic_isr>>

\* route_irq: the pin of that number of the I/O APIC in use, unmasked.
Routed(table, irq, vector) ==
  IF IOAPIC_ADDR = Unknown THEN table
  ELSE [table EXCEPT ![IOAPIC_ADDR][irq] = vector]

route_irqs ==
  /\ SetupAt("route", "nic")
  /\ redirection' = Routed(Routed(redirection, 1, 33), 14, 46)
  /\ UNCHANGED <<LAPIC_ADDR, IOAPIC_ADDR, lapic_enabled, lapic_timer, picVars>>

\* _start routes the line of the card it found.
route_nic ==
  /\ SetupAt("nic", "running")
  /\ redirection' = IF firmware.nic = NoNic THEN redirection
                    ELSE Routed(redirection, firmware.nic, 47)
  /\ UNCHANGED <<LAPIC_ADDR, IOAPIC_ADDR, lapic_enabled, lapic_timer, picVars>>

-----------------------------------------------------------------------------
\* The wiring of the machine (external): the interrupt number of a line, and
\* the I/O APIC pin that number belongs to.
Listed(type) == {firmware.entries[i] : i \in {j \in DOMAIN firmware.entries :
                                               firmware.entries[j].type = type}}

Gsi(line) ==
  IF \E e \in Listed(2) : e.a = line
  THEN (CHOOSE e \in Listed(2) : e.a = line).b ELSE line

VectorOf(line) ==
  LET owners == {e \in Listed(1) : Gsi(line) \in e.b .. e.b + 23}
  IN  IF owners = {} THEN Masked
      ELSE LET e == CHOOSE x \in owners : TRUE
           IN  redirection[e.a][Gsi(line) - e.b]

\* The line whose waiter the handler of a vector wakes: unblock_irq in
\* keyboard_, ata_ and rtl8139_interrupt_handler.
Wakes(vector) == CASE vector = 33 -> 1 [] vector = 46 -> 14 [] vector = 47 -> 11

-----------------------------------------------------------------------------
\* A device raises its line; the edge is lost while the pin is masked.
Raise(line) ==
  /\ boot_pc = "running"
  /\ line \notin raised
  /\ raised' = IF VectorOf(line) = Masked THEN raised ELSE raised \cup {line}
  /\ woken' = woken \ {line}
  /\ UNCHANGED <<setupVars, apicVars, picVars, tick>>

\* Mutant: the end of interrupt is not sent.
EoiSkipped(isr) == isr

\* apic::eoi: the local APIC retires the highest vector in service.
Eoi(isr) ==
  IF LAPIC_ADDR = Unknown \/ isr = {} THEN isr
  ELSE isr \ {CHOOSE v \in isr : \A w \in isr : w <= v}

\* notify_end_of_interrupt: the PIC retires its highest priority line.
PicEoi(isr) ==
  IF isr = {} THEN isr ELSE isr \ {CHOOSE l \in isr : \A k \in isr : l <= k}

\* The controllers hold back what is not of higher priority than what they
\* have in service: lower lines first, higher vector classes first.
PicDelivers(line) == line \in pic_unmasked /\ \A l \in pic_isr : line < l

LapicDelivers(vector) ==
  lapic_enabled /\ \A v \in lapic_isr : vector \div 16 > v \div 16

\* The device handlers: unblock_irq, the end of interrupt to the PIC (not
\* for the network card) and to the local APIC.
Device(line) ==
  LET vector == VectorOf(line)
  IN  /\ boot_pc = "running"
      /\ line \in raised
      /\ LapicDelivers(vector)
      /\ raised' = raised \ {line}
      /\ woken' = woken \cup {Wakes(vector)}
      /\ pic_isr' = IF vector = 47 THEN pic_isr ELSE PicEoi(pic_isr)
      /\ lapic_isr' = Eoi(lapic_isr \cup {vector})
      /\ UNCHANGED <<setupVars, apicVars, pic_unmasked, tick>>

\* timer_tick_handler, on either timer, acknowledges the local APIC only.
Timer ==
  /\ boot_pc = "running"
  /\ \/ /\ lapic_timer /\ LapicDelivers(32)
        /\ lapic_isr' = Eoi(lapic_isr \cup {32})
        /\ UNCHANGED pic_isr
     \/ /\ PicDelivers(0)
        /\ pic_isr' = pic_isr \cup {0}
        /\ lapic_isr' = Eoi(lapic_isr)
  /\ tick' = ~tick
  /\ UNCHANGED <<setupVars, apicVars, pic_unmasked, raised, woken>>

SetupStep ==
  \/ acpi_init \/ apic_init \/ ioapic_init \/ timer_init \/ calibrate_timer
  \/ disable_pic \/ route_irqs \/ route_nic

InterruptNext ==
  \/ SetupStep
  \/ Timer
  \/ \E line \in Devices : Raise(line) \/ Device(line)

InterruptSpec == InterruptInit /\ [][InterruptNext]_interruptVars

\* The boot is straight-line code; the processor takes an interrupt that is
\* raised and not blocked, and a running timer interrupts again and again.
FairSpec ==
  /\ InterruptSpec
  /\ WF_interruptVars(SetupStep)
  /\ WF_interruptVars(Timer)
  /\ \A line \in {1, 14} \cup NicLines : WF_interruptVars(Device(line))

-----------------------------------------------------------------------------
\* The machines the code is written for: the first I/O APIC of the MADT owns
\* the ISA lines, no driver's line is overridden, the card uses line 11.
Ordinary ==
  /\ firmware.rsdp /\ firmware.madt
  /\ \E e \in Listed(1) : e.a = ParseMadt.ioapic /\ e.b = 0
  /\ \A e \in Listed(2) : e.a \notin Devices
  /\ firmware.nic \in {NoNic, 11}

\* At no time do the PIT and the local APIC timer both interrupt.
OneTimer == ~(lapic_timer /\ 0 \in pic_unmasked)

\* Every driver's line reaches the vector whose handler wakes its waiter.
DevicesHeard ==
  \A line \in Devices : VectorOf(line) # Masked /\ Wakes(VectorOf(line)) = line

\* On an ordinary machine the numbers in route_irq's callers, in the IDT and
\* in the handlers agree, and an edge on a device line is followed by a
\* wake-up of its waiter, however often the timer and the other devices
\* interrupt: every handler leaves the controllers ready for the next.
DeviceWakes ==
  /\ [](boot_pc = "running" /\ Ordinary => DevicesHeard)
  /\ \A line \in {1, 14, 11} : Ordinary /\ line \in raised ~> line \in woken

\* An ordinary machine is preempted for ever: the tick keeps coming.  And on
\* no machine does it come twice: the hand-over (calibrate_timer) silences one
\* timer before it starts the other.
OrdinaryTicks ==
  []OneTimer /\ []<>(Ordinary => tick) /\ []<>(Ordinary => ~tick)
=============================================================================
