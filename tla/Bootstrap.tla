----------------------------- MODULE Bootstrap ------------------------------
(***************************************************************************)
(* How the services come to hold their capabilities.  The kernel puts the  *)
(* hardware capabilities at fixed handles of init's CSpace (main.rs); init *)
(* creates the endpoints and the shared frames, which take the free slots  *)
(* in order, and spawns every service with a copy of its CSpace (init.rs); *)
(* a service then uses the handles written into its code, and learns only  *)
(* from the calls of its start-up whether they name what it needs.         *)
(***************************************************************************)
EXTENDS CSpace, Integers

LOCAL Lists == INSTANCE SequencesExt

VARIABLES
  machine,    \* what the boot loader and the PCI scan found
  cspace,     \* init's CSpace
  init_pc,    \* init's next step, 0 before the kernel has granted anything
  handle,     \* the handle init was given at each step
  children,   \* the CSpace each service was given
  status      \* what became of each service

bootVars == <<machine, cspace, init_pc, handle, children, status>>

\* The framebuffer may be missing, and so may the network card, whose first
\* base address register may be of either kind.
Machine == [framebuffer : BOOLEAN, nic : {"none", "io", "memory"}]

\* init creates these objects, in this order, and then spawns the services.
Endpoints == {"ep", "kbd_ep", "ata_ep", "vfs_ep", "rtl_ep", "net_ep", "test_ep"}

Objects == << "ep", "kbd_ep", "ata_ep", "vfs_ep", "shm",
              "rtl_ep", "net_ep", "test_ep", "net_shm" >>

Services == << "terminal", "keyboard", "ata", "fat16", "storage_test",
               "rtl8139", "network", "network_test" >>

Steps == Objects \o Services

StepOf(name) == CHOOSE i \in DOMAIN Steps : Steps[i] = name

Service == {Services[i] : i \in DOMAIN Services}

Cap(type, obj) == [type |-> type, obj |-> obj, rights |-> {}]

\* What init creates under a name; an object is numbered by its step.
Created(name) ==
  IF name \in Endpoints
  THEN [Cap("Endpoint", StepOf(name)) EXCEPT !.rights = Rights]
  ELSE Cap("MemoryMap", StepOf(name))

\* Hardware capabilities: an interrupt by its line, ports by the first one,
\* memory by a number above those of the frames.
Framebuffer == Cap("MemoryMap", 1001)
DmaPool == Cap("MemoryMap", 1002)
NicBar == Cap(IF machine.nic = "io" THEN "PortIO" ELSE "MemoryMap", 1003)
NicIrq == Cap("Interrupt", 11)

\* The handles at which _start grants the hardware, in the order it does so.
Hardware ==
  <<<<1, Cap("Interrupt", 1)>>, <<2, Cap("PortIO", 96)>>>>
  \o (IF machine.framebuffer THEN <<<<3, Framebuffer>>>> ELSE <<>>)
  \o <<<<4, Cap("Interrupt", 14)>>, <<5, Cap("PortIO", 496)>>,
       <<6, Cap("PortIO", 1014)>>>>
  \o (IF machine.nic = "none" THEN <<>>
      ELSE <<<<20, NicIrq>>, <<21, NicBar>>, <<22, DmaPool>>>>)

BootInit ==
  /\ machine \in Machine
  /\ cspace = <<>>
  /\ init_pc = 0
  /\ handle = [name \in {} |-> 0]
  /\ children = [s \in {} |-> <<>>]
  /\ status = [s \in Service |-> "absent"]

\* Mutant: the capabilities take the free slots in order.
GrantInOrder ==
  LET Next(cs, grant) == Insert(cs, grant[2])
  IN  /\ init_pc = 0
      /\ cspace' = Lists!FoldLeft(Next, <<>>, Hardware)
      /\ init_pc' = 1
      /\ UNCHANGED <<machine, handle, children, status>>

\* Interrupts are still disabled: init cannot run before it has everything.
Grant ==
  LET At(cs, grant) == InsertAt(cs, grant[1], grant[2])
  IN  /\ init_pc = 0
      /\ cspace' = Lists!FoldLeft(At, <<>>, Hardware)
      /\ init_pc' = 1
      /\ UNCHANGED <<machine, handle, children, status>>

InitStep(name) == init_pc \in DOMAIN Steps /\ Steps[init_pc] = name /\ init_pc' = init_pc + 1

\* CSpace::insert returns the slot it filled.
InsertedAt(cs, cap) ==
  IF FreeSlots(cs) = {} THEN Len(cs)
  ELSE (CHOOSE i \in FreeSlots(cs) : \A j \in FreeSlots(cs) : i <= j) - 1

NewHandle(name, cap) ==
  /\ cspace' = Insert(cspace, cap)
  /\ handle' = [n \in DOMAIN handle \cup {name} |->
                  IF n = name THEN InsertedAt(cspace, cap) ELSE handle[n]]

\* SYS_EP_CREATE
EpCreate ==
  \E name \in Endpoints :
    /\ InitStep(name)
    /\ NewHandle(name, Created(name))
    /\ UNCHANGED <<machine, children, status>>

\* SYS_FRAME_ALLOC: without a free frame the call returns 0 and inserts
\* nothing, and init goes on.
InitFrameAlloc ==
  \E name \in {"shm", "net_shm"} :
    /\ InitStep(name)
    /\ \/ NewHandle(name, Created(name))
       \/ /\ handle' = [n \in DOMAIN handle \cup {name} |->
                          IF n = name THEN 0 ELSE handle[n]]
          /\ UNCHANGED cspace
    /\ UNCHANGED <<machine, children, status>>

\* SYS_SPAWN with usize::MAX: every capability at the same handle.
InitSpawn ==
  \E s \in Service :
    /\ InitStep(s)
    /\ NewHandle(s, Cap("Process", StepOf(s)))
    /\ children' = [c \in DOMAIN children \cup {s} |->
                      IF c = s THEN cspace ELSE children[c]]
    /\ status' = [status EXCEPT ![s] = "spawned"]
    /\ UNCHANGED machine

\* SYS_CAP_INFO: the address or number behind a hardware capability.
NoInfo == -1
CapInfo(cs, h) ==
  LET cap == Get(cs, h)
  IN  IF cap.type \in {"MemoryMap", "PortIO", "Interrupt"} THEN cap.obj ELSE NoInfo

\* Mutant: the address returned is not compared with 0.
MappableUnchecked(cs, h) == TRUE

\* SYS_MAP_PHYS of the whole of what a handle names.
Mappable(cs, h) == Get(cs, h).type = "MemoryMap"

\* SYS_PORT_IN of a port of the range a handle names.
Readable(cs, h) == Get(cs, h).type = "PortIO"

\* The calls before a service's main loop; it goes on only if all succeed.
\* The network driver resets the card in a loop that a refused port read
\* never leaves.
StartUp(s, cs) ==
  CASE s = "terminal" -> machine.framebuffer /\ Mappable(cs, 3)
    [] s = "keyboard" -> Readable(cs, 2)
    [] s \in {"ata", "fat16", "storage_test"} -> Mappable(cs, 10)
    [] s = "rtl8139" -> /\ CapInfo(cs, 21) # NoInfo
                        /\ Mappable(cs, 22)
                        /\ Mappable(cs, 14)
                        /\ Readable(cs, 21)
    [] s \in {"network", "network_test"} -> Mappable(cs, 14)

\* A service runs its start-up, at any time after init has spawned it.
Start(s) ==
  /\ status[s] = "spawned"
  /\ status' = [status EXCEPT
                  ![s] = IF StartUp(s, children[s]) THEN "serving" ELSE "stopped"]
  /\ UNCHANGED <<machine, cspace, init_pc, handle, children>>

BootNext ==
  \/ Grant
  \/ EpCreate
  \/ InitFrameAlloc
  \/ InitSpawn
  \/ \E s \in Service : Start(s)

BootSpec == BootInit /\ [][BootNext]_bootVars
=============================================================================
