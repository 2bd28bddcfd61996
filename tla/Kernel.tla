------------------------------- MODULE Kernel -------------------------------
(***************************************************************************)
(* The kernel: scheduler, interrupts, IPC and processes together.  Every   *)
(* user thread may make any system call at any time; a handle is resolved  *)
(* in the CSpace of the calling thread's process.                          *)
(***************************************************************************)
EXTENDS Processes, Ipc, IrqWait

CONSTANT BootCSpace    \* the capabilities init is given at boot

ASSUME BootAssumption ==
  /\ BootCSpace \in Slots
  /\ BootCSpace # <<>> => BootCSpace[Len(BootCSpace)] # NoCap
  /\ \A i \in DOMAIN BootCSpace :
       /\ BootCSpace[i].type \notin {"Endpoint", "Process"}
       /\ BootCSpace[i].type = "Interrupt" => BootCSpace[i].obj \in Irq

VARIABLE next_endpoint   \* the number of the next endpoint to be created

vars == <<switchVars, irqVars, ipcVars, processVars, next_endpoint>>

\* _start after spawn_from_elf("init") and the insert_at calls: one thread
\* in the run queue, none running.
Init ==
  /\ run_queue = <<1>>
  /\ current = NoThread
  /\ saved = [t \in Thread |-> Cooperative(NewDepth)]
  /\ frame = [t \in Thread |-> IF t = 1 THEN CoopFrame(NewDepth, TRUE)
                                        ELSE NoFrame]
  /\ STATE_TO_UPDATE = NoThread
  /\ rsp0 = NoThread
  /\ cpu = Cpu("boot", NoThread, NoSite)
  /\ IrqInit
  /\ IpcInit
  /\ processes = [p \in Thread |-> NewProcessState]
  /\ process_of = [t \in Thread |-> IF t = 1 THEN 1 ELSE NoThread]
  /\ cspaces = [p \in Thread |-> IF p = 1 THEN BootCSpace ELSE <<>>]
  /\ next_id = 2
  /\ next_endpoint = 1

-----------------------------------------------------------------------------
(* System calls: the capability check of each handler, then the handler.   *)

Handle == 0..(Len(CurrentCSpace) - 1)

\* Handle h holds a capability of this type with these rights.
Holds(h, type, rights) ==
  /\ Get(CurrentCSpace, h).type = type
  /\ rights \subseteq Get(CurrentCSpace, h).rights

\* Mutant: the capability names the endpoint after the one created.
endpoint_create_off_by_one ==
  /\ InUser
  /\ next_endpoint \in Endpoint
  /\ next_endpoint' = next_endpoint + 1
  /\ cspaces' = [cspaces EXCEPT ![process_of[current]] =
                   Insert(@, [type |-> "Endpoint", obj |-> next_endpoint + 1,
                              rights |-> Rights])]
  /\ UNCHANGED <<switchVars, irqVars, ipcVars, processes, process_of, next_id>>

\* SYS_EP_CREATE
sys_endpoint_create ==
  /\ InUser
  /\ next_endpoint \in Endpoint
  /\ next_endpoint' = next_endpoint + 1
  /\ cspaces' = [cspaces EXCEPT ![process_of[current]] =
                   Insert(@, [type |-> "Endpoint", obj |-> next_endpoint,
                              rights |-> Rights])]
  /\ UNCHANGED <<switchVars, irqVars, ipcVars, processes, process_of, next_id>>

SysSend == InUser /\ \E h \in Handle :
  /\ Holds(h, "Endpoint", {"SEND"})
  /\ sys_send(Get(CurrentCSpace, h).obj)
  /\ UNCHANGED <<irqVars, processVars, next_endpoint>>

SysRecv == InUser /\ \E h \in Handle :
  /\ Holds(h, "Endpoint", {"RECEIVE"})
  /\ sys_recv(Get(CurrentCSpace, h).obj)
  /\ UNCHANGED <<irqVars, processVars, next_endpoint>>

SysSpawn ==
  /\ \E h \in EpHandle : sys_spawn(h)
  /\ UNCHANGED <<irqVars, ipcVars, next_endpoint>>

SysThreadSpawn ==
  sys_thread_spawn /\ UNCHANGED <<irqVars, ipcVars, next_endpoint>>

SysWait == InUser /\ \E h \in Handle :
  /\ Holds(h, "Process", {"WAIT"})
  /\ sys_wait(Get(CurrentCSpace, h).obj)
  /\ UNCHANGED <<irqVars, ipcVars, next_endpoint>>

SysWaitIrq == InUser /\ \E h \in Handle :
  /\ Holds(h, "Interrupt", {})
  /\ sys_wait_irq(Get(CurrentCSpace, h).obj)
  /\ UNCHANGED <<ipcVars, processVars, next_endpoint>>

SysYield == yield_now /\ UNCHANGED <<irqVars, ipcVars, processVars, next_endpoint>>

\* SYS_EXIT, or a page fault in user mode.
SysExit == exit_current_thread /\ UNCHANGED <<irqVars, ipcVars, next_endpoint>>

FatalException ==
  fatal_exception /\ UNCHANGED <<irqVars, ipcVars, processVars, next_endpoint>>

-----------------------------------------------------------------------------
(* Interrupts, boot and idling.                                            *)

Timer ==
  timer_tick_handler /\ UNCHANGED <<irqVars, ipcVars, processVars, next_endpoint>>

DeviceIrq == \E irq \in Irq :
  unblock_irq(irq) /\ UNCHANGED <<ipcVars, processVars, next_endpoint>>

BootYield ==
  boot_yield /\ UNCHANGED <<irqVars, ipcVars, processVars, next_endpoint>>

IdleResume ==
  idle_resume /\ UNCHANGED <<irqVars, ipcVars, processVars, next_endpoint>>

\* The processor has stopped, or left the behaviour the model describes.
Stopped == cpu.mode \in {"wild", "all_exited", "unimplemented", "exception"}

Halted == Stopped /\ UNCHANGED vars

Next ==
  \/ sys_endpoint_create \/ SysSend \/ SysRecv
  \/ SysSpawn \/ SysThreadSpawn \/ SysWait \/ SysExit \/ FatalException
  \/ SysWaitIrq \/ SysYield
  \/ Timer \/ DeviceIrq \/ BootYield \/ IdleResume
  \/ Halted

\* The timer keeps ticking, and code that can run does.
Fairness == WF_vars(Timer) /\ WF_vars(BootYield) /\ WF_vars(IdleResume)

Spec == Init /\ [][Next]_vars

FairSpec == Spec /\ Fairness
=============================================================================
