-------------------------------- MODULE Locks --------------------------------
(***************************************************************************)
(* The spin locks of the kernel.  There is one processor: code that finds  *)
(* a lock taken with interrupts off waits for ever, so no path may switch  *)
(* threads, or let an interrupt in, while it holds a lock that the next    *)
(* thread or the handler takes.  An operation is the sequence of its lock  *)
(* steps; a guard is dropped where Rust drops it, at the end of its scope  *)
(* unless drop() comes first.                                              *)
(***************************************************************************)
EXTENDS Integers, Sequences

CONSTANTS Thread,     \* user threads
          FirstThread,\* the thread of init
          Endpoint,   \* IPC endpoints
          ProcessOf   \* the process of every thread: its cspace, its state

ASSUME LocksAssumption == FirstThread \in Thread

Process == {ProcessOf[t] : t \in Thread}
Boot == "boot"        \* _start, before it first switches to a thread

VARIABLES run,        \* who has the processor: a thread or Boot
          live,       \* threads created and not yet gone
          todo,       \* lock steps left of the kernel code it executes
          handler,    \* lock steps left of the interrupt handler above it
          held,       \* the locks that are taken
          stopped     \* a panic: hlt with interrupts off

lockVars == <<run, live, todo, handler, held, stopped>>

SCHEDULER == <<"SCHEDULER">>
ALLOCATOR == <<"ALLOCATOR">>
MAPPER == <<"MAPPER">>
PICS == <<"PICS">>
CSpace(t) == <<"cspace", ProcessOf[t]>>
State(p) == <<"process_state", p>>
EpState(e) == <<"endpoint", e>>

Step(op, arg) == [op |-> op, arg |-> arg]
Take(l) == Step("take", l)
Drop(l) == Step("drop", l)
Add(t) == Step("add", <<t>>)
Hlt == Step("hlt", <<>>)        \* enable_and_hlt
Idle == Step("idle", <<>>)      \* while run_queue.is_empty()
Switch == Step("switch", <<>>)  \* switch_context to the next thread
Leave == Step("leave", <<>>)    \* the same for a thread that has exited
Preempt == Step("preempt", <<>>)
Panic == Step("panic", <<>>)

\* A guard and the code in its scope.
Hold(l, inner) == <<Take(l)>> \o inner \o <<Drop(l)>>
Touch(l) == Hold(l, <<>>)

-----------------------------------------------------------------------------
(* System calls of thread t, as sets of paths.                             *)

\* SCHEDULER, and under it the caller's cspace.
LookUp(t) == Hold(SCHEDULER, Touch(CSpace(t)))

\* Mutant: the scheduler stays locked while the processor is halted.
IdleLoopLocked == <<Hlt>>

\* One turn of the loop a blocked thread waits in.
IdleLoop == <<Drop(SCHEDULER), Hlt, Take(SCHEDULER)>>

\* The end of every blocking call, SCHEDULER being held.
Block == <<Idle, Drop(SCHEDULER), Switch>>

\* A call that may block on a lock's object: refused, done, or blocked.
Blocking(t, inner) ==
  {LookUp(t),
   Hold(SCHEDULER, Touch(CSpace(t)) \o inner),
   <<Take(SCHEDULER)>> \o Touch(CSpace(t)) \o inner \o Block}

SendRecv(t) == UNION {Blocking(t, Touch(EpState(e))) : e \in Endpoint}
Wait(t) == UNION {Blocking(t, Touch(State(p))) : p \in Process}
WaitIrq(t) == Blocking(t, <<>>)

\* yield_now by c: nobody else is ready, or the next thread's saved state is
\* Cooperative, or it is Preemptive (unimplemented!).
Yield(c) ==
  {Touch(SCHEDULER)} \cup
  {Touch(SCHEDULER) \o <<end>> : end \in IF live \ {c} = {} THEN {}
                                         ELSE {Switch, Panic}}

\* SYS_EXIT and a page fault in user mode.
Exit(t) ==
  LET wake == <<Take(SCHEDULER)>> \o Touch(State(ProcessOf[t]))
  IN {wake \o <<Panic>>} \cup
     IF live = {t} THEN {} ELSE {wake \o <<Drop(SCHEDULER), Leave>>}

\* spawn_from_elf: frames for the tables, the segments and the stack, each
\* allocated under one guard and mapped under another; then add_thread.
SpawnFromElf(u) ==
  Touch(ALLOCATOR) \o Touch(ALLOCATOR) \o Touch(ALLOCATOR)
    \o Hold(SCHEDULER, <<Add(u)>>)

\* SYS_SPAWN: the endpoint is looked up, the child made, with usize::MAX the
\* parent's capabilities are copied, and the process capability is inserted.
Spawn(t) ==
  {LookUp(t)} \cup
  UNION {{LookUp(t) \o SpawnFromElf(u) \o LookUp(t),
          LookUp(t) \o SpawnFromElf(u)
            \o Hold(SCHEDULER, Hold(CSpace(t), Touch(CSpace(u))))
            \o LookUp(t)} :
         u \in {v \in Thread : \A w \in live : ProcessOf[v] # ProcessOf[w]}}

ThreadSpawn(t) ==
  {Hold(SCHEDULER, <<Add(u)>>) :
     u \in {v \in Thread \ live : ProcessOf[v] = ProcessOf[t]}}

\* SYS_PORT_IN and SYS_PORT_OUT: a refusal is logged under a second guard.
PortIo(t) == {LookUp(t), LookUp(t) \o Touch(SCHEDULER)}

\* SYS_MAP_PHYS: three look-ups, then the pages under the allocator's lock.
MapPhys(t) ==
  LET lookups == LookUp(t) \o Touch(SCHEDULER) \o Touch(CSpace(t))
                   \o Touch(SCHEDULER)
  IN {LookUp(t), lookups \o Touch(ALLOCATOR),
      lookups \o <<Take(ALLOCATOR), Panic>>}

\* SYS_FRAME_ALLOC.
FrameAlloc(t) == {Touch(ALLOCATOR), Touch(ALLOCATOR) \o LookUp(t)}

\* SYS_EP_CREATE, SYS_CAP_INFO and SYS_DMA_ALLOC.
OneLookUp(t) == {LookUp(t)}

Paths(t) ==
  SendRecv(t) \cup Wait(t) \cup WaitIrq(t) \cup Yield(t) \cup Exit(t)
    \cup Spawn(t) \cup ThreadSpawn(t) \cup PortIo(t) \cup MapPhys(t)
    \cup FrameAlloc(t) \cup OneLookUp(t)

-----------------------------------------------------------------------------
(* Interrupt handlers and boot.                                            *)

\* The timer's, and those of the keyboard and the disk and of the network
\* card, which has no PIC line to acknowledge.
Handlers ==
  {Touch(SCHEDULER) \o <<Preempt>>, Touch(SCHEDULER) \o Touch(PICS),
   Touch(SCHEDULER)}

MapPage == Hold(MAPPER, Touch(ALLOCATOR))

\* heap::init with two pages: its guard is dropped around map_page.
HeapInit ==
  LET page == <<Drop(ALLOCATOR)>> \o MapPage \o <<Take(ALLOCATOR)>>
  IN Hold(ALLOCATOR, page \o page)

\* _start up to interrupts_enable: memory, interrupt controllers (every
\* ensure_mapped is a MapPage), the first process and its capabilities.
BootPath ==
  Touch(ALLOCATOR) \o Touch(MAPPER) \o HeapInit
    \o MapPage \o MapPage
    \o Touch(PICS) \o Touch(PICS) \o Touch(PICS) \o Touch(PICS)
    \o SpawnFromElf(FirstThread) \o Touch(CSpace(FirstThread))

LockInit ==
  /\ run = Boot
  /\ live = {}
  /\ todo = BootPath
  /\ handler = <<>>
  /\ held = {}
  /\ stopped = FALSE

-----------------------------------------------------------------------------
(* One processor.  A system call enters with interrupts off (SFMask), an    *)
(* interrupt gate turns them off, _start yields without_interrupts: they    *)
(* are on in user mode, in _start between two yields, and in hlt.          *)

Interruptible ==
  handler = <<>> /\ (todo # <<>> => Head(todo) = Hlt) /\ ~stopped

\* Code the processor executes; the next step of it is op.
Executing == IF handler # <<>> THEN handler ELSE todo
Doing(op) == Executing # <<>> /\ Head(Executing).op = op /\ ~stopped

Proceed(path) ==
  IF handler # <<>> THEN handler' = path /\ UNCHANGED todo
                    ELSE todo' = path /\ UNCHANGED handler

TakeStep ==
  /\ Doing("take")
  /\ Head(Executing).arg \notin held
  /\ held' = held \cup {Head(Executing).arg}
  /\ Proceed(Tail(Executing))
  /\ UNCHANGED <<run, live, stopped>>

DropStep ==
  /\ Doing("drop")
  /\ held' = held \ {Head(Executing).arg}
  /\ Proceed(Tail(Executing))
  /\ UNCHANGED <<run, live, stopped>>

AddStep ==
  /\ Doing("add")
  /\ live' = live \cup {Head(Executing).arg[1]}
  /\ Proceed(Tail(Executing))
  /\ UNCHANGED <<run, held, stopped>>

\* The run queue is empty, or not.
IdleStep ==
  /\ Doing("idle")
  /\ \/ Proceed(IdleLoop \o Executing)
     \/ live # {run} /\ Proceed(Tail(Executing))
  /\ UNCHANGED <<run, live, held, stopped>>

\* Another thread runs.  Every saved context is in user mode or behind the
\* switch that ends its path, with no lock steps left.
SwitchStep ==
  /\ Doing("switch")
  /\ \E t \in live \ {run} : run' = t
  /\ todo' = <<>>
  /\ UNCHANGED <<live, handler, held, stopped>>

LeaveStep ==
  /\ Doing("leave")
  /\ live' = live \ {run}
  /\ \E t \in live' : run' = t
  /\ todo' = <<>>
  /\ UNCHANGED <<handler, held, stopped>>

PanicStep ==
  /\ Doing("panic")
  /\ stopped' = TRUE
  /\ UNCHANGED <<run, live, todo, handler, held>>

\* The timer's handler returns to another thread, or to where it came from.
\* An idle loop it leaves is not come back to.
PreemptStep ==
  /\ Doing("preempt")
  /\ handler' = Tail(handler)
  /\ \/ UNCHANGED <<run, todo>>
     \/ \E t \in live \ {run} : run' = t /\ todo' = <<>>
  /\ UNCHANGED <<live, held, stopped>>

\* A handler is entered.  The interrupt ends hlt; a further one may arrive
\* before interrupts are disabled again.
Interrupt ==
  /\ Interruptible
  /\ handler' \in Handlers
  /\ todo' \in {todo} \cup (IF todo = <<>> THEN {} ELSE {Tail(todo)})
  /\ UNCHANGED <<run, live, held, stopped>>

SystemCall ==
  /\ run \in Thread /\ Interruptible /\ todo = <<>>
  /\ todo' \in Paths(run)
  /\ UNCHANGED <<run, live, handler, held, stopped>>

BootYield ==
  /\ run = Boot /\ Interruptible /\ todo = <<>>
  /\ todo' \in Yield(Boot)
  /\ UNCHANGED <<run, live, handler, held, stopped>>

KernelStep ==
  \/ TakeStep \/ DropStep \/ AddStep \/ IdleStep \/ SwitchStep
  \/ LeaveStep \/ PanicStep \/ PreemptStep

LockNext == KernelStep \/ Interrupt \/ SystemCall \/ BootYield

LockSpec == LockInit /\ [][LockNext]_lockVars

-----------------------------------------------------------------------------
\* No handler and no thread ever finds a lock taken that it is about to take
\* (SCHEDULER.lock() in timer_tick_handler and unblock_irq above all): with
\* interrupts off nobody else could release it, and the machine would spin.
\* So whatever is interrupted or switched away from holds none of the locks
\* that the code running next takes.
NeverSpins == Doing("take") => Head(Executing).arg \notin held
=============================================================================
