---------------------------- MODULE ThreadSwitch ----------------------------
(***************************************************************************)
(* Thread switching: the run queue, the thread on the processor, and the   *)
(* protocol by which a thread's context is saved and restored              *)
(* (task/scheduler.rs, task/context.rs, task/switch.s).                    *)
(*                                                                         *)
(* A system call runs with interrupts masked, so it is one step up to the  *)
(* point where it returns, switches to another thread, or, with nothing to *)
(* run, halts with interrupts enabled on the blocking thread's own kernel  *)
(* stack ("idle").                                                         *)
(*                                                                         *)
(* Thread.state is "saved".  What really lies on a thread's kernel stack   *)
(* is "frame": the two are kept apart because the code writes Thread.state *)
(* after the switch, through the pointer STATE_TO_UPDATE, and a restore is *)
(* good only when they agree.  A stack pointer is a depth in words below   *)
(* the top of the thread's kernel stack: every entry to the kernel starts  *)
(* at the top, so each place that saves a context has a depth of its own.  *)
(***************************************************************************)
EXTENDS Integers, Sequences

CONSTANTS
  MaxThreads,   \* bound on the threads ever created
  StackDepth    \* depth of the context saved by each blocking call

Thread   == 1..MaxThreads
NoThread == 0     \* None, and the null STATE_TO_UPDATE
Dangling == -1    \* STATE_TO_UPDATE into storage its thread has left

\* The calls that switch away through switch_context.
Site == {"sys_wait", "yield_now", "sys_send", "sys_recv", "sys_wait_irq"}

ASSUME ThreadSwitchAssumption ==
  /\ MaxThreads \in Nat \ {0}
  /\ StackDepth \in [Site -> Nat]

VARIABLES
  run_queue,        \* Scheduler.run_queue
  current,          \* Scheduler.current
  saved,            \* Thread.state of each thread
  frame,            \* the context lying on each thread's kernel stack
  STATE_TO_UPDATE,  \* the thread whose state after_switch will write
  rsp0,             \* whose kernel stack and page table are installed
  cpu               \* what the processor executes

switchVars == <<run_queue, current, saved, frame, STATE_TO_UPDATE, rsp0, cpu>>

NewDepth  == 7     \* Context at the top of a fresh stack: seven words
IntrDepth == 20    \* InterruptContext pushed on entry from user mode
Junk      == -1    \* a register that holds no stack pointer

Cooperative(rsp) == [tag |-> "Cooperative", rsp |-> rsp]
Preemptive(rsp)  == [tag |-> "Preemptive", rsp |-> rsp]

SavedThreadState ==
  [tag : {"Cooperative", "Preemptive"}, rsp : Nat \cup {Junk}]

\* "finishes": the code at the saved return address calls after_switch.
CoopFrame(rsp, finishes) ==
  [tag |-> "Cooperative", rsp |-> rsp, finishes |-> finishes]
IntrFrame == [tag |-> "Preemptive", rsp |-> IntrDepth, finishes |-> FALSE]
NoFrame   == [tag |-> "None", rsp |-> 0, finishes |-> FALSE]

Frame == [tag : {"Cooperative", "Preemptive", "None"}, rsp : Nat,
          finishes : BOOLEAN]

\* boot: the loop at the end of _start; user: a thread in user mode;
\* idle: enable_and_hlt inside a blocking call; wild: a context was restored
\* from memory that holds none, and nothing is known of what follows; the
\* others are the kernel's ways of stopping for good.
Mode == {"boot", "user", "idle", "wild",
         "all_exited", "unimplemented", "exception"}

Cpu(mode, t, site) == [mode |-> mode, thread |-> t, site |-> site]

NoSite == "none"

\* Interrupts are enabled in these modes, and only there.
Interruptible == cpu.mode \in {"boot", "user", "idle"}

InUser == cpu.mode = "user"

-----------------------------------------------------------------------------
(* Saving and restoring.                                                   *)

\* Mutant: push_front.
PushFront(q, t) == <<t>> \o q

\* VecDeque::push_back
PushBack(q, t) == Append(q, t)

\* Mutant: the kernel stack and page table are left as they were.
prepare_nothing(next) == rsp0

\* prepare_thread_switch: TSS.rsp0, the syscall stack and CR3 become next's.
prepare_thread_switch(next) == next

\* Mutant: the update is forgotten.
after_switch_lost(sv, pending, old_rsp) == sv

\* after_switch: the pending thread's state becomes Cooperative(old_rsp).
\* (A dangling pointer is written too: see Restored.)
after_switch(sv, pending, old_rsp) ==
  IF pending \in Thread
  THEN [sv EXCEPT ![pending] = Cooperative(old_rsp)]
  ELSE sv

\* Is the saved state the context on the stack?
Matches(state, f) == state.tag = f.tag /\ state.rsp = f.rsp

\* Does the restore of thread n by path "via" run after_switch?  A
\* Cooperative context does so only if it was saved by switch_context (or is
\* new); switch_context_to_preemptive does it on the way out, the timer stub
\* restores a Preemptive context without it.
Finishes(n, sv, fr, via) ==
  IF sv[n].tag = "Cooperative" THEN fr[n].finishes ELSE via # "timer"

\* What restoring thread n may lead to; a write through a dangling pointer
\* may do harm or not.
Restored(n, sv, fr, stray_write) ==
  (IF Matches(sv[n], fr[n]) THEN {"user"} ELSE {"wild"})
    \cup (IF stray_write THEN {"wild"} ELSE {})

\* Pop the next thread off q, make it current and restore its state.  sv, fr
\* and pending are Thread.state, the stacks and STATE_TO_UPDATE at that
\* point; old_rsp is what the restored code finds in rax.
RunNext(q, sv, fr, pending, old_rsp, via) ==
  LET n   == Head(q)
      fin == Finishes(n, sv, fr, via)
  IN  /\ run_queue' = Tail(q)
      /\ current' = n
      /\ rsp0' = prepare_thread_switch(n)
      /\ \E mode \in Restored(n, sv, fr, fin /\ pending = Dangling) :
           cpu' = Cpu(mode, n, NoSite)
      /\ frame' = [fr EXCEPT ![n] = NoFrame]
      /\ saved' = IF fin THEN after_switch(sv, pending, old_rsp) ELSE sv
      /\ STATE_TO_UPDATE' = IF fin THEN NoThread ELSE pending

\* Switch away from x at a call site: the assembly pushes x's context, and
\* x will resume after switch_context or after switch_context_to_preemptive
\* depending on the state of the thread it switched to.  Only the first of
\* the two returns into a call of after_switch.
SwitchFrom(x, site, q, pending) ==
  LET depth    == StackDepth[site]
      finishes == saved[Head(q)].tag = "Cooperative"
  IN  RunNext(q, saved, [frame EXCEPT ![x] = CoopFrame(depth, finishes)],
              pending, depth, "switch")

\* The common end of the blocking calls: current has moved to a wait queue
\* and STATE_TO_UPDATE points at its state; halt while there is nothing to
\* run, otherwise switch.
Block(site) ==
  IF run_queue = <<>>
  THEN /\ current' = NoThread
       /\ STATE_TO_UPDATE' = current
       /\ cpu' = Cpu("idle", current, site)
       /\ UNCHANGED <<run_queue, saved, frame, rsp0>>
  ELSE SwitchFrom(current, site, run_queue, current)

-----------------------------------------------------------------------------
(* Actions.                                                                *)

\* The blocking call wakes from hlt, masks interrupts and finds the run
\* queue no longer empty.
idle_resume ==
  /\ cpu.mode = "idle"
  /\ run_queue # <<>>
  /\ SwitchFrom(cpu.thread, cpu.site, run_queue, STATE_TO_UPDATE)

\* pick_next from the timer interrupt.  A running thread is saved where the
\* interrupt pushed its registers and queued; with current = None (boot, or
\* a blocking call halted in idle) the interrupted context is not saved.
\* The stub leaves 0x20 in rax when it returns into a Cooperative context.
pick_next ==
  IF current # NoThread
  THEN RunNext(PushBack(run_queue, current),
               [saved EXCEPT ![current] = Preemptive(IntrDepth)],
               [frame EXCEPT ![current] = IntrFrame],
               STATE_TO_UPDATE, Junk, "timer")
  ELSE IF run_queue # <<>>
  THEN RunNext(run_queue, saved, frame, STATE_TO_UPDATE, Junk, "timer")
  ELSE UNCHANGED switchVars

timer_tick_handler == Interruptible /\ pick_next

\* SYS_YIELD.  Switching to a preempted thread is unimplemented!(), after
\* the queues have been changed.
yield_now ==
  /\ InUser
  /\ run_queue # <<>>
  /\ LET q == PushBack(run_queue, current)
     IN  \/ /\ saved[Head(q)].tag = "Cooperative"
            /\ SwitchFrom(current, "yield_now", q, current)
         \/ /\ saved[Head(q)].tag = "Preemptive"
            /\ run_queue' = Tail(q)
            /\ current' = Head(q)
            /\ STATE_TO_UPDATE' = current
            /\ rsp0' = prepare_thread_switch(Head(q))
            /\ cpu' = Cpu("unimplemented", current, NoSite)
            /\ UNCHANGED <<saved, frame>>

\* yield_now from the loop of _start: current is None, STATE_TO_UPDATE is
\* set to null, and the boot context is left for good.
boot_yield ==
  /\ cpu.mode = "boot"
  /\ run_queue # <<>>
  /\ RunNext(run_queue, saved, frame, NoThread, Junk, "switch")
=============================================================================
