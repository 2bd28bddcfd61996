------------------------------ MODULE IrqWait -------------------------------
(***************************************************************************)
(* Waiting for hardware interrupts: Scheduler.irq_waiters, pending_irqs,   *)
(* unblock_irq and sys_wait_irq (task/scheduler.rs), and the keyboard, ATA *)
(* and network interrupt handlers that call unblock_irq (idt.rs).          *)
(***************************************************************************)
EXTENDS ThreadSwitch

CONSTANT Irq      \* the interrupt lines in use

ASSUME IrqAssumption == Irq \subseteq 0..255

VARIABLES irq_waiters, pending_irqs

irqVars == <<irq_waiters, pending_irqs>>

IrqInit ==
  /\ irq_waiters = [i \in Irq |-> NoThread]
  /\ pending_irqs = [i \in Irq |-> FALSE]

\* Mutant: the slot is pushed without looking whether it holds a thread.
unblock_irq_unchecked(irq) ==
  /\ Interruptible
  /\ run_queue' = PushBack(run_queue, irq_waiters[irq])
  /\ irq_waiters' = [irq_waiters EXCEPT ![irq] = NoThread]
  /\ UNCHANGED pending_irqs
  /\ UNCHANGED <<current, saved, frame, STATE_TO_UPDATE, rsp0, cpu>>

\* A device interrupt: wake the waiter, or remember that the line fired.
\* The handler returns to whatever it interrupted.
unblock_irq(irq) ==
  /\ Interruptible
  /\ \/ /\ irq_waiters[irq] # NoThread
        /\ run_queue' = PushBack(run_queue, irq_waiters[irq])
        /\ irq_waiters' = [irq_waiters EXCEPT ![irq] = NoThread]
        /\ UNCHANGED pending_irqs
     \/ /\ irq_waiters[irq] = NoThread
        /\ pending_irqs' = [pending_irqs EXCEPT ![irq] = TRUE]
        /\ UNCHANGED <<run_queue, irq_waiters>>
  /\ UNCHANGED <<current, saved, frame, STATE_TO_UPDATE, rsp0, cpu>>

\* Mutant: block without consulting pending_irqs.
sys_wait_irq_unchecked(irq) ==
  /\ InUser
  /\ irq_waiters' = [irq_waiters EXCEPT ![irq] = current]
  /\ UNCHANGED pending_irqs
  /\ Block("sys_wait_irq")

\* SYS_WAIT_IRQ on a capability for line irq: consume a remembered interrupt,
\* or take the waiter's slot, dropping whichever thread was in it, and block.
sys_wait_irq(irq) ==
  /\ InUser
  /\ \/ /\ pending_irqs[irq]
        /\ pending_irqs' = [pending_irqs EXCEPT ![irq] = FALSE]
        /\ UNCHANGED irq_waiters
        /\ UNCHANGED switchVars
     \/ /\ ~pending_irqs[irq]
        /\ irq_waiters' = [irq_waiters EXCEPT ![irq] = current]
        /\ UNCHANGED pending_irqs
        /\ Block("sys_wait_irq")
=============================================================================
