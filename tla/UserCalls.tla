----------------------------- MODULE UserCalls ------------------------------
(***************************************************************************)
(* What the blocking system calls promise to the programs that make them:  *)
(* SYS_SEND, SYS_RECV and SYS_WAIT_IRQ (task/scheduler.rs), seen from user *)
(* space.  Which thread holds the processor is left out: a thread that no  *)
(* queue holds may make its next call at any time, as it may under         *)
(* preemption.  Kernel implements this module (KernelProperties), and the  *)
(* service models are built on it.                                         *)
(***************************************************************************)
EXTENDS Naturals, Sequences

CONSTANTS Threads, NoThread,
          EndpointIds,
          Messages, ZeroMsg,   \* ZeroMsg is the all-zero Message
          Lines                \* interrupt lines

VARIABLES
  endpoints,     \* Endpoint.state of each endpoint
  msg_buf,       \* the message each thread received last
  irq_waiters,   \* Scheduler.irq_waiters
  pending_irqs   \* Scheduler.pending_irqs

callVars == <<endpoints, msg_buf, irq_waiters, pending_irqs>>

CallsInit ==
  /\ endpoints = [e \in EndpointIds |-> [state |-> "Idle", queue |-> <<>>]]
  /\ irq_waiters = [l \in Lines |-> NoThread]
  /\ pending_irqs = [l \in Lines |-> FALSE]

\* The thread is held by a wait queue.
Blocked(t) ==
  \/ \E e \in EndpointIds : \E i \in DOMAIN endpoints[e].queue :
       endpoints[e].queue[i].thread = t
  \/ \E l \in Lines : irq_waiters[l] = t

Entry(t, m) == [thread |-> t, msg |-> m]

PushWaiter(e, variant, entry) ==
  [endpoints EXCEPT ![e] = [state |-> variant,
                            queue |-> Append(@.queue, entry)]]

PopWaiter(e) == [endpoints EXCEPT ![e].queue = Tail(@)]

HasReceiver(e) ==
  endpoints[e].state = "ReceiversWaiting" /\ endpoints[e].queue # <<>>

HasSender(e) ==
  endpoints[e].state = "SendersWaiting" /\ endpoints[e].queue # <<>>

\* Thread t sends m.  A waiting receiver gets it; otherwise t waits, except
\* at an endpoint whose receivers have all been served: there the message is
\* dropped.
Send(t, e, m) ==
  /\ ~Blocked(t)
  /\ UNCHANGED <<irq_waiters, pending_irqs>>
  /\ \/ /\ HasReceiver(e)
        /\ msg_buf' = [msg_buf EXCEPT ![Head(endpoints[e].queue).thread] = m]
        /\ endpoints' = PopWaiter(e)
     \/ /\ endpoints[e].state # "ReceiversWaiting"
        /\ endpoints' = PushWaiter(e, "SendersWaiting", Entry(t, m))
        /\ UNCHANGED msg_buf
     \/ /\ endpoints[e].state = "ReceiversWaiting" /\ ~HasReceiver(e)
        /\ UNCHANGED <<endpoints, msg_buf>>

\* Thread t receives.  A waiting sender's message is taken; otherwise t waits
\* with a zeroed buffer, except at an endpoint whose senders have all been
\* served: there the call returns the zeroed buffer at once.
Recv(t, e) ==
  /\ ~Blocked(t)
  /\ UNCHANGED <<irq_waiters, pending_irqs>>
  /\ \/ /\ HasSender(e)
        /\ msg_buf' = [msg_buf EXCEPT ![t] = Head(endpoints[e].queue).msg]
        /\ endpoints' = PopWaiter(e)
     \/ /\ endpoints[e].state # "SendersWaiting"
        /\ endpoints' = PushWaiter(e, "ReceiversWaiting", Entry(t, ZeroMsg))
        /\ msg_buf' = [msg_buf EXCEPT ![t] = ZeroMsg]
     \/ /\ endpoints[e].state = "SendersWaiting" /\ ~HasSender(e)
        /\ msg_buf' = [msg_buf EXCEPT ![t] = ZeroMsg]
        /\ UNCHANGED endpoints

\* Mutant: a remembered interrupt is not looked at.
WaitIrqUnchecked(t, l) ==
  /\ ~Blocked(t)
  /\ irq_waiters' = [irq_waiters EXCEPT ![l] = t]
  /\ UNCHANGED <<endpoints, msg_buf, pending_irqs>>

\* Thread t waits for line l: a remembered interrupt is consumed, otherwise t
\* becomes the line's waiter.
WaitIrq(t, l) ==
  /\ ~Blocked(t)
  /\ UNCHANGED <<endpoints, msg_buf>>
  /\ IF pending_irqs[l]
     THEN /\ pending_irqs' = [pending_irqs EXCEPT ![l] = FALSE]
          /\ UNCHANGED irq_waiters
     ELSE /\ irq_waiters' = [irq_waiters EXCEPT ![l] = t]
          /\ UNCHANGED pending_irqs

\* The handler of line l: unblock_irq.
UnblockIrq(l) ==
  /\ UNCHANGED <<endpoints, msg_buf>>
  /\ IF irq_waiters[l] # NoThread
     THEN /\ irq_waiters' = [irq_waiters EXCEPT ![l] = NoThread]
          /\ UNCHANGED pending_irqs
     ELSE /\ pending_irqs' = [pending_irqs EXCEPT ![l] = TRUE]
          /\ UNCHANGED irq_waiters

CallsNext ==
  \/ \E t \in Threads, e \in EndpointIds :
       Recv(t, e) \/ \E m \in Messages : Send(t, e, m)
  \/ \E t \in Threads, l \in Lines : WaitIrq(t, l)
  \/ \E l \in Lines : UnblockIrq(l)

\* The calls in any order, by any thread that is not blocked.
CallsSpec == CallsInit /\ [][CallsNext]_callVars
=============================================================================
