-------------------------- MODULE KernelProperties --------------------------
(* What is claimed of the kernel.                                          *)
EXTENDS Kernel

RangeOf(s) == {s[i] : i \in DOMAIN s}

\* The variables hold values of the types their declarations in the kernel
\* give them; no queue ever holds "no thread".
TypeOK ==
  /\ run_queue \in Seq(Thread)
  /\ current \in Thread \cup {NoThread}
  /\ saved \in [Thread -> SavedThreadState]
  /\ frame \in [Thread -> Frame]
  /\ STATE_TO_UPDATE \in Thread \cup {NoThread, Dangling}
  /\ rsp0 \in Thread \cup {NoThread}
  /\ cpu \in [mode : Mode, thread : Thread \cup {NoThread},
              site : Site \cup {NoSite}]
  /\ irq_waiters \in [Irq -> Thread \cup {NoThread}]
  /\ pending_irqs \in [Irq -> BOOLEAN]
  /\ endpoints \in [Endpoint -> EndpointState]
  /\ msg_buf \in [Thread -> Msg \cup {ZeroMsg, NoMsg}]
  /\ next_msg \in 1..(MaxMsgs + 1)
  /\ delivered \in SUBSET Msg
  /\ processes \in [Thread -> ProcessState]
  /\ process_of \in [Thread -> Thread \cup {NoThread}]
  /\ cspaces \in [Thread -> Slots]
  /\ next_id \in 1..(MaxThreads + 1)
  /\ next_endpoint \in 1..(MaxEndpoints + 1)

-----------------------------------------------------------------------------
(* Threads.                                                                *)

\* The places that own thread t: a Box<Thread> (or, in a wait queue, a
\* Thread) moves between them.
Places(t) ==
  {<<"current", 0, 0>> : x \in {current} \cap {t}}
    \cup {<<"run_queue", 0, i>> : i \in {j \in DOMAIN run_queue : run_queue[j] = t}}
    \cup {<<"irq_waiters", i, 0>> : i \in {j \in Irq : irq_waiters[j] = t}}
    \cup (UNION {{<<"endpoint", e, i>> :
            i \in {j \in DOMAIN endpoints[e].queue : endpoints[e].queue[j].thread = t}}
            : e \in Endpoint})
    \cup (UNION {{<<"wait_queue", p, i>> :
            i \in {j \in DOMAIN processes[p].wait_queue : processes[p].wait_queue[j] = t}}
            : p \in Thread})

\* A thread is owned by one place at most: no sequence of blocking, waking,
\* preemption, spawning and exiting puts it in two queues or twice in one.
ThreadInOnePlace == \A t \in Thread : \A a, b \in Places(t) : a = b

\* In user mode the scheduler's current thread is the one executing, and the
\* kernel stack and page table installed are its own; while a blocking call
\* idles, no thread is current, the idling thread's stack is still
\* installed, and the pending state update is for that thread.
KernelStackIsCurrents ==
  /\ cpu.mode = "user" =>
       current # NoThread /\ cpu.thread = current /\ rsp0 = current
  /\ cpu.mode = "idle" =>
       /\ current = NoThread
       /\ cpu.thread # NoThread
       /\ rsp0 = cpu.thread /\ STATE_TO_UPDATE = cpu.thread
       /\ cpu.site \in Site
  /\ cpu.mode = "boot" => current = NoThread

\* A process that is marked terminated has an empty wait queue: sys_wait and
\* exit_current_thread cannot interleave so that a waiter misses the exit.
NobodyWaitsOnTheDead ==
  \A p \in Thread : processes[p].terminated => processes[p].wait_queue = <<>>

\* No thread sleeps on an interrupt line that is remembered as having fired.
NoMissedIrq ==
  \A i \in Irq : irq_waiters[i] # NoThread => ~pending_irqs[i]

\* The step leaves t runnable or running.
UpNext(t) == t = current' \/ t \in RangeOf(run_queue')

\* A thread leaves the queue it blocks in only because of the event it waits
\* for: a receiver with a message just delivered in its buffer, a sender
\* with its message delivered, a waiter with the process terminated; and it
\* is runnable or running afterwards.
WokenByItsEvent ==
  [][/\ \A e \in Endpoint : \A w \in RangeOf(endpoints[e].queue) :
          w \notin RangeOf(endpoints'[e].queue) =>
            /\ UpNext(w.thread)
            /\ endpoints[e].state = "ReceiversWaiting" =>
                 msg_buf'[w.thread] \in delivered' \ delivered
            /\ endpoints[e].state = "SendersWaiting" =>
                 w.msg \in delivered' \ delivered
     /\ \A p \in Thread : \A t \in RangeOf(processes[p].wait_queue) :
          t \notin RangeOf(processes'[p].wait_queue) =>
            UpNext(t) /\ processes'[p].terminated]_vars

\* A thread that is ready to run does run, or the kernel stops.
ReadyRuns ==
  \A t \in Thread : t \in RangeOf(run_queue) ~> (current = t \/ Stopped)

Suspended(t) == t # current /\ Places(t) # {}

CooperativeOnly ==
  cpu.mode # "idle" /\ \A t \in Thread : saved[t].tag = "Cooperative"

ContextsIntact ==
  /\ cpu.mode # "wild"
  /\ cpu.mode = "user" => STATE_TO_UPDATE = NoThread
  /\ cpu.mode = "user" =>
       \A t \in Thread : Suspended(t) => Matches(saved[t], frame[t])

\* As long as no thread is ever preempted and no blocking call ever idles,
\* the deferred saving of contexts is right: the state saved in each
\* suspended thread is the context on its stack, and no restore goes wrong.
CooperativeSwitchesSound == []CooperativeOnly => []ContextsIntact

-----------------------------------------------------------------------------
(* Messages.                                                               *)

\* The messages waiting at an endpoint are in the order they were sent, and
\* none of them has been delivered; threads waiting to receive carry none.
WaitingMessagesInOrder ==
  \A e \in Endpoint :
    LET q == endpoints[e].queue
    IN  /\ endpoints[e].state = "SendersWaiting" =>
             /\ \A i \in DOMAIN q : q[i].msg \in 1..(next_msg - 1) \ delivered
             /\ \A i, j \in DOMAIN q : i < j => q[i].msg < q[j].msg
        /\ endpoints[e].state = "ReceiversWaiting" =>
             \A i \in DOMAIN q : q[i].msg = ZeroMsg
        /\ endpoints[e].state = "Idle" => q = <<>>

-----------------------------------------------------------------------------
(* Capabilities.                                                           *)

\* Every capability names an object that exists.
CapabilitiesValid ==
  \A p \in Thread : \A c \in RangeOf(cspaces[p]) :
    /\ c.type = "Endpoint" => c.obj \in 1..(next_endpoint - 1)
    /\ c.type = "Process" => c.obj \in 1..(next_id - 1)
    /\ c.type = "Interrupt" => c.obj \in Irq

\* A handle once given out keeps its meaning.
HandlesStable ==
  [][\A p \in 1..(next_id - 1) : \A i \in DOMAIN cspaces[p] :
       cspaces[p][i] # NoCap =>
         i \in DOMAIN cspaces'[p] /\ cspaces'[p][i] = cspaces[p][i]]_vars

-----------------------------------------------------------------------------
(* What the kernel implements.                                             *)

Status(t) ==
  CASE t >= next_id -> "absent"
    [] t < next_id /\ t = current -> "running"
    [] t < next_id /\ t # current /\ t \in RangeOf(run_queue) -> "ready"
    [] t < next_id /\ t # current /\ t \notin RangeOf(run_queue) ->
         IF Places(t) = {} THEN "gone" ELSE "blocked"

Lifecycle == INSTANCE ThreadLifecycle
  WITH Threads <- Thread, ready <- run_queue,
       status <- [t \in Thread |-> Status(t)]

\* The scheduler implements the thread life cycle.
ThreadsFollowLifecycle == Lifecycle!Spec

Rendezvous == INSTANCE LossyRendezvous
  WITH Endpoints <- Endpoint, next <- next_msg, received <- delivered,
       waiting <- [e \in Endpoint |->
         IF endpoints[e].state = "SendersWaiting"
         THEN [i \in DOMAIN endpoints[e].queue |-> endpoints[e].queue[i].msg]
         ELSE <<>>]

\* sys_send and sys_recv implement a rendezvous that may lose messages only
\* as they are sent.
EndpointsAreRendezvous == Rendezvous!Spec

Calls == INSTANCE UserCalls
  WITH Threads <- Thread, EndpointIds <- Endpoint, Lines <- Irq,
       Messages <- Msg \cup {ZeroMsg}

\* sys_send, sys_recv, sys_wait_irq and unblock_irq, run by whatever thread
\* the scheduler has made current and however they are interleaved with
\* preemption, idling, spawning and exiting, are the blocking calls that the
\* service models are built on.
KernelOffersCalls == Calls!CallsSpec

-----------------------------------------------------------------------------
(* What comments and messages in the source say of the kernel, and the     *)
(* code does not keep.                                                     *)

\* sys_send, past its fast path: "If we reach here, we must block."  So a
\* message that was sent is delivered or waits with its sender.
SendBlocksUntilTaken ==
  \A m \in 1..(next_msg - 1) :
    \/ m \in delivered
    \/ \E e \in Endpoint : \E w \in RangeOf(endpoints[e].queue) : w.msg = m

\* SavedThreadState: "RSP points to Context", "RSP points to
\* InterruptContext".  So what is restored is the context that was saved.
RestoresSavedContext == cpu.mode # "wild"
=============================================================================
