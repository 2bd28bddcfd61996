-------------------------- MODULE RefinementProofs --------------------------
(***************************************************************************)
(* Every thread is in one place; the kernel implements the blocking calls  *)
(* that the service models are built on; and its endpoints implement the   *)
(* lossy rendezvous.  All for any number of threads, endpoints, messages   *)
(* and interrupt lines.                                                    *)
(***************************************************************************)
EXTENDS KernelProofs, OwnershipProofs

-----------------------------------------------------------------------------
(* Ownership of threads.                                                   *)

\* The invariant with its types.
THEOREM Ownership == Spec => [](TypeInv /\ OwnInv)
<1>1. Init => OwnInv
  BY OwnInit
<1>2. TypeInv /\ OwnInv /\ [Next]_vars => OwnInv'
  BY OwnStep
<1> QED BY <1>1, <1>2, Invariance, PTL DEF Spec

\* No sequence of blocking, waking, preemption, spawning and exiting puts a
\* thread in two queues, twice in one, or in a queue while it runs.
THEOREM PlaceTheorem == Spec => []ThreadInOnePlace
<1>1. TypeInv /\ OwnInv => ThreadInOnePlace
  BY OwnInvImplies
<1> QED BY <1>1, Ownership, PTL

-----------------------------------------------------------------------------
(* The calls.                                                              *)

\* The thread that makes a call is held by no queue.  This is what needs
\* every thread to be in one place.
LEMMA CallerNotBlocked ==
  ASSUME TypeInv, OwnInv, InUser
  PROVE  ~Calls!Blocked(current)
<1>1. current # NoThread
  BY DEF TypeInv, SwitchOK, SwitchValues, InUser
<1>2. \A i \in Irq : irq_waiters[i] # current
  <2> SUFFICES ASSUME NEW i \in Irq, irq_waiters[i] = current
               PROVE  FALSE
    OBVIOUS
  <2>1. /\ <<"irq", i>> \in Holder \ {Awake}
        /\ OwnedNow[<<"irq", i>>] = {irq_waiters[i]} \ {NoThread}
    BY IrqHolder
  <2> QED BY <1>1, <2>1, CallerAwake
<1>3. \A e \in Endpoint : current \notin WaitersAt(endpoints[e])
  <2> SUFFICES ASSUME NEW e \in Endpoint
               PROVE  current \notin WaitersAt(endpoints[e])
    OBVIOUS
  <2>1. /\ <<"endpoint", e>> \in Holder \ {Awake}
        /\ OwnedNow[<<"endpoint", e>>] = WaitersAt(endpoints[e])
    BY EndpointHolder
  <2> QED BY <2>1, CallerAwake
<1> QED BY <1>2, <1>3 DEF Calls!Blocked, WaitersAt

\* sys_send is Send, by the current thread.
LEMMA SendIsSend ==
  ASSUME TypeInv, OwnInv, InUser, NEW e \in Endpoint, sys_send(e),
         UNCHANGED irqVars
  PROVE  Calls!Send(current, e, next_msg)
<1>1. ~Calls!Blocked(current) /\ UNCHANGED <<irq_waiters, pending_irqs>>
  BY CallerNotBlocked DEF irqVars
<1> DEFINE state == endpoints[e].state
           queue == endpoints[e].queue
<1>2. CASE state = "ReceiversWaiting" /\ queue # <<>>
  <2>1. /\ endpoints' = [endpoints EXCEPT ![e].queue = Tail(@)]
        /\ msg_buf' = [msg_buf EXCEPT ![Head(queue).thread] = next_msg]
    BY <1>2 DEF sys_send, Deliver, Dequeue
  <2> QED BY <1>1, <1>2, <2>1 DEF Calls!Send, Calls!HasReceiver, Calls!PopWaiter
<1>3. CASE state # "ReceiversWaiting"
  <2>1. /\ endpoints' = Enqueue(e, "SendersWaiting", Waiting(current, next_msg))
        /\ UNCHANGED msg_buf
    BY <1>3 DEF sys_send
  <2>2. endpoints' =
          Calls!PushWaiter(e, "SendersWaiting", Calls!Entry(current, next_msg))
    BY <2>1 DEF Enqueue, Waiting, Calls!PushWaiter, Calls!Entry
  <2> QED BY <1>1, <1>3, <2>1, <2>2 DEF Calls!Send
<1>4. CASE state = "ReceiversWaiting" /\ queue = <<>>
  <2>1. UNCHANGED <<endpoints, msg_buf>>
    BY <1>4 DEF sys_send
  <2> QED BY <1>1, <1>4, <2>1 DEF Calls!Send, Calls!HasReceiver
<1> QED BY <1>2, <1>3, <1>4

\* sys_recv is Recv, by the current thread.
LEMMA RecvIsRecv ==
  ASSUME TypeInv, OwnInv, InUser, NEW e \in Endpoint, sys_recv(e),
         UNCHANGED irqVars
  PROVE  Calls!Recv(current, e)
<1>1. ~Calls!Blocked(current) /\ UNCHANGED <<irq_waiters, pending_irqs>>
  BY CallerNotBlocked DEF irqVars
<1> DEFINE state == endpoints[e].state
           queue == endpoints[e].queue
<1>2. CASE state = "SendersWaiting" /\ queue # <<>>
  <2>1. /\ endpoints' = [endpoints EXCEPT ![e].queue = Tail(@)]
        /\ msg_buf' = [msg_buf EXCEPT ![current] = Head(queue).msg]
    BY <1>2 DEF sys_recv, Deliver, Dequeue
  <2> QED BY <1>1, <1>2, <2>1 DEF Calls!Recv, Calls!HasSender, Calls!PopWaiter
<1>3. CASE state # "SendersWaiting"
  <2>1. /\ endpoints' = Enqueue(e, "ReceiversWaiting", Waiting(current, ZeroMsg))
        /\ msg_buf' = [msg_buf EXCEPT ![current] = ZeroMsg]
    BY <1>3 DEF sys_recv
  <2>2. endpoints' =
          Calls!PushWaiter(e, "ReceiversWaiting", Calls!Entry(current, ZeroMsg))
    BY <2>1 DEF Enqueue, Waiting, Calls!PushWaiter, Calls!Entry
  <2> QED BY <1>1, <1>3, <2>1, <2>2 DEF Calls!Recv
<1>4. CASE state = "SendersWaiting" /\ queue = <<>>
  <2>1. /\ msg_buf' = [msg_buf EXCEPT ![current] = ZeroMsg]
        /\ UNCHANGED endpoints
    BY <1>4 DEF sys_recv
  <2> QED BY <1>1, <1>4, <2>1 DEF Calls!Recv, Calls!HasSender
<1> QED BY <1>2, <1>3, <1>4

\* Every step of the kernel is a call, an interrupt, or invisible.
LEMMA CallsStep ==
  ASSUME TypeInv, OwnInv, [Next]_vars
  PROVE  [Calls!CallsNext]_Calls!callVars
<1>1. CASE UNCHANGED <<irqVars, ipcVars>>
  BY <1>1 DEF Calls!callVars, irqVars, ipcVars
<1>2. CASE SysSend
  <2>1. PICK h \in Handle : /\ Holds(h, "Endpoint", {"SEND"})
                            /\ sys_send(Get(CurrentCSpace, h).obj)
    BY <1>2 DEF SysSend
  <2> DEFINE e == Get(CurrentCSpace, h).obj
  <2>2. InUser /\ UNCHANGED irqVars
    BY <1>2 DEF SysSend
  <2>3. e \in Endpoint /\ sys_send(e) /\ current \in Thread
    BY <2>1, <2>2, HeldObject, Caller
  <2> HIDE DEF e
  <2>4. next_msg \in Msg \cup {ZeroMsg}
    <3>1. next_msg \in 1..(MaxMsgs + 1) /\ next_msg <= MaxMsgs /\ MaxMsgs \in Nat
      BY <2>3, IpcAssumption DEF TypeInv, IpcValues, sys_send
    <3> QED BY <3>1 DEF Msg
  <2>5. Calls!Send(current, e, next_msg)
    BY <2>2, <2>3, SendIsSend
  <2> QED BY <2>3, <2>4, <2>5 DEF Calls!CallsNext
<1>3. CASE SysRecv
  <2>1. PICK h \in Handle : /\ Holds(h, "Endpoint", {"RECEIVE"})
                            /\ sys_recv(Get(CurrentCSpace, h).obj)
    BY <1>3 DEF SysRecv
  <2> DEFINE e == Get(CurrentCSpace, h).obj
  <2>2. InUser /\ UNCHANGED irqVars
    BY <1>3 DEF SysRecv
  <2>3. e \in Endpoint /\ sys_recv(e) /\ current \in Thread
    BY <2>1, <2>2, HeldObject, Caller
  <2> HIDE DEF e
  <2>4. Calls!Recv(current, e)
    BY <2>2, <2>3, RecvIsRecv
  <2> QED BY <2>3, <2>4 DEF Calls!CallsNext
<1>4. CASE SysWaitIrq
  <2>1. PICK h \in Handle : /\ Holds(h, "Interrupt", {})
                            /\ sys_wait_irq(Get(CurrentCSpace, h).obj)
    BY <1>4 DEF SysWaitIrq
  <2> DEFINE irq == Get(CurrentCSpace, h).obj
  <2>2. InUser /\ UNCHANGED <<endpoints, msg_buf>>
    BY <1>4 DEF SysWaitIrq, ipcVars
  <2>3. irq \in Irq /\ sys_wait_irq(irq) /\ current \in Thread
    BY <2>1, <2>2, HeldObject, Caller
  <2> HIDE DEF irq
  <2>4. ~Calls!Blocked(current)
    BY <2>2, CallerNotBlocked
  <2>5. Calls!WaitIrq(current, irq)
    BY <2>2, <2>3, <2>4 DEF sys_wait_irq, Calls!WaitIrq
  <2> QED BY <2>3, <2>5 DEF Calls!CallsNext
<1>5. CASE DeviceIrq
  <2>1. PICK irq \in Irq : unblock_irq(irq)
    BY <1>5 DEF DeviceIrq
  <2>2. Calls!UnblockIrq(irq)
    BY <1>5, <2>1 DEF DeviceIrq, ipcVars, unblock_irq, Calls!UnblockIrq
  <2> QED BY <2>2 DEF Calls!CallsNext
<1>6. SysSend \/ SysRecv \/ SysWaitIrq \/ DeviceIrq \/ UNCHANGED <<irqVars, ipcVars>>
  BY DEF Next, vars, sys_endpoint_create, SysSpawn, SysThreadSpawn, SysWait,
         SysExit, FatalException, SysYield, Timer, BootYield, IdleResume, Halted
<1> QED BY <1>1, <1>2, <1>3, <1>4, <1>5, <1>6

\* The kernel's calls, however they are interleaved with preemption, idling,
\* spawning and exiting, are the calls of UserCalls.
THEOREM CallsTheorem == Spec => KernelOffersCalls
<1>1. Init => Calls!CallsInit
  BY DEF Init, IrqInit, IpcInit, Calls!CallsInit
<1>2. TypeInv /\ OwnInv /\ [Next]_vars => [Calls!CallsNext]_Calls!callVars
  BY CallsStep
<1>3. Spec => [](TypeInv /\ OwnInv)
  BY Ownership
<1> QED BY <1>1, <1>2, <1>3, PTL DEF Spec, KernelOffersCalls, Calls!CallsSpec

-----------------------------------------------------------------------------
(* The rendezvous.                                                         *)

\* The messages waiting at an endpoint.
Waits(ep) ==
  IF ep.state = "SendersWaiting"
  THEN [i \in DOMAIN ep.queue |-> ep.queue[i].msg]
  ELSE <<>>

WaitsNow  == [e \in Endpoint |-> Waits(endpoints[e])]
WaitsNext == [e \in Endpoint |-> Waits(endpoints'[e])]

\* The endpoints of a send or receive, one by one.
LEMMA OneEndpoint ==
  ASSUME TypeInv, NEW e \in Endpoint, NEW ep, NEW w,
         endpoints' = [endpoints EXCEPT ![e] = ep], Waits(ep) = w
  PROVE  WaitsNext = [WaitsNow EXCEPT ![e] = w]
<1>1. endpoints'[e] = ep /\ \A f \in Endpoint \ {e} : endpoints'[f] = endpoints[f]
  BY EndpointType
<1>2. \A f \in Endpoint : Waits(endpoints'[f]) = IF f = e THEN w ELSE WaitsNow[f]
  <2>1. Waits(endpoints'[e]) = w
    BY <1>1, Zenon
  <2>2. \A f \in Endpoint \ {e} : Waits(endpoints'[f]) = Waits(endpoints[f])
    BY <1>1, Zenon
  <2>3. \A f \in Endpoint : WaitsNow[f] = Waits(endpoints[f])
    BY DEF WaitsNow
  <2> QED BY <2>1, <2>2, <2>3
<1>3. WaitsNext = [f \in Endpoint |-> IF f = e THEN w ELSE WaitsNow[f]]
  BY <1>2, Zenon DEF WaitsNext
<1> QED BY <1>3 DEF WaitsNow

\* Replacing a value by itself.
LEMMA SameWaits ==
  ASSUME NEW e \in Endpoint
  PROVE  [WaitsNow EXCEPT ![e] = WaitsNow[e]] = WaitsNow
BY DEF WaitsNow

\* A sender that waits puts its message last.
LEMMA WaitsEnqueue ==
  ASSUME TypeInv, OrderInv, NEW e \in Endpoint, NEW t, NEW m,
         endpoints[e].state # "ReceiversWaiting",
         endpoints' = Enqueue(e, "SendersWaiting", Waiting(t, m))
  PROVE  WaitsNext = [WaitsNow EXCEPT ![e] = Append(@, m)]
<1> DEFINE q == endpoints[e].queue
           ep == [state |-> "SendersWaiting", queue |-> Append(q, Waiting(t, m))]
           msgs == [i \in DOMAIN q |-> q[i].msg]
<1>1. endpoints[e] \in EndpointValue(Created) /\ q \in Seq(QueueEntry(Created))
  BY EndpointType DEF EndpointValue
<1>2. Waits(endpoints[e]) = msgs
  <2>1. endpoints[e].state \in {"Idle", "SendersWaiting"}
    BY <1>1 DEF EndpointValue
  <2>2. endpoints[e].state = "Idle" => q = <<>>
    BY OrderInvImplies DEF WaitingMessagesInOrder
  <2>3. q = <<>> => msgs = <<>>
    OBVIOUS
  <2> QED BY <2>1, <2>2, <2>3 DEF Waits
<1>3. Waits(ep) = Append(msgs, m)
  <2> HIDE DEF q
  <2> DEFINE long == Append(q, Waiting(t, m))
  <2>1. /\ DOMAIN q = 1..Len(q) /\ Len(q) \in Nat
        /\ DOMAIN long = 1..(Len(q) + 1)
        /\ \A i \in 1..Len(q) : long[i] = q[i]
        /\ long[Len(q) + 1] = Waiting(t, m)
    BY <1>1
  <2>2. Waits(ep) = [i \in DOMAIN long |-> long[i].msg]
    BY DEF Waits
  <2> DEFINE S == {msgs[i] : i \in DOMAIN q} \cup {m}
  <2>3. msgs \in Seq(S) /\ m \in S /\ Len(msgs) = Len(q)
    BY <2>1
  <2>4. /\ DOMAIN Append(msgs, m) = 1..(Len(q) + 1)
        /\ \A i \in 1..Len(q) : Append(msgs, m)[i] = msgs[i]
        /\ Append(msgs, m)[Len(q) + 1] = m
    BY <2>3
  <2>5. \A i \in 1..(Len(q) + 1) : long[i].msg = Append(msgs, m)[i]
    BY <2>1, <2>4 DEF Waiting
  <2>6. Append(msgs, m) = [i \in 1..(Len(q) + 1) |-> Append(msgs, m)[i]]
    BY <2>3, <2>4
  <2> HIDE DEF long, msgs
  <2> QED BY <2>1, <2>2, <2>5, <2>6
<1>4. endpoints' = [endpoints EXCEPT ![e] = ep]
  BY DEF Enqueue
<1>5. WaitsNext = [WaitsNow EXCEPT ![e] = Append(msgs, m)]
  <2> HIDE DEF ep, msgs
  <2> QED BY <1>3, <1>4, OneEndpoint
<1>6. WaitsNow[e] = msgs
  BY <1>2 DEF WaitsNow
<1> QED BY <1>5, <1>6

\* A receiver takes the first message.
LEMMA WaitsDequeue ==
  ASSUME TypeInv, NEW e \in Endpoint,
         endpoints[e].state = "SendersWaiting", endpoints[e].queue # <<>>,
         endpoints' = Dequeue(e)
  PROVE  /\ WaitsNow[e] # <<>>
         /\ Head(WaitsNow[e]) = Head(endpoints[e].queue).msg
         /\ WaitsNext = [WaitsNow EXCEPT ![e] = Tail(@)]
<1> DEFINE q == endpoints[e].queue
           ep == [endpoints[e] EXCEPT !.queue = Tail(@)]
           msgs == [i \in DOMAIN q |-> q[i].msg]
<1>1. endpoints[e] \in EndpointValue(Created) /\ q \in Seq(QueueEntry(Created))
  BY EndpointType DEF EndpointValue
<1>2. Waits(endpoints[e]) = msgs /\ WaitsNow[e] = msgs
  BY DEF Waits, WaitsNow
<1>3. ep.state = "SendersWaiting" /\ ep.queue = Tail(q)
  BY <1>1 DEF EndpointValue
<1>4. /\ msgs # <<>> /\ Head(msgs) = Head(q).msg
      /\ Waits(ep) = Tail(msgs)
  <2> HIDE DEF ep
  <2>1. Waits(ep) = [i \in DOMAIN Tail(q) |-> Tail(q)[i].msg]
    BY <1>3 DEF Waits
  <2> HIDE DEF q
  <2>2. q # <<>>
    BY DEF q
  <2>3. /\ DOMAIN q = 1..Len(q) /\ Len(q) \in Nat /\ Len(q) > 0
        /\ DOMAIN Tail(q) = 1..(Len(q) - 1)
        /\ \A i \in 1..(Len(q) - 1) : Tail(q)[i] = q[i + 1]
        /\ Head(q) = q[1]
    BY <1>1, <2>2
  <2> DEFINE S == {msgs[i] : i \in DOMAIN q}
  <2>4. msgs \in Seq(S) /\ Len(msgs) = Len(q)
    BY <2>3
  <2>5. msgs # <<>> /\ Head(msgs) = q[1].msg
    BY <2>3, <2>4
  <2>6. Tail(msgs) = [i \in 1..(Len(q) - 1) |-> msgs[i + 1]]
    BY <2>3, <2>4, <2>5
  <2>7. \A i \in 1..(Len(q) - 1) : msgs[i + 1] = Tail(q)[i].msg
    BY <2>3
  <2> HIDE DEF msgs
  <2> QED BY <2>1, <2>3, <2>5, <2>6, <2>7
<1>5. endpoints' = [endpoints EXCEPT ![e] = ep]
  BY DEF Dequeue
<1>6. WaitsNext = [WaitsNow EXCEPT ![e] = Tail(msgs)]
  <2> DEFINE w == Tail(msgs)
  <2>1. Waits(ep) = w
    BY <1>4
  <2> HIDE DEF ep, w
  <2>2. WaitsNext = [WaitsNow EXCEPT ![e] = w]
    BY <1>5, <2>1, OneEndpoint
  <2> QED BY <2>2 DEF w
<1> QED BY <1>2, <1>4, <1>6

\* The steps of the rendezvous in terms of WaitsNow and WaitsNext.
LEMMA RendezvousSteps ==
  ASSUME NEW e \in Endpoint
  PROVE  /\ /\ next_msg' = next_msg + 1 /\ delivered' = delivered
            /\ WaitsNext = [WaitsNow EXCEPT ![e] = Append(@, next_msg)]
            => Rendezvous!Wait(e)
         /\ /\ WaitsNow[e] = <<>> /\ next_msg' = next_msg + 1
            /\ delivered' = delivered \cup {next_msg} /\ WaitsNext = WaitsNow
            => Rendezvous!HandOver(e)
         /\ /\ next_msg' = next_msg + 1 /\ delivered' = delivered
            /\ WaitsNext = WaitsNow
            => Rendezvous!Lose
         /\ /\ WaitsNow[e] # <<>> /\ Head(WaitsNow[e]) \notin delivered
            /\ delivered' = delivered \cup {Head(WaitsNow[e])}
            /\ WaitsNext = [WaitsNow EXCEPT ![e] = Tail(@)] /\ next_msg' = next_msg
            => Rendezvous!Take(e)
<1> USE DEF WaitsNow, WaitsNext, Waits
<1>1. /\ next_msg' = next_msg + 1 /\ delivered' = delivered
      /\ WaitsNext = [WaitsNow EXCEPT ![e] = Append(@, next_msg)]
      => Rendezvous!Wait(e)
  BY Zenon DEF Rendezvous!Wait
<1>2. /\ WaitsNow[e] = <<>> /\ next_msg' = next_msg + 1
      /\ delivered' = delivered \cup {next_msg} /\ WaitsNext = WaitsNow
      => Rendezvous!HandOver(e)
  BY Zenon DEF Rendezvous!HandOver
<1>3. /\ next_msg' = next_msg + 1 /\ delivered' = delivered
      /\ WaitsNext = WaitsNow
      => Rendezvous!Lose
  BY Zenon DEF Rendezvous!Lose
<1>4. /\ WaitsNow[e] # <<>> /\ Head(WaitsNow[e]) \notin delivered
      /\ delivered' = delivered \cup {Head(WaitsNow[e])}
      /\ WaitsNext = [WaitsNow EXCEPT ![e] = Tail(@)] /\ next_msg' = next_msg
      => Rendezvous!Take(e)
  BY Zenon DEF Rendezvous!Take
<1> QED BY <1>1, <1>2, <1>3, <1>4

\* The variables of the rendezvous do not change.
RendezvousStutters ==
  next_msg' = next_msg /\ delivered' = delivered /\ WaitsNext = WaitsNow

\* sys_send waits, hands over or loses its message.
LEMMA SendStep ==
  ASSUME TypeInv, OrderInv, NEW e \in Endpoint, sys_send(e)
  PROVE  Rendezvous!Wait(e) \/ Rendezvous!HandOver(e) \/ Rendezvous!Lose
<1>1. next_msg' = next_msg + 1
  BY DEF sys_send
<1>2. endpoints[e].state = "ReceiversWaiting" => WaitsNow[e] = <<>>
  BY DEF WaitsNow, Waits
<1>3. CASE endpoints[e].state = "ReceiversWaiting" /\ endpoints[e].queue # <<>>
  <2> DEFINE ep == [endpoints[e] EXCEPT !.queue = Tail(@)]
  <2>1. endpoints' = [endpoints EXCEPT ![e] = ep] /\ delivered' = delivered \cup {next_msg}
    BY <1>3 DEF sys_send, Deliver, Dequeue
  <2>2. Waits(ep) = <<>>
    BY <1>3, EndpointType DEF Waits, EndpointValue
  <2> HIDE DEF ep
  <2>3. WaitsNext = [WaitsNow EXCEPT ![e] = WaitsNow[e]]
    BY <1>2, <1>3, <2>1, <2>2, OneEndpoint
  <2>4. WaitsNext = WaitsNow
    BY <2>3, SameWaits
  <2> QED BY <1>1, <1>2, <1>3, <2>1, <2>4, RendezvousSteps
<1>4. CASE endpoints[e].state # "ReceiversWaiting"
  <2>1. /\ endpoints' = Enqueue(e, "SendersWaiting", Waiting(current, next_msg))
        /\ delivered' = delivered
    BY <1>4 DEF sys_send
  <2>2. WaitsNext = [WaitsNow EXCEPT ![e] = Append(@, next_msg)]
    BY <1>4, <2>1, WaitsEnqueue
  <2> QED BY <1>1, <2>1, <2>2, RendezvousSteps
<1>5. CASE endpoints[e].state = "ReceiversWaiting" /\ endpoints[e].queue = <<>>
  <2>1. UNCHANGED <<endpoints, delivered>>
    BY <1>5 DEF sys_send
  <2>2. WaitsNext = WaitsNow
    BY <2>1 DEF WaitsNext, WaitsNow
  <2> QED BY <1>1, <2>1, <2>2, RendezvousSteps
<1> QED BY <1>3, <1>4, <1>5

\* sys_recv takes a message or changes nothing the rendezvous sees.
LEMMA RecvStep ==
  ASSUME TypeInv, OrderInv, NEW e \in Endpoint, sys_recv(e)
  PROVE  Rendezvous!Take(e) \/ RendezvousStutters
<1>1. next_msg' = next_msg
  BY DEF sys_recv
<1>2. CASE endpoints[e].state = "SendersWaiting" /\ endpoints[e].queue # <<>>
  <2> DEFINE q == endpoints[e].queue
  <2>1. endpoints' = Dequeue(e) /\ delivered' = delivered \cup {Head(q).msg}
    BY <1>2 DEF sys_recv, Deliver
  <2>2. Head(q).msg \notin delivered
    <3>1. q \in Seq(QueueEntry(Created)) /\ q # <<>>
      BY <1>2, EndpointType DEF EndpointValue
    <3>2. 1 \in DOMAIN q /\ Head(q) = q[1]
      BY <3>1
    <3>3. \A i \in DOMAIN q : q[i].msg \notin delivered
      BY <1>2, OrderInvImplies DEF WaitingMessagesInOrder
    <3> QED BY <3>2, <3>3
  <2>3. /\ WaitsNow[e] # <<>>
        /\ Head(WaitsNow[e]) = Head(q).msg
        /\ WaitsNext = [WaitsNow EXCEPT ![e] = Tail(@)]
    BY <1>2, <2>1, WaitsDequeue
  <2> QED BY <1>1, <2>1, <2>2, <2>3, RendezvousSteps
<1>3. CASE endpoints[e].state # "SendersWaiting"
  <2> DEFINE ep == [state |-> "ReceiversWaiting",
                    queue |-> Append(endpoints[e].queue, Waiting(current, ZeroMsg))]
  <2>1. endpoints' = [endpoints EXCEPT ![e] = ep] /\ delivered' = delivered
    BY <1>3 DEF sys_recv, Enqueue
  <2>2. Waits(ep) = <<>> /\ WaitsNow[e] = <<>>
    BY <1>3 DEF Waits, WaitsNow
  <2> HIDE DEF ep
  <2>3. WaitsNext = [WaitsNow EXCEPT ![e] = WaitsNow[e]]
    BY <2>1, <2>2, OneEndpoint
  <2>4. WaitsNext = WaitsNow
    BY <2>3, SameWaits
  <2> QED BY <1>1, <2>1, <2>4 DEF RendezvousStutters
<1>4. CASE endpoints[e].state = "SendersWaiting" /\ endpoints[e].queue = <<>>
  <2>1. UNCHANGED <<endpoints, delivered>>
    BY <1>4 DEF sys_recv
  <2> QED BY <1>1, <2>1 DEF RendezvousStutters, WaitsNext, WaitsNow
<1> QED BY <1>2, <1>3, <1>4

\* Every step of the kernel is a step of the rendezvous, or invisible.
LEMMA RendezvousStep ==
  ASSUME TypeInv, OrderInv, [Next]_vars
  PROVE  Rendezvous!Next \/ RendezvousStutters
<1>1. CASE UNCHANGED ipcVars
  BY <1>1 DEF ipcVars, RendezvousStutters, WaitsNext, WaitsNow
<1>2. CASE SysSend
  <2>1. PICK h \in Handle : /\ Holds(h, "Endpoint", {"SEND"})
                            /\ sys_send(Get(CurrentCSpace, h).obj)
    BY <1>2 DEF SysSend
  <2> DEFINE e == Get(CurrentCSpace, h).obj
  <2>2. InUser
    BY <1>2 DEF SysSend
  <2>3. e \in Endpoint /\ sys_send(e)
    BY <2>1, <2>2, HeldObject
  <2> HIDE DEF e
  <2> QED BY <2>3, SendStep DEF Rendezvous!Next
<1>3. CASE SysRecv
  <2>1. PICK h \in Handle : /\ Holds(h, "Endpoint", {"RECEIVE"})
                            /\ sys_recv(Get(CurrentCSpace, h).obj)
    BY <1>3 DEF SysRecv
  <2> DEFINE e == Get(CurrentCSpace, h).obj
  <2>2. InUser
    BY <1>3 DEF SysRecv
  <2>3. e \in Endpoint /\ sys_recv(e)
    BY <2>1, <2>2, HeldObject
  <2> HIDE DEF e
  <2> QED BY <2>3, RecvStep DEF Rendezvous!Next
<1>4. SysSend \/ SysRecv \/ UNCHANGED ipcVars
  BY DEF Next, vars, sys_endpoint_create, SysSpawn, SysThreadSpawn, SysWait,
         SysExit, FatalException, SysWaitIrq, SysYield, Timer, DeviceIrq,
         BootYield, IdleResume, Halted
<1> QED BY <1>1, <1>2, <1>3, <1>4

\* The endpoints implement the rendezvous: a message reaches at most one
\* receiver, in the order sent, and is lost only as it is sent.
THEOREM RendezvousTheorem == Spec => EndpointsAreRendezvous
<1> DEFINE waiting == [e \in Endpoint |->
             IF endpoints[e].state = "SendersWaiting"
             THEN [i \in DOMAIN endpoints[e].queue |-> endpoints[e].queue[i].msg]
             ELSE <<>>]
<1>1. Init => Rendezvous!Init
  <2> SUFFICES ASSUME Init PROVE Rendezvous!Init
    OBVIOUS
  <2>1. /\ next_msg = 1 /\ delivered = {}
        /\ \A e \in Endpoint : endpoints[e].state # "SendersWaiting"
    BY DEF Init, IpcInit
  <2> QED BY <2>1 DEF Rendezvous!Init
<1>2. TypeInv /\ OrderInv /\ [Next]_vars
        => [Rendezvous!Next]_<<next_msg, waiting, delivered>>
  <2> SUFFICES ASSUME TypeInv, OrderInv, [Next]_vars, RendezvousStutters
               PROVE  UNCHANGED <<next_msg, waiting, delivered>>
    BY RendezvousStep
  <2>1. waiting' = waiting
    BY Zenon DEF RendezvousStutters, WaitsNext, WaitsNow, Waits
  <2> QED BY <2>1 DEF RendezvousStutters
<1> QED BY <1>1, <1>2, Invariance, PTL
      DEF Spec, EndpointsAreRendezvous, Rendezvous!Spec
=============================================================================
