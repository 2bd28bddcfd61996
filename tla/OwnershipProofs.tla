-------------------------- MODULE OwnershipProofs ---------------------------
(***************************************************************************)
(* Every step of the kernel moves threads from one holder to another, for  *)
(* any number of threads, endpoints and interrupt lines, and keeps queues  *)
(* free of repetitions.                                                    *)
(***************************************************************************)
EXTENDS KernelTypeProofs, Holders

\* Popping the head of q makes it current.
LEMMA PopAwake ==
  ASSUME NEW S \in SUBSET Thread, NEW q \in Seq(S), q # <<>>, NoRepeat(q),
         run_queue' = Tail(q), current' = Head(q)
  PROVE  /\ NoRepeat(run_queue') /\ current' \notin RangeOf(run_queue')
         /\ RangeOf(run_queue') \cup ({current'} \ {NoThread}) = RangeOf(q)
<1>1. /\ RangeOf(q) = RangeOf(Tail(q)) \cup {Head(q)}
      /\ Head(q) \notin RangeOf(Tail(q))
      /\ NoRepeat(Tail(q)) /\ Head(q) \in S
  BY PopRange
<1>2. Head(q) # NoThread
  BY <1>1, ThreadValues
<1> QED BY <1>1, <1>2

\* After a blocking call the threads that were ready are awake, and the
\* caller is not.
LEMMA BlockAwake ==
  ASSUME TypeInv, OwnInv, InUser, NEW site, Block(site)
  PROVE  /\ NoRepeat(run_queue') /\ current' \notin RangeOf(run_queue')
         /\ RangeOf(run_queue') \cup ({current'} \ {NoThread}) = RangeOf(run_queue)
<1>1. /\ Created \in SUBSET Thread /\ run_queue \in Seq(Created)
      /\ NoRepeat(run_queue)
  BY CreatedThreads DEF TypeInv, SwitchOK, SwitchValues, OwnInv
<1>2. CASE run_queue = <<>>
  BY <1>1, <1>2 DEF Block, RangeOf
<1>3. CASE run_queue # <<>>
  <2>1. run_queue' = Tail(run_queue) /\ current' = Head(run_queue)
    BY <1>3 DEF Block, SwitchFrom, RunNext
  <2> QED BY <1>1, <1>3, <2>1, PopAwake
<1> QED BY <1>2, <1>3

-----------------------------------------------------------------------------
(* The steps.                                                              *)

\* The types the steps need.
LEMMA OwnTypes ==
  ASSUME TypeInv
  PROVE  /\ Created \in SUBSET Thread
         /\ run_queue \in Seq(Created) /\ current \in Created \cup {NoThread}
         /\ irq_waiters \in [Irq -> Created \cup {NoThread}]
         /\ endpoints \in Endpoints(Created)
         /\ processes \in [Thread -> [terminated : BOOLEAN, wait_queue : Seq(Created)]]
BY CreatedThreads
  DEF TypeInv, SwitchOK, SwitchValues, IrqValues, IpcValues, ProcessValues

\* Steps that only pass the processor on.
LEMMA OwnSwitch ==
  ASSUME TypeInv, OwnInv,
         idle_resume \/ timer_tick_handler \/ yield_now \/ boot_yield,
         UNCHANGED <<irq_waiters, endpoints, processes>>
  PROVE  OwnInv'
<1> DEFINE Before == RangeOf(run_queue) \cup ({current} \ {NoThread})
<1>1. /\ Created \in SUBSET Thread /\ run_queue \in Seq(Created)
      /\ NoRepeat(run_queue) /\ current \notin RangeOf(run_queue)
      /\ current \in Created \cup {NoThread}
  BY OwnTypes DEF OwnInv
<1>2. \/ UNCHANGED <<run_queue, current>>
      \/ /\ run_queue # <<>>
         /\ run_queue' = Tail(run_queue) /\ current' = Head(run_queue)
      \/ /\ current # NoThread
         /\ run_queue' = Tail(PushBack(run_queue, current))
         /\ current' = Head(PushBack(run_queue, current))
  <2>1. InUser => current # NoThread
    BY DEF TypeInv, SwitchOK, SwitchValues, InUser
  <2> QED
    BY <2>1 DEF idle_resume, timer_tick_handler, pick_next, yield_now, boot_yield,
                SwitchFrom, RunNext, switchVars
<1>3. /\ NoRepeat(run_queue') /\ current' \notin RangeOf(run_queue')
      /\ RangeOf(run_queue') \cup ({current'} \ {NoThread}) \subseteq Before
  <2>1. CASE UNCHANGED <<run_queue, current>>
    BY <1>1, <2>1
  <2>2. CASE /\ run_queue # <<>>
             /\ run_queue' = Tail(run_queue) /\ current' = Head(run_queue)
    BY <1>1, <2>2, PopAwake
  <2>3. CASE /\ current # NoThread
             /\ run_queue' = Tail(PushBack(run_queue, current))
             /\ current' = Head(PushBack(run_queue, current))
    <3>1. /\ PushBack(run_queue, current) \in Seq(Created)
          /\ PushBack(run_queue, current) # <<>>
          /\ NoRepeat(PushBack(run_queue, current))
          /\ RangeOf(PushBack(run_queue, current)) = RangeOf(run_queue) \cup {current}
      BY <1>1, <2>3, PushBackType, PushNoRepeat, PushRange
    <3>2. /\ NoRepeat(run_queue') /\ current' \notin RangeOf(run_queue')
          /\ RangeOf(run_queue') \cup ({current'} \ {NoThread})
               = RangeOf(PushBack(run_queue, current))
      BY <1>1, <2>3, <3>1, PopAwake
    <3> QED BY <2>3, <3>1, <3>2
  <2> QED BY <1>2, <2>1, <2>2, <2>3
<1>4. Disjoint(OwnedNext)
  <2> DEFINE own == OwnedNow
             new == OwnedNext
  <2>1. Disjoint(own)
    BY DEF OwnInv, OwnedNow
  <2>2. Awake \in Holder /\ new[Awake] \subseteq own[Awake]
    BY <1>3, AwakeHolder
  <2>3. \A h \in Holder \ {Awake} : new[h] \subseteq own[h]
    BY DEF OwnedNow, OwnedNext, Owned, Holder, Awake
  <2> HIDE DEF own, new
  <2>4. Disjoint(new)
    BY <2>1, <2>2, <2>3, Shrink
  <2> QED BY <2>4 DEF new
<1> QED BY <1>3, <1>4, OwnInvNext DEF OwnInv

\* A thread outside the holders becomes ready.
LEMMA OwnReady ==
  ASSUME TypeInv, OwnInv, NEW t \in Thread,
         t \notin RangeOf(run_queue), t # current,
         run_queue' = PushBack(run_queue, t), current' = current
  PROVE  /\ NoRepeat(run_queue') /\ current' \notin RangeOf(run_queue')
         /\ OwnedNext[Awake] = OwnedNow[Awake] \cup {t}
<1>1. /\ run_queue \in Seq(Thread) /\ NoRepeat(run_queue)
      /\ current \notin RangeOf(run_queue)
  BY OwnTypes, SeqMonotone DEF OwnInv
<1>2. RangeOf(run_queue') = RangeOf(run_queue) \cup {t} /\ NoRepeat(run_queue')
  BY <1>1, PushRange, PushNoRepeat
<1>3. /\ OwnedNow[Awake] = RangeOf(run_queue) \cup ({current} \ {NoThread})
      /\ OwnedNext[Awake] = RangeOf(run_queue') \cup ({current'} \ {NoThread})
  BY AwakeHolder
<1> QED BY <1>1, <1>2, <1>3

\* unblock_irq
LEMMA OwnDeviceIrq ==
  ASSUME TypeInv, OwnInv, DeviceIrq
  PROVE  OwnInv'
<1>1. PICK irq \in Irq : unblock_irq(irq)
  BY DEF DeviceIrq
<1>2. UNCHANGED <<endpoints, processes>> /\ current' = current
  BY <1>1 DEF DeviceIrq, ipcVars, processVars, unblock_irq
<1>3. CASE UNCHANGED <<run_queue, irq_waiters>>
  BY <1>2, <1>3 DEF OwnInv
<1>4. CASE /\ irq_waiters[irq] # NoThread
           /\ run_queue' = PushBack(run_queue, irq_waiters[irq])
           /\ irq_waiters' = [irq_waiters EXCEPT ![irq] = NoThread]
  <2> DEFINE t == irq_waiters[irq]
             src == <<"irq", irq>>
  <2>1. /\ src \in Holder /\ src # Awake /\ Awake \in Holder
        /\ OwnedNow[src] = {t}
        /\ OwnedNow[Awake] = RangeOf(run_queue) \cup ({current} \ {NoThread})
    BY <1>4, IrqHolder, AwakeHolder
  <2>2. t \in Thread /\ t \notin RangeOf(run_queue) /\ t # current
    <3>1. t \in Thread /\ t # NoThread
      BY <1>4, OwnTypes
    <3>2. t \notin OwnedNow[Awake]
      BY <2>1, OnlyThere
    <3> QED BY <2>1, <3>1, <3>2
  <2>3. /\ NoRepeat(run_queue') /\ current' \notin RangeOf(run_queue')
        /\ OwnedNext[Awake] = OwnedNow[Awake] \cup {t}
    BY <1>2, <1>4, <2>2, OwnReady
  <2>4. OwnedNext[src] = {}
    <3>1. irq_waiters'[irq] = NoThread
      BY <1>4, OwnTypes
    <3> QED BY <3>1, IrqHolder
  <2>5. \A h \in Holder \ {src, Awake} : OwnedNext[h] = OwnedNow[h]
    <3>1. \A i \in Irq \ {irq} : irq_waiters'[i] = irq_waiters[i]
      BY <1>4, OwnTypes
    <3> QED BY <1>2, <3>1 DEF OwnedNow, OwnedNext, Owned, Holder, Awake
  <2>6. Disjoint(OwnedNow)
    BY DEF OwnInv, OwnedNow
  <2> HIDE DEF t, src
  <2>7. Disjoint(OwnedNext)
    BY <2>1, <2>3, <2>4, <2>5, <2>6, Move
  <2> QED BY <1>2, <2>3, <2>7, OwnInvNext DEF OwnInv
<1> QED BY <1>1, <1>3, <1>4 DEF unblock_irq

\* The caller of a blocking call moves to holder dst.
LEMMA OwnBlock ==
  ASSUME TypeInv, OwnInv, InUser, NEW site, Block(site),
         NEW dst \in Holder \ {Awake},
         OwnedNext[dst] \subseteq OwnedNow[dst] \cup {current},
         \A h \in Holder \ {Awake, dst} : OwnedNext[h] = OwnedNow[h]
  PROVE  /\ Disjoint(OwnedNext)
         /\ NoRepeat(run_queue') /\ current' \notin RangeOf(run_queue')
<1>1. /\ NoRepeat(run_queue') /\ current' \notin RangeOf(run_queue')
      /\ RangeOf(run_queue') \cup ({current'} \ {NoThread}) = RangeOf(run_queue)
  BY BlockAwake
<1>2. current # NoThread /\ current \notin RangeOf(run_queue)
  BY DEF TypeInv, SwitchOK, SwitchValues, InUser, OwnInv
<1>3. /\ Awake \in Holder
      /\ OwnedNow[Awake] = RangeOf(run_queue) \cup ({current} \ {NoThread})
      /\ OwnedNext[Awake] = RangeOf(run_queue') \cup ({current'} \ {NoThread})
  BY AwakeHolder
<1> DEFINE M == {current}
<1>4. /\ M \subseteq OwnedNow[Awake]
      /\ OwnedNext[Awake] \subseteq OwnedNow[Awake] \ M
      /\ OwnedNext[dst] \subseteq OwnedNow[dst] \cup M
  BY <1>1, <1>2, <1>3
<1>5. Disjoint(OwnedNow)
  BY DEF OwnInv, OwnedNow
<1>6. /\ dst \in Holder /\ Awake # dst
      /\ \A h \in Holder \ {Awake, dst} : OwnedNext[h] \subseteq OwnedNow[h]
  OBVIOUS
<1> HIDE DEF M
<1>7. Disjoint(OwnedNext)
  BY <1>3, <1>4, <1>5, <1>6, Move
<1> QED BY <1>1, <1>7

\* The caller is nowhere else.
LEMMA CallerAwake ==
  ASSUME TypeInv, OwnInv, InUser
  PROVE  \A h \in Holder \ {Awake} : current \notin OwnedNow[h]
<1>1. current # NoThread
  BY DEF TypeInv, SwitchOK, SwitchValues, InUser
<1>2. Awake \in Holder /\ current \in OwnedNow[Awake]
  BY <1>1, AwakeHolder
<1> QED BY <1>2, OnlyThere

\* sys_wait_irq
LEMMA OwnWaitIrq ==
  ASSUME TypeInv, OwnInv, SysWaitIrq
  PROVE  OwnInv'
<1>1. PICK h \in Handle : /\ Holds(h, "Interrupt", {})
                          /\ sys_wait_irq(Get(CurrentCSpace, h).obj)
  BY DEF SysWaitIrq
<1>2. InUser /\ UNCHANGED <<endpoints, processes>>
  BY DEF SysWaitIrq, ipcVars, processVars
<1> DEFINE irq == Get(CurrentCSpace, h).obj
<1>3. irq \in Irq
  BY <1>1, <1>2, HeldObject
<1>4. \/ UNCHANGED <<irq_waiters, run_queue, current>>
      \/ /\ irq_waiters' = [irq_waiters EXCEPT ![irq] = current]
         /\ Block("sys_wait_irq")
  BY <1>1 DEF sys_wait_irq, switchVars
<1> HIDE DEF irq
<1>5. CASE UNCHANGED <<irq_waiters, run_queue, current>>
  BY <1>2, <1>5 DEF OwnInv
<1>6. CASE /\ irq_waiters' = [irq_waiters EXCEPT ![irq] = current]
           /\ Block("sys_wait_irq")
  <2> DEFINE dst == <<"irq", irq>>
  <2>1. /\ irq_waiters'[irq] = current
        /\ \A i \in Irq \ {irq} : irq_waiters'[i] = irq_waiters[i]
    BY <1>3, <1>6, OwnTypes
  <2>2. dst \in Holder \ {Awake} /\ OwnedNext[dst] \subseteq OwnedNow[dst] \cup {current}
    BY <1>3, <2>1, IrqHolder
  <2>3. \A g \in Holder \ {Awake, dst} : OwnedNext[g] = OwnedNow[g]
    <3> SUFFICES ASSUME NEW g \in Holder \ {Awake, dst}
                 PROVE  OwnedNext[g] = OwnedNow[g]
      OBVIOUS
    <3>1. g[1] = "irq" => irq_waiters'[g[2]] = irq_waiters[g[2]]
      BY <2>1 DEF Holder, Awake
    <3> QED BY <1>2, <3>1, SameOwned
  <2> HIDE DEF dst
  <2>4. /\ Disjoint(OwnedNext)
        /\ NoRepeat(run_queue') /\ current' \notin RangeOf(run_queue')
    BY <1>2, <1>6, <2>2, <2>3, OwnBlock
  <2> QED BY <1>2, <2>4, OwnInvNext DEF OwnInv
<1> QED BY <1>4, <1>5, <1>6

\* sys_wait
LEMMA OwnWait ==
  ASSUME TypeInv, OwnInv, SysWait
  PROVE  OwnInv'
<1>1. PICK h \in Handle : /\ Holds(h, "Process", {"WAIT"})
                          /\ sys_wait(Get(CurrentCSpace, h).obj)
  BY DEF SysWait
<1>2. InUser /\ UNCHANGED <<endpoints, irq_waiters>>
  BY DEF SysWait, ipcVars, irqVars
<1> DEFINE p == Get(CurrentCSpace, h).obj
<1>3. p \in Thread
  BY <1>1, <1>2, HeldObject, OwnTypes
<1>4. \/ UNCHANGED <<processes, run_queue, current>>
      \/ /\ processes' = [processes EXCEPT ![p].wait_queue = PushBack(@, current)]
         /\ Block("sys_wait")
  BY <1>1 DEF sys_wait, switchVars
<1> HIDE DEF p
<1>5. CASE UNCHANGED <<processes, run_queue, current>>
  BY <1>2, <1>5 DEF OwnInv
<1>6. CASE /\ processes' = [processes EXCEPT ![p].wait_queue = PushBack(@, current)]
           /\ Block("sys_wait")
  <2> DEFINE dst == <<"process", p>>
             q == processes[p].wait_queue
  <2>1. /\ processes'[p].wait_queue = PushBack(q, current)
        /\ \A r \in Thread \ {p} : processes'[r] = processes[r]
        /\ q \in Seq(Created) /\ current \in Created
    BY <1>2, <1>3, <1>6, OwnTypes, Caller
  <2>2. /\ dst \in Holder \ {Awake}
        /\ OwnedNow[dst] = RangeOf(q)
        /\ OwnedNext[dst] = RangeOf(PushBack(q, current))
    BY <1>3, <2>1, ProcessHolder
  <2>3. \A g \in Holder \ {Awake, dst} : OwnedNext[g] = OwnedNow[g]
    BY <1>2, <1>3, <2>1 DEF OwnedNow, OwnedNext, Owned, Holder, Awake
  <2>4. current \notin RangeOf(q) /\ NoRepeat(q)
    BY <1>2, <1>3, <2>2, CallerAwake DEF OwnInv
  <2>5. \A r \in Thread : NoRepeat(processes'[r].wait_queue)
    BY <2>1, <2>4, PushNoRepeat DEF OwnInv
  <2>6. OwnedNext[dst] \subseteq OwnedNow[dst] \cup {current}
    BY <2>1, <2>2, PushRange
  <2> HIDE DEF dst, q
  <2>7. /\ Disjoint(OwnedNext)
        /\ NoRepeat(run_queue') /\ current' \notin RangeOf(run_queue')
    BY <1>2, <1>6, <2>2, <2>3, <2>6, OwnBlock
  <2> QED BY <1>2, <2>5, <2>7, OwnInvNext DEF OwnInv
<1> QED BY <1>4, <1>5, <1>6

\* Taking the first waiter off an endpoint.
LEMMA PopWaiter ==
  ASSUME NEW S, NEW ep \in EndpointValue(S), ep.queue # <<>>, NoRepeatAt(ep),
         NEW new, new.queue = Tail(ep.queue)
  PROVE  LET t == Head(ep.queue).thread
         IN  /\ NoRepeatAt(new)
             /\ t \in S
             /\ t \in WaitersAt(ep) /\ WaitersAt(new) \subseteq WaitersAt(ep) \ {t}
<1> DEFINE q == ep.queue
<1>1. q \in Seq(QueueEntry(S)) /\ q # <<>>
  BY DEF EndpointValue
<1> HIDE DEF q
<1>2. /\ DOMAIN q = 1..Len(q) /\ Len(q) \in Nat /\ Len(q) > 0
      /\ DOMAIN Tail(q) = 1..(Len(q) - 1)
      /\ \A i \in 1..(Len(q) - 1) : Tail(q)[i] = q[i + 1]
      /\ Head(q) = q[1] /\ q[1] \in QueueEntry(S)
  BY <1>1
<1>3. \A i, j \in 1..Len(q) : q[i].thread = q[j].thread => i = j
  BY <1>2 DEF NoRepeatAt, q
<1>4. NoRepeatAt(new)
  <2>1. new.queue = Tail(q)
    BY DEF q
  <2>2. ASSUME NEW i \in 1..(Len(q) - 1), NEW j \in 1..(Len(q) - 1),
               Tail(q)[i].thread = Tail(q)[j].thread
        PROVE  i = j
    <3>1. i + 1 \in 1..Len(q) /\ j + 1 \in 1..Len(q)
      BY <1>2
    <3>2. q[i + 1].thread = q[j + 1].thread
      BY <1>2, <2>2
    <3>3. i + 1 = j + 1
      BY <1>3, <3>1, <3>2
    <3> QED BY <3>3
  <2> QED BY <1>2, <2>1, <2>2 DEF NoRepeatAt
<1>5. q[1].thread \in S
  BY <1>2 DEF QueueEntry
<1>6. q[1].thread \in WaitersAt(ep)
  BY <1>2 DEF WaitersAt, q
<1>7. ASSUME NEW x \in WaitersAt(new)
      PROVE  x \in WaitersAt(ep) /\ x # q[1].thread
  <2>1. PICK i \in 1..(Len(q) - 1) : x = q[i + 1].thread
    BY <1>2 DEF WaitersAt, q
  <2>2. i + 1 \in 1..Len(q) /\ i + 1 # 1
    BY <1>2, <2>1
  <2>3. q[i + 1].thread # q[1].thread
    BY <1>2, <1>3, <2>2
  <2>4. q[i + 1].thread \in WaitersAt(ep)
    BY <1>2, <2>2 DEF WaitersAt, q
  <2> QED BY <2>1, <2>3, <2>4
<1> QED BY <1>2, <1>4, <1>5, <1>6, <1>7 DEF q

\* Adding a waiter that is not there yet.
LEMMA PushWaiter ==
  ASSUME NEW S, NEW ep \in EndpointValue(S), NoRepeatAt(ep), NEW t \in S, NEW m,
         t \notin WaitersAt(ep),
         NEW new, new.queue = Append(ep.queue, Waiting(t, m))
  PROVE  NoRepeatAt(new) /\ WaitersAt(new) \subseteq WaitersAt(ep) \cup {t}
<1> DEFINE q == ep.queue
<1>1. q \in Seq(QueueEntry(S))
  BY DEF EndpointValue
<1> HIDE DEF q
<1>2. /\ DOMAIN q = 1..Len(q) /\ Len(q) \in Nat
      /\ DOMAIN Append(q, Waiting(t, m)) = 1..(Len(q) + 1)
      /\ \A i \in 1..Len(q) : Append(q, Waiting(t, m))[i] = q[i]
      /\ Append(q, Waiting(t, m))[Len(q) + 1].thread = t
  BY <1>1 DEF Waiting
<1>3. /\ \A i, j \in 1..Len(q) : q[i].thread = q[j].thread => i = j
      /\ \A i \in 1..Len(q) : q[i].thread # t
  BY <1>2 DEF NoRepeatAt, WaitersAt, q
<1>4. NoRepeatAt(new)
  BY <1>2, <1>3 DEF NoRepeatAt, q
<1>5. WaitersAt(new) \subseteq WaitersAt(ep) \cup {t}
  BY <1>2 DEF WaitersAt, q
<1> QED BY <1>4, <1>5

\* A delivery wakes the first waiter of an endpoint.
LEMMA OwnDeliver ==
  ASSUME TypeInv, OwnInv, NEW e \in Endpoint, endpoints[e].queue # <<>>,
         NEW m, NEW r, Deliver(e, m, r, Head(endpoints[e].queue).thread),
         UNCHANGED <<irq_waiters, processes>>
  PROVE  OwnInv'
<1> DEFINE t == Head(endpoints[e].queue).thread
           src == <<"endpoint", e>>
           M == {t}
<1>1. /\ endpoints[e] \in EndpointValue(Created) /\ Created \in SUBSET Thread
      /\ NoRepeatAt(endpoints[e])
  BY EndpointType, OwnTypes DEF OwnInv
<1>2. /\ endpoints'[e].queue = Tail(endpoints[e].queue)
      /\ \A f \in Endpoint \ {e} : endpoints'[f] = endpoints[f]
      /\ run_queue' = PushBack(run_queue, t) /\ current' = current
  <2>1. endpoints' = [endpoints EXCEPT ![e].queue = Tail(@)]
    BY DEF Deliver, Dequeue
  <2> QED BY <1>1, <2>1, EndpointType DEF Deliver, EndpointValue
<1>3. /\ NoRepeatAt(endpoints'[e]) /\ t \in Created
      /\ t \in WaitersAt(endpoints[e])
      /\ WaitersAt(endpoints'[e]) \subseteq WaitersAt(endpoints[e]) \ {t}
  BY <1>1, <1>2, PopWaiter
<1>4. /\ src \in Holder /\ src # Awake /\ Awake \in Holder
      /\ OwnedNow[src] = WaitersAt(endpoints[e])
      /\ OwnedNext[src] = WaitersAt(endpoints'[e])
      /\ OwnedNow[Awake] = RangeOf(run_queue) \cup ({current} \ {NoThread})
  BY EndpointHolder, AwakeHolder
<1>5. t \in Thread /\ t \notin RangeOf(run_queue) /\ t # current
  <2>1. t \in Thread /\ t # NoThread
    BY <1>1, <1>3, ThreadValues
  <2>2. t \notin OwnedNow[Awake]
    BY <1>3, <1>4, OnlyThere
  <2> QED BY <1>4, <2>1, <2>2
<1>6. /\ NoRepeat(run_queue') /\ current' \notin RangeOf(run_queue')
      /\ OwnedNext[Awake] = OwnedNow[Awake] \cup {t}
  BY <1>2, <1>5, OwnReady
<1>7. \A h \in Holder \ {src, Awake} : OwnedNext[h] \subseteq OwnedNow[h]
  <2> SUFFICES ASSUME NEW h \in Holder \ {src, Awake}
               PROVE  OwnedNext[h] = OwnedNow[h]
    OBVIOUS
  <2>1. h[1] = "endpoint" => endpoints'[h[2]] = endpoints[h[2]]
    BY <1>2 DEF Holder, Awake
  <2> QED BY <2>1, SameOwned
<1>8. Disjoint(OwnedNow)
  BY DEF OwnInv, OwnedNow
<1>9. /\ M \subseteq OwnedNow[src] /\ OwnedNext[src] \subseteq OwnedNow[src] \ M
      /\ OwnedNext[Awake] \subseteq OwnedNow[Awake] \cup M
  BY <1>3, <1>4, <1>6
<1> HIDE DEF src, M
<1>10. Disjoint(OwnedNext)
  BY <1>4, <1>7, <1>8, <1>9, Move
<1>11. \A f \in Endpoint : NoRepeatAt(endpoints'[f])
  BY <1>2, <1>3 DEF OwnInv
<1> QED BY <1>6, <1>10, <1>11, OwnInvNext DEF OwnInv

\* A sender or receiver that finds nobody waits at the endpoint.
LEMMA OwnEnqueue ==
  ASSUME TypeInv, OwnInv, InUser, NEW e \in Endpoint, NEW variant, NEW m, NEW site,
         endpoints' = Enqueue(e, variant, Waiting(current, m)), Block(site),
         UNCHANGED <<irq_waiters, processes>>
  PROVE  OwnInv'
<1> DEFINE dst == <<"endpoint", e>>
<1>1. /\ endpoints[e] \in EndpointValue(Created) /\ current \in Created
      /\ NoRepeatAt(endpoints[e])
  BY EndpointType, Caller DEF OwnInv
<1>2. /\ endpoints'[e].queue = Append(endpoints[e].queue, Waiting(current, m))
      /\ \A f \in Endpoint \ {e} : endpoints'[f] = endpoints[f]
  BY <1>1, EndpointType DEF Enqueue, EndpointValue
<1>3. /\ dst \in Holder \ {Awake}
      /\ OwnedNow[dst] = WaitersAt(endpoints[e])
      /\ OwnedNext[dst] = WaitersAt(endpoints'[e])
  BY EndpointHolder
<1>4. current \notin WaitersAt(endpoints[e])
  BY <1>3, CallerAwake
<1>5. /\ NoRepeatAt(endpoints'[e])
      /\ WaitersAt(endpoints'[e]) \subseteq WaitersAt(endpoints[e]) \cup {current}
  BY <1>1, <1>2, <1>4, PushWaiter
<1>6. \A h \in Holder \ {Awake, dst} : OwnedNext[h] = OwnedNow[h]
  <2> SUFFICES ASSUME NEW h \in Holder \ {Awake, dst}
               PROVE  OwnedNext[h] = OwnedNow[h]
    OBVIOUS
  <2>1. h[1] = "endpoint" => endpoints'[h[2]] = endpoints[h[2]]
    BY <1>2 DEF Holder, Awake
  <2> QED BY <2>1, SameOwned
<1>7. OwnedNext[dst] \subseteq OwnedNow[dst] \cup {current}
  BY <1>3, <1>5
<1> HIDE DEF dst
<1>8. /\ Disjoint(OwnedNext)
      /\ NoRepeat(run_queue') /\ current' \notin RangeOf(run_queue')
  BY <1>3, <1>6, <1>7, OwnBlock
<1>9. \A f \in Endpoint : NoRepeatAt(endpoints'[f])
  BY <1>2, <1>5 DEF OwnInv
<1> QED BY <1>8, <1>9, OwnInvNext DEF OwnInv

\* sys_send and sys_recv
LEMMA OwnIpc ==
  ASSUME TypeInv, OwnInv, SysSend \/ SysRecv
  PROVE  OwnInv'
<1>1. InUser /\ UNCHANGED <<irq_waiters, processes>>
  BY DEF SysSend, SysRecv, irqVars, processVars
<1>2. PICK h \in Handle : \E right \in {"SEND", "RECEIVE"} :
        /\ Holds(h, "Endpoint", {right})
        /\ sys_send(Get(CurrentCSpace, h).obj) \/ sys_recv(Get(CurrentCSpace, h).obj)
  BY DEF SysSend, SysRecv
<1> DEFINE e == Get(CurrentCSpace, h).obj
<1>3. e \in Endpoint /\ (sys_send(e) \/ sys_recv(e))
  BY <1>1, <1>2, HeldObject
<1> HIDE DEF e
<1>4. \/ UNCHANGED <<run_queue, current, endpoints>>
      \/ /\ endpoints[e].queue # <<>>
         /\ \E m, r : Deliver(e, m, r, Head(endpoints[e].queue).thread)
      \/ \E variant, m, site :
           /\ endpoints' = Enqueue(e, variant, Waiting(current, m))
           /\ Block(site)
  BY <1>3 DEF sys_send, sys_recv, switchVars
<1>5. CASE UNCHANGED <<run_queue, current, endpoints>>
  BY <1>1, <1>5 DEF OwnInv
<1>6. CASE /\ endpoints[e].queue # <<>>
           /\ \E m, r : Deliver(e, m, r, Head(endpoints[e].queue).thread)
  BY <1>1, <1>3, <1>6, OwnDeliver
<1>7. CASE \E variant, m, site :
             /\ endpoints' = Enqueue(e, variant, Waiting(current, m))
             /\ Block(site)
  BY <1>1, <1>3, <1>7, OwnEnqueue
<1> QED BY <1>4, <1>5, <1>6, <1>7

\* exit_current_thread
LEMMA OwnExit ==
  ASSUME TypeInv, OwnInv, SysExit
  PROVE  OwnInv'
<1> DEFINE p == process_of[current]
           waiters == processes[p].wait_queue
           queue == run_queue \o waiters
           src == <<"process", p>>
           M == RangeOf(waiters)
<1>1. /\ InUser /\ UNCHANGED <<endpoints, irq_waiters>>
      /\ processes' = [processes EXCEPT
                         ![p] = [terminated |-> TRUE, wait_queue |-> <<>>]]
      /\ \/ queue # <<>> /\ run_queue' = Tail(queue) /\ current' = Head(queue)
         \/ queue = <<>> /\ run_queue' = run_queue /\ current' = NoThread
  BY DEF SysExit, exit_current_thread, RunNext, irqVars, ipcVars
<1>2. /\ p \in Thread /\ Created \in SUBSET Thread
      /\ run_queue \in Seq(Created) /\ waiters \in Seq(Created)
      /\ processes'[p].wait_queue = <<>>
      /\ \A r \in Thread \ {p} : processes'[r] = processes[r]
      /\ NoRepeat(run_queue) /\ NoRepeat(waiters)
      /\ NoRepeat(<<>>) /\ RangeOf(<<>>) = {}
  <2>1. p \in Thread /\ Created \in SUBSET Thread
    BY Caller, OwnTypes, <1>1
  <2>2. run_queue \in Seq(Created) /\ waiters \in Seq(Created)
    BY <2>1, OwnTypes
  <2>3. /\ processes'[p].wait_queue = <<>>
        /\ \A r \in Thread \ {p} : processes'[r] = processes[r]
    BY <1>1, <2>1, OwnTypes
  <2>4. NoRepeat(run_queue) /\ NoRepeat(waiters)
    BY <2>1 DEF OwnInv
  <2>5. NoRepeat(<<>>) /\ RangeOf(<<>>) = {}
    BY DEF NoRepeat, RangeOf
  <2> QED BY <2>1, <2>2, <2>3, <2>4, <2>5
<1>3. /\ src \in Holder /\ src # Awake /\ Awake \in Holder
      /\ OwnedNow[src] = M /\ OwnedNext[src] = {}
      /\ OwnedNow[Awake] = RangeOf(run_queue) \cup ({current} \ {NoThread})
      /\ OwnedNext[Awake] = RangeOf(run_queue') \cup ({current'} \ {NoThread})
  BY <1>2, ProcessHolder, AwakeHolder
<1>4. Disjoint(OwnedNow)
  BY DEF OwnInv, OwnedNow
<1> HIDE DEF src, M, waiters, queue
<1>5. RangeOf(run_queue) \cap M = {}
  <2>1. OwnedNow[src] \cap OwnedNow[Awake] = {}
    BY <1>3, <1>4, Zenon DEF Disjoint
  <2> QED BY <1>3, <2>1
<1>6. /\ NoRepeat(queue) /\ queue \in Seq(Created)
      /\ RangeOf(queue) = RangeOf(run_queue) \cup M
  BY <1>2, <1>5, ConcatNoRepeat DEF M, queue
<1>7. /\ NoRepeat(run_queue') /\ current' \notin RangeOf(run_queue')
      /\ RangeOf(run_queue') \cup ({current'} \ {NoThread}) \subseteq RangeOf(queue)
  <2>1. CASE queue # <<>> /\ run_queue' = Tail(queue) /\ current' = Head(queue)
    BY <1>2, <1>6, <2>1, PopAwake
  <2>2. CASE queue = <<>> /\ run_queue' = run_queue /\ current' = NoThread
    <3>1. run_queue = <<>>
      BY <1>2, <2>2 DEF queue
    <3> QED BY <1>2, <2>2, <3>1
  <2> QED BY <1>1, <2>1, <2>2 DEF queue
<1>8. \A h \in Holder \ {src, Awake} : OwnedNext[h] \subseteq OwnedNow[h]
  <2> SUFFICES ASSUME NEW h \in Holder \ {src, Awake}
               PROVE  OwnedNext[h] = OwnedNow[h]
    OBVIOUS
  <2>1. h[1] = "process" => processes'[h[2]] = processes[h[2]]
    BY <1>2 DEF Holder, Awake, src
  <2> QED BY <1>1, <2>1, SameOwned
<1>9. \A r \in Thread : NoRepeat(processes'[r].wait_queue)
  BY <1>2 DEF OwnInv
<1>10. /\ M \subseteq OwnedNow[src] /\ OwnedNext[src] \subseteq OwnedNow[src] \ M
       /\ OwnedNext[Awake] \subseteq OwnedNow[Awake] \cup M
  BY <1>3, <1>6, <1>7
<1>11. Disjoint(OwnedNext)
  BY <1>3, <1>4, <1>8, <1>10, Move
<1> QED BY <1>1, <1>7, <1>9, <1>11, OwnInvNext DEF OwnInv

\* sys_spawn and sys_thread_spawn
LEMMA OwnSpawn ==
  ASSUME TypeInv, OwnInv, SysSpawn \/ SysThreadSpawn
  PROVE  OwnInv'
<1> DEFINE M == {next_id}
<1>1. /\ UNCHANGED <<endpoints, irq_waiters, current>>
      /\ next_id \in Thread /\ run_queue' = PushBack(run_queue, next_id)
      /\ \/ processes' = processes
         \/ processes' = [processes EXCEPT ![next_id] = NewProcessState]
  BY DEF SysSpawn, sys_spawn, SysThreadSpawn, sys_thread_spawn, NewThread,
         irqVars, ipcVars
<1>2. \A h \in Holder : OwnedNow[h] \subseteq Created
  <2>1. RangeOf(run_queue) \cup ({current} \ {NoThread}) \subseteq Created
    BY OwnTypes DEF RangeOf
  <2>2. \A i \in Irq : {irq_waiters[i]} \ {NoThread} \subseteq Created
    BY OwnTypes
  <2>3. \A e \in Endpoint : WaitersAt(endpoints[e]) \subseteq Created
    <3> SUFFICES ASSUME NEW e \in Endpoint, NEW i \in DOMAIN endpoints[e].queue
                 PROVE  endpoints[e].queue[i].thread \in Created
      BY DEF WaitersAt
    <3>1. endpoints[e].queue \in Seq(QueueEntry(Created))
      BY EndpointType DEF EndpointValue
    <3>2. endpoints[e].queue[i] \in QueueEntry(Created)
      BY <3>1
    <3> QED BY <3>2 DEF QueueEntry
  <2>4. \A p \in Thread : RangeOf(processes[p].wait_queue) \subseteq Created
    BY OwnTypes DEF RangeOf
  <2> QED
    BY <2>1, <2>2, <2>3, <2>4 DEF OwnedNow, Owned, Holder, Awake
<1>3. next_id \notin Created
  BY DEF TypeInv, CSpaceValues, Created
<1>4. /\ Awake \in Holder
      /\ OwnedNow[Awake] = RangeOf(run_queue) \cup ({current} \ {NoThread})
  BY AwakeHolder
<1>5. next_id \notin RangeOf(run_queue) /\ next_id # current
  BY <1>1, <1>2, <1>3, <1>4, ThreadValues
<1>6. /\ NoRepeat(run_queue') /\ current' \notin RangeOf(run_queue')
      /\ OwnedNext[Awake] = OwnedNow[Awake] \cup {next_id}
  BY <1>1, <1>5, OwnReady
<1>7. \A r \in Thread : \/ processes'[r] = processes[r]
                        \/ processes'[r].wait_queue = <<>>
  <2>1. DOMAIN processes = Thread
    BY OwnTypes
  <2>2. NewProcessState.wait_queue = <<>>
    BY DEF NewProcessState
  <2> QED BY <1>1, <2>1, <2>2
<1>8. RangeOf(<<>>) = {} /\ NoRepeat(<<>>)
  BY DEF RangeOf, NoRepeat
<1>9. \A h \in Holder \ {Awake} : OwnedNext[h] \subseteq OwnedNow[h]
  <2> SUFFICES ASSUME NEW h \in Holder \ {Awake}
               PROVE  OwnedNext[h] \subseteq OwnedNow[h]
    OBVIOUS
  <2>1. h[1] = "process" => RangeOf(processes'[h[2]].wait_queue)
                              \subseteq RangeOf(processes[h[2]].wait_queue)
    BY <1>7, <1>8 DEF Holder, Awake
  <2> QED BY <1>1, <2>1 DEF OwnedNow, OwnedNext, Owned, Holder, Awake
<1>10. Disjoint(OwnedNow)
  BY DEF OwnInv, OwnedNow
<1>11. /\ \A h \in Holder : OwnedNow[h] \cap M = {}
       /\ OwnedNext[Awake] \subseteq OwnedNow[Awake] \cup M
  BY <1>2, <1>3, <1>6
<1> HIDE DEF M
<1>12. Disjoint(OwnedNext)
  BY <1>4, <1>9, <1>10, <1>11, Create
<1>13. \A r \in Thread : NoRepeat(processes'[r].wait_queue)
  BY <1>7, <1>8 DEF OwnInv
<1> QED BY <1>1, <1>6, <1>12, <1>13, OwnInvNext DEF OwnInv

\* Every step.
LEMMA OwnStep ==
  ASSUME TypeInv, OwnInv, [Next]_vars
  PROVE  OwnInv'
<1>1. CASE UNCHANGED <<run_queue, current, irq_waiters, endpoints, processes>>
  BY <1>1 DEF OwnInv
<1>2. CASE SysSend \/ SysRecv
  BY <1>2, OwnIpc
<1>3. CASE SysSpawn \/ SysThreadSpawn
  BY <1>3, OwnSpawn
<1>4. CASE Timer \/ BootYield \/ IdleResume \/ SysYield
  BY <1>4, OwnSwitch
    DEF Timer, BootYield, IdleResume, SysYield, irqVars, ipcVars, processVars
<1>5. CASE sys_endpoint_create \/ FatalException \/ UNCHANGED vars
  BY <1>1, <1>5 DEF sys_endpoint_create, FatalException, fatal_exception, vars,
                    switchVars, irqVars, ipcVars, processVars
<1> QED
  BY <1>2, <1>3, <1>4, <1>5, OwnWait, OwnExit, OwnWaitIrq, OwnDeviceIrq
    DEF Next, Halted

=============================================================================
