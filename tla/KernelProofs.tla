---------------------------- MODULE KernelProofs ----------------------------
(***************************************************************************)
(* The safety theorems of the kernel, for any number of threads,           *)
(* endpoints, messages and interrupt lines.                                *)
(***************************************************************************)
EXTENDS KernelTypeProofs, WellFoundedInduction

-----------------------------------------------------------------------------
(* Messages.                                                               *)

\* WaitingMessagesInOrder for one endpoint.
EndpointInOrder(ep, next, del) ==
  /\ ep.state = "SendersWaiting" =>
       /\ \A i \in DOMAIN ep.queue : ep.queue[i].msg \in 1..(next - 1) \ del
       /\ \A i, j \in DOMAIN ep.queue :
            i < j => ep.queue[i].msg < ep.queue[j].msg
  /\ ep.state = "ReceiversWaiting" =>
       \A i \in DOMAIN ep.queue : ep.queue[i].msg = ZeroMsg
  /\ ep.state = "Idle" => ep.queue = <<>>

\* No message waits at two endpoints.  Without this a message delivered at
\* one endpoint could still be waiting at another.
Apart(a, b) ==
  a.state = "SendersWaiting" /\ b.state = "SendersWaiting" =>
    \A i \in DOMAIN a.queue : \A j \in DOMAIN b.queue :
      a.queue[i].msg # b.queue[j].msg

InOrder(eps, next, del) ==
  /\ \A e \in Endpoint : EndpointInOrder(eps[e], next, del)
  /\ \A e, f \in Endpoint : e # f => Apart(eps[e], eps[f])
  /\ del \subseteq 1..(next - 1)

OrderInv == InOrder(endpoints, next_msg, delivered)

\* The strengthening implies the property.
LEMMA OrderInvImplies == OrderInv => WaitingMessagesInOrder
BY DEF OrderInv, InOrder, EndpointInOrder, WaitingMessagesInOrder

\* It holds initially.
LEMMA OrderInvInit == Init => OrderInv
BY DEF Init, IpcInit, OrderInv, InOrder, EndpointInOrder, Apart

\* Raising next_msg, and delivering the message just numbered, keeps it.
LEMMA RaiseNext ==
  ASSUME NEW ep, NEW next \in Nat, NEW del,
         EndpointInOrder(ep, next, del)
  PROVE  /\ EndpointInOrder(ep, next + 1, del)
         /\ EndpointInOrder(ep, next + 1, del \cup {next})
BY DEF EndpointInOrder

\* The endpoint after pop_front.
LEMMA DequeueOrder ==
  ASSUME NEW S, NEW ep \in EndpointValue(S),
         ep.queue # <<>>, NEW next \in Nat, NEW del,
         EndpointInOrder(ep, next, del),
         NEW new, new = [ep EXCEPT !.queue = Tail(@)]
  PROVE  /\ EndpointInOrder(new, next, del)
         /\ ep.state = "SendersWaiting" =>
              EndpointInOrder(new, next, del \cup {Head(ep.queue).msg})
         /\ \A other : Apart(other, ep) => Apart(other, new)
         /\ \A other : Apart(ep, other) => Apart(new, other)
<1> DEFINE q == ep.queue
           m == Head(q).msg
<1>1. /\ new.state = ep.state /\ new.queue = Tail(q)
      /\ q \in Seq(QueueEntry(S))
  BY DEF EndpointValue
<1>2. /\ Tail(q) \in Seq(QueueEntry(S))
      /\ Len(q) \in Nat \ {0} /\ Len(Tail(q)) = Len(q) - 1
      /\ DOMAIN q = 1..Len(q) /\ DOMAIN Tail(q) = 1..(Len(q) - 1)
      /\ \A i \in 1..(Len(q) - 1) : Tail(q)[i] = q[i + 1]
      /\ Head(q) = q[1]
  BY <1>1, HeadTailProperties
<1>3. \A i \in DOMAIN Tail(q) : i + 1 \in DOMAIN q /\ Tail(q)[i] = q[i + 1]
                                /\ i \in Nat \ {0}
  BY <1>2
<1>4. ep.state \in {"SendersWaiting", "ReceiversWaiting"}
  BY DEF EndpointInOrder, EndpointValue
<1>5. EndpointInOrder(new, next, del)
  <2>1. CASE ep.state = "SendersWaiting"
    <3>1. \A i \in DOMAIN Tail(q) : Tail(q)[i].msg \in 1..(next - 1) \ del
      BY <1>3, <2>1 DEF EndpointInOrder
    <3>2. \A i, j \in DOMAIN Tail(q) : i < j => Tail(q)[i].msg < Tail(q)[j].msg
      <4> SUFFICES ASSUME NEW i \in DOMAIN Tail(q), NEW j \in DOMAIN Tail(q), i < j
                   PROVE  q[i + 1].msg < q[j + 1].msg
        BY <1>3
      <4>1. i + 1 \in DOMAIN q /\ j + 1 \in DOMAIN q /\ i + 1 < j + 1
        BY <1>3
      <4> QED BY <2>1, <4>1 DEF EndpointInOrder
    <3> QED BY <1>1, <2>1, <3>1, <3>2 DEF EndpointInOrder
  <2>2. CASE ep.state = "ReceiversWaiting"
    BY <1>1, <1>3, <2>2 DEF EndpointInOrder
  <2> QED BY <1>4, <2>1, <2>2
<1>6. ASSUME ep.state = "SendersWaiting"
      PROVE  EndpointInOrder(new, next, del \cup {m})
  <2>1. \A i \in DOMAIN q : q[i].msg \in 1..(next - 1)
    BY <1>6 DEF EndpointInOrder
  <2>2. 1 \in DOMAIN q
    BY <1>2
  <2>3. \A i \in DOMAIN Tail(q) : Tail(q)[i].msg # m
    <3> SUFFICES ASSUME NEW i \in DOMAIN Tail(q)
                 PROVE  Tail(q)[i].msg # m
      OBVIOUS
    <3>1. i + 1 \in DOMAIN q /\ 1 < i + 1 /\ Tail(q)[i] = q[i + 1]
      BY <1>3
    <3>2. q[1].msg < q[i + 1].msg
      BY <1>6, <2>2, <3>1 DEF EndpointInOrder
    <3>3. q[1].msg \in 1..(next - 1) /\ q[i + 1].msg \in 1..(next - 1)
      BY <2>1, <2>2, <3>1
    <3> QED BY <1>2, <3>1, <3>2, <3>3
  <2> QED BY <1>1, <1>5, <1>6, <2>3 DEF EndpointInOrder
<1>7. \A other : /\ Apart(other, ep) => Apart(other, new)
                 /\ Apart(ep, other) => Apart(new, other)
  BY <1>1, <1>3 DEF Apart
<1> QED BY <1>5, <1>6, <1>7, Zenon

\* The endpoint after push_back of thread t with message m.
Joined(ep, t, variant, m) ==
  [state |-> variant, queue |-> Append(ep.queue, Waiting(t, m))]

\* A sender joins with the message just numbered, a receiver with none.
MayJoin(ep, variant, m, next) ==
  /\ m \in Msg \cup {ZeroMsg}
  /\ \/ /\ variant = "SendersWaiting" /\ m = next
        /\ ep.state # "ReceiversWaiting"
     \/ /\ variant = "ReceiversWaiting" /\ m = ZeroMsg
        /\ ep.state # "SendersWaiting"

\* Joining keeps the order, and the message apart from all others.
LEMMA EnqueueOrder ==
  ASSUME NEW S, NEW ep \in EndpointValue(S), NEW t \in S,
         NEW next \in Nat \ {0}, NEW del, next \notin del,
         EndpointInOrder(ep, next, del),
         NEW variant, NEW m, MayJoin(ep, variant, m, next)
  PROVE  LET new == Joined(ep, t, variant, m)
         IN  /\ EndpointInOrder(new, next + 1, del)
             /\ variant = "ReceiversWaiting" => EndpointInOrder(new, next, del)
             /\ \A other : /\ EndpointInOrder(other, next, del)
                           /\ Apart(other, ep) /\ Apart(ep, other)
                           => Apart(other, new) /\ Apart(new, other)
<1> DEFINE new == Joined(ep, t, variant, m)
<1> SUFFICES /\ EndpointInOrder(new, next + 1, del)
             /\ variant = "ReceiversWaiting" => EndpointInOrder(new, next, del)
             /\ \A other : /\ EndpointInOrder(other, next, del)
                           /\ Apart(other, ep) /\ Apart(ep, other)
                           => Apart(other, new) /\ Apart(new, other)
  OBVIOUS
<1> USE DEF MayJoin
<1> DEFINE q == ep.queue
           a == Append(q, Waiting(t, m))
           n == Len(q) + 1
<1>1. /\ new.state = variant /\ new.queue = a
      /\ q \in Seq(QueueEntry(S))
      /\ Waiting(t, m) \in QueueEntry(S) /\ Waiting(t, m).msg = m
  BY DEF Waiting, QueueEntry, EndpointValue, Joined
<1>2. /\ Len(q) \in Nat /\ DOMAIN q = 1..Len(q) /\ DOMAIN a = 1..n
      /\ \A i \in 1..Len(q) : a[i] = q[i]
      /\ a[n] = Waiting(t, m)
  BY <1>1, AppendProperties
<1> HIDE DEF a, new
<1>3. \A i \in DOMAIN a : (i \in DOMAIN q /\ a[i] = q[i]) \/ (i = n /\ a[i].msg = m)
  BY <1>1, <1>2
<1>4. CASE variant = "SendersWaiting"
  <2>1. m = next /\ (ep.state = "SendersWaiting" \/ q = <<>>)
    BY <1>4 DEF EndpointInOrder, EndpointValue
  <2>2. \A i \in DOMAIN q : q[i].msg \in 1..(next - 1) \ del
    BY <2>1 DEF EndpointInOrder
  <2>3. \A i, j \in DOMAIN q : i < j => q[i].msg < q[j].msg
    BY <2>1 DEF EndpointInOrder
  <2>4. \A i \in DOMAIN a : a[i].msg \in 1..((next + 1) - 1) \ del
    BY <1>3, <2>1, <2>2
  <2>5. \A i, j \in DOMAIN a : i < j => a[i].msg < a[j].msg
    <3> SUFFICES ASSUME NEW i \in DOMAIN a, NEW j \in DOMAIN a, i < j
                 PROVE  a[i].msg < a[j].msg
      OBVIOUS
    <3>1. i \in DOMAIN q /\ a[i] = q[i] /\ q[i].msg \in 1..(next - 1)
      BY <1>2, <1>3, <2>2
    <3>2. CASE j \in DOMAIN q /\ a[j] = q[j]
      BY <2>3, <3>1, <3>2
    <3>3. CASE j = n /\ a[j].msg = m
      BY <2>1, <3>1, <3>3
    <3> QED BY <1>3, <3>2, <3>3
  <2>6. EndpointInOrder(new, next + 1, del)
    BY <1>1, <1>4, <2>4, <2>5 DEF EndpointInOrder
  <2>7. ASSUME NEW other, EndpointInOrder(other, next, del),
               Apart(other, ep), Apart(ep, other),
               other.state = "SendersWaiting",
               NEW i \in DOMAIN other.queue, NEW j \in DOMAIN a
        PROVE  other.queue[i].msg # a[j].msg
    <3>1. other.queue[i].msg \in 1..(next - 1)
      BY <2>7 DEF EndpointInOrder
    <3>2. CASE j = n /\ a[j].msg = m
      BY <2>1, <3>1, <3>2
    <3>3. CASE j \in DOMAIN q /\ a[j] = q[j]
      <4>1. ep.state = "SendersWaiting"
        BY <1>2, <2>1, <3>3
      <4> QED BY <2>7, <3>3, <4>1 DEF Apart
    <3> QED BY <1>3, <3>2, <3>3
  <2>8. \A other : /\ EndpointInOrder(other, next, del)
                   /\ Apart(other, ep) /\ Apart(ep, other)
                   => Apart(other, new) /\ Apart(new, other)
    <3> SUFFICES ASSUME NEW other, EndpointInOrder(other, next, del),
                        Apart(other, ep), Apart(ep, other)
                 PROVE  Apart(other, new) /\ Apart(new, other)
      OBVIOUS
    <3> QED BY <1>1, <2>7 DEF Apart
  <2> QED BY <1>4, <2>6, <2>8
<1>5. CASE variant = "ReceiversWaiting"
  <2>1. m = ZeroMsg /\ (ep.state = "ReceiversWaiting" \/ q = <<>>)
    BY <1>5 DEF EndpointInOrder, EndpointValue
  <2>2. \A i \in DOMAIN q : q[i].msg = ZeroMsg
    BY <2>1 DEF EndpointInOrder
  <2>3. \A i \in DOMAIN a : a[i].msg = ZeroMsg
    BY <1>3, <2>1, <2>2
  <2> QED BY <1>1, <1>5, <2>3 DEF EndpointInOrder, Apart
<1> QED BY <1>4, <1>5

\* The other endpoints do not change.
LEMMA OthersKept ==
  ASSUME NEW e \in Endpoint, NEW next \in Nat, NEW del,
         NEW old, NEW new, NEW ep,
         \A f \in Endpoint : f # e => new[f] = old[f],
         new[e] = ep,
         EndpointInOrder(ep, next, del),
         \A f \in Endpoint : f # e => EndpointInOrder(old[f], next, del),
         \A f \in Endpoint : f # e => Apart(old[f], ep) /\ Apart(ep, old[f]),
         \A f, g \in Endpoint : f # g => Apart(old[f], old[g]),
         del \subseteq 1..(next - 1)
  PROVE  InOrder(new, next, del)
<1>1. \A f \in Endpoint : EndpointInOrder(new[f], next, del)
  OBVIOUS
<1>2. ASSUME NEW f \in Endpoint, NEW g \in Endpoint, f # g
      PROVE  Apart(new[f], new[g])
  <2>1. CASE f = e
    BY <1>2, <2>1
  <2>2. CASE g = e
    BY <1>2, <2>2
  <2>3. CASE f # e /\ g # e
    BY <1>2, <2>3
  <2> QED BY <2>1, <2>2, <2>3
<1> QED BY <1>1, <1>2 DEF InOrder

\* Taking the first waiting sender's message, or giving the message just
\* numbered to the first waiting receiver.
LEMMA DeliverOrder ==
  ASSUME TypeInv, OrderInv, NEW e \in Endpoint, endpoints[e].queue # <<>>,
         NEW m, NEW r, NEW w, Deliver(e, m, r, w),
         \/ /\ endpoints[e].state = "ReceiversWaiting"
            /\ m = next_msg /\ next_msg' = next_msg + 1
         \/ /\ endpoints[e].state = "SendersWaiting"
            /\ m = Head(endpoints[e].queue).msg /\ next_msg' = next_msg
  PROVE  OrderInv'
<1> DEFINE ep == endpoints[e]
           new == [ep EXCEPT !.queue = Tail(@)]
<1>1. /\ ep \in EndpointValue(Created) /\ DOMAIN endpoints = Endpoint /\ next_msg \in Nat \ {0}
  BY EndpointType
<1>2. /\ endpoints' = [endpoints EXCEPT ![e] = new]
      /\ delivered' = delivered \cup {m}
  BY DEF Deliver, Dequeue
<1>3. /\ endpoints'[e] = new
      /\ \A f \in Endpoint : f # e => endpoints'[f] = endpoints[f]
      /\ new = [ep EXCEPT !.queue = Tail(@)]
  BY <1>1, <1>2
<1>4. /\ \A f \in Endpoint : EndpointInOrder(endpoints[f], next_msg, delivered)
      /\ \A f, g \in Endpoint : f # g => Apart(endpoints[f], endpoints[g])
      /\ delivered \subseteq 1..(next_msg - 1)
  BY DEF OrderInv, InOrder
<1> HIDE DEF ep, new
<1>5. /\ EndpointInOrder(new, next_msg, delivered)
      /\ ep.state = "SendersWaiting" =>
           EndpointInOrder(new, next_msg, delivered \cup {Head(ep.queue).msg})
      /\ \A other : Apart(other, ep) => Apart(other, new)
      /\ \A other : Apart(ep, other) => Apart(new, other)
  <2>1. EndpointInOrder(ep, next_msg, delivered) /\ ep.queue # <<>> /\ next_msg \in Nat
    BY <1>1, <1>4 DEF ep
  <2> QED BY <1>1, <1>3, <2>1, DequeueOrder, Zenon
<1>6. \A f \in Endpoint : f # e =>
        Apart(endpoints[f], new) /\ Apart(new, endpoints[f])
  BY <1>4, <1>5 DEF ep
<1>7. /\ next_msg' \in Nat
      /\ EndpointInOrder(new, next_msg', delivered')
      /\ \A f \in Endpoint : f # e =>
           EndpointInOrder(endpoints[f], next_msg', delivered')
      /\ delivered' \subseteq 1..(next_msg' - 1)
  <2>1. CASE ep.state = "ReceiversWaiting"
    <3>1. m = next_msg /\ next_msg' = next_msg + 1
      BY <2>1 DEF ep
    <3>2. \A f \in Endpoint :
            EndpointInOrder(endpoints[f], next_msg + 1, delivered \cup {next_msg})
      BY <1>1, <1>4, RaiseNext, Zenon
    <3>3. EndpointInOrder(new, next_msg + 1, delivered \cup {next_msg})
      BY <1>1, <1>5, RaiseNext
    <3>4. delivered' \subseteq 1..(next_msg' - 1)
      BY <1>1, <1>2, <1>4, <3>1
    <3>5. delivered' = delivered \cup {next_msg} /\ next_msg' \in Nat
      BY <1>1, <1>2, <3>1
    <3> QED BY <3>1, <3>2, <3>3, <3>4, <3>5, Zenon
  <2>2. CASE ep.state = "SendersWaiting"
    <3>1. m = Head(ep.queue).msg /\ next_msg' = next_msg
      BY <2>2 DEF ep
    <3>2. /\ Head(ep.queue) = ep.queue[1] /\ 1 \in DOMAIN ep.queue
      BY <1>1 DEF EndpointValue, ep
    <3>3. m \in 1..(next_msg - 1)
      BY <1>4, <2>2, <3>1, <3>2 DEF EndpointInOrder, ep
    <3>4. ASSUME NEW f \in Endpoint, f # e
          PROVE  EndpointInOrder(endpoints[f], next_msg, delivered \cup {m})
      <4>1. Apart(ep, endpoints[f]) /\ EndpointInOrder(endpoints[f], next_msg, delivered)
        BY <1>4, <3>4 DEF ep
      <4> DEFINE other == endpoints[f]
      <4>2. other.state = "SendersWaiting" =>
              \A i \in DOMAIN other.queue : other.queue[i].msg # m
        BY <2>2, <3>1, <3>2, <4>1, Zenon DEF Apart
      <4> HIDE DEF other
      <4>3. EndpointInOrder(other, next_msg, delivered)
        BY <4>1 DEF other
      <4>4. EndpointInOrder(other, next_msg, delivered \cup {m})
        BY <4>2, <4>3 DEF EndpointInOrder
      <4> QED BY <4>4 DEF other
    <3> QED BY <1>1, <1>2, <1>4, <1>5, <2>2, <3>1, <3>3, <3>4, Zenon
  <2> QED BY <2>1, <2>2 DEF ep
<1>8. InOrder(endpoints', next_msg', delivered')
  BY <1>3, <1>4, <1>6, <1>7, OthersKept, Zenon
<1> QED BY <1>8 DEF OrderInv

\* Waiting at an endpoint with the message just numbered, or to receive.
LEMMA EnqueueStepOrder ==
  ASSUME TypeInv, OrderInv, NEW e \in Endpoint, current \in Created,
         NEW variant, NEW m,
         endpoints' = Enqueue(e, variant, Waiting(current, m)),
         delivered' = delivered,
         m \in Msg \cup {ZeroMsg},
         \/ /\ variant = "SendersWaiting" /\ m = next_msg
            /\ endpoints[e].state # "ReceiversWaiting"
            /\ next_msg' = next_msg + 1
         \/ /\ variant = "ReceiversWaiting" /\ m = ZeroMsg
            /\ endpoints[e].state # "SendersWaiting"
            /\ next_msg' = next_msg
  PROVE  OrderInv'
<1> DEFINE ep == endpoints[e]
           new == Joined(ep, current, variant, m)
<1>1. /\ ep \in EndpointValue(Created) /\ DOMAIN endpoints = Endpoint /\ next_msg \in Nat \ {0}
  BY EndpointType
<1>2. /\ \A f \in Endpoint : EndpointInOrder(endpoints[f], next_msg, delivered)
      /\ \A f, g \in Endpoint : f # g => Apart(endpoints[f], endpoints[g])
      /\ delivered \subseteq 1..(next_msg - 1)
      /\ next_msg \notin delivered
  BY <1>1 DEF OrderInv, InOrder
<1>3. /\ endpoints'[e] = new
      /\ \A f \in Endpoint : f # e => endpoints'[f] = endpoints[f]
  BY <1>1 DEF Enqueue, Joined
<1>4. /\ EndpointInOrder(new, next_msg + 1, delivered)
      /\ variant = "ReceiversWaiting" => EndpointInOrder(new, next_msg, delivered)
      /\ \A other : /\ EndpointInOrder(other, next_msg, delivered)
                    /\ Apart(other, ep) /\ Apart(ep, other)
                    => Apart(other, new) /\ Apart(new, other)
  <2>1. EndpointInOrder(ep, next_msg, delivered) /\ MayJoin(ep, variant, m, next_msg)
    BY <1>2 DEF MayJoin
  <2> HIDE DEF ep
  <2> QED BY <1>1, <1>2, <2>1, EnqueueOrder
<1> HIDE DEF new
<1>5. \A f \in Endpoint : f # e =>
        Apart(endpoints[f], new) /\ Apart(new, endpoints[f])
  BY <1>2, <1>4
<1>6. /\ next_msg' \in Nat
      /\ EndpointInOrder(new, next_msg', delivered)
      /\ \A f \in Endpoint : f # e =>
           EndpointInOrder(endpoints[f], next_msg', delivered)
      /\ delivered \subseteq 1..(next_msg' - 1)
  <2>1. CASE next_msg' = next_msg + 1
    <3>1. \A f \in Endpoint : EndpointInOrder(endpoints[f], next_msg + 1, delivered)
      BY <1>1, <1>2, RaiseNext, Zenon
    <3> QED BY <1>1, <1>2, <1>4, <2>1, <3>1
  <2>2. CASE next_msg' = next_msg /\ variant = "ReceiversWaiting"
    BY <1>1, <1>2, <1>4, <2>2
  <2> QED BY <2>1, <2>2
<1>7. InOrder(endpoints', next_msg', delivered)
  <2>1. \A f, g \in Endpoint : f # g => Apart(endpoints[f], endpoints[g])
    BY <1>2
  <2> DEFINE eps == endpoints'
             next == next_msg'
  <2>2. /\ next \in Nat /\ eps[e] = new
        /\ \A f \in Endpoint : f # e => eps[f] = endpoints[f]
    BY <1>3, <1>6
  <2>3. /\ EndpointInOrder(new, next, delivered)
        /\ \A f \in Endpoint : f # e =>
             EndpointInOrder(endpoints[f], next, delivered)
        /\ delivered \subseteq 1..(next - 1)
    BY <1>6, Zenon
  <2> HIDE DEF eps, next
  <2>4. InOrder(eps, next, delivered)
    BY <1>5, <2>1, <2>2, <2>3, OthersKept, Zenon
  <2> QED BY <2>4 DEF eps, next
<1> QED BY <1>7 DEF OrderInv

\* Only sys_send and sys_recv touch the endpoints.
LEMMA OrderStep ==
  ASSUME TypeInv, OrderInv, [Next]_vars
  PROVE  OrderInv'
<1>1. CASE UNCHANGED ipcVars
  BY <1>1 DEF ipcVars, OrderInv
<1>2. CASE SysSend
  <2>1. PICK h \in Handle : /\ Holds(h, "Endpoint", {"SEND"})
                            /\ sys_send(Get(CurrentCSpace, h).obj)
    BY <1>2 DEF SysSend
  <2> DEFINE e == Get(CurrentCSpace, h).obj
  <2>2. e \in Endpoint /\ current \in Created
    <3>1. InUser
      BY <1>2 DEF SysSend
    <3> QED BY <2>1, <3>1, HeldObject, Caller
  <2>3. sys_send(e)
    BY <2>1
  <2> HIDE DEF e
  <2>4. /\ next_msg' = next_msg + 1
        /\ next_msg \in Msg
    <3>1. next_msg' = next_msg + 1 /\ next_msg <= MaxMsgs
      BY <2>3 DEF sys_send
    <3>2. next_msg \in 1..(MaxMsgs + 1) /\ MaxMsgs \in Nat
      BY IpcAssumption DEF TypeInv, IpcValues
    <3> QED BY <3>1, <3>2 DEF Msg
  <2>5. CASE endpoints[e].state = "ReceiversWaiting" /\ endpoints[e].queue # <<>>
    BY <2>2, <2>3, <2>4, <2>5, DeliverOrder DEF sys_send
  <2>6. CASE endpoints[e].state # "ReceiversWaiting"
    <3>1. /\ endpoints' = Enqueue(e, "SendersWaiting", Waiting(current, next_msg))
          /\ delivered' = delivered
      BY <2>3, <2>6 DEF sys_send
    <3> QED BY <2>2, <2>4, <2>6, <3>1, EnqueueStepOrder
  <2>7. CASE endpoints[e].state = "ReceiversWaiting" /\ endpoints[e].queue = <<>>
    <3>1. endpoints' = endpoints /\ delivered' = delivered
      BY <2>3, <2>7 DEF sys_send
    <3>2. next_msg \in Nat
      BY DEF TypeInv, IpcValues
    <3>3. \A f \in Endpoint : EndpointInOrder(endpoints[f], next_msg + 1, delivered)
      BY <3>2, RaiseNext, Zenon DEF OrderInv, InOrder
    <3> QED BY <2>4, <3>1, <3>2, <3>3 DEF OrderInv, InOrder
  <2> QED BY <2>5, <2>6, <2>7
<1>3. CASE SysRecv
  <2>1. PICK h \in Handle : /\ Holds(h, "Endpoint", {"RECEIVE"})
                            /\ sys_recv(Get(CurrentCSpace, h).obj)
    BY <1>3 DEF SysRecv
  <2> DEFINE e == Get(CurrentCSpace, h).obj
  <2>2. e \in Endpoint /\ current \in Created
    <3>1. InUser
      BY <1>3 DEF SysRecv
    <3> QED BY <2>1, <3>1, HeldObject, Caller
  <2>3. sys_recv(e)
    BY <2>1
  <2> HIDE DEF e
  <2>4. next_msg' = next_msg
    BY <2>3 DEF sys_recv
  <2>5. CASE endpoints[e].state = "SendersWaiting" /\ endpoints[e].queue # <<>>
    BY <2>2, <2>3, <2>4, <2>5, DeliverOrder DEF sys_recv
  <2>6. CASE endpoints[e].state # "SendersWaiting"
    <3>1. /\ endpoints' = Enqueue(e, "ReceiversWaiting", Waiting(current, ZeroMsg))
          /\ delivered' = delivered
      BY <2>3, <2>6 DEF sys_recv
    <3> QED BY <2>2, <2>4, <2>6, <3>1, EnqueueStepOrder
  <2>7. CASE endpoints[e].state = "SendersWaiting" /\ endpoints[e].queue = <<>>
    BY <2>3, <2>4, <2>7 DEF sys_recv, OrderInv
  <2> QED BY <2>5, <2>6, <2>7
<1>4. SysSend \/ SysRecv \/ UNCHANGED ipcVars
  BY DEF Next, vars, sys_endpoint_create, SysSpawn, SysThreadSpawn, SysWait,
         SysExit, FatalException, SysWaitIrq, SysYield, Timer, DeviceIrq,
         BootYield, IdleResume, Halted
<1> QED BY <1>1, <1>2, <1>3, <1>4

-----------------------------------------------------------------------------
(* Interrupts and waiting for processes.                                   *)

\* A blocked interrupt waiter is never on a line marked pending.
LEMMA IrqInvStep ==
  ASSUME TypeInv, NoMissedIrq, [Next]_vars
  PROVE  NoMissedIrq'
<1>1. /\ irq_waiters \in [Irq -> Created \cup {NoThread}]
      /\ pending_irqs \in [Irq -> BOOLEAN]
  BY DEF TypeInv, IrqValues
<1>2. CASE UNCHANGED irqVars
  BY <1>2 DEF irqVars, NoMissedIrq
<1>3. CASE DeviceIrq
  BY <1>1, <1>3 DEF DeviceIrq, unblock_irq, NoMissedIrq
<1>4. CASE SysWaitIrq
  <2>1. PICK h \in Handle : sys_wait_irq(Get(CurrentCSpace, h).obj)
    BY <1>4 DEF SysWaitIrq
  <2> QED BY <1>1, <2>1 DEF sys_wait_irq, NoMissedIrq
<1>5. DeviceIrq \/ SysWaitIrq \/ UNCHANGED irqVars
  BY DEF Next, vars, sys_endpoint_create, SysSend, SysRecv, SysSpawn,
         SysThreadSpawn, SysWait, SysExit, FatalException, SysYield, Timer,
         BootYield, IdleResume, Halted
<1> QED BY <1>2, <1>3, <1>4, <1>5

\* A process marked terminated has no waiters.
LEMMA DeadInvStep ==
  ASSUME TypeInv, NobodyWaitsOnTheDead, [Next]_vars
  PROVE  NobodyWaitsOnTheDead'
<1>1. processes \in [Thread -> [terminated : BOOLEAN, wait_queue : Seq(Created)]]
  BY DEF TypeInv, ProcessValues
<1>2. CASE UNCHANGED processes
  BY <1>2 DEF NobodyWaitsOnTheDead
<1>3. CASE SysSpawn
  <2>1. processes' = [processes EXCEPT ![next_id] = NewProcessState]
    BY <1>3 DEF SysSpawn, sys_spawn
  <2> QED BY <1>1, <2>1 DEF NobodyWaitsOnTheDead, NewProcessState
<1>4. CASE SysExit
  <2>1. processes' = [processes EXCEPT ![process_of[current]] =
                        [terminated |-> TRUE, wait_queue |-> <<>>]]
    BY <1>4 DEF SysExit, exit_current_thread
  <2> QED BY <1>1, <2>1 DEF NobodyWaitsOnTheDead
<1>5. CASE SysWait
  <2>1. PICK h \in Handle : sys_wait(Get(CurrentCSpace, h).obj)
    BY <1>5 DEF SysWait
  <2> DEFINE p == Get(CurrentCSpace, h).obj
  <2>2. \/ UNCHANGED processes
        \/ /\ ~processes[p].terminated
           /\ processes' = [processes EXCEPT
                              ![p].wait_queue = PushBack(@, current)]
    BY <2>1 DEF sys_wait
  <2> HIDE DEF p
  <2> QED BY <1>1, <2>2, Zenon DEF NobodyWaitsOnTheDead
<1>6. SysSpawn \/ SysExit \/ SysWait \/ UNCHANGED processes
  BY DEF Next, vars, processVars, sys_endpoint_create, SysSend, SysRecv,
         SysThreadSpawn, sys_thread_spawn, FatalException, SysWaitIrq, SysYield,
         Timer, DeviceIrq, BootYield, IdleResume, Halted
<1> QED BY <1>2, <1>3, <1>4, <1>5, <1>6

-----------------------------------------------------------------------------
(* Capabilities.                                                           *)

\* A non-empty set of natural numbers has a least element.
LEMMA Smallest ==
  ASSUME NEW T, T \subseteq Nat, T # {}
  PROVE  \E x \in T : \A y \in T : x <= y
<1>1. PICK x \in T : \A y \in T : ~ (<<y, x>> \in OpToRel(<, Nat))
  BY NatLessThanWellFounded, WFMin, Zenon
<1>2. \A y \in T : ~ (y < x)
  BY <1>1, Zenon DEF OpToRel
<1> QED BY <1>2

\* Every capability of old is still at its handle in new.
Keeps(old, new) ==
  \A i \in DOMAIN old : old[i] # NoCap => i \in DOMAIN new /\ new[i] = old[i]

\* CSpace::insert overwrites no capability.
LEMMA InsertKeeps ==
  ASSUME NEW cs \in Slots, NEW cap
  PROVE  Keeps(cs, Insert(cs, cap))
<1> DEFINE Slot == Capability \cup {NoCap}
<1>1. /\ cs \in Seq(Slot) /\ Len(cs) \in Nat /\ DOMAIN cs = 1..Len(cs)
  BY DEF Slots
<1> HIDE DEF Slot
<1>2. CASE FreeSlots(cs) = {}
  <2>1. Insert(cs, cap) = Append(cs, cap)
    BY <1>2 DEF Insert
  <2>2. \A i \in DOMAIN cs : i \in DOMAIN Append(cs, cap) /\ Append(cs, cap)[i] = cs[i]
    BY <1>1
  <2> QED BY <2>1, <2>2 DEF Keeps
<1>3. CASE FreeSlots(cs) # {}
  <2> DEFINE first == CHOOSE i \in FreeSlots(cs) :
                        \A j \in FreeSlots(cs) : i <= j
  <2>1. Insert(cs, cap) = [cs EXCEPT ![first] = cap]
    BY <1>3 DEF Insert
  <2>2. FreeSlots(cs) \subseteq Nat
    BY <1>1 DEF FreeSlots
  <2>3. first \in FreeSlots(cs)
    BY <1>3, <2>2, Smallest
  <2> HIDE DEF first
  <2> QED BY <2>1, <2>3 DEF Keeps, FreeSlots
<1> QED BY <1>2, <1>3

\* No step overwrites a capability of an existing process.
LEMMA StableStep ==
  ASSUME TypeInv, [Next]_vars, NEW p \in 1..(next_id - 1)
  PROVE  Keeps(cspaces[p], cspaces'[p])
<1>1. /\ cspaces \in [Thread -> Slots] /\ p \in Thread /\ p # next_id
      /\ next_id \in Nat
  BY CreatedThreads DEF TypeInv, CSpaceValues, Created
<1>2. CASE UNCHANGED cspaces
  BY <1>2 DEF Keeps
<1>3. CASE sys_endpoint_create
  <2>1. PICK cap : cspaces' = [cspaces EXCEPT ![process_of[current]] = Insert(@, cap)]
    BY <1>3, Zenon DEF sys_endpoint_create
  <2>2. cspaces'[p] = cspaces[p] \/ cspaces'[p] = Insert(cspaces[p], cap)
    BY <1>1, <2>1
  <2> QED BY <1>1, <2>2, InsertKeeps DEF Keeps
<1>4. CASE SysSpawn
  <2>1. PICK child, cap :
          cspaces' = [cspaces EXCEPT ![next_id] = child,
                                     ![process_of[current]] = Insert(@, cap)]
    BY <1>4, Zenon DEF SysSpawn, sys_spawn
  <2>2. cspaces'[p] = cspaces[p] \/ cspaces'[p] = Insert(cspaces[p], cap)
    BY <1>1, <2>1
  <2> QED BY <1>1, <2>2, InsertKeeps DEF Keeps
<1>5. sys_endpoint_create \/ SysSpawn \/ UNCHANGED cspaces
  BY Zenon DEF Next, vars, processVars, SysSend, SysRecv, SysThreadSpawn,
         sys_thread_spawn, SysWait, sys_wait, SysExit, exit_current_thread,
         FatalException, SysWaitIrq, SysYield, Timer, DeviceIrq, BootYield,
         IdleResume, Halted
<1> QED BY <1>2, <1>3, <1>4, <1>5

-----------------------------------------------------------------------------
(* The theorems.                                                           *)

\* The inductive step for the types.
LEMMA TypeInvStep ==
  ASSUME TypeInv, OrderInv, [Next]_vars
  PROVE  TypeInv'
<1>1. WaitingMessagesInOrder
  BY OrderInvImplies
<1>2. CASE UNCHANGED vars
  BY <1>2 DEF vars, switchVars, irqVars, ipcVars, processVars, TypeInv,
              SwitchOK, Created
<1>3. CASE SysSend \/ SysRecv
  BY <1>1, <1>3, IpcStep
<1>4. CASE sys_endpoint_create
  BY <1>4, EndpointCreateStep
<1>5. CASE SysSpawn \/ SysThreadSpawn
  BY <1>5, SpawnStep, ThreadSpawnStep
<1>6. CASE SysExit \/ SysWait \/ FatalException
  BY <1>6, ProcessStep
<1>7. CASE DeviceIrq \/ SysWaitIrq
  BY <1>7, IrqStep
<1>8. CASE Timer \/ BootYield \/ IdleResume \/ SysYield
  BY <1>8, SwitchingStep
<1> QED
  BY <1>2, <1>3, <1>4, <1>5, <1>6, <1>7, <1>8 DEF Next, Halted

\* The inductive invariant of the kernel.
THEOREM Invariance == Spec => [](TypeInv /\ OrderInv)
<1>1. Init => TypeInv /\ OrderInv
  BY TypeInvInit, OrderInvInit
<1>2. TypeInv /\ OrderInv /\ [Next]_vars => (TypeInv /\ OrderInv)'
  BY TypeInvStep, OrderStep
<1> QED BY <1>1, <1>2, PTL DEF Spec

\* Every variable keeps its type, whatever the threads do.
THEOREM TypeCorrect == Spec => []TypeOK
<1>1. TypeInv => TypeOK
  BY TypeInvImplies
<1> QED BY <1>1, Invariance, PTL

\* prepare_thread_switch and the idle loop leave the kernel stack of the
\* thread that is running, or that is idling, installed.
THEOREM StackTheorem == Spec => []KernelStackIsCurrents
<1>1. TypeInv => KernelStackIsCurrents
  BY TypeInvImplies
<1> QED BY <1>1, Invariance, PTL

\* No system call puts a capability for an object that does not exist into
\* a CSpace.
THEOREM CapabilityTheorem == Spec => []CapabilitiesValid
<1>1. TypeInv => CapabilitiesValid
  BY TypeInvImplies
<1> QED BY <1>1, Invariance, PTL

\* sys_send and sys_recv keep the waiting messages in the order of sending
\* and never deliver one twice.
THEOREM OrderTheorem == Spec => []WaitingMessagesInOrder
<1>1. OrderInv => WaitingMessagesInOrder
  BY OrderInvImplies
<1> QED BY <1>1, Invariance, PTL

\* sys_wait_irq and unblock_irq never leave a thread asleep on a line that
\* is remembered as having fired.
THEOREM IrqTheorem == Spec => []NoMissedIrq
<1>1. Init => NoMissedIrq
  BY DEF Init, IrqInit, NoMissedIrq
<1>2. TypeInv /\ NoMissedIrq /\ [Next]_vars => NoMissedIrq'
  BY IrqInvStep
<1> QED BY <1>1, <1>2, Invariance, PTL DEF Spec

\* sys_wait and exit_current_thread never leave a thread waiting for a
\* process that has terminated.
THEOREM WaitTheorem == Spec => []NobodyWaitsOnTheDead
<1>1. Init => NobodyWaitsOnTheDead
  BY DEF Init, NewProcessState, NobodyWaitsOnTheDead
<1>2. TypeInv /\ NobodyWaitsOnTheDead /\ [Next]_vars => NobodyWaitsOnTheDead'
  BY DeadInvStep
<1> QED BY <1>1, <1>2, Invariance, PTL DEF Spec

\* A handle once given out keeps its meaning for as long as the system runs.
THEOREM StableTheorem == Spec => HandlesStable
<1>1. TypeInv /\ [Next]_vars =>
        [\A p \in 1..(next_id - 1) : \A i \in DOMAIN cspaces[p] :
           cspaces[p][i] # NoCap =>
             i \in DOMAIN cspaces'[p] /\ cspaces'[p][i] = cspaces[p][i]]_vars
  BY StableStep DEF Keeps
<1> QED BY <1>1, Invariance, PTL DEF Spec, HandlesStable
=============================================================================
