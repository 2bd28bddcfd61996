------------------------------ MODULE Holders -------------------------------
(***************************************************************************)
(* Who owns each thread.  The places of ThreadInOnePlace are grouped into  *)
(* holders: the processor with the run queue, each interrupt line, each    *)
(* endpoint and each process.  The lemmas say what a step may do with      *)
(* holders so that no thread is owned twice; OwnershipProofs shows that    *)
(* the kernel's steps do that.                                             *)
(***************************************************************************)
EXTENDS KernelProperties, TLAPS

Awake == <<"awake", 0>>

Holder == {Awake} \cup ({"irq"} \X Irq) \cup ({"endpoint"} \X Endpoint)
            \cup ({"process"} \X Thread)

WaitersAt(ep) == {ep.queue[i].thread : i \in DOMAIN ep.queue}

\* The threads each holder has.
Owned(rq, cur, irqs, eps, procs) ==
  [h \in Holder |->
     CASE h[1] = "awake"    -> RangeOf(rq) \cup ({cur} \ {NoThread})
       [] h[1] = "irq"      -> {irqs[h[2]]} \ {NoThread}
       [] h[1] = "endpoint" -> WaitersAt(eps[h[2]])
       [] h[1] = "process"  -> RangeOf(procs[h[2]].wait_queue)]

Disjoint(own) ==
  \A g, h \in Holder : g # h => own[g] \cap own[h] = {}

NoRepeat(q) == \A i, j \in DOMAIN q : q[i] = q[j] => i = j

NoRepeatAt(ep) ==
  \A i, j \in DOMAIN ep.queue :
    ep.queue[i].thread = ep.queue[j].thread => i = j

OwnInv ==
  /\ Disjoint(Owned(run_queue, current, irq_waiters, endpoints, processes))
  /\ NoRepeat(run_queue)
  /\ current \notin RangeOf(run_queue)
  /\ \A e \in Endpoint : NoRepeatAt(endpoints[e])
  /\ \A p \in Thread : NoRepeat(processes[p].wait_queue)

-----------------------------------------------------------------------------
(* Queues.                                                                 *)

\* What a queue holds after push_back.
LEMMA PushRange ==
  ASSUME NEW S, NEW q \in Seq(S), NEW t \in S
  PROVE  RangeOf(PushBack(q, t)) = RangeOf(q) \cup {t}
<1>1. /\ DOMAIN q = 1..Len(q) /\ Len(q) \in Nat
      /\ DOMAIN PushBack(q, t) = 1..(Len(q) + 1)
      /\ \A i \in 1..Len(q) : PushBack(q, t)[i] = q[i]
      /\ PushBack(q, t)[Len(q) + 1] = t
  BY DEF PushBack
<1> QED BY <1>1 DEF RangeOf

\* A thread that is not in the queue can be pushed.
LEMMA PushNoRepeat ==
  ASSUME NEW S, NEW q \in Seq(S), NEW t \in S, NoRepeat(q), t \notin RangeOf(q)
  PROVE  NoRepeat(PushBack(q, t))
<1>1. /\ DOMAIN q = 1..Len(q) /\ Len(q) \in Nat
      /\ DOMAIN PushBack(q, t) = 1..(Len(q) + 1)
      /\ \A i \in 1..Len(q) : PushBack(q, t)[i] = q[i]
      /\ PushBack(q, t)[Len(q) + 1] = t
  BY DEF PushBack
<1>2. \A i \in 1..Len(q) : q[i] # t
  BY <1>1 DEF RangeOf
<1> QED BY <1>1, <1>2 DEF NoRepeat

\* What is left of a queue when its head is taken.
LEMMA PopRange ==
  ASSUME NEW S, NEW q \in Seq(S), q # <<>>, NoRepeat(q)
  PROVE  /\ RangeOf(q) = RangeOf(Tail(q)) \cup {Head(q)}
         /\ Head(q) \notin RangeOf(Tail(q))
         /\ NoRepeat(Tail(q))
         /\ Head(q) \in S
<1>1. /\ DOMAIN q = 1..Len(q) /\ Len(q) \in Nat /\ Len(q) > 0
      /\ DOMAIN Tail(q) = 1..(Len(q) - 1)
      /\ \A i \in 1..(Len(q) - 1) : Tail(q)[i] = q[i + 1]
      /\ Head(q) = q[1] /\ q[1] \in S
  OBVIOUS
<1>2. \A x : x \in RangeOf(q) <=> \E i \in 1..Len(q) : q[i] = x
  BY <1>1 DEF RangeOf
<1>3. \A x : x \in RangeOf(Tail(q)) <=> \E i \in 1..(Len(q) - 1) : q[i + 1] = x
  BY <1>1 DEF RangeOf
<1>4. Head(q) \notin RangeOf(Tail(q))
  BY <1>1, <1>3 DEF NoRepeat
<1>5. NoRepeat(Tail(q))
  BY <1>1 DEF NoRepeat
<1>6. ASSUME NEW x \in RangeOf(q), x # Head(q)
      PROVE  x \in RangeOf(Tail(q))
  <2>1. PICK i \in 1..Len(q) : q[i] = x
    BY <1>2, <1>6
  <2>2. i # 1 /\ i - 1 \in 1..(Len(q) - 1) /\ q[(i - 1) + 1] = x
    BY <1>1, <1>6, <2>1
  <2> QED BY <1>3, <2>2
<1>7. ASSUME NEW x \in RangeOf(Tail(q)) \cup {Head(q)}
      PROVE  x \in RangeOf(q)
  BY <1>1, <1>2, <1>3
<1> QED BY <1>1, <1>4, <1>5, <1>6, <1>7

\* Two disjoint queues, one behind the other.
LEMMA ConcatNoRepeat ==
  ASSUME NEW S, NEW q \in Seq(S), NEW r \in Seq(S), NoRepeat(q), NoRepeat(r),
         RangeOf(q) \cap RangeOf(r) = {}
  PROVE  /\ NoRepeat(q \o r)
         /\ RangeOf(q \o r) = RangeOf(q) \cup RangeOf(r)
<1>1. /\ DOMAIN q = 1..Len(q) /\ Len(q) \in Nat
      /\ DOMAIN r = 1..Len(r) /\ Len(r) \in Nat
      /\ DOMAIN (q \o r) = 1..(Len(q) + Len(r))
      /\ \A i \in 1..(Len(q) + Len(r)) :
           (q \o r)[i] = IF i <= Len(q) THEN q[i] ELSE r[i - Len(q)]
  OBVIOUS
<1>2. \A i \in 1..Len(q) : \A j \in 1..Len(r) : q[i] # r[j]
  BY <1>1 DEF RangeOf
<1>3. \A i \in 1..(Len(q) + Len(r)) :
        \/ i \in 1..Len(q) /\ (q \o r)[i] = q[i]
        \/ /\ i \notin 1..Len(q) /\ i - Len(q) \in 1..Len(r)
           /\ (q \o r)[i] = r[i - Len(q)]
  BY <1>1
<1>4. NoRepeat(q \o r)
  BY <1>1, <1>2, <1>3 DEF NoRepeat
<1>5. RangeOf(q \o r) \subseteq RangeOf(q) \cup RangeOf(r)
  BY <1>1, <1>3 DEF RangeOf
<1>6. RangeOf(q) \subseteq RangeOf(q \o r)
  BY <1>1 DEF RangeOf
<1>7. ASSUME NEW x \in RangeOf(r)
      PROVE  x \in RangeOf(q \o r)
  <2>1. PICK j \in 1..Len(r) : r[j] = x
    BY <1>1 DEF RangeOf
  <2>2. /\ Len(q) + j \in 1..(Len(q) + Len(r))
        /\ (q \o r)[Len(q) + j] = x
    BY <1>1, <2>1
  <2> QED BY <1>1, <2>2 DEF RangeOf
<1> QED BY <1>4, <1>5, <1>6, <1>7

-----------------------------------------------------------------------------
(* Holders.                                                                *)

\* The holders, one kind at a time.
LEMMA HolderKinds ==
  ASSUME NEW h \in Holder
  PROVE  \/ h = Awake
         \/ \E i \in Irq : h = <<"irq", i>>
         \/ \E e \in Endpoint : h = <<"endpoint", e>>
         \/ \E p \in Thread : h = <<"process", p>>
BY DEF Awake, Holder

\* Threads M move from one holder to another, and others may disappear.
LEMMA Move ==
  ASSUME NEW own, NEW new, Disjoint(own),
         NEW src \in Holder, NEW dst \in Holder, src # dst,
         NEW M, M \subseteq own[src],
         new[src] \subseteq own[src] \ M, new[dst] \subseteq own[dst] \cup M,
         \A h \in Holder \ {src, dst} : new[h] \subseteq own[h]
  PROVE  Disjoint(new)
<1> SUFFICES ASSUME NEW g \in Holder, NEW h \in Holder, g # h,
                    NEW t, t \in new[g], t \in new[h]
             PROVE  FALSE
  BY DEF Disjoint
<1>1. \A f \in Holder : t \in new[f] => t \in own[f] \/ (f = dst /\ t \in M)
  OBVIOUS
<1>2. \A f, k \in Holder : t \in own[f] /\ t \in own[k] => f = k
  BY DEF Disjoint
<1>3. t \in M => t \in own[src] /\ t \notin new[src]
  OBVIOUS
<1> QED BY <1>1, <1>2, <1>3

\* Threads may disappear.
LEMMA Shrink ==
  ASSUME NEW own, NEW new, Disjoint(own),
         \A h \in Holder : new[h] \subseteq own[h]
  PROVE  Disjoint(new)
BY DEF Disjoint

\* A new thread appears in one holder.
LEMMA Create ==
  ASSUME NEW own, NEW new, Disjoint(own), NEW dst \in Holder,
         NEW M, \A h \in Holder : own[h] \cap M = {},
         new[dst] \subseteq own[dst] \cup M,
         \A h \in Holder \ {dst} : new[h] \subseteq own[h]
  PROVE  Disjoint(new)
<1> SUFFICES ASSUME NEW g \in Holder, NEW h \in Holder, g # h,
                    NEW t, t \in new[g], t \in new[h]
             PROVE  FALSE
  BY DEF Disjoint
<1>1. \A f \in Holder : t \in new[f] => t \in own[f] \/ (f = dst /\ t \in M)
  OBVIOUS
<1>2. \A f, k \in Holder : t \in own[f] /\ t \in own[k] => f = k
  BY DEF Disjoint
<1> QED BY <1>1, <1>2

OwnedNow  == Owned(run_queue, current, irq_waiters, endpoints, processes)
OwnedNext == Owned(run_queue', current', irq_waiters', endpoints', processes')

\* What each holder has before a step, and after it.
LEMMA AwakeHolder ==
  /\ Awake \in Holder
  /\ OwnedNow[Awake] = RangeOf(run_queue) \cup ({current} \ {NoThread})
  /\ OwnedNext[Awake] = RangeOf(run_queue') \cup ({current'} \ {NoThread})
BY DEF OwnedNow, OwnedNext, Owned, Awake, Holder

LEMMA IrqHolder ==
  ASSUME NEW i \in Irq
  PROVE  /\ <<"irq", i>> \in Holder \ {Awake}
         /\ OwnedNow[<<"irq", i>>] = {irq_waiters[i]} \ {NoThread}
         /\ OwnedNext[<<"irq", i>>] = {irq_waiters'[i]} \ {NoThread}
BY DEF OwnedNow, OwnedNext, Owned, Awake, Holder

LEMMA EndpointHolder ==
  ASSUME NEW e \in Endpoint
  PROVE  /\ <<"endpoint", e>> \in Holder \ {Awake}
         /\ OwnedNow[<<"endpoint", e>>] = WaitersAt(endpoints[e])
         /\ OwnedNext[<<"endpoint", e>>] = WaitersAt(endpoints'[e])
BY DEF OwnedNow, OwnedNext, Owned, Awake, Holder

LEMMA ProcessHolder ==
  ASSUME NEW p \in Thread
  PROVE  /\ <<"process", p>> \in Holder \ {Awake}
         /\ OwnedNow[<<"process", p>>] = RangeOf(processes[p].wait_queue)
         /\ OwnedNext[<<"process", p>>] = RangeOf(processes'[p].wait_queue)
BY DEF OwnedNow, OwnedNext, Owned, Awake, Holder

\* A holder whose part of the state a step leaves alone keeps its threads.
LEMMA SameOwned ==
  ASSUME NEW h \in Holder \ {Awake},
         h[1] = "irq" => irq_waiters'[h[2]] = irq_waiters[h[2]],
         h[1] = "endpoint" => endpoints'[h[2]] = endpoints[h[2]],
         h[1] = "process" => processes'[h[2]] = processes[h[2]]
  PROVE  OwnedNext[h] = OwnedNow[h]
<1>1. ASSUME NEW i \in Irq, h = <<"irq", i>>
      PROVE  OwnedNext[h] = OwnedNow[h]
  <2>1. irq_waiters'[i] = irq_waiters[i]
    BY <1>1
  <2>2. OwnedNext[<<"irq", i>>] = OwnedNow[<<"irq", i>>]
    BY <2>1, IrqHolder, Zenon
  <2> QED BY <1>1, <2>2, Zenon
<1>2. ASSUME NEW e \in Endpoint, h = <<"endpoint", e>>
      PROVE  OwnedNext[h] = OwnedNow[h]
  <2>1. endpoints'[e] = endpoints[e]
    BY <1>2
  <2>2. OwnedNext[<<"endpoint", e>>] = OwnedNow[<<"endpoint", e>>]
    BY <2>1, EndpointHolder, Zenon
  <2> QED BY <1>2, <2>2, Zenon
<1>3. ASSUME NEW p \in Thread, h = <<"process", p>>
      PROVE  OwnedNext[h] = OwnedNow[h]
  <2>1. processes'[p] = processes[p]
    BY <1>3
  <2>2. OwnedNext[<<"process", p>>] = OwnedNow[<<"process", p>>]
    BY <2>1, ProcessHolder, Zenon
  <2> QED BY <1>3, <2>2, Zenon
<1>4. \/ \E i \in Irq : h = <<"irq", i>>
      \/ \E e \in Endpoint : h = <<"endpoint", e>>
      \/ \E p \in Thread : h = <<"process", p>>
  BY HolderKinds
<1> QED BY <1>1, <1>2, <1>3, <1>4, Zenon

\* OwnInv with its parts primed one by one.
LEMMA OwnInvNext ==
  ASSUME Disjoint(OwnedNext), NoRepeat(run_queue'),
         current' \notin RangeOf(run_queue'),
         \A e \in Endpoint : NoRepeatAt(endpoints'[e]),
         \A p \in Thread : NoRepeat(processes'[p].wait_queue)
  PROVE  OwnInv'
BY DEF OwnInv, OwnedNext, Disjoint, Owned, NoRepeat, NoRepeatAt, RangeOf, WaitersAt

\* What one holder has, no other has.
LEMMA OnlyThere ==
  ASSUME OwnInv, NEW g \in Holder, NEW t, t \in OwnedNow[g]
  PROVE  \A h \in Holder : t \in OwnedNow[h] => h = g
BY DEF OwnInv, OwnedNow, Disjoint

-----------------------------------------------------------------------------
(* The invariant.                                                          *)

\* It holds initially.
LEMMA OwnInit == Init => OwnInv
<1> SUFFICES ASSUME Init PROVE OwnInv
  OBVIOUS
<1>1. /\ run_queue = <<1>> /\ current = NoThread
      /\ \A i \in Irq : irq_waiters[i] = NoThread
      /\ \A e \in Endpoint : endpoints[e].queue = <<>>
      /\ \A p \in Thread : processes[p].wait_queue = <<>>
  BY DEF Init, IrqInit, IpcInit, NewProcessState
<1>2. NoRepeat(run_queue) /\ current \notin RangeOf(run_queue)
  BY <1>1 DEF NoRepeat, RangeOf, NoThread
<1>3. /\ \A e \in Endpoint : NoRepeatAt(endpoints[e]) /\ WaitersAt(endpoints[e]) = {}
      /\ \A p \in Thread : /\ NoRepeat(processes[p].wait_queue)
                           /\ RangeOf(processes[p].wait_queue) = {}
  BY <1>1 DEF NoRepeatAt, WaitersAt, NoRepeat, RangeOf
<1>4. ASSUME NEW h \in Holder \ {Awake}
      PROVE  OwnedNow[h] = {}
  <2>1. \A i \in Irq : OwnedNow[<<"irq", i>>] = {}
    BY <1>1, IrqHolder
  <2>2. \A e \in Endpoint : OwnedNow[<<"endpoint", e>>] = {}
    BY <1>3, EndpointHolder
  <2>3. \A p \in Thread : OwnedNow[<<"process", p>>] = {}
    BY <1>3, ProcessHolder
  <2> QED BY <2>1, <2>2, <2>3, HolderKinds
<1>5. Disjoint(OwnedNow)
  BY <1>4 DEF Disjoint
<1> QED BY <1>2, <1>3, <1>5 DEF OwnInv, OwnedNow

\* A place belongs to a holder that has the thread, and within the holder it
\* is the only one.
LEMMA OwnInvImplies ==
  ASSUME OwnInv
  PROVE  ThreadInOnePlace
<1> SUFFICES ASSUME NEW t \in Thread, NEW a \in Places(t), NEW b \in Places(t)
             PROVE  a = b
  BY DEF ThreadInOnePlace
<1> DEFINE At(x, h) ==
      \/ x = <<"current", 0, 0>> /\ t = current /\ h = Awake
      \/ \E i \in DOMAIN run_queue :
           x = <<"run_queue", 0, i>> /\ t = run_queue[i] /\ h = Awake
      \/ \E i \in Irq :
           x = <<"irq_waiters", i, 0>> /\ t = irq_waiters[i] /\ h = <<"irq", i>>
      \/ \E e \in Endpoint : \E i \in DOMAIN endpoints[e].queue :
           /\ x = <<"endpoint", e, i>> /\ t = endpoints[e].queue[i].thread
           /\ h = <<"endpoint", e>>
      \/ \E p \in Thread : \E i \in DOMAIN processes[p].wait_queue :
           /\ x = <<"wait_queue", p, i>> /\ t = processes[p].wait_queue[i]
           /\ h = <<"process", p>>
<1>1. ASSUME NEW x \in Places(t)
      PROVE  \E h : At(x, h)
  <2> DEFINE C == {<<"current", 0, 0>> : y \in {current} \cap {t}}
             R == {<<"run_queue", 0, i>> :
                     i \in {j \in DOMAIN run_queue : run_queue[j] = t}}
             I == {<<"irq_waiters", i, 0>> : i \in {j \in Irq : irq_waiters[j] = t}}
             E(e) == {<<"endpoint", e, i>> :
                        i \in {j \in DOMAIN endpoints[e].queue :
                                 endpoints[e].queue[j].thread = t}}
             W(p) == {<<"wait_queue", p, i>> :
                        i \in {j \in DOMAIN processes[p].wait_queue :
                                 processes[p].wait_queue[j] = t}}
             Es == {E(e) : e \in Endpoint}
             Ws == {W(p) : p \in Thread}
  <2>1. Places(t) = C \cup R \cup I \cup (UNION Es) \cup (UNION Ws)
    BY Zenon DEF Places
  <2>2. CASE x \in C
    <3>1. At(x, Awake)
      BY <2>2
    <3> QED BY <3>1
  <2>3. CASE x \in R
    <3>1. At(x, Awake)
      BY <2>3
    <3> QED BY <3>1
  <2>4. CASE x \in I
    <3>1. PICK i \in Irq : x = <<"irq_waiters", i, 0>> /\ t = irq_waiters[i]
      BY <2>4
    <3>2. At(x, <<"irq", i>>)
      BY <3>1
    <3> QED BY <3>2
  <2>5. ASSUME NEW e \in Endpoint, x \in E(e)
        PROVE  \E h : At(x, h)
    <3>1. \E i \in DOMAIN endpoints[e].queue :
            x = <<"endpoint", e, i>> /\ t = endpoints[e].queue[i].thread
      BY <2>5
    <3>2. At(x, <<"endpoint", e>>)
      BY <3>1
    <3> QED BY <3>2
  <2>6. ASSUME NEW p \in Thread, x \in W(p)
        PROVE  \E h : At(x, h)
    <3>1. \E i \in DOMAIN processes[p].wait_queue :
            x = <<"wait_queue", p, i>> /\ t = processes[p].wait_queue[i]
      BY <2>6
    <3>2. At(x, <<"process", p>>)
      BY <3>1
    <3> QED BY <3>2
  <2> HIDE DEF At, C, R, I, E, W
  <2>7. \A y \in Es : \E e \in Endpoint : y = E(e)
    BY Zenon
  <2>8. \A y \in Ws : \E p \in Thread : y = W(p)
    BY Zenon
  <2> HIDE DEF Es, Ws
  <2>9. \/ x \in C \/ x \in R \/ x \in I
        \/ \E y \in Es : x \in y
        \/ \E y \in Ws : x \in y
    BY <2>1
  <2> QED BY <2>2, <2>3, <2>4, <2>5, <2>6, <2>7, <2>8, <2>9, Zenon
<1>2. ASSUME NEW x, NEW h, At(x, h)
      PROVE  h \in Holder /\ t \in OwnedNow[h]
  <2>1. t # NoThread
    BY ThreadSwitchAssumption DEF Thread, NoThread
  <2>2. CASE h = Awake /\ (t = current \/ \E i \in DOMAIN run_queue : t = run_queue[i])
    BY <2>1, <2>2, AwakeHolder DEF RangeOf
  <2>3. CASE \E i \in Irq : t = irq_waiters[i] /\ h = <<"irq", i>>
    BY <2>1, <2>3, IrqHolder
  <2>4. CASE \E e \in Endpoint : \E i \in DOMAIN endpoints[e].queue :
               t = endpoints[e].queue[i].thread /\ h = <<"endpoint", e>>
    <3>1. PICK e \in Endpoint : /\ t \in WaitersAt(endpoints[e])
                                /\ h = <<"endpoint", e>>
      BY <2>4, Zenon DEF WaitersAt
    <3> QED BY <3>1, EndpointHolder
  <2>5. CASE \E p \in Thread : \E i \in DOMAIN processes[p].wait_queue :
               t = processes[p].wait_queue[i] /\ h = <<"process", p>>
    <3>1. PICK p \in Thread : /\ t \in RangeOf(processes[p].wait_queue)
                              /\ h = <<"process", p>>
      BY <2>5, Zenon DEF RangeOf
    <3> QED BY <3>1, ProcessHolder
  <2> QED BY <1>2, <2>2, <2>3, <2>4, <2>5
<1> HIDE DEF At
<1>3. PICK g, h : At(a, g) /\ At(b, h)
  BY <1>1, Zenon
<1>4. g = h
  <2>1. /\ g \in Holder /\ t \in OwnedNow[g]
        /\ h \in Holder /\ t \in OwnedNow[h]
    BY <1>2, <1>3, Zenon
  <2> QED BY <2>1, OnlyThere, Zenon
<1>5. /\ NoRepeat(run_queue) /\ current \notin RangeOf(run_queue)
      /\ \A e \in Endpoint : NoRepeatAt(endpoints[e])
      /\ \A p \in Thread : NoRepeat(processes[p].wait_queue)
  BY DEF OwnInv
<1>6. At(a, h) /\ At(b, h)
  BY <1>3, <1>4, Zenon
<1>7. ASSUME h = Awake
      PROVE  a = b
  <2>1. \A x : At(x, h) =>
          \/ x = <<"current", 0, 0>> /\ t = current
          \/ \E i \in DOMAIN run_queue : x = <<"run_queue", 0, i>> /\ t = run_queue[i]
    BY <1>7 DEF At, Awake
  <2> QED BY <1>5, <1>6, <2>1 DEF NoRepeat, RangeOf
<1>8. ASSUME NEW i \in Irq, h = <<"irq", i>>
      PROVE  a = b
  BY <1>6, <1>8 DEF At, Awake
<1>9. ASSUME NEW e \in Endpoint, h = <<"endpoint", e>>
      PROVE  a = b
  BY <1>5, <1>6, <1>9 DEF At, Awake, NoRepeatAt
<1>10. ASSUME NEW p \in Thread, h = <<"process", p>>
       PROVE  a = b
  BY <1>5, <1>6, <1>10 DEF At, Awake, NoRepeat
<1>11. \/ h = Awake
       \/ \E i \in Irq : h = <<"irq", i>>
       \/ \E e \in Endpoint : h = <<"endpoint", e>>
       \/ \E p \in Thread : h = <<"process", p>>
  BY <1>6 DEF At
<1> QED BY <1>7, <1>8, <1>9, <1>10, <1>11, Zenon
=============================================================================
