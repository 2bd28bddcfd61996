-------------------------- MODULE KernelTypeProofs --------------------------
(***************************************************************************)
(* Type correctness of the kernel, for any number of threads, endpoints,   *)
(* messages and interrupt lines.  The inductive invariant adds to TypeOK   *)
(* that queues hold only threads that were created, that the processor     *)
(* runs the current thread, and that capabilities name existing objects.   *)
(***************************************************************************)
EXTENDS KernelProperties, TLAPS, SequenceTheorems

Created == 1..(next_id - 1)

\* The switching variables, with every thread in a queue in S.
SwitchValues(S, rq, cur, sv, fr, stu, r0, c) ==
  /\ rq \in Seq(S)
  /\ cur \in S \cup {NoThread}
  /\ sv \in [Thread -> SavedThreadState]
  /\ fr \in [Thread -> Frame]
  /\ stu \in Thread \cup {NoThread, Dangling}
  /\ r0 \in Thread \cup {NoThread}
  /\ c \in [mode : Mode, thread : Thread \cup {NoThread},
            site : Site \cup {NoSite}]
  /\ c.mode = "user" => cur # NoThread /\ c.thread = cur /\ r0 = cur
  /\ c.mode = "idle" =>
       /\ cur = NoThread
       /\ c.thread # NoThread
       /\ r0 = c.thread /\ stu = c.thread
       /\ c.site \in Site
  /\ c.mode = "boot" => cur = NoThread

SwitchOK ==
  SwitchValues(Created, run_queue, current, saved, frame, STATE_TO_UPDATE,
               rsp0, cpu)

SwitchOKNext(S) ==
  SwitchValues(S, run_queue', current', saved', frame', STATE_TO_UPDATE',
               rsp0', cpu')

-----------------------------------------------------------------------------
(* Switching.                                                              *)

\* Thread numbers are neither of the two special values.
LEMMA ThreadValues ==
  \A t \in Thread : t \in Nat /\ t # NoThread /\ t # Dangling
BY ThreadSwitchAssumption DEF Thread, NoThread, Dangling

\* The saved state written by after_switch is a saved state.
LEMMA AfterSwitchType ==
  ASSUME NEW sv \in [Thread -> SavedThreadState], NEW pending,
         NEW old_rsp \in Nat \cup {Junk}
  PROVE  after_switch(sv, pending, old_rsp) \in [Thread -> SavedThreadState]
BY DEF after_switch, Cooperative, SavedThreadState

\* Sequences over a subset.
LEMMA SeqMonotone ==
  ASSUME NEW A, NEW B, A \subseteq B
  PROVE  Seq(A) \subseteq Seq(B)
OBVIOUS

\* What push_back returns.
LEMMA PushBackType ==
  ASSUME NEW S, NEW q \in Seq(S), NEW t \in S
  PROVE  PushBack(q, t) \in Seq(S) /\ PushBack(q, t) # <<>>
BY AppendProperties DEF PushBack

\* RunNext leaves well-typed switching variables, with a thread of S current.
LEMMA RunNextOK ==
  ASSUME NEW S \in SUBSET Thread, NEW q \in Seq(S), q # <<>>,
         NEW sv \in [Thread -> SavedThreadState],
         NEW fr \in [Thread -> Frame],
         NEW pending \in Thread \cup {NoThread, Dangling},
         NEW old_rsp \in Nat \cup {Junk}, NEW via,
         RunNext(q, sv, fr, pending, old_rsp, via)
  PROVE  SwitchOKNext(S)
<1> DEFINE n == Head(q)
           fin == Finishes(n, sv, fr, via)
<1>1. n \in S /\ Tail(q) \in Seq(S)
  BY HeadTailProperties
<1>2. n \in Thread /\ n # NoThread
  BY <1>1, ThreadValues
<1>3. /\ run_queue' = Tail(q)
      /\ current' = n
      /\ rsp0' = n
      /\ frame' = [fr EXCEPT ![n] = NoFrame]
      /\ saved' = IF fin THEN after_switch(sv, pending, old_rsp) ELSE sv
      /\ STATE_TO_UPDATE' = IF fin THEN NoThread ELSE pending
  BY DEF RunNext, prepare_thread_switch
<1>4. PICK mode \in {"user", "wild"} : cpu' = Cpu(mode, n, NoSite)
  <2>1. PICK mode \in Restored(n, sv, fr, fin /\ pending = Dangling) :
          cpu' = Cpu(mode, n, NoSite)
    BY DEF RunNext
  <2> QED BY <2>1 DEF Restored
<1>5. saved' \in [Thread -> SavedThreadState]
  BY <1>3, AfterSwitchType
<1>6. frame' \in [Thread -> Frame]
  BY <1>3 DEF Frame, NoFrame
<1>7. STATE_TO_UPDATE' \in Thread \cup {NoThread, Dangling}
  BY <1>3
<1>8. /\ cpu' \in [mode : Mode, thread : Thread \cup {NoThread},
                   site : Site \cup {NoSite}]
      /\ cpu'.mode \in {"user", "wild"}
      /\ cpu'.thread = n
  BY <1>2, <1>4 DEF Cpu, Mode
<1> QED
  BY <1>1, <1>2, <1>3, <1>5, <1>6, <1>7, <1>8 DEF SwitchOKNext, SwitchValues

\* SwitchFrom, from any thread at any call site.
LEMMA SwitchFromOK ==
  ASSUME SwitchOK, NEW S \in SUBSET Thread, NEW q \in Seq(S), q # <<>>,
         NEW x \in Thread, NEW site \in Site,
         NEW pending \in Thread \cup {NoThread, Dangling},
         SwitchFrom(x, site, q, pending)
  PROVE  SwitchOKNext(S)
<1> DEFINE depth == StackDepth[site]
           fr == [frame EXCEPT ![x] =
                    CoopFrame(depth, saved[Head(q)].tag = "Cooperative")]
<1>1. depth \in Nat
  BY ThreadSwitchAssumption
<1>2. fr \in [Thread -> Frame]
  BY <1>1 DEF SwitchOK, SwitchValues, CoopFrame, Frame
<1>3. RunNext(q, saved, fr, pending, depth, "switch")
  BY DEF SwitchFrom
<1>4. saved \in [Thread -> SavedThreadState]
  BY DEF SwitchOK, SwitchValues
<1> HIDE DEF fr, depth
<1> QED
  BY <1>1, <1>2, <1>3, <1>4, RunNextOK, Zenon

\* Block, from user mode.
LEMMA BlockOK ==
  ASSUME SwitchOK, Created \subseteq Thread, InUser, NEW site \in Site, Block(site)
  PROVE  SwitchOKNext(Created)
<1>1. current \in Thread /\ current \in Created
  BY DEF SwitchOK, SwitchValues, InUser
<1>2. run_queue \in Seq(Created)
  BY DEF SwitchOK, SwitchValues
<1>3. CASE run_queue = <<>>
  <2>1. /\ current' = NoThread
        /\ STATE_TO_UPDATE' = current
        /\ cpu' = Cpu("idle", current, site)
        /\ UNCHANGED <<run_queue, saved, frame, rsp0>>
    BY <1>3 DEF Block
  <2>2. rsp0 = current
    BY DEF SwitchOK, SwitchValues, InUser
  <2>3. /\ cpu' \in [mode : Mode, thread : Thread \cup {NoThread},
                     site : Site \cup {NoSite}]
        /\ cpu'.mode = "idle" /\ cpu'.thread = current /\ cpu'.site = site
    BY <1>1, <2>1 DEF Cpu, Mode
  <2> QED
    BY <1>1, <2>1, <2>2, <2>3, ThreadValues
      DEF SwitchOK, SwitchValues, SwitchOKNext
<1>4. CASE run_queue # <<>>
  BY <1>1, <1>2, <1>4, SwitchFromOK DEF Block
<1> QED BY <1>3, <1>4

\* The pure switching actions.
LEMMA SwitchingOK ==
  ASSUME SwitchOK, Created \subseteq Thread,
         idle_resume \/ timer_tick_handler \/ yield_now \/ boot_yield
  PROVE  SwitchOKNext(Created)
<1> USE DEF SwitchOK
<1>1. run_queue \in Seq(Created) /\ saved \in [Thread -> SavedThreadState]
        /\ frame \in [Thread -> Frame]
        /\ STATE_TO_UPDATE \in Thread \cup {NoThread, Dangling}
  BY DEF SwitchValues
<1>2. CASE idle_resume
  <2>1. cpu.thread \in Thread /\ cpu.site \in Site
    BY <1>2 DEF idle_resume, SwitchValues
  <2> QED
    BY <1>1, <1>2, <2>1, SwitchFromOK DEF idle_resume
<1>3. CASE timer_tick_handler
  <2>1. CASE current # NoThread
    <3> DEFINE q == PushBack(run_queue, current)
               sv == [saved EXCEPT ![current] = Preemptive(IntrDepth)]
               fr == [frame EXCEPT ![current] = IntrFrame]
    <3>1. current \in Created
      BY <2>1 DEF SwitchValues
    <3>2. q \in Seq(Created) /\ q # <<>>
      BY <1>1, <3>1, PushBackType
    <3>3. sv \in [Thread -> SavedThreadState] /\ fr \in [Thread -> Frame]
      BY <1>1, <3>1 DEF Preemptive, IntrDepth, IntrFrame, SavedThreadState, Frame
    <3>4. RunNext(q, sv, fr, STATE_TO_UPDATE, Junk, "timer")
      BY <1>3, <2>1 DEF timer_tick_handler, pick_next
    <3> HIDE DEF q, sv, fr
    <3> QED
      BY <1>1, <3>2, <3>3, <3>4, RunNextOK, Zenon
  <2>2. CASE current = NoThread /\ run_queue # <<>>
    BY <1>1, <1>3, <2>2, RunNextOK, Zenon DEF timer_tick_handler, pick_next
  <2>3. CASE current = NoThread /\ run_queue = <<>>
    BY <1>3, <2>3 DEF timer_tick_handler, pick_next, switchVars, SwitchOKNext
  <2> QED BY <2>1, <2>2, <2>3
<1>4. CASE yield_now
  <2> DEFINE q == PushBack(run_queue, current)
  <2>1. current \in Created /\ current \in Thread
    BY <1>4 DEF yield_now, InUser, SwitchValues
  <2>2. q \in Seq(Created) /\ q # <<>>
    BY <1>1, <2>1, PushBackType
  <2>3. CASE SwitchFrom(current, "yield_now", q, current)
    <3> HIDE DEF q
    <3>1. "yield_now" \in Site
      BY DEF Site
    <3> QED
      BY <2>1, <2>2, <2>3, <3>1, SwitchFromOK
  <2>4. CASE /\ run_queue' = Tail(q)
             /\ current' = Head(q)
             /\ STATE_TO_UPDATE' = current
             /\ rsp0' = prepare_thread_switch(Head(q))
             /\ cpu' = Cpu("unimplemented", current, NoSite)
             /\ UNCHANGED <<saved, frame>>
    <3> HIDE DEF q
    <3>1. Tail(q) \in Seq(Created) /\ Head(q) \in Created
      BY <2>2, HeadTailProperties
    <3>2. /\ cpu' \in [mode : Mode, thread : Thread \cup {NoThread},
                       site : Site \cup {NoSite}]
          /\ cpu'.mode = "unimplemented"
      BY <2>1, <2>4 DEF Cpu, Mode
    <3> QED
      BY <1>1, <2>1, <2>4, <3>1, <3>2
        DEF SwitchValues, SwitchOKNext, prepare_thread_switch
  <2> QED BY <1>4, <2>3, <2>4 DEF yield_now
<1>5. CASE boot_yield
  <2>1. Junk \in Nat \cup {Junk}
    OBVIOUS
  <2> QED
    BY <1>1, <1>5, <2>1, RunNextOK, Zenon DEF boot_yield
<1> QED BY <1>2, <1>3, <1>4, <1>5

-----------------------------------------------------------------------------
(* The other variables.                                                    *)

IrqValues(S, waiters, pending) ==
  /\ waiters \in [Irq -> S \cup {NoThread}]
  /\ pending \in [Irq -> BOOLEAN]

QueueEntry(S) == [thread : S, msg : Msg \cup {ZeroMsg}]

Endpoints(S) ==
  [Endpoint -> [state : {"Idle", "SendersWaiting", "ReceiversWaiting"},
                queue : Seq(QueueEntry(S))]]

IpcValues(S, eps, buf, next, del) ==
  /\ eps \in Endpoints(S)
  /\ buf \in [Thread -> Msg \cup {ZeroMsg, NoMsg}]
  /\ next \in 1..(MaxMsgs + 1)
  /\ del \in SUBSET Msg

ProcessValues(S, procs, owner) ==
  /\ procs \in [Thread -> [terminated : BOOLEAN, wait_queue : Seq(S)]]
  /\ owner \in [Thread -> Thread \cup {NoThread}]
  /\ \A t \in S : owner[t] \in S

\* A capability, or an empty slot, that names only existing objects.
ValidSlot(c, nid, nep) ==
  /\ c \in Capability \cup {NoCap}
  /\ c.type = "Endpoint" => c.obj \in 1..(nep - 1)
  /\ c.type = "Process" => c.obj \in 1..(nid - 1)
  /\ c.type = "Interrupt" => c.obj \in Irq

CSpaceValues(cs, nid, nep) ==
  /\ cs \in [Thread -> Slots]
  /\ nid \in 1..(MaxThreads + 1)
  /\ nep \in 1..(MaxEndpoints + 1)
  /\ \A p \in Thread : \A i \in DOMAIN cs[p] : ValidSlot(cs[p][i], nid, nep)

\* The inductive invariant.
TypeInv ==
  /\ SwitchOK
  /\ IrqValues(Created, irq_waiters, pending_irqs)
  /\ IpcValues(Created, endpoints, msg_buf, next_msg, delivered)
  /\ ProcessValues(Created, processes, process_of)
  /\ CSpaceValues(cspaces, next_id, next_endpoint)

\* The created threads are threads.
LEMMA CreatedThreads ==
  ASSUME TypeInv
  PROVE  Created \subseteq Thread
BY ThreadSwitchAssumption DEF TypeInv, CSpaceValues, Created, Thread

\* The invariant implies what the runs check.
LEMMA TypeInvImplies ==
  ASSUME TypeInv
  PROVE  TypeOK /\ KernelStackIsCurrents /\ CapabilitiesValid
<1>1. Created \subseteq Thread
  BY CreatedThreads
<1>2. KernelStackIsCurrents
  BY DEF TypeInv, SwitchOK, SwitchValues, KernelStackIsCurrents
<1>3. CapabilitiesValid
  BY DEF TypeInv, CSpaceValues, ValidSlot, CapabilitiesValid, RangeOf
<1>4. run_queue \in Seq(Thread) /\ current \in Thread \cup {NoThread}
  BY <1>1 DEF TypeInv, SwitchOK, SwitchValues
<1>5. irq_waiters \in [Irq -> Thread \cup {NoThread}]
  BY <1>1 DEF TypeInv, IrqValues
<1>6. endpoints \in [Endpoint -> EndpointState]
  <2>1. QueueEntry(Created) \subseteq QueueEntry(Thread)
    BY <1>1 DEF QueueEntry
  <2>2. Seq(QueueEntry(Created)) \subseteq Seq(QueueEntry(Thread))
    BY <2>1, SeqMonotone
  <2> QED BY <2>2, Zenon DEF TypeInv, IpcValues, Endpoints, EndpointState, QueueEntry
<1>7. processes \in [Thread -> ProcessState]
  BY <1>1, SeqMonotone DEF TypeInv, ProcessValues, ProcessState
<1>8. /\ saved \in [Thread -> SavedThreadState]
      /\ frame \in [Thread -> Frame]
      /\ STATE_TO_UPDATE \in Thread \cup {NoThread, Dangling}
      /\ rsp0 \in Thread \cup {NoThread}
      /\ cpu \in [mode : Mode, thread : Thread \cup {NoThread},
                  site : Site \cup {NoSite}]
  BY DEF TypeInv, SwitchOK, SwitchValues
<1>9. /\ pending_irqs \in [Irq -> BOOLEAN]
      /\ msg_buf \in [Thread -> Msg \cup {ZeroMsg, NoMsg}]
      /\ next_msg \in 1..(MaxMsgs + 1)
      /\ delivered \in SUBSET Msg
      /\ process_of \in [Thread -> Thread \cup {NoThread}]
      /\ cspaces \in [Thread -> Slots]
      /\ next_id \in 1..(MaxThreads + 1)
      /\ next_endpoint \in 1..(MaxEndpoints + 1)
  BY DEF TypeInv, IrqValues, IpcValues, ProcessValues, CSpaceValues
<1> QED
  BY <1>2, <1>3, <1>4, <1>5, <1>6, <1>7, <1>8, <1>9 DEF TypeOK

\* It holds initially.
LEMMA TypeInvInit == Init => TypeInv
<1> SUFFICES ASSUME Init PROVE TypeInv
  OBVIOUS
<1>1. Created = {1} /\ 1 \in Thread
  BY ThreadSwitchAssumption DEF Init, Created, Thread
<1>2. SwitchOK
  <2>1. <<1>> \in Seq(Created)
    BY <1>1
  <2>2. Cooperative(NewDepth) \in SavedThreadState
    BY DEF Cooperative, NewDepth, SavedThreadState
  <2>3. CoopFrame(NewDepth, TRUE) \in Frame /\ NoFrame \in Frame
    BY DEF CoopFrame, NewDepth, Frame, NoFrame
  <2>4. /\ Cpu("boot", NoThread, NoSite) \in
             [mode : Mode, thread : Thread \cup {NoThread},
              site : Site \cup {NoSite}]
        /\ Cpu("boot", NoThread, NoSite).mode = "boot"
    BY DEF Cpu, Mode
  <2> QED BY <2>1, <2>2, <2>3, <2>4, Zenon DEF Init, SwitchOK, SwitchValues
<1>3. IrqValues(Created, irq_waiters, pending_irqs)
  BY DEF Init, IrqInit, IrqValues
<1>4. IpcValues(Created, endpoints, msg_buf, next_msg, delivered)
  BY IpcAssumption DEF Init, IpcInit, IpcValues, Endpoints
<1>5. ProcessValues(Created, processes, process_of)
  BY <1>1 DEF Init, ProcessValues, NewProcessState
<1>6. CSpaceValues(cspaces, next_id, next_endpoint)
  <2>1. next_id \in 1..(MaxThreads + 1) /\ next_endpoint \in 1..(MaxEndpoints + 1)
    BY ThreadSwitchAssumption, IpcAssumption DEF Init
  <2>2. cspaces \in [Thread -> Slots]
    BY BootAssumption DEF Init, Slots
  <2>3. ASSUME NEW p \in Thread, NEW i \in DOMAIN cspaces[p]
        PROVE  ValidSlot(cspaces[p][i], next_id, next_endpoint)
    <3>1. p = 1 /\ i \in DOMAIN BootCSpace /\ cspaces[p][i] = BootCSpace[i]
      BY <2>3 DEF Init
    <3>2. BootCSpace[i] \in Capability \cup {NoCap}
      BY <3>1, BootAssumption DEF Slots
    <3> QED
      BY <3>1, <3>2, BootAssumption DEF ValidSlot
  <2> QED
    BY <2>1, <2>2, <2>3 DEF CSpaceValues
<1> QED BY <1>2, <1>3, <1>4, <1>5, <1>6 DEF TypeInv

-----------------------------------------------------------------------------
(* Steps.                                                                  *)

\* The calling thread, its process and its capabilities exist.
LEMMA Caller ==
  ASSUME TypeInv, InUser
  PROVE  /\ current \in Created /\ current \in Thread
         /\ process_of[current] \in Created /\ process_of[current] \in Thread
         /\ CurrentCSpace \in Slots
         /\ \A i \in DOMAIN CurrentCSpace :
              ValidSlot(CurrentCSpace[i], next_id, next_endpoint)
<1>1. current \in Created /\ Created \subseteq Thread
  BY CreatedThreads DEF TypeInv, SwitchOK, SwitchValues, InUser
<1>2. process_of[current] \in Created
  BY <1>1 DEF TypeInv, ProcessValues
<1> QED
  BY <1>1, <1>2 DEF TypeInv, CSpaceValues, CurrentCSpace

\* The capability at a handle of the caller is valid.
LEMMA HeldSlot ==
  ASSUME TypeInv, InUser, NEW h \in Handle
  PROVE  ValidSlot(Get(CurrentCSpace, h), next_id, next_endpoint)
<1>1. CurrentCSpace \in Slots
  BY Caller
<1>2. h + 1 \in DOMAIN CurrentCSpace /\ h < Len(CurrentCSpace)
  BY <1>1 DEF Handle, Slots
<1> QED
  BY <1>2, Caller DEF Get

\* What a handle that passes the check for an object of some type names.
LEMMA HeldObject ==
  ASSUME TypeInv, InUser, NEW h \in Handle, NEW type, NEW rights,
         Holds(h, type, rights)
  PROVE  LET obj == Get(CurrentCSpace, h).obj
         IN  /\ type = "Endpoint" => obj \in Endpoint
             /\ type = "Process" => obj \in Created
             /\ type = "Interrupt" => obj \in Irq
<1> DEFINE c == Get(CurrentCSpace, h)
<1>1. c.type = type
  BY DEF Holds
<1>2. ValidSlot(c, next_id, next_endpoint)
  BY HeldSlot
<1> HIDE DEF c
<1>3. /\ type = "Endpoint" => c.obj \in 1..(next_endpoint - 1)
      /\ type = "Process" => c.obj \in 1..(next_id - 1)
      /\ type = "Interrupt" => c.obj \in Irq
  BY <1>1, <1>2 DEF ValidSlot
<1>4. next_endpoint \in 1..(MaxEndpoints + 1) /\ MaxEndpoints \in Nat
  BY IpcAssumption DEF TypeInv, CSpaceValues
<1>5. 1..(next_endpoint - 1) \subseteq Endpoint
  BY <1>4 DEF Endpoint
<1> QED BY <1>3, <1>5 DEF Created, c

\* A slot stays valid when more objects are created.
LEMMA ValidSlotMonotone ==
  ASSUME NEW c, NEW nid \in Nat, NEW nep \in Nat, NEW nid2 \in Nat,
         NEW nep2 \in Nat, nid <= nid2, nep <= nep2, ValidSlot(c, nid, nep)
  PROVE  ValidSlot(c, nid2, nep2)
BY DEF ValidSlot

\* Insert keeps a CSpace valid.
LEMMA InsertValid ==
  ASSUME NEW cs \in Slots, NEW nid, NEW nep, NEW cap \in Capability,
         \A i \in DOMAIN cs : ValidSlot(cs[i], nid, nep),
         ValidSlot(cap, nid, nep)
  PROVE  /\ Insert(cs, cap) \in Slots
         /\ \A i \in DOMAIN Insert(cs, cap) :
              ValidSlot(Insert(cs, cap)[i], nid, nep)
<1> DEFINE Slot == Capability \cup {NoCap}
<1>1. CASE FreeSlots(cs) = {}
  <2>1. Insert(cs, cap) = Append(cs, cap)
    BY <1>1 DEF Insert
  <2>2. cs \in Seq(Slot) /\ cap \in Slot
    BY DEF Slots
  <2> HIDE DEF Slot
  <2>3. /\ Append(cs, cap) \in Seq(Slot)
        /\ \A i \in DOMAIN Append(cs, cap) :
             Append(cs, cap)[i] = cap
               \/ (i \in DOMAIN cs /\ Append(cs, cap)[i] = cs[i])
    BY <2>2, AppendProperties
  <2> QED BY <2>1, <2>3 DEF Slots, Slot
<1>2. CASE FreeSlots(cs) # {}
  <2> DEFINE first == CHOOSE i \in FreeSlots(cs) :
                        \A j \in FreeSlots(cs) : i <= j
  <2>1. Insert(cs, cap) = [cs EXCEPT ![first] = cap]
    BY <1>2 DEF Insert
  <2> HIDE DEF first
  <2>2. cs \in Seq(Slot) /\ cap \in Slot
    BY DEF Slots
  <2> HIDE DEF Slot
  <2>3. DOMAIN Insert(cs, cap) = DOMAIN cs
    BY <2>1
  <2>4. \A i \in DOMAIN cs : Insert(cs, cap)[i] \in {cap, cs[i]}
    BY <2>1
  <2>5. Insert(cs, cap) \in Seq(Slot)
    <3>1. DOMAIN cs = 1..Len(cs) /\ Len(cs) \in Nat
      BY <2>2
    <3>2. Insert(cs, cap) = [i \in 1..Len(cs) |-> Insert(cs, cap)[i]]
      BY <2>1, <2>3, <3>1, Zenon
    <3>3. \A i \in 1..Len(cs) : Insert(cs, cap)[i] \in Slot
      BY <2>2, <2>4, <3>1
    <3> QED BY <3>1, <3>2, <3>3, IsASeq
  <2> QED BY <2>3, <2>4, <2>5 DEF Slots, Slot
<1> QED BY <1>1, <1>2

\* A step that creates no thread and leaves the other variables alone.
LEMMA SameCreated ==
  ASSUME next_id' = next_id
  PROVE  Created' = Created /\ (SwitchOKNext(Created) => SwitchOK')
BY DEF Created, SwitchOK, SwitchOKNext

\* The switching variables when only the run queue grows.
LEMMA GrowQueueOK ==
  ASSUME SwitchOK, NEW t \in Created, run_queue' = PushBack(run_queue, t),
         UNCHANGED <<current, saved, frame, STATE_TO_UPDATE, rsp0, cpu>>
  PROVE  SwitchOKNext(Created)
<1>1. run_queue' \in Seq(Created)
  BY PushBackType DEF SwitchOK, SwitchValues
<1> QED BY <1>1 DEF SwitchOK, SwitchOKNext, SwitchValues

\* Boot, idling, yielding and the timer.
LEMMA SwitchingStep ==
  ASSUME TypeInv, Timer \/ BootYield \/ IdleResume \/ SysYield
  PROVE  TypeInv'
<1>1. SwitchOKNext(Created)
  BY CreatedThreads, SwitchingOK
    DEF TypeInv, Timer, BootYield, IdleResume, SysYield
<1>2. UNCHANGED <<irqVars, ipcVars, processVars, next_endpoint>>
  BY DEF Timer, BootYield, IdleResume, SysYield
<1> QED
  BY <1>1, <1>2, SameCreated DEF TypeInv, irqVars, ipcVars, processVars

\* Interrupts.
LEMMA IrqStep ==
  ASSUME TypeInv, DeviceIrq \/ SysWaitIrq
  PROVE  TypeInv'
<1>1. CASE DeviceIrq
  <2>1. PICK irq \in Irq :
          unblock_irq(irq) /\ UNCHANGED <<ipcVars, processVars, next_endpoint>>
    BY <1>1 DEF DeviceIrq
  <2>2. SwitchOKNext(Created) /\ IrqValues(Created, irq_waiters', pending_irqs')
    <3>1. CASE irq_waiters[irq] # NoThread
      <4>1. irq_waiters[irq] \in Created
        BY <3>1 DEF TypeInv, IrqValues
      <4>2. SwitchOKNext(Created)
        BY <2>1, <3>1, <4>1, GrowQueueOK DEF unblock_irq, TypeInv
      <4> QED BY <2>1, <3>1, <4>2 DEF unblock_irq, TypeInv, IrqValues
    <3>2. CASE irq_waiters[irq] = NoThread
      BY <2>1, <3>2, Zenon DEF unblock_irq, TypeInv, IrqValues, SwitchOK, SwitchOKNext
    <3> QED BY <3>1, <3>2
  <2> QED
    BY <2>1, <2>2, SameCreated DEF TypeInv, ipcVars, processVars
<1>2. CASE SysWaitIrq
  <2>1. PICK h \in Handle :
          /\ Holds(h, "Interrupt", {})
          /\ sys_wait_irq(Get(CurrentCSpace, h).obj)
          /\ UNCHANGED <<ipcVars, processVars, next_endpoint>>
    BY <1>2 DEF SysWaitIrq
  <2> DEFINE irq == Get(CurrentCSpace, h).obj
  <2>2. InUser /\ irq \in Irq
    BY <1>2, <2>1, HeldSlot DEF SysWaitIrq, Holds, ValidSlot
  <2>3. sys_wait_irq(irq)
    BY <2>1
  <2> HIDE DEF irq
  <2>4. SwitchOKNext(Created) /\ IrqValues(Created, irq_waiters', pending_irqs')
    <3>1. CASE pending_irqs[irq]
      BY <2>2, <2>3, <3>1, Zenon
        DEF sys_wait_irq, switchVars, TypeInv, IrqValues, SwitchOK, SwitchOKNext
    <3>2. CASE ~pending_irqs[irq]
      <4>1. Block("sys_wait_irq") /\ "sys_wait_irq" \in Site
        BY <2>3, <3>2 DEF sys_wait_irq, Site
      <4>2. SwitchOKNext(Created)
        BY <2>2, <4>1, BlockOK, CreatedThreads DEF TypeInv
      <4> QED
        BY <2>2, <2>3, <3>2, <4>2, Caller DEF sys_wait_irq, TypeInv, IrqValues
    <3> QED BY <3>1, <3>2
  <2> QED
    BY <2>1, <2>4, SameCreated DEF TypeInv, ipcVars, processVars
<1> QED BY <1>1, <1>2

-----------------------------------------------------------------------------
(* Messages.                                                               *)

\* An entry joins an endpoint's queue.
LEMMA EnqueueType ==
  ASSUME TypeInv, NEW e \in Endpoint,
         NEW v \in {"SendersWaiting", "ReceiversWaiting"},
         NEW t \in Created, NEW m \in Msg \cup {ZeroMsg}
  PROVE  Enqueue(e, v, Waiting(t, m)) \in Endpoints(Created)
<1> DEFINE QE == QueueEntry(Created)
           q == endpoints[e].queue
<1>1. endpoints \in Endpoints(Created) /\ q \in Seq(QE)
  BY DEF TypeInv, IpcValues, Endpoints
<1>2. Waiting(t, m) \in QE
  BY DEF Waiting, QueueEntry
<1> HIDE DEF QE
<1>3. Append(q, Waiting(t, m)) \in Seq(QE)
  BY <1>1, <1>2, AppendProperties
<1> QED BY <1>1, <1>3 DEF Enqueue, Endpoints, QE

\* The head leaves an endpoint's queue.
LEMMA DequeueType ==
  ASSUME TypeInv, NEW e \in Endpoint, endpoints[e].queue # <<>>
  PROVE  /\ Dequeue(e) \in Endpoints(Created)
         /\ Head(endpoints[e].queue) \in QueueEntry(Created)
<1> DEFINE QE == QueueEntry(Created)
           q == endpoints[e].queue
<1>1. endpoints \in Endpoints(Created) /\ q \in Seq(QE)
  BY DEF TypeInv, IpcValues, Endpoints
<1> HIDE DEF QE
<1>2. Tail(q) \in Seq(QE) /\ Head(q) \in QE
  BY <1>1, HeadTailProperties
<1> QED BY <1>1, <1>2, Zenon DEF Dequeue, Endpoints, QE

\* A delivery from endpoint e to receiver r.
LEMMA DeliverOK ==
  ASSUME TypeInv, NEW e \in Endpoint, endpoints[e].queue # <<>>,
         NEW m \in Msg, NEW r \in Created,
         Deliver(e, m, r, Head(endpoints[e].queue).thread),
         next_msg' \in 1..(MaxMsgs + 1)
  PROVE  /\ SwitchOKNext(Created)
         /\ IpcValues(Created, endpoints', msg_buf', next_msg', delivered')
<1>1. /\ Dequeue(e) \in Endpoints(Created)
      /\ Head(endpoints[e].queue).thread \in Created
  BY DequeueType DEF QueueEntry
<1>2. SwitchOKNext(Created)
  BY <1>1, GrowQueueOK DEF Deliver, TypeInv
<1>3. msg_buf' \in [Thread -> Msg \cup {ZeroMsg, NoMsg}] /\ delivered' \in SUBSET Msg
  BY Zenon DEF Deliver, TypeInv, IpcValues
<1>4. endpoints' \in Endpoints(Created)
  BY <1>1 DEF Deliver
<1> QED BY <1>2, <1>3, <1>4 DEF IpcValues, Endpoints

\* sys_send.
LEMMA SendOK ==
  ASSUME TypeInv, NEW e \in Endpoint, sys_send(e)
  PROVE  /\ SwitchOKNext(Created)
         /\ IpcValues(Created, endpoints', msg_buf', next_msg', delivered')
<1>1. /\ InUser
      /\ next_msg \in Msg
      /\ next_msg' \in 1..(MaxMsgs + 1)
  BY IpcAssumption DEF sys_send, TypeInv, IpcValues, Msg
<1>2. current \in Created
  BY <1>1, Caller
<1>3. CASE /\ endpoints[e].state = "ReceiversWaiting"
           /\ endpoints[e].queue # <<>>
  <2>1. Head(endpoints[e].queue).thread \in Created
    BY <1>3, DequeueType DEF QueueEntry
  <2> QED BY <1>1, <1>3, <2>1, DeliverOK DEF sys_send
<1>4. CASE endpoints[e].state # "ReceiversWaiting"
  <2>1. /\ endpoints' = Enqueue(e, "SendersWaiting", Waiting(current, next_msg))
        /\ UNCHANGED <<msg_buf, delivered>>
        /\ Block("sys_send")
    BY <1>4 DEF sys_send
  <2>2. "sys_send" \in Site
    BY DEF Site
  <2>3. SwitchOKNext(Created)
    BY <1>1, <2>1, <2>2, BlockOK, CreatedThreads DEF TypeInv
  <2>4. endpoints' \in Endpoints(Created)
    BY <1>1, <1>2, <2>1, EnqueueType
  <2> QED BY <1>1, <2>1, <2>3, <2>4 DEF TypeInv, IpcValues, Endpoints
<1>5. CASE /\ endpoints[e].state = "ReceiversWaiting"
           /\ endpoints[e].queue = <<>>
  BY <1>1, <1>5, Zenon
    DEF sys_send, switchVars, TypeInv, IpcValues, SwitchOK, SwitchOKNext
<1> QED BY <1>3, <1>4, <1>5

\* sys_recv.  A message taken from a sender is a real one.
LEMMA RecvOK ==
  ASSUME TypeInv, WaitingMessagesInOrder, NEW e \in Endpoint, sys_recv(e)
  PROVE  /\ SwitchOKNext(Created)
         /\ IpcValues(Created, endpoints', msg_buf', next_msg', delivered')
<1>1. /\ InUser
      /\ next_msg' \in 1..(MaxMsgs + 1)
  BY DEF sys_recv, TypeInv, IpcValues
<1>2. current \in Created /\ current \in Thread
  BY <1>1, Caller
<1>3. CASE /\ endpoints[e].state = "SendersWaiting"
           /\ endpoints[e].queue # <<>>
  <2>1. Head(endpoints[e].queue).msg \in Msg
    <3>1. endpoints[e].queue \in Seq(QueueEntry(Created))
      BY DEF TypeInv, IpcValues, Endpoints
    <3>2. 1 \in DOMAIN endpoints[e].queue /\ Head(endpoints[e].queue) = endpoints[e].queue[1]
      BY <1>3, <3>1
    <3>3. Head(endpoints[e].queue).msg \in 1..(next_msg - 1)
      BY <1>3, <3>2 DEF WaitingMessagesInOrder
    <3> QED BY <3>3, IpcAssumption DEF TypeInv, IpcValues, Msg
  <2> QED BY <1>1, <1>2, <1>3, <2>1, DeliverOK DEF sys_recv
<1>4. CASE endpoints[e].state # "SendersWaiting"
  <2>1. /\ endpoints' = Enqueue(e, "ReceiversWaiting", Waiting(current, ZeroMsg))
        /\ msg_buf' = [msg_buf EXCEPT ![current] = ZeroMsg]
        /\ UNCHANGED delivered
        /\ Block("sys_recv")
    BY <1>4, Zenon DEF sys_recv
  <2>2. "sys_recv" \in Site
    BY DEF Site
  <2>3. SwitchOKNext(Created)
    BY <1>1, <2>1, <2>2, BlockOK, CreatedThreads DEF TypeInv
  <2>4. endpoints' \in Endpoints(Created)
    BY <1>2, <2>1, EnqueueType
  <2> QED BY <1>1, <2>1, <2>3, <2>4, Zenon DEF TypeInv, IpcValues, Endpoints
<1>5. CASE /\ endpoints[e].state = "SendersWaiting"
           /\ endpoints[e].queue = <<>>
  BY <1>1, <1>5, Zenon
    DEF sys_recv, switchVars, TypeInv, IpcValues, SwitchOK, SwitchOKNext
<1> QED BY <1>3, <1>4, <1>5

\* SysSend and SysRecv.
LEMMA IpcStep ==
  ASSUME TypeInv, WaitingMessagesInOrder, SysSend \/ SysRecv
  PROVE  TypeInv'
<1>1. PICK e \in Endpoint :
        /\ sys_send(e) \/ sys_recv(e)
        /\ UNCHANGED <<irqVars, processVars, next_endpoint>>
  <2>1. CASE SysSend
    <3>1. PICK h \in Handle :
            /\ Holds(h, "Endpoint", {"SEND"})
            /\ sys_send(Get(CurrentCSpace, h).obj)
            /\ UNCHANGED <<irqVars, processVars, next_endpoint>>
      BY <2>1 DEF SysSend
    <3>2. Get(CurrentCSpace, h).obj \in Endpoint
      <4>1. InUser
        BY <2>1 DEF SysSend
      <4> QED BY <3>1, <4>1, HeldObject
    <3> QED BY <3>1, <3>2
  <2>2. CASE SysRecv
    <3>1. PICK h \in Handle :
            /\ Holds(h, "Endpoint", {"RECEIVE"})
            /\ sys_recv(Get(CurrentCSpace, h).obj)
            /\ UNCHANGED <<irqVars, processVars, next_endpoint>>
      BY <2>2 DEF SysRecv
    <3>2. Get(CurrentCSpace, h).obj \in Endpoint
      <4>1. InUser
        BY <2>2 DEF SysRecv
      <4> QED BY <3>1, <4>1, HeldObject
    <3> QED BY <3>1, <3>2
  <2> QED BY <2>1, <2>2
<1>2. /\ SwitchOKNext(Created)
      /\ IpcValues(Created, endpoints', msg_buf', next_msg', delivered')
  BY <1>1, SendOK, RecvOK
<1> QED
  BY <1>1, <1>2, SameCreated DEF TypeInv, irqVars, processVars

\* SYS_EP_CREATE.
LEMMA EndpointCreateStep ==
  ASSUME TypeInv, sys_endpoint_create
  PROVE  TypeInv'
<1> DEFINE cap == [type |-> "Endpoint", obj |-> next_endpoint, rights |-> Rights]
           p == process_of[current]
<1>1. /\ InUser
      /\ next_endpoint \in Endpoint
      /\ next_endpoint' = next_endpoint + 1
      /\ cspaces' = [cspaces EXCEPT ![p] = Insert(@, cap)]
      /\ UNCHANGED <<switchVars, irqVars, ipcVars, processes, process_of, next_id>>
  BY DEF sys_endpoint_create
<1>2. /\ next_endpoint \in Nat \ {0} /\ next_id \in Nat
      /\ next_endpoint' \in 1..(MaxEndpoints + 1)
      /\ cspaces \in [Thread -> Slots]
  BY <1>1, IpcAssumption, ThreadSwitchAssumption DEF Endpoint, TypeInv, CSpaceValues
<1>3. cap \in Capability /\ ValidSlot(cap, next_id, next_endpoint')
  BY <1>1, <1>2 DEF Capability, CapType, ValidSlot
<1>4. \A q \in Thread : \A i \in DOMAIN cspaces[q] :
        ValidSlot(cspaces[q][i], next_id, next_endpoint')
  <2>1. next_endpoint' \in Nat /\ next_endpoint <= next_endpoint' /\ next_id <= next_id
    BY <1>1, <1>2
  <2>2. \A q \in Thread : \A i \in DOMAIN cspaces[q] :
          ValidSlot(cspaces[q][i], next_id, next_endpoint)
    BY DEF TypeInv, CSpaceValues
  <2> QED BY <1>2, <2>1, <2>2, ValidSlotMonotone
<1>5. p \in Thread
  BY <1>1, Caller
<1> HIDE DEF cap, p
<1>6. /\ Insert(cspaces[p], cap) \in Slots
      /\ \A i \in DOMAIN Insert(cspaces[p], cap) :
           ValidSlot(Insert(cspaces[p], cap)[i], next_id, next_endpoint')
  BY <1>2, <1>3, <1>4, <1>5, InsertValid
<1>7. CSpaceValues(cspaces', next_id', next_endpoint')
  BY <1>1, <1>2, <1>4, <1>5, <1>6 DEF CSpaceValues, TypeInv
<1> QED
  BY <1>1, <1>7
    DEF TypeInv, switchVars, irqVars, ipcVars, SwitchOK, Created

-----------------------------------------------------------------------------
(* Processes.                                                              *)

\* The creation of a thread in process p: every queue stays typed, now over
\* one more thread.
LEMMA NewThreadOK ==
  ASSUME TypeInv, NEW p \in 1..next_id, NewThread(p), InUser,
         UNCHANGED <<irqVars, ipcVars>>
  PROVE  /\ SwitchOK'
         /\ IrqValues(Created', irq_waiters', pending_irqs')
         /\ IpcValues(Created', endpoints', msg_buf', next_msg', delivered')
         /\ ProcessValues(Created', processes, process_of')
         /\ Created \subseteq Created' /\ next_id \in Created'
         /\ Created' \subseteq Thread
<1>1. /\ next_id \in Thread
      /\ next_id' = next_id + 1
      /\ process_of' = [process_of EXCEPT ![next_id] = p]
      /\ saved' = [saved EXCEPT ![next_id] = Cooperative(NewDepth)]
      /\ frame' = [frame EXCEPT ![next_id] = CoopFrame(NewDepth, TRUE)]
      /\ run_queue' = PushBack(run_queue, next_id)
      /\ UNCHANGED <<current, STATE_TO_UPDATE, rsp0, cpu>>
  BY DEF NewThread
<1>2. /\ Created' = Created \cup {next_id}
      /\ Created' = 1..next_id
      /\ Created' \subseteq Thread
  BY <1>1, ThreadSwitchAssumption DEF Created, Thread
<1>3. SwitchOK'
  <2>1. run_queue \in Seq(Created')
    BY <1>2, SeqMonotone DEF TypeInv, SwitchOK, SwitchValues
  <2>2. run_queue' \in Seq(Created')
    BY <1>1, <1>2, <2>1, PushBackType
  <2>3. saved' \in [Thread -> SavedThreadState] /\ frame' \in [Thread -> Frame]
    BY <1>1 DEF TypeInv, SwitchOK, SwitchValues, Cooperative, CoopFrame,
                NewDepth, SavedThreadState, Frame
  <2>4. current' \in Created' \cup {NoThread}
    BY <1>1, <1>2 DEF TypeInv, SwitchOK, SwitchValues
  <2> QED
    BY <1>1, <2>2, <2>3, <2>4, Zenon DEF TypeInv, SwitchOK, SwitchValues
<1>4. IrqValues(Created', irq_waiters', pending_irqs')
  BY <1>2 DEF TypeInv, IrqValues, irqVars
<1>5. IpcValues(Created', endpoints', msg_buf', next_msg', delivered')
  <2>1. QueueEntry(Created) \subseteq QueueEntry(Created')
    BY <1>2 DEF QueueEntry
  <2>2. Seq(QueueEntry(Created)) \subseteq Seq(QueueEntry(Created'))
    BY <2>1, SeqMonotone
  <2> QED BY <2>2 DEF TypeInv, IpcValues, Endpoints, ipcVars
<1>6. ProcessValues(Created', processes, process_of')
  <2>1. processes \in [Thread -> [terminated : BOOLEAN, wait_queue : Seq(Created')]]
    <3> DEFINE States(S) == [terminated : BOOLEAN, wait_queue : Seq(S)]
    <3>1. Seq(Created) \subseteq Seq(Created')
      BY <1>2, SeqMonotone
    <3>2. States(Created) \subseteq States(Created')
      BY <3>1
    <3>3. processes \in [Thread -> States(Created)]
      BY DEF TypeInv, ProcessValues
    <3> HIDE DEF States
    <3>4. processes \in [Thread -> States(Created')]
      BY <3>2, <3>3
    <3> QED BY <3>4 DEF States
  <2>2. process_of' \in [Thread -> Thread \cup {NoThread}]
    BY <1>1, <1>2, Zenon DEF TypeInv, ProcessValues
  <2>3. \A t \in Created' : process_of'[t] \in Created'
    BY <1>1, <1>2, Zenon DEF TypeInv, ProcessValues
  <2> QED BY <2>1, <2>2, <2>3 DEF ProcessValues
<1> QED BY <1>2, <1>3, <1>4, <1>5, <1>6

\* SYS_THREAD_SPAWN.
LEMMA ThreadSpawnStep ==
  ASSUME TypeInv, SysThreadSpawn
  PROVE  TypeInv'
<1>1. /\ InUser
      /\ NewThread(process_of[current])
      /\ UNCHANGED <<processes, cspaces, irqVars, ipcVars, next_endpoint>>
  BY DEF SysThreadSpawn, sys_thread_spawn
<1>2. process_of[current] \in 1..next_id
  BY <1>1, Caller DEF Created, TypeInv, CSpaceValues
<1>3. next_id' = next_id + 1 /\ next_id \in Thread
  BY <1>1 DEF NewThread
<1>4. CSpaceValues(cspaces', next_id', next_endpoint')
  <2>1. /\ next_id \in Nat /\ next_endpoint \in Nat /\ next_id <= next_id'
        /\ next_id' \in Nat /\ next_id' \in 1..(MaxThreads + 1)
    BY <1>3, ThreadSwitchAssumption, IpcAssumption DEF Thread, TypeInv, CSpaceValues
  <2>2. \A p \in Thread : \A i \in DOMAIN cspaces[p] :
          ValidSlot(cspaces[p][i], next_id', next_endpoint)
    BY <2>1, ValidSlotMonotone DEF TypeInv, CSpaceValues
  <2> QED BY <1>1, <2>1, <2>2 DEF TypeInv, CSpaceValues
<1> QED
  BY <1>1, <1>2, <1>4, NewThreadOK DEF TypeInv

\* The CSpace given to a child is valid.
LEMMA ChildValid ==
  ASSUME TypeInv, InUser, NEW h \in EpHandle
  PROVE  /\ ChildCSpace(h) \in Slots
         /\ \A i \in DOMAIN ChildCSpace(h) :
              ValidSlot(ChildCSpace(h)[i], next_id, next_endpoint)
<1> DEFINE Slot == Capability \cup {NoCap}
           cap == Get(CurrentCSpace, h)
<1>1. CASE h = AllCaps
  BY <1>1, Caller DEF ChildCSpace
<1>2. CASE h # AllCaps /\ cap.type = "Endpoint"
  <2>1. h \in Nat
    BY <1>2, EpHandleAssumption
  <2>2. ValidSlot(cap, next_id, next_endpoint)
    <3>1. CASE h < Len(CurrentCSpace)
      BY <2>1, <3>1, HeldSlot, Caller DEF Handle, Slots
    <3>2. CASE ~(h < Len(CurrentCSpace))
      BY <1>2, <3>2 DEF Get, NoCap
    <3> QED BY <3>1, <3>2
  <2>3. cap \in Slot /\ NoCap \in Slot /\ ValidSlot(NoCap, next_id, next_endpoint)
    BY <2>2 DEF ValidSlot, NoCap
  <2> HIDE DEF cap
  <2>4. ChildCSpace(h) = [i \in 1..2 |-> IF i = 2 THEN cap ELSE NoCap]
    BY <1>2 DEF ChildCSpace, InsertAt, cap
  <2> HIDE DEF Slot
  <2>5. ChildCSpace(h) \in Seq(Slot)
    BY <2>3, <2>4, IsASeq
  <2> QED BY <2>2, <2>3, <2>4, <2>5 DEF Slots, Slot
<1>3. CASE h # AllCaps /\ cap.type # "Endpoint"
  BY <1>3 DEF ChildCSpace, Slots
<1> QED BY <1>1, <1>2, <1>3

\* SYS_SPAWN.
LEMMA SpawnStep ==
  ASSUME TypeInv, SysSpawn
  PROVE  TypeInv'
<1> DEFINE cap == [type |-> "Process", obj |-> next_id, rights |-> {"WAIT"}]
           pc == process_of[current]
<1>1. PICK h \in EpHandle : sys_spawn(h)
  BY DEF SysSpawn
<1>2. /\ InUser
      /\ NewThread(next_id)
      /\ processes' = [processes EXCEPT ![next_id] = NewProcessState]
      /\ cspaces' = [cspaces EXCEPT ![next_id] = ChildCSpace(h),
                                    ![pc] = Insert(@, cap)]
      /\ UNCHANGED <<irqVars, ipcVars, next_endpoint>>
  BY <1>1, Zenon DEF SysSpawn, sys_spawn
<1>3. next_id' = next_id + 1 /\ next_id \in Thread
  BY <1>2 DEF NewThread
<1>4. /\ next_id \in Nat \ {0} /\ next_endpoint \in Nat
      /\ next_id' \in Nat /\ next_id' \in 1..(MaxThreads + 1)
      /\ cspaces \in [Thread -> Slots]
  BY <1>3, ThreadSwitchAssumption, IpcAssumption DEF Thread, TypeInv, CSpaceValues
<1>5. pc \in Thread /\ pc # next_id
  BY <1>2, <1>4, Caller DEF Created
<1>6. /\ ChildCSpace(h) \in Slots
      /\ \A i \in DOMAIN ChildCSpace(h) :
           ValidSlot(ChildCSpace(h)[i], next_id', next_endpoint)
  BY <1>2, <1>3, <1>4, ChildValid, ValidSlotMonotone
<1>7. \A p \in Thread : \A i \in DOMAIN cspaces[p] :
        ValidSlot(cspaces[p][i], next_id', next_endpoint)
  BY <1>3, <1>4, ValidSlotMonotone DEF TypeInv, CSpaceValues
<1>8. cap \in Capability /\ ValidSlot(cap, next_id', next_endpoint)
  BY <1>3, <1>4 DEF Capability, CapType, Rights, ValidSlot
<1> HIDE DEF cap, pc
<1>9. /\ Insert(cspaces[pc], cap) \in Slots
      /\ \A i \in DOMAIN Insert(cspaces[pc], cap) :
           ValidSlot(Insert(cspaces[pc], cap)[i], next_id', next_endpoint)
  BY <1>4, <1>5, <1>7, <1>8, InsertValid
<1>10. /\ cspaces' \in [Thread -> Slots]
       /\ cspaces'[pc] = Insert(cspaces[pc], cap)
       /\ cspaces'[next_id] = ChildCSpace(h)
       /\ \A p \in Thread \ {pc, next_id} : cspaces'[p] = cspaces[p]
  BY <1>2, <1>3, <1>4, <1>5, <1>6, <1>9
<1>11. \A p \in Thread : \A i \in DOMAIN cspaces'[p] :
         ValidSlot(cspaces'[p][i], next_id', next_endpoint)
  BY <1>6, <1>7, <1>9, <1>10
<1>12. CSpaceValues(cspaces', next_id', next_endpoint')
  BY <1>2, <1>4, <1>10, <1>11 DEF CSpaceValues, TypeInv
<1>13. /\ SwitchOK'
       /\ IrqValues(Created', irq_waiters', pending_irqs')
       /\ IpcValues(Created', endpoints', msg_buf', next_msg', delivered')
       /\ ProcessValues(Created', processes, process_of')
  BY <1>2, <1>4, NewThreadOK
<1>14. ProcessValues(Created', processes', process_of')
  <2>1. NewProcessState \in [terminated : BOOLEAN, wait_queue : Seq(Created')]
    BY DEF NewProcessState
  <2> QED BY <1>2, <1>13, <2>1, Zenon DEF ProcessValues
<1> QED
  BY <1>12, <1>13, <1>14 DEF TypeInv

\* Exit, wait and fatal exceptions.
LEMMA ProcessStep ==
  ASSUME TypeInv, SysExit \/ SysWait \/ FatalException
  PROVE  TypeInv'
<1>1. /\ InUser
      /\ UNCHANGED <<irqVars, ipcVars, next_endpoint, process_of, cspaces, next_id>>
  BY Zenon DEF SysExit, exit_current_thread, SysWait, sys_wait, FatalException,
         fatal_exception, processVars
<1>2. /\ current \in Created /\ current \in Thread
      /\ process_of[current] \in Thread
      /\ Created \subseteq Thread
  BY <1>1, Caller, CreatedThreads
<1>3. SwitchOKNext(Created) /\ ProcessValues(Created, processes', process_of')
  <2>1. CASE SysExit
    <3> DEFINE p == process_of[current]
               waiters == processes[p].wait_queue
               queue == run_queue \o waiters
               moved == {current} \cup {waiters[i] : i \in DOMAIN waiters}
               pending == IF STATE_TO_UPDATE \in moved
                          THEN Dangling ELSE STATE_TO_UPDATE
    <3>1. /\ processes' = [processes EXCEPT
                            ![p] = [terminated |-> TRUE, wait_queue |-> <<>>]]
          /\ \/ /\ queue # <<>>
                /\ RunNext(queue, saved, frame, pending, Junk, "exit")
             \/ /\ queue = <<>>
                /\ current' = NoThread
                /\ cpu' = Cpu("all_exited", NoThread, NoSite)
                /\ UNCHANGED <<run_queue, saved, frame, STATE_TO_UPDATE, rsp0>>
      BY <2>1, Zenon DEF SysExit, exit_current_thread
    <3>2. waiters \in Seq(Created) /\ run_queue \in Seq(Created)
      BY <1>2 DEF TypeInv, ProcessValues, SwitchOK, SwitchValues
    <3>3. pending \in Thread \cup {NoThread, Dangling}
      <4>1. STATE_TO_UPDATE \in Thread \cup {NoThread, Dangling}
        BY DEF TypeInv, SwitchOK, SwitchValues
      <4> HIDE DEF moved
      <4> QED BY <4>1
    <3>4. ProcessValues(Created, processes', process_of')
      <4> DEFINE ended == [terminated |-> TRUE, wait_queue |-> <<>>]
      <4>1. processes' = [processes EXCEPT ![p] = ended] /\ process_of' = process_of
        BY <1>1, <3>1
      <4>2. ended \in [terminated : BOOLEAN, wait_queue : Seq(Created)]
        OBVIOUS
      <4>3. ProcessValues(Created, processes, process_of)
        BY DEF TypeInv
      <4> HIDE DEF ended, p
      <4> QED BY <4>1, <4>2, <4>3, Zenon DEF ProcessValues
    <3> HIDE DEF pending, waiters
    <3>5. queue \in Seq(Created)
      BY <3>2, ConcatProperties
    <3> HIDE DEF queue
    <3>6. CASE /\ queue # <<>>
               /\ RunNext(queue, saved, frame, pending, Junk, "exit")
      BY <1>2, <3>3, <3>4, <3>5, <3>6, RunNextOK, Zenon DEF TypeInv, SwitchOK, SwitchValues
    <3>7. CASE /\ current' = NoThread
               /\ cpu' = Cpu("all_exited", NoThread, NoSite)
               /\ UNCHANGED <<run_queue, saved, frame, STATE_TO_UPDATE, rsp0>>
      <4>1. /\ cpu' \in [mode : Mode, thread : Thread \cup {NoThread},
                         site : Site \cup {NoSite}]
            /\ cpu'.mode = "all_exited"
        BY <3>7 DEF Cpu, Mode
      <4> QED
        BY <3>4, <3>7, <4>1 DEF TypeInv, SwitchOK, SwitchOKNext, SwitchValues
    <3> QED BY <3>1, <3>6, <3>7
  <2>2. CASE SysWait
    <3>1. PICK h \in Handle :
            Holds(h, "Process", {"WAIT"}) /\ sys_wait(Get(CurrentCSpace, h).obj)
      BY <2>2 DEF SysWait
    <3> DEFINE p == Get(CurrentCSpace, h).obj
    <3>2. p \in Thread
      BY <1>1, <1>2, <3>1, HeldObject
    <3>3. sys_wait(p)
      BY <3>1
    <3> HIDE DEF p
    <3>4. CASE processes[p].terminated
      BY <1>1, <3>3, <3>4
        DEF sys_wait, switchVars, TypeInv, SwitchOK, SwitchOKNext, ProcessValues
    <3>5. CASE ~processes[p].terminated
      <4>1. /\ processes' = [processes EXCEPT
                              ![p].wait_queue = PushBack(@, current)]
            /\ Block("sys_wait") /\ "sys_wait" \in Site
        BY <3>3, <3>5 DEF sys_wait, Site
      <4>2. SwitchOKNext(Created)
        BY <1>1, <1>2, <4>1, BlockOK DEF TypeInv
      <4>3. PushBack(processes[p].wait_queue, current) \in Seq(Created)
        BY <1>2, <3>2, PushBackType DEF TypeInv, ProcessValues
      <4> QED
        BY <1>1, <3>2, <4>1, <4>2, <4>3, Zenon DEF TypeInv, ProcessValues
    <3> QED BY <3>4, <3>5
  <2>3. CASE FatalException
    <3>1. /\ cpu' = Cpu("exception", current, NoSite)
          /\ UNCHANGED <<run_queue, current, saved, frame, STATE_TO_UPDATE, rsp0,
                         processes, process_of>>
      BY <2>3 DEF FatalException, fatal_exception, processVars
    <3>2. /\ cpu' \in [mode : Mode, thread : Thread \cup {NoThread},
                       site : Site \cup {NoSite}]
          /\ cpu'.mode = "exception"
      BY <1>2, <3>1 DEF Cpu, Mode
    <3> QED
      BY <3>1, <3>2, Zenon
        DEF TypeInv, SwitchOK, SwitchOKNext, SwitchValues, ProcessValues
  <2> QED BY <2>1, <2>2, <2>3
<1> QED
  BY <1>1, <1>3, SameCreated DEF TypeInv, irqVars, ipcVars

EndpointValue(S) == [state : {"Idle", "SendersWaiting", "ReceiversWaiting"},
                     queue : Seq(QueueEntry(S))]

\* The type of one endpoint, and next_msg.
LEMMA EndpointType ==
  ASSUME TypeInv, NEW e \in Endpoint
  PROVE  /\ endpoints[e] \in EndpointValue(Created)
         /\ endpoints \in Endpoints(Created)
         /\ DOMAIN endpoints = Endpoint
         /\ next_msg \in Nat \ {0}
BY DEF TypeInv, IpcValues, Endpoints, EndpointValue
=============================================================================
