-------------------------------- MODULE Ipc ---------------------------------
(***************************************************************************)
(* Endpoints and synchronous message passing: ipc/mod.rs, and sys_send and *)
(* sys_recv of task/scheduler.rs.  Messages are numbered in the order of   *)
(* the sys_send calls; 0 stands for the all-zero Message with which        *)
(* sys_recv initialises its buffer.                                        *)
(***************************************************************************)
EXTENDS ThreadSwitch

CONSTANTS MaxEndpoints,   \* bound on the endpoints ever created
          MaxMsgs         \* bound on the sys_send calls

ASSUME IpcAssumption == MaxEndpoints \in Nat /\ MaxMsgs \in Nat

Endpoint == 1..MaxEndpoints
Msg      == 1..MaxMsgs
ZeroMsg  == 0
NoMsg    == -1        \* the thread has not called sys_recv yet

VARIABLES
  endpoints,   \* Endpoint.state of each endpoint
  msg_buf,     \* what sys_recv returns to each thread: its kernel buffer
               \* while it waits, afterwards the user's copy
  next_msg,    \* history: the number of the next sys_send call
  delivered    \* history: the messages handed to a receiver

ipcVars == <<endpoints, msg_buf, next_msg, delivered>>

EndpointState == [state : {"Idle", "SendersWaiting", "ReceiversWaiting"},
                  queue : Seq([thread : Thread, msg : Msg \cup {ZeroMsg}])]

IpcInit ==
  /\ endpoints = [e \in Endpoint |-> [state |-> "Idle", queue |-> <<>>]]
  /\ msg_buf = [t \in Thread |-> NoMsg]
  /\ next_msg = 1
  /\ delivered = {}

Waiting(t, m) == [thread |-> t, msg |-> m]

\* Mutant: push_front.
EnqueueFront(e, variant, entry) ==
  [endpoints EXCEPT ![e] = [state |-> variant,
                            queue |-> <<entry>> \o @.queue]]

\* queue.push_back in the given variant; Idle is converted to it.
Enqueue(e, variant, entry) ==
  [endpoints EXCEPT ![e] = [state |-> variant,
                            queue |-> Append(@.queue, entry)]]

\* Mutant: the entry is read and left in the queue.
Peek(e) == endpoints

\* Mutant: pop_back.
DequeueBack(e) ==
  [endpoints EXCEPT ![e].queue = SubSeq(@, 1, Len(@) - 1)]

\* queue.pop_front: the variant stays, with an empty queue if need be.
Dequeue(e) == [endpoints EXCEPT ![e].queue = Tail(@)]

\* The message moves from sender to receiver r; the thread that was waiting
\* becomes runnable.
Deliver(e, m, r, waiter) ==
  /\ endpoints' = Dequeue(e)
  /\ msg_buf' = [msg_buf EXCEPT ![r] = m]
  /\ delivered' = delivered \cup {m}
  /\ run_queue' = PushBack(run_queue, waiter)
  /\ UNCHANGED <<current, saved, frame, STATE_TO_UPDATE, rsp0, cpu>>

\* SYS_SEND to endpoint e.  With ReceiversWaiting and an empty queue neither
\* branch of the code applies and the call returns Ok.
sys_send(e) ==
  LET state == endpoints[e].state
      queue == endpoints[e].queue
  IN  /\ InUser
      /\ next_msg <= MaxMsgs
      /\ next_msg' = next_msg + 1
      /\ \/ /\ state = "ReceiversWaiting"
            /\ queue # <<>>
            /\ Deliver(e, next_msg, Head(queue).thread, Head(queue).thread)
         \/ /\ state # "ReceiversWaiting"
            /\ endpoints' = Enqueue(e, "SendersWaiting",
                                    Waiting(current, next_msg))
            /\ UNCHANGED <<msg_buf, delivered>>
            /\ Block("sys_send")
         \/ /\ state = "ReceiversWaiting"
            /\ queue = <<>>
            /\ UNCHANGED <<endpoints, msg_buf, delivered>>
            /\ UNCHANGED switchVars

\* SYS_RECV from endpoint e.  With SendersWaiting and an empty queue the call
\* returns the zeroed buffer.
sys_recv(e) ==
  LET state == endpoints[e].state
      queue == endpoints[e].queue
  IN  /\ InUser
      /\ UNCHANGED next_msg
      /\ \/ /\ state = "SendersWaiting"
            /\ queue # <<>>
            /\ Deliver(e, Head(queue).msg, current, Head(queue).thread)
         \/ /\ state # "SendersWaiting"
            /\ endpoints' = Enqueue(e, "ReceiversWaiting",
                                    Waiting(current, ZeroMsg))
            /\ msg_buf' = [msg_buf EXCEPT ![current] = ZeroMsg]
            /\ UNCHANGED delivered
            /\ Block("sys_recv")
         \/ /\ state = "SendersWaiting"
            /\ queue = <<>>
            /\ msg_buf' = [msg_buf EXCEPT ![current] = ZeroMsg]
            /\ UNCHANGED <<endpoints, delivered>>
            /\ UNCHANGED switchVars
=============================================================================
