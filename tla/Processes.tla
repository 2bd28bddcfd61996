----------------------------- MODULE Processes ------------------------------
(***************************************************************************)
(* Processes and their threads: creation (sys_spawn, sys_thread_spawn and  *)
(* spawn_from_elf), termination (exit_current_thread, reached from         *)
(* SYS_EXIT and from a user-mode page fault) and sys_wait.  A process is   *)
(* named by its first thread.                                              *)
(***************************************************************************)
EXTENDS ThreadSwitch, CSpace

CONSTANT EpHandle     \* the ep_handle arguments passed to SYS_SPAWN

AllCaps == -1         \* usize::MAX

ASSUME EpHandleAssumption == EpHandle \subseteq Nat \cup {AllCaps}

VARIABLES
  processes,    \* ProcessState of each process
  process_of,   \* the process each thread belongs to
  cspaces,      \* the CSpace shared by the threads of each process
  next_id       \* NEXT_ID of new_user_thread

processVars == <<processes, process_of, cspaces, next_id>>

ProcessState == [terminated : BOOLEAN, wait_queue : Seq(Thread)]

NewProcessState == [terminated |-> FALSE, wait_queue |-> <<>>]

CurrentCSpace == cspaces[process_of[current]]

\* Process::new and Thread::new_user_thread: thread next_id of process p,
\* its trampoline context at the top of its stack, at the end of the queue.
NewThread(p) ==
  /\ next_id \in Thread
  /\ next_id' = next_id + 1
  /\ process_of' = [process_of EXCEPT ![next_id] = p]
  /\ saved' = [saved EXCEPT ![next_id] = Cooperative(NewDepth)]
  /\ frame' = [frame EXCEPT ![next_id] = CoopFrame(NewDepth, TRUE)]
  /\ run_queue' = PushBack(run_queue, next_id)
  /\ UNCHANGED <<current, STATE_TO_UPDATE, rsp0, cpu>>

\* SYS_THREAD_SPAWN: a second thread sharing the caller's process state,
\* page table and CSpace.
sys_thread_spawn ==
  /\ InUser
  /\ NewThread(process_of[current])
  /\ UNCHANGED <<processes, cspaces>>

\* The child's CSpace in SYS_SPAWN: every capability of the caller at the
\* same handle when ep_handle is usize::MAX, otherwise the named endpoint at
\* handle 1, or nothing if the handle names no endpoint.  (The caller's last
\* slot is never empty, so copying the occupied slots copies the vector.)
ChildCSpace(h) ==
  IF h = AllCaps THEN CurrentCSpace
  ELSE IF Get(CurrentCSpace, h).type = "Endpoint"
  THEN InsertAt(<<>>, 1, Get(CurrentCSpace, h))
  ELSE <<>>

\* SYS_SPAWN: a new process with one thread; the caller gets a Process
\* capability with the WAIT right.
sys_spawn(h) ==
  /\ InUser
  /\ NewThread(next_id)
  /\ processes' = [processes EXCEPT ![next_id] = NewProcessState]
  /\ cspaces' =
       [cspaces EXCEPT
          ![next_id] = ChildCSpace(h),
          ![process_of[current]] =
            Insert(@, [type |-> "Process", obj |-> next_id,
                       rights |-> {"WAIT"}])]

\* Mutant: the waiters are woken but the process is not marked.
exit_unmarked ==
  LET p     == process_of[current]
      queue == run_queue \o processes[p].wait_queue
  IN  /\ InUser
      /\ queue # <<>>
      /\ processes' = [processes EXCEPT ![p].wait_queue = <<>>]
      /\ UNCHANGED <<process_of, cspaces, next_id>>
      /\ RunNext(queue, saved, frame, STATE_TO_UPDATE, Junk, "exit")

\* exit_current_thread.  The whole process is marked terminated and its
\* waiters become runnable.  The thread is freed and its waiters move out of
\* the wait queue's storage, so a STATE_TO_UPDATE that points to one of them
\* dangles.  With an empty run queue the kernel panics.
exit_current_thread ==
  LET p       == process_of[current]
      waiters == processes[p].wait_queue
      queue   == run_queue \o waiters
      moved   == {current} \cup {waiters[i] : i \in DOMAIN waiters}
      pending == IF STATE_TO_UPDATE \in moved
                 THEN Dangling ELSE STATE_TO_UPDATE
  IN  /\ InUser
      /\ processes' = [processes EXCEPT
                         ![p] = [terminated |-> TRUE, wait_queue |-> <<>>]]
      /\ UNCHANGED <<process_of, cspaces, next_id>>
      /\ \/ /\ queue # <<>>
            /\ RunNext(queue, saved, frame, pending, Junk, "exit")
         \/ /\ queue = <<>>
            /\ current' = NoThread
            /\ cpu' = Cpu("all_exited", NoThread, NoSite)
            /\ UNCHANGED <<run_queue, saved, frame, STATE_TO_UPDATE, rsp0>>

\* Mutant: block without looking whether the process has terminated.
sys_wait_unchecked(p) ==
  /\ InUser
  /\ UNCHANGED <<process_of, cspaces, next_id>>
  /\ processes' = [processes EXCEPT ![p].wait_queue = PushBack(@, current)]
  /\ Block("sys_wait")

\* SYS_WAIT on process p: return at once if it is marked terminated,
\* otherwise block in its wait queue.
sys_wait(p) ==
  /\ InUser
  /\ UNCHANGED <<process_of, cspaces, next_id>>
  /\ \/ /\ processes[p].terminated
        /\ UNCHANGED processes
        /\ UNCHANGED switchVars
     \/ /\ ~processes[p].terminated
        /\ processes' = [processes EXCEPT
                           ![p].wait_queue = PushBack(@, current)]
        /\ Block("sys_wait")

\* A divide error, invalid opcode or general protection fault in user mode,
\* or a page fault in the kernel on the user buffer of a call: the handler
\* halts the processor with interrupts disabled.
fatal_exception ==
  /\ InUser
  /\ cpu' = Cpu("exception", current, NoSite)
  /\ UNCHANGED <<run_queue, current, saved, frame, STATE_TO_UPDATE, rsp0>>
=============================================================================
