------------------------------ MODULE Storage -------------------------------
(***************************************************************************)
(* The storage services: storage_test asks fat16_service over vfs_ep to    *)
(* write and to read back one block, fat16_service asks ata_service over   *)
(* ata_ep, and ata_service drives the disk by programmed I/O and interrupt *)
(* 14.  The block travels in a page that the three programs share; nobody  *)
(* locks it, so it is read and written word by word.                       *)
(***************************************************************************)
EXTENDS UserCalls

CONSTANTS Words,       \* the words of the block that hold the signature
          OldBlock     \* what the disk may hold at the start

Word == {"signature", "zero", "other"}

ASSUME StorageAssumption == Words \in Nat \ {0} /\ OldBlock \subseteq Word

\* The values of Threads, EndpointIds and Lines.
Services         == {"ata", "fat16", "test"}
StorageEndpoints == {"ata_ep", "vfs_ep"}
Ata              == 14

\* Message: rdi holds the command, or the status of a reply (0 is success,
\* 1 an error), rsi the sector.  The other fields are 0 throughout.
Message(rdi, rsi) == [rdi |-> rdi, rsi |-> rsi]
MSG_BLOCK_READ  == 1
MSG_BLOCK_WRITE == 2
MSG_BLOCK_FLUSH == 3
VFS_READ  == 11
VFS_WRITE == 12
TestLba   == 2000
Sectors   == 20480

Block == [1..Words -> Word]
Filled(w) == [i \in 1..Words |-> w]

VARIABLES
  pc,       \* where each service is
  pos,      \* the loop index of each service
  shm,      \* the shared page
  drive,    \* the disk: status, data in transfer, the sector it keeps
  intrq,    \* an interrupt of the disk that the processor has not taken yet
  late      \* history: a message was sent when nobody waited for it

vars == <<callVars, pc, pos, shm, drive, intrq, late>>

Init ==
  /\ CallsInit
  /\ msg_buf = [t \in Services |-> Message(0, 0)]
  /\ pc = [t \in Services |-> "start"]
  /\ pos = [t \in Services |-> 1]
  /\ shm = Filled("zero")
  /\ \E w \in OldBlock :
       drive = [status |-> "ready", buffer |-> Filled("other"),
                sector |-> Filled(w)]
  /\ intrq = FALSE
  /\ late = FALSE

-----------------------------------------------------------------------------
(* The kinds of steps the programs are made of.                            *)

Goto(t, label) == pc' = [pc EXCEPT ![t] = label]

\* Thread t is at the given place and not blocked in a system call.
At(t, label) == pc[t] = label /\ ~Blocked(t)

Jump(t, label, next) ==
  At(t, label) /\ Goto(t, next)
    /\ UNCHANGED <<callVars, pos, shm, drive, intrq, late>>

SendMsg(t, label, e, m, next) ==
  At(t, label) /\ Send(t, e, m) /\ Goto(t, next)
    /\ late' = (late \/ ~HasReceiver(e))
    /\ UNCHANGED <<pos, shm, drive, intrq>>

RecvMsg(t, label, e, next) ==
  At(t, label) /\ Recv(t, e) /\ Goto(t, next)
    /\ UNCHANGED <<pos, shm, drive, intrq, late>>

\* main maps the shared page, and exits when that fails.
MapShared(t, next) == \E l \in {next, "exited"} : Jump(t, "start", l)

\* The end of a step of a loop over the words of the block.
Loop(t, next) ==
  IF pos[t] = Words
  THEN Goto(t, next) /\ pos' = [pos EXCEPT ![t] = 1]
  ELSE pos' = [pos EXCEPT ![t] = @ + 1] /\ UNCHANGED pc

-----------------------------------------------------------------------------
(* ata_service.                                                            *)

\* The checks and the match on the command.  The offset of every request is
\* 0, so its check never fails; no program sends MSG_BLOCK_FLUSH.
AtaDispatch ==
  LET cmd == msg_buf["ata"].rdi
      ok  == msg_buf["ata"].rsi < Sectors
  IN  Jump("ata", "dispatch", CASE ok /\ cmd = MSG_BLOCK_READ  -> "read"
                                [] ok /\ cmd = MSG_BLOCK_WRITE -> "write"
                                [] ok /\ cmd = MSG_BLOCK_FLUSH -> "flush"
                                [] OTHER -> "error")

\* ata_wait_ready: BSY is clear and DRDY set.
Ready == drive.status \in {"ready", "data", "accepting"}

\* Select the sector and write the command register.
AtaCommand(label, busy, next) ==
  At("ata", label) /\ Ready /\ Goto("ata", next)
    /\ drive' = [drive EXCEPT !.status = busy]
    /\ UNCHANGED <<callVars, pos, shm, intrq, late>>

AtaWaitIrq(label, next) ==
  At("ata", label) /\ WaitIrq("ata", Ata) /\ Goto("ata", next)
    /\ UNCHANGED <<pos, shm, drive, intrq, late>>

\* The data register holds the sector's words only while the disk offers
\* them.
AtaReadWord ==
  LET i == pos["ata"]
  IN  /\ At("ata", "read_words")
      /\ shm' = [shm EXCEPT ![i] =
                   IF drive.status = "data" THEN drive.buffer[i] ELSE "other"]
      /\ drive' = [drive EXCEPT
                     !.status = IF @ = "data" /\ i = Words THEN "ready" ELSE @]
      /\ Loop("ata", "done")
      /\ UNCHANGED <<callVars, intrq, late>>

\* The last word makes the disk busy with the sector.
AtaWriteWord ==
  LET i == pos["ata"]
  IN  /\ At("ata", "write_words")
      /\ drive' = [drive EXCEPT
           !.buffer = IF drive.status = "accepting"
                      THEN [@ EXCEPT ![i] = shm[i]] ELSE @,
           !.status = IF @ = "accepting" /\ i = Words THEN "writing" ELSE @]
      /\ Loop("ata", "write_irq")
      /\ UNCHANGED <<callVars, shm, intrq, late>>

\* Mutant: the sector is read without waiting for the interrupt.
AtaReadUnwaited ==
  AtaCommand("read", "reading", "read_words") \/ AtaReadWord

\* ata_read_sector: command, interrupt, data.
AtaRead ==
  \/ AtaCommand("read", "reading", "read_irq")
  \/ AtaWaitIrq("read_irq", "read_words")
  \/ AtaReadWord

\* Mutant: the sector is taken for written once its words are sent.
AtaWriteUnwaited ==
  \/ AtaCommand("write", "preparing", "write_drq")
  \/ Ready /\ Jump("ata", "write_drq", "write_words")
  \/ AtaWriteWord
  \/ Jump("ata", "write_irq", "done")

\* ata_write_sector: command, data, interrupt.
AtaWrite ==
  \/ AtaCommand("write", "preparing", "write_drq")
  \/ Ready /\ Jump("ata", "write_drq", "write_words")
  \/ AtaWriteWord
  \/ AtaWaitIrq("write_irq", "done")

\* The reply is the request with rdi overwritten, sent to the same endpoint.
AtaReply(label, status) ==
  SendMsg("ata", label, "ata_ep", [msg_buf["ata"] EXCEPT !.rdi = status], "recv")

AtaService ==
  \/ MapShared("ata", "recv")
  \/ RecvMsg("ata", "recv", "ata_ep", "dispatch")
  \/ AtaDispatch
  \/ AtaRead \/ AtaWrite
  \/ AtaReply("done", 0) \/ AtaReply("error", 1)

-----------------------------------------------------------------------------
(* The disk and its interrupt.                                             *)

\* The disk finishes what it is busy with.
DriveStep ==
  /\ \/ /\ drive.status = "reading"
        /\ drive' = [drive EXCEPT !.status = "data", !.buffer = drive.sector]
        /\ intrq' = TRUE
     \/ /\ drive.status = "preparing"
        /\ drive' = [drive EXCEPT !.status = "accepting"]
        /\ UNCHANGED intrq
     \/ /\ drive.status = "writing"
        /\ drive' = [drive EXCEPT !.status = "ready", !.sector = drive.buffer]
        /\ intrq' = TRUE
  /\ UNCHANGED <<callVars, pc, pos, shm, late>>

\* ata_interrupt_handler.
AtaInterrupt ==
  /\ intrq
  /\ intrq' = FALSE
  /\ UnblockIrq(Ata)
  /\ UNCHANGED <<pc, pos, shm, drive, late>>

-----------------------------------------------------------------------------
(* fat16_service.                                                          *)

FatDispatch ==
  LET cmd == msg_buf["fat16"].rdi
  IN  Jump("fat16", "dispatch", CASE cmd = VFS_WRITE -> "write_sector"
                                  [] cmd = VFS_READ  -> "read_sector"
                                  [] OTHER -> "unsupported")

\* read_sector and write_sector: send the request, then receive.
FatSector(label, cmd) ==
  SendMsg("fat16", label, "ata_ep", Message(cmd, TestLba), "wait_ata")

FatReply(label, status) ==
  SendMsg("fat16", label, "vfs_ep", Message(status, 0), "recv")

\* Whatever read_sector and write_sector return, the reply is success.
FatService ==
  \/ MapShared("fat16", "recv")
  \/ RecvMsg("fat16", "recv", "vfs_ep", "dispatch")
  \/ FatDispatch
  \/ FatSector("write_sector", MSG_BLOCK_WRITE)
  \/ FatSector("read_sector", MSG_BLOCK_READ)
  \/ RecvMsg("fat16", "wait_ata", "ata_ep", "served")
  \/ FatReply("served", 0) \/ FatReply("unsupported", 1)

-----------------------------------------------------------------------------
(* storage_test.                                                           *)

\* A loop that stores w in every word of the shared block.
TestStore(label, w, next) ==
  /\ At("test", label)
  /\ shm' = [shm EXCEPT ![pos["test"]] = w]
  /\ Loop("test", next)
  /\ UNCHANGED <<callVars, drive, intrq, late>>

\* Mutant: the buffer keeps what was written.
TestClearNothing == Jump("test", "clear", "send_read")

TestClear == TestStore("clear", "zero", "send_read")

TestCheck(label, next) ==
  Jump("test", label, IF msg_buf["test"].rdi # 0 THEN "failed" ELSE next)

TestVerify ==
  /\ At("test", "verify")
  /\ IF shm[pos["test"]] # "signature"
     THEN Goto("test", "mismatch") /\ UNCHANGED pos
     ELSE Loop("test", "success")
  /\ UNCHANGED <<callVars, shm, drive, intrq, late>>

TestProgram ==
  \/ MapShared("test", "fill")
  \/ TestStore("fill", "signature", "send_write")
  \/ SendMsg("test", "send_write", "vfs_ep", Message(VFS_WRITE, 0), "wait_write")
  \/ RecvMsg("test", "wait_write", "vfs_ep", "check_write")
  \/ TestCheck("check_write", "clear")
  \/ TestClear
  \/ SendMsg("test", "send_read", "vfs_ep", Message(VFS_READ, 0), "wait_read")
  \/ RecvMsg("test", "wait_read", "vfs_ep", "check_read")
  \/ TestCheck("check_read", "verify")
  \/ TestVerify

-----------------------------------------------------------------------------
Next == AtaService \/ FatService \/ TestProgram \/ DriveStep \/ AtaInterrupt

Spec == Init /\ [][Next]_vars

\* Every runnable program keeps running (ReadyRuns of the kernel), the disk
\* finishes its commands, and its interrupts are taken.
FairSpec ==
  /\ Spec
  /\ WF_vars(AtaService) /\ WF_vars(FatService) /\ WF_vars(TestProgram)
  /\ WF_vars(DriveStep) /\ WF_vars(AtaInterrupt)
=============================================================================
