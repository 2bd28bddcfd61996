------------------------- MODULE StorageProperties --------------------------
(* What is claimed of the storage services.                                *)
EXTENDS Storage

Signature == Filled("signature")

\* When storage_test reports success the disk's sector is the signature, in
\* every interleaving: early replies, lost requests and a buffer that is
\* rewritten while the driver copies it can make the test fail or hang, and
\* never make it succeed without the data being there.
SuccessIsTrue == pc["test"] = "success" => drive.sector = Signature

\* ata_service moves the words of a sector only while the disk offers or
\* accepts them: no interrupt left over from an earlier command, remembered
\* by the kernel or latched, lets it run ahead of the disk.
TransfersInStep ==
  /\ pc["ata"] = "read_words" /\ ~Blocked("ata") => drive.status = "data"
  /\ pc["ata"] = "write_words" => drive.status = "accepting"
  /\ pc["ata"] \in {"recv", "dispatch", "read", "write"} =>
       ~intrq /\ ~pending_irqs[Ata]

\* At both endpoints the server was first to arrive.
ServersFirst == \A e \in StorageEndpoints : endpoints[e].state # "SendersWaiting"

\* An endpoint where the server was first to arrive never answers early: when
\* both are such, and the test has its write acknowledged, the sector has been
\* written.
RepliesHonest ==
  ServersFirst /\ pc["test"] \in {"clear", "send_read", "wait_read"} =>
    drive.sector = Signature

\* Unless a program cannot map the page, or some message is sent while nobody
\* waits for it, the test ends with success: requests and replies over one
\* endpoint work as long as every receiver arrives first.
PunctualTestSucceeds ==
  <>(late \/ (\E t \in Services : pc[t] = "exited") \/ pc["test"] = "success")
=============================================================================
