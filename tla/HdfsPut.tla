------------------------------- MODULE HdfsPut -------------------------------
(***************************************************************************)
(* The PUT of a file, from whereToWrite to doneWriting or cancelWrite: the *)
(* pool manager and the pool handler (HdfsPoolPut), the handler that       *)
(* buffers and copies (HdfsIOWriter) and the I/O driver (HdfsIODriver),    *)
(* over HDFS (HdfsStore) and the gateways' disks (TempStore).              *)
(***************************************************************************)
EXTENDS HdfsIOWriter, HdfsIODriver, HdfsPoolPut

vars == <<putVars, storeVars, tempVars, handlerVars>>

TypeOK == PutsTypeOK /\ StoreTypeOK /\ TempStoreTypeOK /\ WriterTypeOK

Init == PutsInit /\ StoreInit /\ TempStoreInit /\ WriterInit

\* The client starts a call, or makes one that is a single step.
ClientCall(t) == \/ HandlerCall(t)
                 \/ (DriverCall(t) \/ PoolCall(t))
                      /\ UNCHANGED <<tempVars, handlerVars>>

\* A call of the plugin goes on.
CallStep(t) == \/ HandlerStep(t)
               \/ (DriverStep(t) \/ PoolStep(t))
                    /\ UNCHANGED <<tempVars, handlerVars>>

UserUnlink(p) == Unlink(p) /\ UNCHANGED <<tempVars, handlerVars>>

Next == \/ \E t \in Transfers : ClientCall(t) \/ CallStep(t) \/ Crash(t)
        \/ \E p \in Paths : UserUnlink(p)

Spec == Init /\ [][Next]_vars

\* A call runs on a thread that the scheduler does not starve, and the calls
\* it makes return; clients and other users owe nothing.
FairSpec == Spec /\ \A t \in Transfers : WF_vars(CallStep(t))

-----------------------------------------------------------------------------
(* When two transfers are in each other's way.                             *)

\* The client's file name and random number spell the same temp file name
\* on the same gateway.  Numbers are never reset: once apart, or not, is
\* known when both have opened their temp files.
SameBuffer(t, u) == /\ NoDraw \notin {draw[t], draw[u]}
                    /\ gw[t] = gw[u]
                    /\ draw[t] \o FileName[PathOf[t]]
                         = draw[u] \o FileName[PathOf[u]]
Apart(t) == \A u \in Transfers \ {t} : ~ SameBuffer(t, u)
Sole(t)  == \A u \in Transfers \ {t} : PathOf[u] # PathOf[t]

-----------------------------------------------------------------------------
(* A handler's buffer is its own: as long as its name is, the file under   *)
(* temp_path and the one behind temp_fd are one file, which holds what     *)
(* this client wrote where it wrote it, whatever the others do.            *)
BufferIsolated ==
  \A t \in Transfers :
    fdIno[t] # NoFile /\ Apart(t)
      => /\ fdIno[t] = t
         /\ tmpdir[TempPath(t)] = t
         /\ tmpdata[t] = wrote[t]

(* What close() has copied and hdfsCloseFile has completed is, byte for    *)
(* byte, what the client wrote: no chunk of copyToHDFS is lost, doubled or *)
(* swapped, partial hdfsWrites included.                                   *)
StoredAsWritten ==
  \A t \in Transfers :
    ret[t] = "ok" /\ hopen[t] = "closed" /\ Apart(t) => hdata[t] = wrote[t]

(* A published file is whole: its transfer has closed it without error and *)
(* it holds what the client wrote.  (With one writer of the path, and an   *)
(* hdfsCloseFile that does not fail: its value is not looked at.)          *)
PublishedComplete ==
  \A t \in Transfers :
    ns[Final(PathOf[t])] = t /\ Sole(t) /\ Apart(t)
      => ret[t] = "ok" /\ hopen[t] = "closed" /\ hdata[t] = wrote[t]

(* A temp file has a name only while the handler that made it may still    *)
(* need it, or when its process has died: aborted and failed transfers     *)
(* leave none.                                                             *)
TempFileOwned ==
  \A e \in DOMAIN tmpdir :
    tmpdir[e] # NoFile
      => pc[tmpdir[e]] \in {"writing", "crashed"} \cup InClose \cup InDestroy

(* A published file keeps its name until a user removes it: no transfer    *)
(* replaces it, and no cancelWrite or failing call takes it away, also not *)
(* those of a rival that writes the same path.                             *)
PublishedStays ==
  [][\A p \in Paths : HdfsExists(Final(p)) /\ ns'[Final(p)] # ns[Final(p)]
       => ns'[Final(p)] = NoFile /\ UNCHANGED pc]_vars

(* With no other writer of the path, a published file does not change.     *)
PublishedFrozen ==
  [][\A t \in Transfers :
       Sole(t) /\ ns[Final(PathOf[t])] = t => hdata'[t] = hdata[t]]_vars

(* A PUT that was refused, failed or was cancelled has published nothing,  *)
(* with one exception: its doneWriting threw although HDFS has renamed the *)
(* file, because the answer was lost or a look-up failed after it.  Then   *)
(* the file was closed without error and nothing is left under the name    *)
(* that cancelWrite looks up and removes.                                  *)
FailedPutInvisible ==
  \A t \in Transfers : Sole(t) /\ ns[Final(PathOf[t])] = t =>
    /\ pc[t] \notin {"refused", "failed", "cancelled"}
    /\ pc[t] \in {"halfDone", "ended"} => ret[t] = "ok" /\ ns[Upload(PathOf[t])] # t

(* Also among rivals for one path, a file is published only after a close  *)
(* without error: its own, or that of a rival whose upload it has replaced *)
(* and who has renamed it unseen.  So where a torn file is published, the  *)
(* rival's own file is lost, whoever fails, crashes or cancels.            *)
TornNeedsRival ==
  \A t \in Transfers : ns[Final(PathOf[t])] = t /\ ret[t] # "ok" =>
    \E u \in Transfers \ {t} : PathOf[u] = PathOf[t] /\ ret[u] = "ok" /\ ~ Linked(u)

(* No call leaves the stream of its file open in HDFS, where the lease     *)
(* would lock later writers out, but one still to close it, a constructor  *)
(* that threw after it had opened the stream, and a process that died.     *)
(* (With an hdfsCloseFile that does not fail.)                             *)
LeaseHasHolder ==
  \A n \in Names : HasLease(n) =>
    LET t == ns[n]
    IN \/ pc[t] \in {"writing", "copying", "draining", "closeHdfs", "destroyHdfs", "crashed"}
       \/ draw[t] = NoDraw

(* Every call of the plugin returns or throws, or its process dies.        *)
CallsReturn ==
  \A t \in Transfers : pc[t] \in InCall ~> pc[t] \notin InCall

-----------------------------------------------------------------------------
(* What the code's comments say, and the code does not keep.               *)

(* HdfsIO.cpp:76 and Hdfs.h:155: the temp file buffers the calls of this   *)
(* handler, so it holds what this client wrote.                            *)
BufferHoldsWrites ==
  \A t \in Transfers : fdIno[t] # NoFile => tmpdata[fdIno[t]] = wrote[t]

(* HdfsIO.cpp:141: "in case of write operation write the file to hdfs": so *)
(* HDFS has what was written when close() has returned without an error.   *)
CloseStores ==
  \A t \in Transfers : At(t, "stored") => hdata[t] = wrote[t]

-----------------------------------------------------------------------------
(* A PUT is atomic for the readers: HdfsPut implements AtomicPut.          *)
Put == INSTANCE AtomicPut WITH
  Contents  <- Seq(Data),
  Absent    <- NoFile,
  sent      <- wrote,
  visible   <- [p \in Paths |-> IF HdfsExists(Final(p))
                                THEN hdata[ns[Final(p)]] ELSE NoFile],
  live      <- {t \in Transfers :
                  pc[t] \notin {"renamed", "failed", "halfDone", "cancelDelete"} \cup Ended}

(* At each moment a reader of a path finds no file, or the whole of what   *)
(* one transfer has written to it.                                         *)
PutIsAtomic == Put!Spec
=============================================================================
