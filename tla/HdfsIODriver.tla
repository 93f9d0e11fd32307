----------------------------- MODULE HdfsIODriver -----------------------------
(***************************************************************************)
(* HdfsIODriver::doneWriting (src/src/HdfsIO.cpp): the file a handler has  *)
(* stored under its ".upload" name gets its final one, then the replica of *)
(* the catalog is brought up to date.  The catalog is HdfsNS, which keeps  *)
(* no replicas: of updateReplica only the two look-ups can fail.           *)
(***************************************************************************)
EXTENDS HdfsStore

\* The rename, and whether doneWriting throws: it cannot tell a rename that
\* was refused from one whose answer is lost.  After it the call can still throw.
Rename(t) ==
  LET up == Upload(PathOf[t])
      fn == Final(PathOf[t])
  IN /\ At(t, "stored")
     /\ \/ /\ HdfsCanRename(up, fn)
           /\ HdfsRename(up, fn)
           /\ \/ Goto(t, "renamed")
              \/ "lost" \in Faults /\ Goto(t, "halfDone")
        \/ /\ ~ HdfsCanRename(up, fn) \/ "rename" \in Faults
           /\ Goto(t, "failed")
           /\ UNCHANGED ns
     /\ UNCHANGED <<gw, hdata, hopen>>

\* getReplicaByRFN and hdfsGetPathInfo of a name.
UpdateReplicaOf(t, n) ==
  /\ At(t, "renamed")
  /\ \/ HdfsExists(n) /\ Goto(t, "done")
     \/ (~ HdfsExists(n) \/ "info" \in Faults) /\ Goto(t, "halfDone")
  /\ UNCHANGED <<gw, storeVars>>

\* Variant: a file that is not there is waited for.
UpdateReplicaWaits(t) == /\ HdfsExists(Final(PathOf[t]))
                         /\ UpdateReplicaOf(t, Final(PathOf[t]))

UpdateReplica(t) == UpdateReplicaOf(t, Final(PathOf[t]))

DriverCall(t) == Rename(t)
DriverStep(t) == UpdateReplica(t)
=============================================================================
