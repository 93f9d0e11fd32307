----------------------------- MODULE HdfsPoolPut -----------------------------
(***************************************************************************)
(* The pool side of a PUT: HdfsPoolManager::whereToWrite (src/src/         *)
(* HdfsNS.cpp), HdfsPoolHandler::whereToWrite, cancelWrite and             *)
(* removeReplica (src/src/HdfsPool.cpp), with HdfsNS as the catalog, and   *)
(* HdfsNS::unlink by other users.                                          *)
(***************************************************************************)
EXTENDS HdfsStore

CONSTANT Mode    \* the HdfsMode option, which decides who may read and write

ASSUME ModeAssumption == Mode \in {"", "r", "w", "rw", "wr"}

CanWrite == Mode \in {"w", "rw", "wr"}

\* createPoolHandler throws for "wr", which canWrite accepts.
HasHandler == Mode \in {"", "r", "w", "rw"}

\* The check that the file is not there: a failed stat counts as absent.
StatTarget(t) ==
  /\ At(t, "idle")
  /\ \/ /\ CanWrite
        /\ ~ HdfsExists(Final(PathOf[t])) \/ "stat" \in Faults
        /\ Goto(t, "absent")
     \/ /\ ~ CanWrite \/ HdfsExists(Final(PathOf[t]))
        /\ Goto(t, "refused")
  /\ UNCHANGED <<gw, storeVars>>

\* createPoolHandler and the handler's whereToWrite, which books nothing.
Locate(t) ==
  /\ At(t, "absent")
  /\ \/ /\ HasHandler
        /\ gw' \in {[gw EXCEPT ![t] = g] : g \in Gateways}
        /\ Goto(t, "located")
     \/ /\ ~ HasHandler \/ "connect" \in Faults
        /\ Goto(t, "refused")
        /\ UNCHANGED gw
  /\ UNCHANGED storeVars

\* The name in the replica that HdfsNS makes up for a location.
ReplicaRfn(t) == Upload(PathOf[t])

\* cancelWrite looks its replica up by the name of the location ...
CancelLookup(t) ==
  /\ pc[t] \in {"located", "stored", "failed", "halfDone"}
  /\ \/ HdfsExists(Upload(PathOf[t])) /\ Goto(t, "cancelDelete")
     \/ /\ ~ HdfsExists(Upload(PathOf[t])) \/ "info" \in Faults
        /\ Goto(t, "ended")
  /\ UNCHANGED <<gw, storeVars>>

\* ... and removes that name, whatever it is bound to by now.  The value of
\* hdfsDelete is not looked at.  A replica of HdfsNS has status kAvailable,
\* so the branch for kBeingPopulated is not taken.
CancelDelete(t) ==
  /\ At(t, "cancelDelete")
  /\ \/ HdfsDelete(ReplicaRfn(t))
     \/ "delete" \in Faults /\ UNCHANGED ns
  /\ Goto(t, "cancelled")
  /\ UNCHANGED <<gw, hdata, hopen>>

\* Another user removes a published file through the name space.
Unlink(p) == /\ HdfsExists(Final(p))
             /\ HdfsDelete(Final(p))
             /\ UNCHANGED <<putVars, hdata, hopen>>

PoolCall(t) == StatTarget(t) \/ CancelLookup(t)
PoolStep(t) == Locate(t) \/ CancelDelete(t)
=============================================================================
