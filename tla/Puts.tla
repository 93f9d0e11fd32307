-------------------------------- MODULE Puts --------------------------------
(***************************************************************************)
(* The vocabulary shared by the modules of a PUT: the transfers, the paths *)
(* they write, the gateways that serve them, and how far each one is.      *)
(*                                                                         *)
(* A transfer is one client session that stores one file: it asks the pool *)
(* manager where to write, opens an HdfsIOHandler on a gateway, writes,    *)
(* closes, and then calls doneWriting or cancelWrite.  Each transfer is    *)
(* one thread of control; the interleaving is between transfers.           *)
(***************************************************************************)
EXTENDS Naturals, Sequences, FiniteSets

CONSTANTS Transfers,   \* client sessions, each storing one file
          Paths,       \* logical file names
          PathOf,      \* the path each transfer stores
          Gateways,    \* the disk servers of the HdfsGateways option
          Faults,      \* the calls on other systems that may fail
          NoFile,      \* no such file, or no descriptor
          NoGateway    \* no gateway chosen yet

\* A call that fails changes nothing; at "lost" an hdfsOpenFile or hdfsRename
\* takes effect and is reported as failed.
FaultKinds == {"connect", "stat", "create", "mkdir", "tmpopen", "tmpread",
               "write", "hclose", "rename", "lost", "info", "delete", "crash"}

ASSUME PathOfAssumption == PathOf \in [Transfers -> Paths]
ASSUME FaultsAssumption == Faults \subseteq FaultKinds
ASSUME NoFileAssumption == NoFile \notin Transfers
ASSUME NoGatewayAssumption == NoGateway \notin Gateways

VARIABLES pc,   \* where each transfer is: in a call, or between two calls
          gw    \* the gateway the pool handler picked for it

putVars == <<pc, gw>>

(***************************************************************************)
(* The program counter names a point between two calls on another system.  *)
(* Between the calls of the client ("idle", "located", "writing",          *)
(* "closed", "stored", "failed", "halfDone": doneWriting threw and HDFS has *)
(* renamed the file all the same) the client decides what comes next; at the labels of InCall a   *)
(* call of the plugin is on its way.                                       *)
(***************************************************************************)
InLocate  == {"absent"}
InOpen    == {"connected", "noFolder", "hasFolder"}
InClose   == {"copying", "draining", "closeHdfs", "closeTemp"}
InDestroy == {"destroyHdfs", "destroyTemp"}
InDone    == {"renamed"}
InCancel  == {"cancelDelete"}
InCall    == InLocate \cup InOpen \cup InClose \cup InDestroy \cup InDone
               \cup InCancel

BetweenCalls == {"idle", "located", "writing", "closed", "stored", "failed",
                 "halfDone"}
Ended        == {"refused", "done", "cancelled", "ended", "crashed"}
Labels       == InCall \cup BetweenCalls \cup Ended

At(t, l)   == pc[t] = l
Goto(t, l) == pc' = [pc EXCEPT ![t] = l]

PutsTypeOK == /\ pc \in [Transfers -> Labels]
              /\ gw \in [Transfers -> Gateways \cup {NoGateway}]

PutsInit == /\ pc = [t \in Transfers |-> "idle"]
            /\ gw = [t \in Transfers |-> NoGateway]
=============================================================================
