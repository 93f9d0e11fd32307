--------------------------- MODULE HdfsPoolHandler ---------------------------
(***************************************************************************)
(* What an HdfsPoolHandler (src/src/HdfsPool.cpp) reports of a cluster     *)
(* that goes on changing: its free space, and whether a replica is         *)
(* available.  A handler serves one request, so there is one caller.       *)
(* Space is counted in the units of hdfsGetCapacity and hdfsGetUsed, which *)
(* count every copy HDFS keeps of a block.                                 *)
(***************************************************************************)
EXTENDS Integers

CONSTANTS MaxSpace,     \* bound on the capacity of the cluster
          Replication,  \* HdfsReplication
          Width,        \* bits of a uint64_t
          Statuses      \* of the replicas asked about

ASSUME SpaceAssumption == MaxSpace \in Nat /\ Replication \in Nat \ {0}
ASSUME WidthAssumption == Width \in Nat /\ MaxSpace < 2^Width
ASSUME StatusAssumption ==
         Statuses \subseteq {"available", "beingPopulated", "toBeDeleted"}

VARIABLES capacity, used,  \* of the cluster, in all copies
          stored,          \* the replica's file is there
          pc,              \* where the call is
          total,           \* what getTotalSpace() has returned
          free, is,        \* the results: free space, availability
          status,          \* of the replica asked about
          missed,          \* history: a look-up of the call has failed
          steady,          \* history: no data node joined or left meanwhile
          frees, was       \* history: free space, and whether the file was
                           \* there, during the call

cluster == <<capacity, used, stored>>
call    == <<pc, total, free, is, status, missed>>
during  == <<steady, frees, was>>
vars    == <<cluster, call, during>>

Unasked == -1
Word    == 2^Width

PoolTypeOK ==
  /\ capacity \in 0 .. MaxSpace /\ used \in 0 .. capacity
  /\ stored \in BOOLEAN
  /\ pc \in {"idle", "total", "used", "exists", "stat", "done", "threw"}
  /\ total \in 0 .. MaxSpace
  /\ free \in {Unasked} \cup 0 .. Word - 1
  /\ is \in {"unasked", "yes", "no"}
  /\ status \in Statuses \cup {"none"}
  /\ missed \in BOOLEAN /\ steady \in BOOLEAN
  /\ frees \subseteq 0 .. MaxSpace /\ was \subseteq BOOLEAN

Init == /\ capacity \in 0 .. MaxSpace /\ used \in 0 .. capacity
        /\ stored \in BOOLEAN
        /\ pc = "idle" /\ total = 0 /\ free = Unasked /\ is = "unasked"
        /\ status = "none" /\ missed = FALSE
        /\ steady = TRUE /\ frees = {} /\ was = {}

-----------------------------------------------------------------------------
(* The cluster.                                                            *)

ClusterBecomes(c, u, s) ==
  /\ capacity' = c /\ used' = u /\ stored' = s
  /\ steady' = (steady /\ (pc = "idle" \/ c = capacity))
  /\ frees' = IF pc = "idle" THEN {} ELSE frees \cup {c - u}
  /\ was' = IF pc = "idle" THEN {} ELSE was \cup {s}
  /\ UNCHANGED call

SpaceTaken == used < capacity /\ ClusterBecomes(capacity, used + 1, stored)
SpaceFreed == used > 0 /\ ClusterBecomes(capacity, used - 1, stored)
FileStored == ~ stored /\ ClusterBecomes(capacity, used, TRUE)
FileGone   == stored /\ ClusterBecomes(capacity, used, FALSE)

NodesJoinOrLeave ==
  /\ \E c \in 0 .. MaxSpace, u \in 0 .. used :
       /\ u <= c /\ (c >= capacity => u = used)
       /\ ClusterBecomes(c, u, stored)

\* hdfsGetCapacity and hdfsGetUsed answer, or fail with -1.
Reported(x) == {x, -1}

-----------------------------------------------------------------------------
(* The calls.                                                              *)

Goes(l)  == pc' = l /\ UNCHANGED <<cluster, status, during>>

Ask ==
  /\ pc = "idle"
  /\ \/ pc' = "total" /\ UNCHANGED status
     \/ pc' = "exists" /\ status' \in Statuses
  /\ frees' = {capacity - used} /\ was' = {stored}
  /\ UNCHANGED <<cluster, total, free, is, missed, steady>>

\* Variant: a failed answer is used.
FailedNot(x) == FALSE

Failed(x) == x < 0

GetTotalSpace ==
  /\ pc = "total"
  /\ \E x \in Reported(capacity) :
       IF Failed(x) THEN Goes("threw") /\ UNCHANGED total
                    ELSE Goes("used") /\ total' = x \div Replication
  /\ UNCHANGED <<free, is, missed>>

\* Variant: the copies are not divided out.
UsedInAllCopies(x) == x

UsedOnce(x) == x \div Replication

\* getFreeSpace() subtracts without a sign.
GetFreeSpace ==
  /\ pc = "used"
  /\ \E x \in Reported(used) :
       IF Failed(x) THEN Goes("threw") /\ UNCHANGED free
                    ELSE Goes("done") /\ free' = (total - UsedOnce(x)) % Word
  /\ UNCHANGED <<total, is, missed>>

Answer(b) == is' = IF b THEN "yes" ELSE "no"

\* Variant: hdfsExists taken to answer yes or no; it answers 0 for yes.
ThereSwapped == ~ stored

There == stored

\* replicaIsAvailable(): hdfsExists, whose failure counts as absence, but for a
\* replica that is being deleted; one that is being populated is statted too
\* when it exists.
ReplicaExists ==
  /\ pc = "exists"
  /\ \/ /\ status = "toBeDeleted"
        /\ Answer(FALSE) /\ Goes("done")
        /\ UNCHANGED missed
     \/ /\ status # "toBeDeleted"
        /\ \E fails \in BOOLEAN :
             /\ missed' = fails
             /\ \/ /\ fails \/ ~ There
                   /\ Answer(FALSE) /\ Goes("done")
                \/ /\ ~ fails /\ There /\ status = "available"
                   /\ Answer(TRUE) /\ Goes("done")
                \/ /\ ~ fails /\ There /\ status = "beingPopulated"
                   /\ Goes("stat") /\ UNCHANGED is
  /\ UNCHANGED <<total, free>>

\* updateReplica and setSize of the catalogue do nothing; hdfsGetPathInfo may
\* find the file gone, or fail.
ReplicaStat ==
  /\ pc = "stat"
  /\ \/ stored /\ Answer(TRUE) /\ Goes("done")
     \/ Goes("threw") /\ UNCHANGED is
  /\ UNCHANGED <<total, free, missed>>

Return ==
  /\ pc \in {"done", "threw"}
  /\ pc' = "idle" /\ total' = 0 /\ free' = Unasked /\ is' = "unasked"
  /\ status' = "none" /\ missed' = FALSE
  /\ steady' = TRUE /\ frees' = {} /\ was' = {}
  /\ UNCHANGED cluster

Next == \/ SpaceTaken \/ SpaceFreed \/ FileStored \/ FileGone
        \/ NodesJoinOrLeave
        \/ Ask \/ GetTotalSpace \/ GetFreeSpace
        \/ ReplicaExists \/ ReplicaStat \/ Return

Spec == Init /\ [][Next]_vars

-----------------------------------------------------------------------------
(***************************************************************************)
(* The free space reported was that of the cluster at one time during the  *)
(* call, but for the one unit rounding may add, although it is put         *)
(* together from two answers of different times and divided twice, unless  *)
(* data nodes have joined or left between the two.                         *)
(***************************************************************************)
FreeWasTrue ==
  free # Unasked /\ steady =>
    \E f \in frees : free - (f \div Replication) \in 0 .. 1

(***************************************************************************)
(* A replica is said to be available only if its file was there during the *)
(* call, every look-up was answered and it is not being deleted; one that  *)
(* is not being deleted is said not to be available only if its file was   *)
(* not there, or hdfsExists has failed, which is not told apart.           *)
(***************************************************************************)
AvailabilityWasTrue ==
  /\ is = "yes" => TRUE \in was /\ status # "toBeDeleted" /\ ~ missed
  /\ is = "no" /\ status # "toBeDeleted" => FALSE \in was \/ missed
=============================================================================
