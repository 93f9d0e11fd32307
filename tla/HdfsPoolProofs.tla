--------------------------- MODULE HdfsPoolProofs ---------------------------
(***************************************************************************)
(* Proofs about what a pool handler reports: the free space and the        *)
(* availability it answers were true at one time during the call, for any  *)
(* size of the cluster, replication and width of a word.                   *)
(***************************************************************************)
EXTENDS HdfsPoolHandler, TLAPS

\* What a call has noted by each stage.
CallInv ==
  /\ pc # "idle" => capacity - used \in frees /\ stored \in was
  /\ pc = "used" /\ steady => total = capacity \div Replication
  /\ pc # "done" => free = Unasked /\ is = "unasked"
  /\ pc \in {"exists", "stat"} => status \in Statuses
  /\ pc = "stat" => status # "toBeDeleted" /\ TRUE \in was
  /\ pc \notin {"done", "threw"} => ~ missed

PoolInv == PoolTypeOK /\ CallInv /\ FreeWasTrue /\ AvailabilityWasTrue

-----------------------------------------------------------------------------
(* The arithmetic of getFreeSpace.                                         *)

LEMMA DivOf ==
  ASSUME NEW d \in Nat \ {0}, NEW q \in Int, NEW r \in 0 .. d - 1
  PROVE  (d * q + r) \div d = q
  OBVIOUS

LEMMA DivIs ==
  ASSUME NEW d \in Nat \ {0}, NEW x \in Nat
  PROVE  \E q \in Nat : \E r \in 0 .. d - 1 : x = d * q + r /\ x \div d = q
  OBVIOUS

LEMMA WordFacts == Word \in Nat /\ MaxSpace < Word
  BY WidthAssumption, SpaceAssumption DEF Word

\* The difference of two shares is a share of the difference, but for one.
LEMMA FreeIsShare ==
  ASSUME NEW c \in 0 .. MaxSpace, NEW u \in 0 .. c
  PROVE  LET g == (c \div Replication) - (u \div Replication)
         IN g \in 0 .. MaxSpace /\ g - ((c - u) \div Replication) \in 0 .. 1
  <1> DEFINE d == Replication
  <1>1. d \in Nat \ {0} /\ MaxSpace \in Nat
    BY SpaceAssumption
  <1>2. PICK a \in Nat, r \in 0 .. d - 1 : c = d * a + r /\ c \div d = a
    BY <1>1, DivIs
  <1>3. PICK b \in Nat, s \in 0 .. d - 1 : u = d * b + s /\ u \div d = b
    BY <1>1, DivIs
  <1> HIDE DEF d
  <1>4. a >= b /\ a <= c
    BY <1>1, <1>2, <1>3
  <1>5. CASE r >= s
    <2>1. c - u = d * (a - b) + (r - s) /\ r - s \in 0 .. d - 1
      BY <1>1, <1>2, <1>3, <1>5
    <2>2. (c - u) \div d = a - b
      BY <1>1, <2>1, DivOf
    <2> QED BY <1>1, <1>2, <1>3, <1>4, <2>2 DEF d
  <1>6. CASE r < s
    <2>1. c - u = d * (a - b - 1) + (d + r - s) /\ d + r - s \in 0 .. d - 1
      BY <1>1, <1>2, <1>3, <1>6
    <2>2. (c - u) \div d = a - b - 1
      BY <1>1, <2>1, DivOf
    <2> QED BY <1>1, <1>2, <1>3, <1>4, <2>2 DEF d
  <1> QED BY <1>1, <1>5, <1>6

-----------------------------------------------------------------------------
LEMMA PoolInit == Init => PoolInv
  <1> SUFFICES ASSUME Init PROVE PoolInv
    OBVIOUS
  <1>1. PoolTypeOK
    <2>1. missed \in BOOLEAN /\ steady \in BOOLEAN
      BY Zenon DEF Init
    <2>2. frees \subseteq 0 .. MaxSpace /\ was \subseteq BOOLEAN
      BY DEF Init
    <2> QED BY <2>1, <2>2, SpaceAssumption DEF Init, PoolTypeOK, Unasked
  <1>2. CallInv /\ FreeWasTrue /\ AvailabilityWasTrue
    BY DEF Init, CallInv, FreeWasTrue, AvailabilityWasTrue, Unasked
  <1> QED BY <1>1, <1>2 DEF PoolInv

\* The cluster may change while a call is made: what was noted stays noted.
LEMMA ClusterStep ==
  ASSUME PoolInv, NEW c \in 0 .. MaxSpace, NEW u \in 0 .. c, NEW s \in BOOLEAN,
         ClusterBecomes(c, u, s)
  PROVE  PoolInv'
  <1>1. PoolTypeOK'
    <2>1. steady' \in BOOLEAN
      BY ZenonT(20) DEF ClusterBecomes, PoolInv, PoolTypeOK
    <2>2. frees' \subseteq 0 .. MaxSpace /\ was' \subseteq BOOLEAN
      <3>1. c - u \in 0 .. MaxSpace
        BY SpaceAssumption
      <3> QED BY <3>1 DEF ClusterBecomes, PoolInv, PoolTypeOK
    <2>3. capacity' \in 0 .. MaxSpace /\ used' \in 0 .. capacity' /\ stored' \in BOOLEAN
      BY DEF ClusterBecomes
    <2> QED BY <2>1, <2>2, <2>3 DEF ClusterBecomes, PoolInv, PoolTypeOK, call
  <1>2. CallInv'
    BY DEF ClusterBecomes, PoolInv, PoolTypeOK, CallInv, call, Unasked
  <1>3. FreeWasTrue' /\ AvailabilityWasTrue'
    BY DEF ClusterBecomes, PoolInv, PoolTypeOK, CallInv, FreeWasTrue, AvailabilityWasTrue,
           call, Unasked
  <1> QED BY <1>1, <1>2, <1>3 DEF PoolInv

LEMMA AskStep ==
  ASSUME PoolInv, Ask \/ Return
  PROVE  PoolInv'
  <1>1. capacity - used \in 0 .. MaxSpace /\ stored \in BOOLEAN
    BY SpaceAssumption DEF PoolInv, PoolTypeOK
  <1>2. CASE Ask
    BY <1>1, <1>2
       DEF Ask, PoolInv, PoolTypeOK, CallInv, FreeWasTrue, AvailabilityWasTrue, Unasked, cluster
  <1>3. CASE Return
    <2>1. PoolTypeOK'
      <3>1. missed' \in BOOLEAN /\ steady' \in BOOLEAN
        BY <1>3, Zenon DEF Return
      <3>2. frees' \subseteq 0 .. MaxSpace /\ was' \subseteq BOOLEAN
        BY <1>3 DEF Return
      <3> QED BY <1>3, <3>1, <3>2, SpaceAssumption
              DEF Return, PoolInv, PoolTypeOK, Unasked, cluster
    <2>2. CallInv' /\ FreeWasTrue' /\ AvailabilityWasTrue'
      BY <1>3 DEF Return, CallInv, FreeWasTrue, AvailabilityWasTrue, Unasked
    <2> QED BY <2>1, <2>2 DEF PoolInv
  <1> QED BY <1>2, <1>3

LEMMA TotalStep ==
  ASSUME PoolInv, GetTotalSpace
  PROVE  PoolInv'
  <1>1. PICK x \in Reported(capacity) :
          IF Failed(x) THEN Goes("threw") /\ UNCHANGED total
                       ELSE Goes("used") /\ total' = x \div Replication
    BY DEF GetTotalSpace
  <1>2. capacity \div Replication \in 0 .. MaxSpace
    BY SpaceAssumption, FreeIsShare DEF PoolInv, PoolTypeOK
  <1>3. /\ UNCHANGED <<cluster, status, during, free, is, missed>>
        /\ \/ pc' = "threw" /\ UNCHANGED total
           \/ pc' = "used" /\ total' = capacity \div Replication
    BY <1>1 DEF GetTotalSpace, Reported, Failed, Goes, PoolInv, PoolTypeOK
  <1>4. pc = "total"
    BY DEF GetTotalSpace
  <1> QED BY <1>2, <1>3, <1>4
          DEF PoolInv, PoolTypeOK, CallInv, FreeWasTrue, AvailabilityWasTrue, cluster, during

LEMMA FreeStep ==
  ASSUME PoolInv, GetFreeSpace
  PROVE  PoolInv'
  <1>1. PICK x \in Reported(used) :
          IF Failed(x) THEN Goes("threw") /\ UNCHANGED free
                       ELSE Goes("done") /\ free' = (total - UsedOnce(x)) % Word
    BY DEF GetFreeSpace
  <1> DEFINE g == (capacity \div Replication) - (used \div Replication)
  <1>2. g \in 0 .. MaxSpace /\ g - ((capacity - used) \div Replication) \in 0 .. 1
    BY FreeIsShare DEF PoolInv, PoolTypeOK
  <1>3. used \div Replication \in Int
    BY SpaceAssumption DEF PoolInv, PoolTypeOK
  <1>4. CASE Failed(x)
    <2>1. pc' = "threw" /\ UNCHANGED <<cluster, status, during, total, is, free, missed>>
      BY <1>1, <1>4 DEF GetFreeSpace, Goes
    <2> QED BY <2>1
       DEF GetFreeSpace, PoolInv, PoolTypeOK, CallInv, FreeWasTrue,
           AvailabilityWasTrue, cluster, during, Unasked
  <1>5. CASE ~ Failed(x)
    <2>1. /\ pc' = "done" /\ free' = (total - (used \div Replication)) % Word
          /\ UNCHANGED <<cluster, status, during, total, is, missed>>
      BY <1>1, <1>5 DEF GetFreeSpace, Reported, Failed, Goes, UsedOnce, PoolInv, PoolTypeOK
    <2>2. free' \in 0 .. Word - 1
      BY <1>3, <2>1, WordFacts, SpaceAssumption DEF PoolInv, PoolTypeOK
    <2>3. steady => free' = g
      <3>1. steady => total = capacity \div Replication
        BY DEF PoolInv, CallInv, GetFreeSpace
      <3>2. g % Word = g
        BY <1>2, WordFacts, SpaceAssumption
      <3> QED BY <2>1, <3>1, <3>2
    <2>4. PoolTypeOK' /\ CallInv' /\ AvailabilityWasTrue'
      BY <2>1, <2>2
         DEF GetFreeSpace, PoolInv, PoolTypeOK, CallInv, AvailabilityWasTrue, cluster, during
    <2>5. FreeWasTrue'
      BY <1>2, <2>1, <2>3 DEF GetFreeSpace, PoolInv, CallInv, FreeWasTrue, cluster, during
    <2> QED BY <2>4, <2>5 DEF PoolInv
  <1> QED BY <1>4, <1>5

LEMMA ReplicaStep ==
  ASSUME PoolInv, ReplicaExists \/ ReplicaStat
  PROVE  PoolInv'
  <1> USE DEF PoolInv, Goes, cluster, during
  <1>1. CASE ReplicaExists
    <2>1. missed' \in BOOLEAN
      BY <1>1, Zenon DEF ReplicaExists, PoolTypeOK
    <2>2. /\ UNCHANGED <<capacity, used, stored, status, steady, frees, was, total, free>>
          /\ pc = "exists" /\ stored \in was /\ status \in Statuses
      BY <1>1 DEF ReplicaExists, CallInv
    <2>3. \/ pc' = "done" /\ is' = "no" /\ (status # "toBeDeleted" => ~ stored \/ missed')
          \/ pc' = "done" /\ is' = "yes" /\ status # "toBeDeleted" /\ stored /\ ~ missed'
          \/ pc' = "stat" /\ is' = is /\ status # "toBeDeleted" /\ stored /\ ~ missed'
      BY <1>1 DEF ReplicaExists, Answer, There
    <2>4. PoolTypeOK'
      BY <2>1, <2>2, <2>3 DEF PoolTypeOK
    <2>5. CallInv' /\ FreeWasTrue' /\ AvailabilityWasTrue'
      BY <2>2, <2>3 DEF PoolTypeOK, CallInv, FreeWasTrue, AvailabilityWasTrue, Unasked
    <2> QED BY <2>4, <2>5
  <1>2. CASE ReplicaStat
    BY <1>2 DEF ReplicaStat, Answer, PoolTypeOK, CallInv, FreeWasTrue, AvailabilityWasTrue,
                Unasked
  <1> QED BY <1>1, <1>2

LEMMA PoolStep == PoolInv /\ [Next]_vars => PoolInv'
  <1> SUFFICES ASSUME PoolInv, [Next]_vars PROVE PoolInv'
    OBVIOUS
  <1>1. CASE SpaceTaken \/ SpaceFreed \/ FileStored \/ FileGone
    <2>1. /\ capacity \in 0 .. MaxSpace /\ used \in 0 .. capacity /\ stored \in BOOLEAN
      BY DEF PoolInv, PoolTypeOK
    <2>2. CASE SpaceTaken
      <3>1. used + 1 \in 0 .. capacity
        BY <2>1, <2>2, SpaceAssumption DEF SpaceTaken
      <3> QED BY <2>1, <2>2, <3>1, ClusterStep DEF SpaceTaken
    <2>3. CASE SpaceFreed
      <3>1. used - 1 \in 0 .. capacity
        BY <2>1, <2>3, SpaceAssumption DEF SpaceFreed
      <3> QED BY <2>1, <2>3, <3>1, ClusterStep DEF SpaceFreed
    <2> QED BY <1>1, <2>1, <2>2, <2>3, ClusterStep DEF FileStored, FileGone
  <1>2. CASE NodesJoinOrLeave
    <2>1. PICK c \in 0 .. MaxSpace, u \in 0 .. used : u <= c /\ ClusterBecomes(c, u, stored)
      BY <1>2 DEF NodesJoinOrLeave
    <2>2. u \in 0 .. c /\ stored \in BOOLEAN
      BY <2>1, SpaceAssumption DEF PoolInv, PoolTypeOK
    <2> QED BY <2>1, <2>2, ClusterStep
  <1>3. CASE UNCHANGED vars
    BY <1>3 DEF vars, cluster, call, during, PoolInv, PoolTypeOK, CallInv, FreeWasTrue,
                AvailabilityWasTrue
  <1> QED BY <1>1, <1>2, <1>3, AskStep, TotalStep, FreeStep, ReplicaStep DEF Next

(* What has been noted of the cluster during a call, at each stage of it.  *)
THEOREM PoolInvariance == Spec => []PoolInv
  BY PoolInit, PoolStep, PTL DEF Spec

(* A report is well formed for any cluster.                                *)
THEOREM PoolTypeCorrect == Spec => []PoolTypeOK
  BY PoolInvariance, PTL DEF PoolInv

(* The free space reported was the cluster's during the call, but for one  *)
(* unit, for any size, replication and width of a word that holds it.      *)
THEOREM FreeSpaceWasTrue == Spec => []FreeWasTrue
  BY PoolInvariance, PTL DEF PoolInv

(* What is said of a replica was so at one time during the call, unless it *)
(* is said not to be available because hdfsExists has failed.              *)
THEOREM AvailabilitiesWereTrue == Spec => []AvailabilityWasTrue
  BY PoolInvariance, PTL DEF PoolInv
=============================================================================
