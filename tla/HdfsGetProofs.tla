---------------------------- MODULE HdfsGetProofs ----------------------------
(***************************************************************************)
(* Proofs about HdfsGet: what a GET answers was so, its connections are    *)
(* returned, and only a PUT location lets one write, for any clients,      *)
(* files, sizes, numbers of gateways, modes, flags and lives of tokens.    *)
(***************************************************************************)
EXTENDS HdfsGet, FiniteSetTheorems, TLAPS

\* Where a GET is, and what it then holds.
FlowInv ==
  \A u \in Users :
    /\ pc[u] # "idle" => name[u] \in Names
    /\ pc[u] \notin {"locate", "handler"} => available[u] = {}
    /\ IsFiniteSet(available[u])
    /\ pc[u] \in {"replicas", "handler"} => todo[u] > 0
    /\ pc[u] # "done" => answer[u] = "none"
    /\ conns[u] \in {0, 1}
    /\ pc[u] = "handler" => conns[u] = 1
    /\ conns[u] = 1 => pc[u] = "handler" \/ answer[u] = "gone"
    /\ pc[u] # "done" => ~ missed[u]
    /\ target[u] # None => pc[u] = "idle"

\* What a GET has seen of its file, it has seen during the call.
SeenInv ==
  \A u \in Users :
    /\ pc[u] # "idle" => file[name[u]] \in during[u]
    /\ \A c \in available[u] : c.size \in during[u]

\* The tokens that write are those of PUT locations, which name an upload.
TokenInv ==
  \A u \in Users :
    /\ \A c \in available[u] : c.token.write = FALSE
    /\ loc[u] # None /\ loc[u].token.write
         => /\ <<loc[u].token.id, loc[u].token.path>> \in puts
            /\ loc[u].token.path[2] = "upload"

GetInv == /\ GetTypeOK /\ FlowInv /\ SeenInv /\ AnswerWasTrue
          /\ TokenInv /\ WritersHavePut

-----------------------------------------------------------------------------
LEMMA UserIdType == \A u \in Users : UserId(u) \in Users \cup Addresses
  BY AddressAssumption DEF UserId

LEMMA NewTokenType ==
  ASSUME GetTypeOK, NEW u \in Users, NEW p \in Paths, NEW w \in BOOLEAN
  PROVE  NewToken(u, p, w) \in Tokens
  <1>1. now + TokenLife \in 0 .. MaxNow + TokenLife
    BY TimesAssumption DEF GetTypeOK
  <1> QED BY <1>1, UserIdType DEF NewToken, Tokens

LEMMA PathTypes == \A n \in Names : Final(n) \in Paths /\ Upload(n) \in Paths
  BY DEF Final, Upload, Paths

LEMMA GetInit == Init => GetInv
  <1> SUFFICES ASSUME Init PROVE GetInv
    OBVIOUS
  <1>1. \A u \in Users : available[u] = {} /\ Cardinality(available[u]) = 0
                         /\ IsFiniteSet(available[u])
    BY FS_EmptySet DEF Init
  <1>2. GetTypeOK
    BY <1>1, GatewaysAssumption, TimesAssumption
       DEF Init, GetTypeOK, Versions, Contents, Answers
  <1>3. FlowInv /\ SeenInv
    BY <1>1 DEF Init, FlowInv, SeenInv
  <1>4. AnswerWasTrue
    BY DEF Init, AnswerWasTrue
  <1>5. TokenInv
    BY <1>1 DEF Init, TokenInv
  <1>6. WritersHavePut
    BY DEF Init, WritersHavePut
  <1> QED BY <1>2, <1>3, <1>4, <1>5, <1>6 DEF GetInv

-----------------------------------------------------------------------------
\* A file that changes is still well formed, and so is what is noted of it.
LEMMA FileBecomesType ==
  ASSUME GetTypeOK, NEW n \in Names, NEW v \in Versions, FileBecomes(n, v)
  PROVE  file' \in [Names -> Versions] /\ during' \in [Users -> SUBSET Versions]
  BY DEF GetTypeOK, FileBecomes

\* GetTypeOK in two parts: the types, and how many locations there are.
Types ==
  /\ mode \in Modes /\ now \in 0 .. MaxNow /\ file \in [Names -> Versions]
  /\ pc \in [Users -> {"idle", "exists", "replicas", "mode", "locate", "handler", "done"}]
  /\ name \in [Users -> Names \cup {None}]
  /\ todo \in [Users -> 0 .. NGateways]
  /\ available \in [Users -> SUBSET Chunks] /\ loc \in [Users -> Chunks \cup {None}]
  /\ answer \in [Users -> Answers] /\ conns \in [Users -> Nat]
  /\ handler \in [Users -> Handlers \cup {None}]
  /\ puts \subseteq (Users \cup Addresses) \X Paths
  /\ target \in [Users -> Names \cup {None}]
  /\ during \in [Users -> SUBSET Versions] /\ missed \in [Users -> BOOLEAN]

Fits == \A u \in Users : Cardinality(available[u]) <= NGateways - todo[u]

LEMMA TypeParts == GetTypeOK <=> Types /\ Fits
  BY DEF GetTypeOK, Types, Fits

LEMMA MissType ==
  ASSUME missed \in [Users -> BOOLEAN]
  PROVE  \A u \in Users : Miss(u) => missed' \in [Users -> BOOLEAN]
  <1> SUFFICES ASSUME NEW u \in Users, Miss(u) PROVE missed' \in [Users -> BOOLEAN]
    OBVIOUS
  <1> DEFINE b == Stat(u) # None
  <1>1. b \in BOOLEAN /\ missed' = [missed EXCEPT ![u] = b]
    BY Zenon DEF Miss
  <1> HIDE DEF b
  <1> QED BY <1>1

LEMMA TypesStep == GetInv /\ [Next]_vars => Types'
  <1> SUFFICES ASSUME GetInv, [Next]_vars PROVE Types'
    OBVIOUS
  <1>0. Types
    BY TypeParts DEF GetInv
  <1>1. CASE UNCHANGED vars
    BY <1>0, <1>1 DEF vars, getVars, Types
  <1> USE <1>0, GatewaysAssumption DEF GetInv, Types, getVars
  <1>2. ASSUME NEW u \in Users, NEW n \in Names, Get(u, n) PROVE Types'
    BY <1>2 DEF Get, Goes
  <1>3. ASSUME NEW u \in Users, GetReplicas(u) PROVE Types'
    BY <1>3, MissType DEF GetReplicas, Goes, Answer, Answers
  <1>4. ASSUME NEW u \in Users, AddReplica(u) PROVE Types'
    <2>1. todo[u] > 0
      BY <1>4 DEF AddReplica, FlowInv
    <2> QED BY <1>4, <2>1, MissType DEF AddReplica, Goes, Answer, Answers
  <1>5. ASSUME NEW u \in Users, CheckMode(u) PROVE Types'
    BY <1>5 DEF CheckMode, Goes, Answer, Answers
  <1>6. ASSUME NEW u \in Users, CreatePoolHandlerFails(u) PROVE Types'
    BY <1>6 DEF CreatePoolHandlerFails, Goes, Answer, Answers
  <1>7. ASSUME NEW u \in Users, CreatePoolHandler(u) PROVE Types'
    BY <1>7 DEF CreatePoolHandler, Goes
  <1>8. ASSUME NEW u \in Users, Locate(u) PROVE Types'
    <2>1. PICK s \in LocatedSizes(u) :
            available' = [available EXCEPT ![u] = @ \cup
              {[path |-> Final(name[u]), size |-> s,
                token |-> NewToken(u, Final(name[u]), FALSE)]}]
      BY <1>8 DEF Locate
    <2> DEFINE c == [path |-> Final(name[u]), size |-> s,
                     token |-> NewToken(u, Final(name[u]), FALSE)]
    <2>2. name[u] \in Names /\ todo[u] > 0 /\ IsFiniteSet(available[u]) /\ conns[u] = 1
      BY <1>8 DEF Locate, FlowInv
    <2>3. s \in Contents
      BY <2>2 DEF LocatedSizes, Stat, Versions
    <2>4. c \in Chunks
      BY <2>2, <2>3, PathTypes, NewTokenType DEF Chunks
    <2>5. /\ todo' = [todo EXCEPT ![u] = @ - 1] /\ pc' = [pc EXCEPT ![u] = "locate"]
          /\ conns' = [conns EXCEPT ![u] = @ - 1]
          /\ UNCHANGED <<answer, mode, now, file, name, loc, target, handler, puts, during,
                         missed>>
      BY <1>8 DEF Locate, Goes, Deleted
    <2>6. todo[u] - 1 \in 0 .. NGateways /\ conns[u] - 1 \in Nat
      BY <2>2
    <2>7. available' \in [Users -> SUBSET Chunks]
      BY <2>1, <2>4
    <2>8. todo' \in [Users -> 0 .. NGateways] /\ conns' \in [Users -> Nat]
      BY <2>5, <2>6
    <2> QED BY <2>5, <2>7, <2>8
  <1>17. ASSUME NEW u \in Users, LocateFails(u) PROVE Types'
    BY <1>17, MissType DEF LocateFails, Goes, Answer, Answers
  <1>9. ASSUME NEW u \in Users, Choose(u) PROVE Types'
    BY <1>9 DEF Choose, Goes, Answer, Answers
  <1>10. ASSUME NEW u \in Users, Return(u) PROVE Types'
    BY <1>10 DEF Return, Goes, Answers
  <1>11. ASSUME NEW u \in Users, PutLocation(u) PROVE Types'
    <2> DEFINE n == target[u]
    <2>0. n \in Names
      BY <1>11 DEF PutLocation
    <2>1. [path |-> Upload(n), size |-> 0, token |-> NewToken(u, Upload(n), TRUE)]
            \in Chunks
      BY <2>0, PathTypes, NewTokenType DEF Chunks, Contents
    <2>2. <<UserId(u), Upload(n)>> \in (Users \cup Addresses) \X Paths
      BY <2>0, PathTypes, UserIdType
    <2> QED BY <1>11, <2>1, <2>2 DEF PutLocation
  <1>18. ASSUME NEW u \in Users, PutFails(u) \/ \E n \in Names : PutCheck(u, n) PROVE Types'
    BY <1>18 DEF PutFails, PutCheck
  <1>12. ASSUME NEW u \in Users, NEW p \in Paths, NEW f \in FlagSets,
                NEW i \in Insecure, CreateIOHandler(u, p, f, i)
         PROVE  Types'
    <2>1. handler' \in [Users -> Handlers \cup {None}]
      BY <1>12, InsecureAssumption DEF CreateIOHandler, Handlers
    <2>2. file' \in [Names -> Versions] /\ during' \in [Users -> SUBSET Versions]
      BY <1>12, FileBecomesType DEF CreateIOHandler, Versions, Contents, Paths
    <2> QED BY <1>12, <2>1, <2>2 DEF CreateIOHandler
  <1>13. ASSUME NEW u \in Users, CloseIOHandler(u) PROVE Types'
    BY <1>13 DEF CloseIOHandler
  <1>14. ASSUME NEW n \in Names, NEW s \in Sizes, Publish(n, s) PROVE Types'
    BY <1>14, FileBecomesType DEF Publish, Versions, Contents
  <1>15. ASSUME NEW n \in Names, Remove(n) PROVE Types'
    BY <1>15, FileBecomesType DEF Remove, Versions
  <1>16. CASE Tick
    BY <1>16, TimesAssumption DEF Tick
  <1> QED BY <1>1, <1>2, <1>3, <1>4, <1>5, <1>6, <1>7, <1>8, <1>9, <1>10, <1>11,
             <1>12, <1>13, <1>14, <1>15, <1>16, <1>17, <1>18 DEF Next, GetStep

\* Actions that are no steps of a GET, and what they leave alone.
Opens(u) == \E p \in Paths, f \in FlagSets, i \in Insecure : CreateIOHandler(u, p, f, i)

Others == \/ \E u \in Users : CloseIOHandler(u)
          \/ \E u \in Users : PutLocation(u) \/ PutFails(u)
          \/ \E u \in Users, n \in Names : PutCheck(u, n)
          \/ \E u \in Users : Opens(u)
          \/ \E n \in Names : Remove(n) \/ \E s \in Sizes : Publish(n, s)
          \/ Tick

LEMMA OthersKeep == Others => UNCHANGED <<getVars, missed>>
  BY DEF Others, Opens, CloseIOHandler, PutLocation, PutFails, PutCheck, CreateIOHandler, Remove, Publish, Tick

LEMMA NextSplit ==
  Next => Others \/ \E u \in Users : GetStep(u) \/ Return(u) \/ \E n \in Names : Get(u, n)
  <1> SUFFICES ASSUME Next, ~ Others
               PROVE  \E u \in Users : GetStep(u) \/ Return(u) \/ \E n \in Names : Get(u, n)
    OBVIOUS
  <1>1. PICK u \in Users : \/ GetStep(u) \/ Return(u) \/ CloseIOHandler(u)
                            \/ PutLocation(u) \/ PutFails(u)
                            \/ \E n \in Names : Get(u, n) \/ PutCheck(u, n)
                            \/ Opens(u)
    BY Zenon DEF Next, Others, Opens
  <1>2. ~ CloseIOHandler(u) /\ ~ Opens(u) 
         /\ ~ PutLocation(u) /\ ~ PutFails(u) /\ \A n \in Names : ~ PutCheck(u, n)
    BY DEF Others
  <1> QED BY <1>1, <1>2, Zenon

\* A step of one client's GET leaves what belongs to the others alone.
LEMMA OwnGet ==
  ASSUME GetInv, NEW u \in Users,
         GetStep(u) \/ Return(u) \/ \E n \in Names : Get(u, n)
  PROVE  /\ \A o \in Users \ {u} :
              /\ pc'[o] = pc[o] /\ name'[o] = name[o] /\ todo'[o] = todo[o]
              /\ available'[o] = available[o] /\ answer'[o] = answer[o]
              /\ conns'[o] = conns[o] /\ loc'[o] = loc[o] /\ during'[o] = during[o]
              /\ missed'[o] = missed[o]
         /\ UNCHANGED <<mode, now, file, target, handler, puts>>
  <1> USE TypeParts DEF GetInv, Types, Goes, Answer, Miss
  <1>1. CASE GetReplicas(u) \/ AddReplica(u) \/ CheckMode(u)
    BY <1>1 DEF GetReplicas, AddReplica, CheckMode
  <1>2. CASE CreatePoolHandlerFails(u) \/ CreatePoolHandler(u)
    BY <1>2 DEF CreatePoolHandlerFails, CreatePoolHandler
  <1>3. CASE LocateFails(u) \/ Locate(u)
    BY <1>3 DEF LocateFails, Locate
  <1>4. CASE Choose(u) \/ Return(u)
    BY <1>4 DEF Choose, Return
  <1>5. CASE \E n \in Names : Get(u, n)
    BY <1>5 DEF Get
  <1> QED BY <1>1, <1>2, <1>3, <1>4, <1>5 DEF GetStep

\* How many locations one step may add.
LEMMA LocateCount ==
  ASSUME GetInv, NEW u \in Users, LocateFails(u) \/ Locate(u)
  PROVE  /\ IsFiniteSet(available'[u])
         /\ Cardinality(available'[u]) <= NGateways - todo'[u]
  <1> USE GatewaysAssumption, TypeParts DEF GetInv, Types
  <1>1. CASE LocateFails(u)
    <2>1. available'[u] = {} /\ todo'[u] = 0
      BY <1>1 DEF LocateFails
    <2> QED BY <2>1, FS_EmptySet
  <1>2. CASE Locate(u)
    <2>1. PICK c : available'[u] = available[u] \cup {c}
      BY <1>2 DEF Locate
    <2>2. todo'[u] = todo[u] - 1 /\ todo[u] \in 0 .. NGateways
      BY <1>2 DEF Locate
    <2>3. IsFiniteSet(available[u]) /\ Cardinality(available[u]) <= NGateways - todo[u]
      BY DEF FlowInv, Fits
    <2>4. /\ IsFiniteSet(available'[u]) /\ Cardinality(available[u]) \in Nat
          /\ Cardinality(available'[u]) \in Nat
          /\ Cardinality(available'[u]) <= Cardinality(available[u]) + 1
      <3>1. /\ IsFiniteSet(available[u] \cup {c})
            /\ \/ Cardinality(available[u] \cup {c}) = Cardinality(available[u])
               \/ Cardinality(available[u] \cup {c}) = Cardinality(available[u]) + 1
        BY <2>3, FS_AddElement
      <3>2. Cardinality(available[u]) \in Nat
        BY <2>3, FS_CardinalityType
      <3> QED BY <2>1, <3>1, <3>2
    <2> QED BY <2>2, <2>3, <2>4
  <1> QED BY <1>1, <1>2

LEMMA FlowStep == GetInv /\ [Next]_vars => FlowInv' /\ Fits'
  <1> SUFFICES ASSUME GetInv, [Next]_vars PROVE FlowInv' /\ Fits'
    OBVIOUS
  <1> USE GatewaysAssumption, TypeParts DEF GetInv
  <1> DEFINE Flow(u) ==
        /\ pc[u] # "idle" => name[u] \in Names
        /\ pc[u] \notin {"locate", "handler"} => available[u] = {}
        /\ IsFiniteSet(available[u])
        /\ pc[u] \in {"replicas", "handler"} => todo[u] > 0
        /\ pc[u] # "done" => answer[u] = "none"
        /\ conns[u] \in {0, 1}
        /\ pc[u] = "handler" => conns[u] = 1
        /\ conns[u] = 1 => pc[u] = "handler" \/ answer[u] = "gone"
        /\ pc[u] # "done" => ~ missed[u]
        /\ target[u] # None => pc[u] = "idle"
        /\ Cardinality(available[u]) <= NGateways - todo[u]
  <1>1. \A u \in Users : Flow(u)
    BY DEF FlowInv, Fits
  <1>2. CASE UNCHANGED vars \/ Others
    <2>1. UNCHANGED <<getVars, missed>>
      BY <1>2, OthersKeep DEF vars
    <2>2. \A u \in Users : target'[u] # None => pc[u] = "idle"
      <3>1. \A u \in Users : target'[u] # None => pc[u] = "idle" \/ target'[u] = target[u]
        BY <1>2 DEF vars, Others, Opens, CloseIOHandler, PutLocation, PutFails, PutCheck, Free,
                    CreateIOHandler, Remove, Publish, Tick, Types
      <3> QED BY <1>1, <3>1
    <2> QED BY <1>1, <2>1, <2>2 DEF getVars, FlowInv, Fits
  <1>3. ASSUME NEW u \in Users, GetStep(u) \/ Return(u) \/ \E n \in Names : Get(u, n)
        PROVE  FlowInv' /\ Fits'
    <2>1. ASSUME NEW o \in Users \ {u} PROVE Flow(o)'
      <3>1. /\ pc'[o] = pc[o] /\ name'[o] = name[o] /\ todo'[o] = todo[o]
            /\ available'[o] = available[o] /\ answer'[o] = answer[o]
            /\ conns'[o] = conns[o] /\ missed'[o] = missed[o] /\ target'[o] = target[o]
        BY <1>3, OwnGet
      <3> QED BY <1>1, <3>1
    <2>2. Flow(u)'
      <3> USE <1>1 DEF Types, Goes, Answer, Miss
      <3> UNCHANGED target
        BY <1>3, OwnGet
      <3> HIDE DEF Flow
      <3>0. IsFiniteSet({}) /\ Cardinality({}) = 0
        BY FS_EmptySet
      <3>1. CASE GetReplicas(u) \/ AddReplica(u) \/ CheckMode(u)
        <4>1. available[u] = {} /\ UNCHANGED <<available, conns, name>>
          BY <3>1 DEF GetReplicas, AddReplica, CheckMode, Flow
        <4>2. CASE GetReplicas(u) \/ CheckMode(u)
          <5>1. /\ todo'[u] \in 0 .. NGateways
                /\ pc'[u] = "replicas" => todo'[u] > 0
                /\ pc'[u] \in {"replicas", "locate"} => UNCHANGED <<answer, missed>>
                /\ pc'[u] \in {"replicas", "locate", "done"}
            BY <4>2 DEF GetReplicas, CheckMode
          <5>2. /\ conns[u] = 0 /\ pc[u] # "idle" /\ name[u] \in Names
                /\ answer[u] = "none" /\ ~ missed[u]
            BY <4>2 DEF GetReplicas, CheckMode, Flow
          <5>3. Cardinality(available'[u]) = 0 /\ available'[u] = {}
            BY <3>0, <4>1
          <5> QED BY <3>0, <4>1, <5>1, <5>2, <5>3 DEF Flow
        <4>3. CASE AddReplica(u)
          <5>1. todo[u] \in 1 .. NGateways
            BY <4>3 DEF AddReplica, Flow
          <5>2. /\ todo'[u] \in 0 .. NGateways
                /\ pc'[u] = "replicas" => todo'[u] > 0
                /\ pc'[u] \in {"replicas", "mode"} => UNCHANGED <<answer, missed>>
                /\ pc'[u] \in {"replicas", "mode", "done"}
            BY <4>3, <5>1 DEF AddReplica
          <5>3. /\ conns[u] = 0 /\ pc[u] # "idle" /\ name[u] \in Names
                /\ answer[u] = "none" /\ ~ missed[u]
            BY <4>3 DEF AddReplica, Flow
          <5>4. Cardinality(available'[u]) = 0 /\ available'[u] = {}
            BY <3>0, <4>1
          <5> QED BY <3>0, <4>1, <5>2, <5>3, <5>4 DEF Flow
        <4> QED BY <3>1, <4>2, <4>3
      <3>2. CASE CreatePoolHandlerFails(u)
        BY <3>0, <3>2 DEF CreatePoolHandlerFails, Flow
      <3>3. CASE CreatePoolHandler(u)
        BY <3>3 DEF CreatePoolHandler, Flow
      <3>4. CASE LocateFails(u) \/ Locate(u)
        <4>1. /\ IsFiniteSet(available'[u])
              /\ Cardinality(available'[u]) <= NGateways - todo'[u]
          BY <3>4, LocateCount
        <4>2. /\ pc[u] = "handler" /\ conns[u] = 1 /\ answer[u] = "none" /\ name[u] \in Names
              /\ ~ missed[u]
          BY <3>4 DEF LocateFails, Locate, Flow
        <4>3. CASE LocateFails(u)
          BY <4>1, <4>2, <4>3 DEF LocateFails, Flow
        <4>4. CASE Locate(u)
          <5>1. /\ pc' = [pc EXCEPT ![u] = "locate"]
                /\ conns' = [conns EXCEPT ![u] = @ - 1]
                /\ UNCHANGED <<answer, name, missed>>
            BY <4>4 DEF Locate, Deleted
          <5>2. pc'[u] = "locate" /\ conns'[u] = 0
            BY <4>2, <5>1
          <5> QED BY <4>1, <4>2, <5>1, <5>2 DEF Flow
        <4> QED BY <3>4, <4>3, <4>4
      <3>5. CASE Choose(u)
        BY <3>0, <3>5 DEF Choose, Flow
      <3>6. CASE Return(u)
        BY <3>6 DEF Return, Flow
      <3>7. CASE \E n \in Names : Get(u, n)
        BY <3>7 DEF Get, Free, Flow
      <3> QED BY <1>3, <3>1, <3>2, <3>3, <3>4, <3>5, <3>6, <3>7 DEF GetStep
    <2> QED BY <2>1, <2>2 DEF FlowInv, Fits
  <1> QED BY <1>2, <1>3, NextSplit
-----------------------------------------------------------------------------
\* What a client knows of its file, which SeenInv and AnswerWasTrue say is so.
Seen(u) == /\ pc[u] # "idle" => file[name[u]] \in during[u]
           /\ \A c \in available[u] : c.size \in during[u]
           /\ answer[u] = "found" => loc[u].size \in during[u] /\ ~ missed[u]
           /\ answer[u] = "gone" => None \in during[u] \/ missed[u]

LEMMA SeenParts == (\A u \in Users : Seen(u)) <=> SeenInv /\ AnswerWasTrue
  BY DEF Seen, SeenInv, AnswerWasTrue

\* A file that changes is noted by the GETs of it, and by no other.
LEMMA ChangeSeen ==
  ASSUME GetInv, NEW n \in Names, NEW v, FileBecomes(n, v), UNCHANGED getVars,
         UNCHANGED <<loc, missed>>
  PROVE  \A u \in Users : Seen(u)'
  <1> SUFFICES ASSUME NEW u \in Users PROVE Seen(u)'
    OBVIOUS
  <1>1. /\ pc'[u] = pc[u] /\ name'[u] = name[u] /\ available'[u] = available[u]
        /\ answer'[u] = answer[u] /\ loc'[u] = loc[u] /\ missed'[u] = missed[u]
    BY DEF getVars
  <1>2. /\ during'[u] = IF name[u] = n THEN during[u] \cup {v} ELSE during[u]
        /\ \A m \in Names : file'[m] = IF m = n THEN v ELSE file[m]
    BY TypeParts DEF FileBecomes, GetInv, Types
  <1>3. Seen(u) /\ (pc[u] # "idle" => name[u] \in Names)
    BY SeenParts DEF GetInv, FlowInv
  <1>4. pc'[u] # "idle" => file'[name'[u]] \in during'[u]
    BY <1>1, <1>2, <1>3 DEF Seen
  <1> QED BY <1>1, <1>2, <1>3, <1>4 DEF Seen

LEMMA OthersSeen == GetInv /\ Others => \A u \in Users : Seen(u)'
  <1> SUFFICES ASSUME GetInv, Others PROVE \A u \in Users : Seen(u)'
    OBVIOUS
  <1>0. \A u \in Users : Seen(u)
    BY SeenParts DEF GetInv
  <1>1. UNCHANGED <<getVars, missed>>
    BY OthersKeep
  <1>2. CASE \/ Tick
             \/ \E u \in Users : \/ CloseIOHandler(u) \/ PutFails(u)
                                 \/ \E n \in Names : PutCheck(u, n)
    <2>1. UNCHANGED <<file, loc, during>>
      BY <1>2 DEF Tick, CloseIOHandler, PutFails, PutCheck
    <2> QED BY <1>0, <1>1, <2>1 DEF getVars, Seen
  <1>3. ASSUME NEW u \in Users, PutLocation(u)
        PROVE  \A o \in Users : Seen(o)'
    <2>1. answer[u] = "none" /\ \A o \in Users \ {u} : loc'[o] = loc[o]
      BY <1>3, TypeParts DEF PutLocation, GetInv, FlowInv, Types
    <2>2. UNCHANGED <<file, during>>
      BY <1>3 DEF PutLocation
    <2> QED BY <1>0, <1>1, <2>1, <2>2 DEF getVars, Seen
  <1>4. ASSUME NEW u \in Users, NEW p \in Paths, NEW f \in FlagSets,
               NEW i \in Insecure, CreateIOHandler(u, p, f, i)
        PROVE  \A o \in Users : Seen(o)'
    <2>1. UNCHANGED loc
      BY <1>4 DEF CreateIOHandler
    <2>2. CASE UNCHANGED <<file, during>>
      BY <1>0, <1>1, <2>1, <2>2 DEF getVars, Seen
    <2>3. CASE FileBecomes(p[1], 0)
      BY <1>1, <2>1, <2>3, ChangeSeen DEF Paths
    <2> QED BY <1>4, <2>2, <2>3 DEF CreateIOHandler
  <1>5. ASSUME NEW n \in Names, NEW v, FileBecomes(n, v), UNCHANGED loc
        PROVE  \A o \in Users : Seen(o)'
    BY <1>1, <1>5, ChangeSeen
  <1>6. CASE \E n \in Names : Remove(n) \/ \E s \in Sizes : Publish(n, s)
    BY <1>5, <1>6 DEF Remove, Publish
  <1> QED BY <1>2, <1>3, <1>4, <1>6 DEF Others, Opens

LEMMA SeenStep == GetInv /\ [Next]_vars => SeenInv' /\ AnswerWasTrue'
  <1> SUFFICES ASSUME GetInv, [Next]_vars PROVE \A u \in Users : Seen(u)'
    BY DEF Seen, SeenInv, AnswerWasTrue
  <1>0. \A u \in Users : Seen(u)
    BY SeenParts DEF GetInv
  <1>1. CASE UNCHANGED vars
    BY <1>0, <1>1 DEF vars, getVars, Seen
  <1>2. ASSUME NEW u \in Users, GetStep(u) \/ Return(u) \/ \E n \in Names : Get(u, n)
        PROVE  \A o \in Users : Seen(o)'
    <2>1. ASSUME NEW o \in Users \ {u} PROVE Seen(o)'
      <3>1. /\ pc'[o] = pc[o] /\ name'[o] = name[o] /\ available'[o] = available[o]
            /\ answer'[o] = answer[o] /\ loc'[o] = loc[o] /\ during'[o] = during[o]
            /\ missed'[o] = missed[o] /\ UNCHANGED file
        BY <1>2, OwnGet
      <3> QED BY <1>0, <3>1 DEF Seen
    <2>2. Seen(u)'
      <3> USE <1>0, TypeParts DEF GetInv, Types, Goes, Answer, Miss
      <3>1. CASE GetReplicas(u) \/ AddReplica(u) \/ CheckMode(u)
        <4>1. /\ UNCHANGED <<file, name, available, loc, during>> /\ pc[u] # "idle"
              /\ \/ UNCHANGED <<answer, missed>>
                 \/ answer'[u] = "writeOnly"
                 \/ answer'[u] = "gone" /\ missed'[u] = (file[name[u]] # None)
          BY <3>1 DEF GetReplicas, AddReplica, CheckMode, Stat
        <4> QED BY <4>1 DEF Seen
      <3>2. CASE CreatePoolHandlerFails(u) \/ CreatePoolHandler(u)
        <4>1. /\ UNCHANGED <<file, name, loc, during, missed>> /\ pc[u] # "idle"
              /\ available'[u] \subseteq available[u]
              /\ \/ UNCHANGED answer
                 \/ answer'[u] \in {"badMode", "noConnection"}
          BY <3>2 DEF CreatePoolHandlerFails, CreatePoolHandler
        <4> QED BY <4>1 DEF Seen
      <3>3. CASE LocateFails(u)
        <4>1. /\ UNCHANGED <<file, name, loc, during>> /\ pc[u] # "idle"
              /\ available'[u] = {} /\ answer'[u] = "gone"
              /\ missed'[u] = (file[name[u]] # None)
          BY <3>3 DEF LocateFails, Stat
        <4> QED BY <4>1 DEF Seen
      <3>4. CASE Locate(u)
        <4>0. PICK s \in LocatedSizes(u) :
                available' = [available EXCEPT ![u] = @ \cup
                  {[path |-> Final(name[u]), size |-> s,
                    token |-> NewToken(u, Final(name[u]), FALSE)]}]
          BY <3>4 DEF Locate
        <4> DEFINE c == [path |-> Final(name[u]), size |-> s,
                         token |-> NewToken(u, Final(name[u]), FALSE)]
        <4>1. available'[u] = available[u] \cup {c} /\ c.size \in LocatedSizes(u)
          BY <4>0
        <4>2. UNCHANGED <<file, name, loc, during, answer, missed>> /\ pc[u] # "idle"
          BY <3>4 DEF Locate
        <4>3. c.size \in during[u]
          BY <4>1, <4>2 DEF LocatedSizes, Stat, Seen
        <4> HIDE DEF c
        <4> QED BY <4>1, <4>2, <4>3 DEF Seen
      <3>5. CASE Choose(u)
        <4>1. /\ UNCHANGED <<file, name, during, missed>> /\ pc[u] # "idle" /\ ~ missed[u]
              /\ loc'[u] \in available[u] /\ available'[u] = {} /\ answer'[u] = "found"
          BY <3>5 DEF Choose, FlowInv
        <4> QED BY <4>1 DEF Seen
      <3>6. CASE Return(u)
        <4>1. pc'[u] = "idle" /\ answer'[u] = "none" /\ available'[u] = {}
          BY <3>6 DEF Return, FlowInv
        <4> QED BY <4>1 DEF Seen
      <3>7. ASSUME NEW n \in Names, Get(u, n) PROVE Seen(u)'
        <4>1. /\ name'[u] = n /\ during'[u] = {file[n]} /\ UNCHANGED file
              /\ available'[u] = {} /\ answer'[u] = "none"
          BY <3>7 DEF Get, Free, FlowInv
        <4> QED BY <4>1 DEF Seen
      <3> QED BY <1>2, <3>1, <3>2, <3>3, <3>4, <3>5, <3>6, <3>7 DEF GetStep
    <2> QED BY <2>1, <2>2
  <1> QED BY <1>1, <1>2, OthersSeen, NextSplit

-----------------------------------------------------------------------------
\* The tokens client u holds.
Held(u) == /\ \A c \in available[u] : c.token.write = FALSE
           /\ loc[u] # None /\ loc[u].token.write
                => /\ <<loc[u].token.id, loc[u].token.path>> \in puts
                   /\ loc[u].token.path[2] = "upload"

LEMMA TokenStep == GetInv /\ [Next]_vars => TokenInv'
  <1> SUFFICES ASSUME GetInv, [Next]_vars PROVE \A u \in Users : Held(u)'
    BY DEF Held, TokenInv
  <1>0. \A u \in Users : Held(u)
    BY DEF GetInv, TokenInv, Held
  <1>1. CASE UNCHANGED vars
    BY <1>0, <1>1 DEF vars, getVars, Held
  <1>2. ASSUME NEW u \in Users, GetStep(u) \/ Return(u) \/ \E n \in Names : Get(u, n)
        PROVE  \A o \in Users : Held(o)'
    <2>1. ASSUME NEW o \in Users \ {u} PROVE Held(o)'
      <3>1. /\ available'[o] = available[o] /\ loc'[o] = loc[o] /\ UNCHANGED puts
        BY <1>2, OwnGet
      <3> QED BY <1>0, <3>1 DEF Held
    <2>2. Held(u)'
      <3> USE <1>0, TypeParts DEF GetInv, Types
      <3>1. CASE \/ GetReplicas(u) \/ AddReplica(u) \/ CheckMode(u)
                 \/ CreatePoolHandlerFails(u) \/ CreatePoolHandler(u) \/ Return(u)
        <4>1. UNCHANGED <<loc, puts>> /\ available'[u] \subseteq available[u]
          BY <3>1 DEF GetReplicas, AddReplica, CheckMode, CreatePoolHandlerFails,
                      CreatePoolHandler, Return
        <4> QED BY <4>1 DEF Held
      <3>2. CASE LocateFails(u)
        <4>1. UNCHANGED <<loc, puts>> /\ available'[u] = {}
          BY <3>2 DEF LocateFails
        <4> QED BY <4>1 DEF Held
      <3>3. CASE Locate(u)
        <4>1. PICK s \in LocatedSizes(u) :
                available' = [available EXCEPT ![u] = @ \cup
                  {[path |-> Final(name[u]), size |-> s,
                    token |-> NewToken(u, Final(name[u]), FALSE)]}]
          BY <3>3 DEF Locate
        <4> DEFINE c == [path |-> Final(name[u]), size |-> s,
                         token |-> NewToken(u, Final(name[u]), FALSE)]
        <4>2. UNCHANGED <<loc, puts>>
          BY <3>3 DEF Locate
        <4>3. available'[u] = available[u] \cup {c} /\ c.token.write = FALSE
          BY <4>1 DEF NewToken
        <4> HIDE DEF c
        <4> QED BY <4>2, <4>3 DEF Held
      <3>4. CASE Choose(u)
        <4>1. loc'[u] \in available[u] /\ available'[u] = {} /\ UNCHANGED puts
          BY <3>4 DEF Choose
        <4> QED BY <4>1 DEF Held
      <3>5. ASSUME NEW n \in Names, Get(u, n) PROVE Held(u)'
        <4>1. loc'[u] = None /\ UNCHANGED <<available, puts>>
          BY <3>5 DEF Get
        <4> QED BY <4>1 DEF Held
      <3> QED BY <1>2, <3>1, <3>2, <3>3, <3>4, <3>5 DEF GetStep
    <2> QED BY <2>1, <2>2
  <1>3. CASE Others
    <2>1. UNCHANGED available
      BY <1>3, OthersKeep DEF getVars
    <2>2. ASSUME NEW u \in Users, PutLocation(u)
          PROVE  \A o \in Users : Held(o)'
      <3> DEFINE n == target[u]
      <3>1. /\ \A o \in Users \ {u} : loc'[o] = loc[o]
            /\ puts \subseteq puts' /\ <<UserId(u), Upload(n)>> \in puts'
        BY <2>2, TypeParts DEF PutLocation, GetInv, Types
      <3>2. loc'[u] = [path |-> Upload(n), size |-> 0, token |-> NewToken(u, Upload(n), TRUE)]
        BY <2>2, TypeParts DEF PutLocation, GetInv, Types
      <3>3. /\ loc'[u].token.id = UserId(u) /\ loc'[u].token.path = Upload(n)
            /\ Upload(n)[2] = "upload"
        BY <3>2 DEF NewToken, Upload
      <3>4. Held(u)'
        BY <1>0, <2>1, <3>1, <3>3 DEF Held
      <3> QED BY <1>0, <2>1, <3>1, <3>4 DEF Held
    <2>3. CASE UNCHANGED <<loc, puts>>
      BY <1>0, <2>1, <2>3 DEF Held
    <2> QED BY <1>3, <2>2, <2>3
            DEF Others, Opens, CloseIOHandler, PutFails, PutCheck, CreateIOHandler, Remove,
                Publish, Tick
  <1> QED BY <1>1, <1>2, <1>3, NextSplit

\* A token that lets one open a path to write was given for a PUT of that path.
LEMMA WriteNeedsPut ==
  ASSUME GetInv, NEW u \in Users, NEW p \in Paths, NEW flags,
         IsWriting(flags), TokenOK(u, p, flags)
  PROVE  <<UserId(u), p>> \in puts /\ p[2] = "upload"
  <1>1. NeedsWrite(flags)
    BY DEF IsWriting, NeedsWrite
  <1>2. PICK v \in Users : /\ loc[v] # None
                           /\ ValidToken(loc[v].token, UserId(u), p, NeedsWrite(flags))
    BY DEF TokenOK
  <1>3. loc[v].token.write /\ loc[v].token.id = UserId(u) /\ loc[v].token.path = p
    BY <1>1, <1>2 DEF ValidToken
  <1> QED BY <1>2, <1>3 DEF GetInv, TokenInv

LEMMA WriterStep == GetInv /\ [Next]_vars => WritersHavePut'
  <1> SUFFICES ASSUME GetInv, [Next]_vars PROVE WritersHavePut'
    OBVIOUS
  <1>1. CASE UNCHANGED <<handler, puts>>
    BY <1>1 DEF GetInv, WritersHavePut, UserId
  <1>2. ASSUME NEW u \in Users, NEW p \in Paths, NEW f \in FlagSets,
               NEW i \in Insecure, CreateIOHandler(u, p, f, i)
        PROVE  WritersHavePut'
    <2>1. handler' = [handler EXCEPT ![u] = [path |-> p, flags |-> f, insecure |-> i]]
      BY <1>2 DEF CreateIOHandler
    <2>2. UNCHANGED puts /\ (i \/ TokenOK(u, p, f))
      BY <1>2 DEF CreateIOHandler
    <2>3. /\ handler'[u].path = p /\ handler'[u].flags = f /\ handler'[u].insecure = i
          /\ \A o \in Users \ {u} : handler'[o] = handler[o]
      BY <2>1, TypeParts DEF GetInv, Types
    <2>4. IsWriting(f) /\ ~ i => <<UserId(u), p>> \in puts
      BY <2>2, WriteNeedsPut
    <2> QED BY <2>2, <2>3, <2>4 DEF GetInv, WritersHavePut
  <1>3. ASSUME NEW u \in Users, CloseIOHandler(u) PROVE WritersHavePut'
    <2>1. /\ handler'[u] = None /\ UNCHANGED puts
          /\ \A o \in Users \ {u} : handler'[o] = handler[o]
      BY <1>3, TypeParts DEF CloseIOHandler, GetInv, Types
    <2> QED BY <2>1 DEF GetInv, WritersHavePut
  <1>4. ASSUME NEW u \in Users, PutLocation(u) PROVE WritersHavePut'
    <2>1. UNCHANGED handler /\ puts \subseteq puts'
      BY <1>4 DEF PutLocation
    <2> QED BY <2>1 DEF GetInv, WritersHavePut
  <1>5. CASE Others
    BY <1>1, <1>2, <1>3, <1>4, <1>5 DEF Others, Opens, PutFails, PutCheck, Remove, Publish, Tick
  <1>6. ASSUME NEW u \in Users, GetStep(u) \/ Return(u) \/ \E n \in Names : Get(u, n)
        PROVE  WritersHavePut'
    BY <1>1, <1>6, OwnGet
  <1> QED BY <1>1, <1>5, <1>6, NextSplit DEF vars

LEMMA GetStepKeeps == GetInv /\ [Next]_vars => GetInv'
  <1> SUFFICES ASSUME GetInv, [Next]_vars PROVE GetInv'
    OBVIOUS
  <1>1. GetTypeOK' <=> Types' /\ Fits'
    BY DEF GetTypeOK, Types, Fits
  <1> QED BY <1>1, TypesStep, FlowStep, SeenStep, TokenStep, WriterStep DEF GetInv

\* The inductive invariant of HdfsGet.
THEOREM GetInvariance == Spec => []GetInv
  <1>1. Init => GetInv
    BY GetInit
  <1>2. GetInv /\ [Next]_vars => GetInv'
    BY GetStepKeeps
  <1> QED BY <1>1, <1>2, PTL DEF Spec

\* The types of HdfsGet; no more locations than replicas are found.
THEOREM GetTypeCorrect == Spec => []GetTypeOK
  <1>1. GetInv => GetTypeOK
    BY DEF GetInv
  <1> QED BY <1>1, GetInvariance, PTL

\* What a GET answers was so at some time between its call and its return, or,
\* if it says that the file is not there, a look-up has failed.
THEOREM AnswersWereTrue == Spec => []AnswerWasTrue
  <1>1. GetInv => AnswerWasTrue
    BY DEF GetInv
  <1> QED BY <1>1, GetInvariance, PTL

\* A GET has one connection at a time, and closed it unless a look-up of the
\* pool handler found no file.
THEOREM ConnectionsAreReturned == Spec => []ConnectionsReturned
  <1>1. GetInv => ConnectionsReturned
    BY DEF GetInv, FlowInv, ConnectionsReturned
  <1> QED BY <1>1, GetInvariance, PTL

\* One who writes without kInsecure was given a PUT location for the path.
THEOREM WritersHadPut == Spec => []WritersHavePut
  <1>1. GetInv => WritersHavePut
    BY DEF GetInv
  <1> QED BY <1>1, GetInvariance, PTL

\* Only a call made with kInsecure empties a published file.
THEOREM EmptiedOnlyInsecurely == Spec => PublishedNotEmptied
  <1> DEFINE Kept == \A n \in Names :
               file[n] \in Sizes /\ file'[n] = 0 =>
                 \E u \in Users : /\ handler[u] = None /\ handler'[u] # None
                                  /\ handler'[u].path = Final(n)
                                  /\ handler'[u].insecure
  <1>1. ASSUME GetInv, Next PROVE Kept
    <2> SUFFICES ASSUME NEW n \in Names, file[n] \in Sizes, file'[n] = 0
                 PROVE  \E u \in Users : /\ handler[u] = None /\ handler'[u] # None
                                         /\ handler'[u].path = Final(n)
                                         /\ handler'[u].insecure
      OBVIOUS
    <2>0. file[n] # 0 /\ file[n] # None /\ None # 0
      BY SizesAssumption, NoneAssumption DEF Contents
    <2>1. file'[n] # file[n]
      BY <2>0
    <2>2. \A m \in Names : \A v : FileBecomes(m, v) => m = n /\ v = 0
      BY <2>1, TypeParts DEF FileBecomes, GetInv, Types
    <2>3. ASSUME NEW u \in Users, NEW p \in Paths, NEW f \in FlagSets,
                 NEW i \in Insecure, CreateIOHandler(u, p, f, i)
          PROVE  /\ handler[u] = None /\ handler'[u] # None
                 /\ handler'[u].path = Final(n) /\ handler'[u].insecure
      <3>1. IsWriting(f) /\ p[2] = "final" /\ p[1] = n
        BY <2>1, <2>2, <2>3 DEF CreateIOHandler, Paths
      <3>2. p = Final(n)
        BY <3>1 DEF Paths, Final
      <3>3. i
        <4>1. ~ TokenOK(u, p, f)
          BY <1>1, <3>1, WriteNeedsPut
        <4> QED BY <2>3, <4>1 DEF CreateIOHandler
      <3>4. [path |-> p, flags |-> f, insecure |-> i] \in Handlers
        BY InsecureAssumption DEF Handlers
      <3>5. /\ handler[u] = None
            /\ handler'[u] = [path |-> p, flags |-> f, insecure |-> i]
        BY <1>1, <2>3, TypeParts DEF CreateIOHandler, GetInv, Types
      <3>6. handler'[u] # None
        BY <3>4, <3>5, NoneAssumption
      <3>7. handler'[u].path = p /\ handler'[u].insecure = i
        BY <3>5
      <3> QED BY <3>2, <3>3, <3>5, <3>6, <3>7
    <2>4. CASE Others
      <3>1. CASE \E m \in Names : Remove(m) \/ \E s \in Sizes : Publish(m, s)
        BY <2>0, <2>2, <3>1 DEF Remove, Publish
      <3> QED BY <2>1, <2>3, <2>4, <3>1
              DEF Others, Opens, CloseIOHandler, PutLocation, PutFails, PutCheck, Tick
    <2>5. ~ \E u \in Users : GetStep(u) \/ Return(u) \/ \E m \in Names : Get(u, m)
      BY <1>1, <2>1, OwnGet
    <2> QED BY <1>1, <2>4, <2>5, NextSplit
  <1>2. GetInv /\ [Next]_vars => [Kept]_vars
    BY <1>1
  <1> QED BY <1>2, GetInvariance, PTL DEF Spec, PublishedNotEmptied
=============================================================================
