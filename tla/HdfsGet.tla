------------------------------- MODULE HdfsGet -------------------------------
(***************************************************************************)
(* How a client gets to a file: the GET, HdfsNS::getReplicas and           *)
(* HdfsPoolManager::whereToRead over HdfsPoolHandler::whereToRead, and     *)
(* HdfsIODriver::createIOHandler with the token check, where the location  *)
(* of a GET or of a PUT is used.                                           *)
(*                                                                         *)
(* Each call on HDFS of a GET is a step: files come and go between them.   *)
(* The size of a file tells its versions apart.                            *)
(***************************************************************************)
EXTENDS Naturals, FiniteSets

CONSTANTS Users,      \* clients; also the names their certificates give
          Addresses, Address,  \* where a client comes from
          UseIp,      \* TokenId is "ip"
          Names,      \* files
          Sizes,      \* sizes of the files that are stored
          NGateways,  \* gateways configured: as many replicas are made up
          Modes,      \* the HdfsMode options tried
          FlagSets,   \* the flags files are opened with, as sets of names
          Faults,     \* the look-ups in HDFS that may fail
          Insecure,   \* whether calls may carry kInsecure: a set of BOOLEANs
          TokenLife,
          MaxNow,     \* bound: the clock stops here
          None        \* a string that is no size, address or record

ASSUME GatewaysAssumption == NGateways \in Nat \ {0}
ASSUME TimesAssumption == TokenLife \in Nat /\ MaxNow \in Nat
ASSUME SizesAssumption == Sizes \subseteq Nat \ {0}
ASSUME AddressAssumption == Address \in [Users -> Addresses]

ASSUME ModesAssumption == Modes \subseteq {"", "r", "w", "rw", "wr"}
ASSUME FaultsAssumption == Faults \subseteq {"exists", "stat"}
ASSUME InsecureAssumption == Insecure \subseteq BOOLEAN

VARIABLES mode,      \* the pool's mode, which stays
          now,
          file,      \* name -> size of the published file, or None
          pc,        \* user -> where its GET is
          name,      \* user -> what it asks for
          todo,      \* user -> replicas the loop has not come to
          available, \* user -> the locations found
          answer,    \* user -> how the GET ended
          conns,     \* user -> pool handlers its GET has made and not deleted
          loc,       \* user -> the location it holds, from a GET or a PUT
          target,    \* user -> the file its whereToWrite has found absent
          handler,   \* user -> its IO handler
          puts,      \* history: identities and paths given PUT locations
          during,    \* user -> history: what its name was during the GET
          missed     \* user -> history: a look-up of its GET missed a file

getVars == <<pc, name, todo, available, answer, conns>>
vars    == <<mode, now, file, getVars, loc, target, handler, puts, during, missed>>

Final(n)   == <<n, "final">>
Upload(n)  == <<n, "upload">>
Paths      == Names \X {"final", "upload"}
Contents   == Sizes \cup {0}
Versions   == Contents \cup {None}
Tokens     == [id : Users \cup Addresses, path : Paths, write : BOOLEAN,
               expires : 0 .. MaxNow + TokenLife]
Chunks     == [path : Paths, size : Contents, token : Tokens]
Handlers   == [path : Paths, flags : FlagSets, insecure : BOOLEAN]
Answers    == {"none", "found", "gone", "writeOnly", "badMode", "noConnection"}

ASSUME NoneAssumption == None \notin Contents \cup Chunks \cup Handlers

GetTypeOK ==
  /\ mode \in Modes /\ now \in 0 .. MaxNow
  /\ file \in [Names -> Versions]
  /\ pc \in [Users -> {"idle", "exists", "replicas", "mode", "locate", "handler", "done"}]
  /\ name \in [Users -> Names \cup {None}]
  /\ todo \in [Users -> 0 .. NGateways]
  /\ available \in [Users -> SUBSET Chunks]
  /\ \A u \in Users : Cardinality(available[u]) <= NGateways - todo[u]
  /\ loc \in [Users -> Chunks \cup {None}]
  /\ answer \in [Users -> Answers]
  /\ conns \in [Users -> Nat]
  /\ handler \in [Users -> Handlers \cup {None}]
  /\ puts \subseteq (Users \cup Addresses) \X Paths
  /\ target \in [Users -> Names \cup {None}]
  /\ during \in [Users -> SUBSET Versions]
  /\ missed \in [Users -> BOOLEAN]

Init == /\ mode \in Modes
        /\ now = 0
        /\ file \in [Names -> Sizes \cup {None}]
        /\ pc = [u \in Users |-> "idle"]
        /\ name = [u \in Users |-> None]
        /\ todo = [u \in Users |-> 0]
        /\ available = [u \in Users |-> {}]
        /\ answer = [u \in Users |-> "none"]
        /\ conns = [u \in Users |-> 0]
        /\ loc = [u \in Users |-> None]
        /\ handler = [u \in Users |-> None]
        /\ puts = {}
        /\ target = [u \in Users |-> None]
        /\ during = [u \in Users |-> {}]
        /\ missed = [u \in Users |-> FALSE]

\* setSecurityContext, the same for the pool manager and both drivers.
UserId(u) == IF UseIp THEN Address[u] ELSE u

\* Variant: the flag is passed the wrong way round.
NewTokenAnyWrite(u, p, w) == [id |-> UserId(u), path |-> p, write |-> TRUE,
                              expires |-> now + TokenLife]

NewToken(u, p, w) == [id |-> UserId(u), path |-> p, write |-> w,
                      expires |-> now + TokenLife]

\* generateToken and validateToken are each other's: a token that writes may
\* also be used to read.
ValidToken(t, id, p, write) ==
  t.id = id /\ t.path = p /\ now <= t.expires /\ (write => t.write)

\* What file n has become is noted by the GETs of n that are under way.
FileBecomes(n, v) ==
  /\ file' = [file EXCEPT ![n] = v]
  /\ during' = [u \in Users |-> IF name[u] = n THEN during[u] \cup {v}
                                               ELSE during[u]]
-----------------------------------------------------------------------------
(* GET.                                                                    *)

Goes(u, l)    == pc' = [pc EXCEPT ![u] = l]
Answer(u, a)  == answer' = [answer EXCEPT ![u] = a] /\ Goes(u, "done")
Stat(u)       == file[name[u]]

\* A look-up finds no file: there is none, or it has failed, which the code
\* takes for the same.
MayMiss(u, lookup) == Stat(u) = None \/ lookup \in Faults
Miss(u)            == missed' = [missed EXCEPT ![u] = Stat(u) # None]

Free(u) == pc[u] = "idle" /\ target[u] = None

Get(u, n) ==
  /\ Free(u)
  /\ Goes(u, "exists")
  /\ name' = [name EXCEPT ![u] = n]
  /\ during' = [during EXCEPT ![u] = {file[n]}]
  /\ loc' = [loc EXCEPT ![u] = None]
  /\ UNCHANGED <<mode, now, file, todo, available, answer, conns, target, handler, puts,
                 missed>>

\* getReplicas(): hdfsExists ...
GetReplicas(u) ==
  /\ pc[u] = "exists"
  /\ \/ /\ MayMiss(u, "exists") /\ Miss(u)
        /\ Answer(u, "gone")
        /\ UNCHANGED todo
     \/ /\ Stat(u) # None
        /\ Goes(u, "replicas")
        /\ todo' = [todo EXCEPT ![u] = NGateways]
        /\ UNCHANGED <<answer, missed>>
  /\ UNCHANGED <<mode, now, file, name, available, conns, loc, target, handler,
                 puts, during>>

\* ... and a replica for each gateway, with an extendedStat that may throw.
AddReplica(u) ==
  /\ pc[u] = "replicas"
  /\ \/ /\ MayMiss(u, "stat") /\ Miss(u)
        /\ Answer(u, "gone")
        /\ todo' = [todo EXCEPT ![u] = 0]
     \/ /\ Stat(u) # None
        /\ todo' = [todo EXCEPT ![u] = @ - 1]
        /\ Goes(u, IF todo[u] = 1 THEN "mode" ELSE "replicas")
        /\ UNCHANGED <<answer, missed>>
  /\ UNCHANGED <<mode, now, file, name, available, conns, loc, target, handler,
                 puts, during>>

CanRead == mode \in {"r", "rw", "wr"}

\* whereToRead() of the manager looks at the mode only then.
CheckMode(u) ==
  /\ pc[u] = "mode"
  /\ \/ /\ ~ CanRead
        /\ Answer(u, "writeOnly")
        /\ UNCHANGED todo
     \/ /\ CanRead
        /\ Goes(u, "locate")
        /\ todo' = [todo EXCEPT ![u] = NGateways]
        /\ UNCHANGED answer
  /\ UNCHANGED <<mode, now, file, name, available, conns, loc, target, handler,
                 puts, during, missed>>

\* createPoolHandler: the modes it knows, which are not all that canRead takes;
\* it makes a connection of its own, which may fail.
KnownMode == mode \in {"", "r", "w", "rw"}

CreatePoolHandlerFails(u) ==
  /\ pc[u] = "locate" /\ todo[u] > 0
  /\ Answer(u, IF KnownMode THEN "noConnection" ELSE "badMode")
  /\ todo' = [todo EXCEPT ![u] = 0]
  /\ available' = [available EXCEPT ![u] = {}]
  /\ UNCHANGED <<mode, now, file, name, conns, loc, target, handler, puts, during,
                 missed>>

CreatePoolHandler(u) ==
  /\ pc[u] = "locate" /\ todo[u] > 0 /\ KnownMode
  /\ conns' = [conns EXCEPT ![u] = @ + 1]
  /\ Goes(u, "handler")
  /\ UNCHANGED <<mode, now, file, name, todo, available, answer, loc, target,
                 handler, puts, during, missed>>

\* Variant: the pool handler is deleted in no case.
DeletedNever(n) == n

\* ~HdfsPoolHandler closes its connection.
Deleted(n) == n - 1

\* Variants: a file that cannot be statted has size zero, or none is noticed.
LocatedSizesAnyway(u) == IF Stat(u) = None THEN {0} ELSE {Stat(u)}
LocatedSizesUnchecked(u) == {Stat(u)}

LocatedSizes(u) == {Stat(u)} \ {None}

\* whereToRead() of the handler, for each replica: when its extendedStat
\* throws, the pool handler is not deleted ...
LocateFails(u) ==
  /\ pc[u] = "handler"
  /\ LocatedSizes(u) = {} \/ "stat" \in Faults
  /\ Miss(u)
  /\ Answer(u, "gone")
  /\ todo' = [todo EXCEPT ![u] = 0]
  /\ available' = [available EXCEPT ![u] = {}]
  /\ UNCHANGED <<mode, now, file, name, conns, loc, target, handler, puts, during>>

\* ... and otherwise the size is that of now.
Locate(u) ==
  /\ pc[u] = "handler"
  /\ \E s \in LocatedSizes(u) :
       available' = [available EXCEPT ![u] = @ \cup
         {[path |-> Final(name[u]), size |-> s,
           token |-> NewToken(u, Final(name[u]), FALSE)]}]
  /\ todo' = [todo EXCEPT ![u] = @ - 1]
  /\ conns' = [conns EXCEPT ![u] = Deleted(@)]
  /\ Goes(u, "locate")
  /\ UNCHANGED <<mode, now, file, name, answer, loc, target, handler, puts, during,
                 missed>>

\* A random one from the available, which are not none.
Choose(u) ==
  /\ pc[u] = "locate" /\ todo[u] = 0
  /\ \E c \in available[u] : loc' = [loc EXCEPT ![u] = c]
  /\ available' = [available EXCEPT ![u] = {}]
  /\ Answer(u, "found")
  /\ UNCHANGED <<mode, now, file, name, todo, conns, target, handler, puts, during,
                 missed>>

\* What it leaves connected stays so; from here on nobody counts it.
Return(u) ==
  /\ pc[u] = "done"
  /\ Goes(u, "idle")
  /\ name' = [name EXCEPT ![u] = None]
  /\ answer' = [answer EXCEPT ![u] = "none"]
  /\ conns' = [conns EXCEPT ![u] = 0]
  /\ during' = [during EXCEPT ![u] = {}]
  /\ missed' = [missed EXCEPT ![u] = FALSE]
  /\ UNCHANGED <<mode, now, file, todo, available, loc, target, handler, puts>>

-----------------------------------------------------------------------------
(* PUT locations, and the IO handlers of a gateway.                        *)

CanWrite == mode \in {"w", "rw", "wr"}

\* whereToWrite() of the manager: the file must be absent, which a failed
\* look-up counts as ...
PutCheck(u, n) ==
  /\ Free(u) /\ CanWrite
  /\ file[n] = None \/ "stat" \in Faults
  /\ target' = [target EXCEPT ![u] = n]
  /\ UNCHANGED <<mode, now, file, getVars, loc, handler, puts, during, missed>>

\* ... and a pool handler, with a connection, gives the location ...
PutLocation(u) ==
  /\ target[u] # None /\ KnownMode
  /\ LET p == Upload(target[u])
     IN /\ loc' = [loc EXCEPT ![u] = [path |-> p, size |-> 0,
                                      token |-> NewToken(u, p, TRUE)]]
        /\ puts' = puts \cup {<<UserId(u), p>>}
  /\ target' = [target EXCEPT ![u] = None]
  /\ UNCHANGED <<mode, now, file, getVars, handler, during, missed>>

\* ... unless it cannot be made.
PutFails(u) ==
  /\ target[u] # None
  /\ target' = [target EXCEPT ![u] = None]
  /\ UNCHANGED <<mode, now, file, getVars, loc, handler, puts, during, missed>>

\* HdfsIOHandler's constructor: O_RDWR and O_CREAT are both made O_WRONLY, for
\* the first branch is taken for either.
IsWriting(flags) == flags \cap {"WRONLY", "RDWR", "CREAT"} # {}

\* Variant: the token must allow to write when O_WRONLY is asked for.
NeedsWriteIfWronly(flags) == "WRONLY" \in flags

\* flags != O_RDONLY
NeedsWrite(flags) == flags # {}

TokenOK(u, p, flags) ==
  \E v \in Users : /\ loc[v] # None
                   /\ ValidToken(loc[v].token, UserId(u), p, NeedsWrite(flags))

\* createIOHandler, by a client that has no other call under way, with a token
\* some client was given or with kInsecure.  A file that is opened to write is
\* made anew, over one that is there.
CreateIOHandler(u, p, flags, insecure) ==
  /\ Free(u) /\ handler[u] = None
  /\ insecure \/ TokenOK(u, p, flags)
  /\ IF IsWriting(flags) /\ p[2] = "final"
     THEN FileBecomes(p[1], 0)
     ELSE UNCHANGED <<file, during>>
  /\ (~ IsWriting(flags) /\ p[2] = "final") => file[p[1]] # None
  /\ handler' = [handler EXCEPT ![u] = [path |-> p, flags |-> flags,
                                        insecure |-> insecure]]
  /\ UNCHANGED <<mode, now, getVars, loc, target, puts, missed>>

CloseIOHandler(u) ==
  /\ handler[u] # None
  /\ handler' = [handler EXCEPT ![u] = None]
  /\ UNCHANGED <<mode, now, file, getVars, loc, target, puts, during, missed>>

-----------------------------------------------------------------------------
(* What others do to the files, and time.                                  *)

Publish(n, s) ==
  /\ file[n] = None
  /\ FileBecomes(n, s)
  /\ UNCHANGED <<mode, now, getVars, loc, target, handler, puts, missed>>

Remove(n) ==
  /\ file[n] # None
  /\ FileBecomes(n, None)
  /\ UNCHANGED <<mode, now, getVars, loc, target, handler, puts, missed>>

Tick ==
  /\ now < MaxNow
  /\ now' = now + 1
  /\ UNCHANGED <<mode, file, getVars, loc, target, handler, puts, during, missed>>

GetStep(u) == \/ GetReplicas(u) \/ AddReplica(u) \/ CheckMode(u)
              \/ CreatePoolHandlerFails(u) \/ CreatePoolHandler(u)
              \/ LocateFails(u) \/ Locate(u) \/ Choose(u)

Next == \/ \E u \in Users :
             \/ GetStep(u) \/ Return(u) \/ CloseIOHandler(u)
             \/ PutLocation(u) \/ PutFails(u)
             \/ \E n \in Names : Get(u, n) \/ PutCheck(u, n)
             \/ \E p \in Paths, f \in FlagSets, i \in Insecure :
                  CreateIOHandler(u, p, f, i)
        \/ \E n \in Names : Remove(n) \/ \E s \in Sizes : Publish(n, s)
        \/ Tick

Spec == Init /\ [][Next]_vars

-----------------------------------------------------------------------------
(* A GET answers what was so at some time between its call and its return: *)
(* a location has the size of one version of the file, whole, and comes    *)
(* from look-ups that were all answered; a file that is said not to be     *)
(* there was not, unless a look-up has failed, which getReplicas and       *)
(* extendedStat do not tell from a file that is not there.                 *)
AnswerWasTrue ==
  \A u \in Users :
    /\ answer[u] = "found" => loc[u].size \in during[u] /\ ~ missed[u]
    /\ answer[u] = "gone" => None \in during[u] \/ missed[u]

(***************************************************************************)
(* A GET has one connection to HDFS at a time, however many replicas there *)
(* are, and has closed it when it ends, unless a file that has gone, or a  *)
(* failed look-up, made the pool handler throw: then one is left.          *)
(***************************************************************************)
ConnectionsReturned ==
  \A u \in Users : /\ conns[u] <= 1
                   /\ pc[u] = "done" /\ answer[u] # "gone" => conns[u] = 0

(***************************************************************************)
(* A handler that writes was opened by the identity that was given a PUT   *)
(* location for its path, unless the call was made with kInsecure: the     *)
(* locations of GETs, and those others were given, do not let one write,   *)
(* whatever the flags.                                                     *)
(***************************************************************************)
WritersHavePut ==
  \A u \in Users :
    /\ handler[u] # None
    /\ IsWriting(handler[u].flags)
    /\ ~ handler[u].insecure
    => <<UserId(u), handler[u].path>> \in puts

(***************************************************************************)
(* A published file is emptied only by a call made with kInsecure: what    *)
(* GETs and PUTs are given never opens a published file to write.          *)
(***************************************************************************)
PublishedNotEmptied ==
  [][\A n \in Names :
       file[n] \in Sizes /\ file'[n] = 0 =>
         \E u \in Users : /\ handler[u] = None /\ handler'[u] # None
                          /\ handler'[u].path = Final(n)
                          /\ handler'[u].insecure]_vars
=============================================================================
