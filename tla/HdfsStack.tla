------------------------------ MODULE HdfsStack ------------------------------
(***************************************************************************)
(* A stack instance of a configured process: the catalogue HdfsNS with its *)
(* connection, HdfsPoolDriver, HdfsIODriver and HdfsAuthn, made by the     *)
(* factories of HdfsConfig (src/src/HdfsNS.cpp, Hdfs.cpp, HdfsPool.cpp,    *)
(* HdfsIO.cpp, HdfsAuthn.cpp), and the clients it serves one after the     *)
(* other.  The server around it (external) makes a stack, logs a client in *)
(* on it, and goes on with that client only when this has not thrown.      *)
(***************************************************************************)
EXTENDS HdfsConfig

CONSTANTS Clients,    \* the names of certificates
          Address,    \* client -> where it comes from
          Mapped,     \* the clients in the MapFile
          Ids, Known, \* user and group ids, and those that have a name
          Root,       \* who createSecurityContext() without arguments makes
          Nobody,     \* no client, no identity
          Paths,      \* what a client may ask to change to
          Home,       \* where HDFS takes a connection first
          MaxDepth,   \* bound of this model: no directory is deeper
          Garbage     \* a buffer nothing has been written to

ASSUME ClientsAssumption == /\ Address \in [Clients -> STRING]
                            /\ Clients \subseteq STRING
                            /\ Mapped \subseteq Clients /\ Known \subseteq Ids
                            /\ Root # Nobody /\ {Root, Nobody} \cap STRING = {}

VARIABLES stack,    \* "none" or "live"
          userId,   \* driver -> whom it makes and checks tokens for
          client,   \* who is being served
          workdir,  \* the working directory of the connection: the names in it
          cwd,      \* the path HdfsNS keeps for it
          from,     \* history: where the connection was when a relative cwd came
          errno,    \* 0, or left by a call that failed
          token,    \* the last token given out
          opened,   \* how the last createIOHandler ended
          owned     \* were the last setOwner's ids found, and how did it end

dirVars   == <<workdir, cwd, from>>
stackVars == <<stack, userId, client, dirVars, errno, token, opened, owned>>
vars      == <<configVars, stackVars>>

Drivers == {"pooldriver", "io"}
NoToken == << >>

\* A path is a row of names, from the root or from the working directory.
At(w) == [rooted |-> TRUE, names |-> w]
Resolve(w, p) == IF p.rooted THEN p.names ELSE w \o p.names

Init == /\ ConfigInit
        /\ stack = "none" /\ userId = [d \in Drivers |-> Nobody]
        /\ client = Nobody /\ errno = 0
        /\ workdir = Home /\ cwd = At(Home) /\ from = << >>
        /\ token = NoToken /\ opened = "none" /\ owned = << >>

Up      == proc = "up" /\ \A f \in Factories : IsLoaded(f)
Serving == Up /\ client # Nobody
Dies    == proc' = "dead" /\ UNCHANGED <<loaded, factory, lineVars, environ,
                                         count, given, early>>

\* The catalogue's constructor connects, and asks for the working directory:
\* an answer that does not come leaves the buffer as it was.
CreateStack ==
  /\ Up /\ stack = "none"
  /\ \/ /\ stack' = "live" /\ cwd' \in {At(workdir), Garbage}
        /\ UNCHANGED <<workdir, from, errno>>
     \/ errno' = 1 /\ UNCHANGED <<stack, dirVars>>
  /\ UNCHANGED <<configVars, userId, client, token, opened, owned>>

DestroyStack ==
  /\ Up /\ stack = "live" /\ client = Nobody
  /\ stack' = "none" 
  /\ workdir' = Home /\ cwd' = At(Home) /\ from' = << >>
  /\ userId' = [d \in Drivers |-> Nobody]
  /\ UNCHANGED <<configVars, client, errno, token, opened, owned>>

-----------------------------------------------------------------------------
(* Whom a stack serves.                                                    *)

\* Variant: who is in no line of the map file is let in all the same.
AuthenticatedAll(c) == c \in Clients

\* createSecurityContext(cred): voFromDn throws for who is not in the map
\* file; the ids are fixed.
Authenticated(c) == c \in Mapped

\* createSecurityContext() has no credentials: no name and no address.
Identity(d, c) == IF c = Root THEN Root
                  ELSE IF factory[d].tokenId = "ip" THEN Address[c] ELSE c

\* Variant: the identity is only taken over by a driver that has none.
ContextKept(c) == userId' = [d \in Drivers |-> IF userId[d] = Nobody
                                               THEN Identity(d, c) ELSE userId[d]]

\* setSecurityContext of each driver.
Context(c) == userId' = [d \in Drivers |-> Identity(d, c)]

Login(c) ==
  /\ Up /\ stack = "live" /\ client = Nobody
  /\ c = Root \/ Authenticated(c)
  /\ Context(c) /\ client' = c
  /\ UNCHANGED <<configVars, stack, dirVars, errno, token, opened, owned>>

\* The stack goes back to the server's pool as it is.
Logout ==
  /\ Serving
  /\ client' = Nobody /\ opened' = "none" /\ owned' = << >>
  /\ UNCHANGED <<configVars, stack, userId, dirVars, errno, token>>

\* whereToWrite of the pool handler: a gateway, and a token; who it was for is
\* history.  Of no gateways, getRandomGateway takes the remainder by 0.
WhereToWrite ==
  /\ Serving
  /\ \/ /\ factory["pooldriver"].gateways # << >>
        /\ token' = [id |-> userId["pooldriver"], for |-> client,
                     passwd |-> factory["pooldriver"].text["TokenPassword"]]
        /\ opened' = "none"
        /\ UNCHANGED configVars
     \/ /\ factory["pooldriver"].gateways = << >>
        /\ Dies /\ UNCHANGED <<token, opened>>
  /\ UNCHANGED <<stack, userId, client, dirVars, errno, owned>>

\* createIOHandler: validateToken, with what the IO driver was configured.
CreateIOHandler ==
  /\ Serving /\ token # NoToken
  /\ opened' = IF /\ token.id = userId["io"]
                  /\ token.passwd = factory["io"].text["TokenPassword"]
               THEN "accepted" ELSE "refused"
  /\ UNCHANGED <<configVars, stack, userId, client, dirVars, errno, token, owned>>

\* getTotalSpace, getUsedSpace: what HDFS says, divided by the replication.
AskSpace ==
  /\ Serving
  /\ \/ errno' = 1 /\ UNCHANGED configVars
     \/ /\ factory["pooldriver"].number["HdfsReplication"] = 0
        /\ Dies /\ UNCHANGED errno
  /\ UNCHANGED <<stack, userId, client, dirVars, token, opened, owned>>

-----------------------------------------------------------------------------
(* The catalogue: the working directory, and the attributes of a file.     *)

\* Variant: the new path is kept before HDFS has answered.
KeptBefore(p) == p

KeptOnError(p) == cwd

\* hdfsSetWorkingDirectory reads the path from where the connection is; the
\* catalogue keeps it as it was given.
ChangeDir(p) ==
  /\ Serving
  /\ \/ /\ Len(Resolve(workdir, p)) <= MaxDepth
        /\ workdir' = Resolve(workdir, p) /\ cwd' = p
        /\ from' = IF p.rooted THEN << >> ELSE workdir
        /\ UNCHANGED errno
     \/ errno' = 1 /\ cwd' = KeptOnError(p) /\ UNCHANGED <<workdir, from>>
  /\ UNCHANGED <<configVars, stack, userId, client, token, opened, owned>>

\* The answer is from the root; the test of the buffer for NULL is never true.
GetWorkingDir ==
  /\ Serving
  /\ cwd' \in {At(workdir), Garbage} /\ from' = << >>
  /\ UNCHANGED <<configVars, stack, userId, client, workdir, errno, token, opened, owned>>

\* setMode, utime: one call, which may fail.
SetAttribute ==
  /\ Serving /\ errno' = 1
  /\ UNCHANGED <<configVars, stack, userId, client, dirVars, token, opened, owned>>

\* Variant: errno is looked at whether or not there was an answer.
WrapCallErrno(found) == errno # 0

\* wrapCall throws when there is no answer and errno is set, by this call or
\* by one before: the look-up of an id without a name may leave it alone.
WrapCallThrows(found) == ~ found /\ errno # 0

\* setOwner: getpwuid, getgrgid, hdfsChown with the names found.  A missing
\* answer that is not noticed is followed all the same.
SetOwner(u, g) ==
  LET found == u \in Known /\ g \in Known
  IN /\ Serving
     /\ \/ /\ WrapCallThrows(found)
           /\ owned' = <<found, "threw">> /\ UNCHANGED <<configVars, errno>>
        \/ /\ ~ found /\ errno' = 1
           /\ owned' = <<found, "threw">> /\ UNCHANGED configVars
        \/ /\ found /\ ~ WrapCallThrows(found) /\ errno' \in {errno, 1}
           /\ owned' = <<found, "asked">> /\ UNCHANGED configVars
        \/ /\ ~ found /\ ~ WrapCallThrows(found) /\ Dies
           /\ owned' = <<found, "died">> /\ UNCHANGED errno
     /\ UNCHANGED <<stack, userId, client, dirVars, token, opened>>

-----------------------------------------------------------------------------
Next == \/ ConfigNext /\ UNCHANGED stackVars
        \/ CreateStack \/ DestroyStack
        \/ \E c \in Clients \cup {Root} : Login(c)
        \/ Logout \/ WhereToWrite \/ CreateIOHandler \/ AskSpace
        \/ \E p \in Paths : ChangeDir(p)
        \/ GetWorkingDir \/ SetAttribute
        \/ \E u, g \in Ids : SetOwner(u, g)

Spec == Init /\ [][Next]_vars

-----------------------------------------------------------------------------
(* Correctness.                                                            *)

Gateways(f) == {factory[f].gateways[i] : i \in DOMAIN factory[f].gateways}

\* The members stay well formed; a gateway is a name, with no comma in it and
\* no blank before or after it.
StackTypeOK ==
  /\ proc \in {"starting", "failed", "dead", "up"}
  /\ loaded \in Seq(Factories) /\ queue \in Seq(Factories)
  /\ line \in Lines \cup {<< >>} /\ rest \in Seq(STRING)
  /\ count \in 0 .. MaxLines
  /\ \A f \in Factories :
       IsLoaded(f) => /\ DOMAIN factory[f].text = TextKeys \cap Knows(f)
                      /\ factory[f].number \in [NumberKeys \cap Knows(f) -> Nat]
                      /\ factory[f].tokenId \in {"ip", "dn", "unset"}
                      /\ \A g \in Gateways(f) :
                           g # << >> /\ Commas(g) = {} /\ Trim(g) = g
  /\ stack \in {"none", "live"} /\ client \in Clients \cup {Root, Nobody}
  /\ errno \in {0, 1} /\ opened \in {"none", "accepted", "refused"}

\* No gateway is listed twice: getReplicas makes a replica of each.
NoGatewayTwice ==
  \A f \in Factories : \A i, j \in DOMAIN factory[f].gateways :
    factory[f].gateways[i] = factory[f].gateways[j] => i = j

\* The items of a list, said without going through it: from a character that
\* is not blank to another, with nothing but blanks up to the commas around.
ItemsOf(v) ==
  LET Edge(k) == v[k] \notin Blanks /\ v[k] # ","
      Item(i, j) == /\ i <= j /\ Edge(i) /\ Edge(j)
                    /\ \A k \in i .. j : v[k] # ","
                    /\ \A k \in 1 .. i - 1 :
                         Edge(k) => \E c \in k .. i - 1 : v[c] = ","
                    /\ \A k \in j + 1 .. Len(v) :
                         Edge(k) => \E c \in j + 1 .. k : v[c] = ","
  IN {SubSeq(v, p[1], p[2]) : p \in {q \in (1 .. Len(v)) \X (1 .. Len(v)) : Item(q[1], q[2])}}

\* What is between two commas with nothing in it, or before the first one.
HasBlank(v) ==
  \E i, j \in 0 .. Len(v) + 1 :
    /\ i < j /\ (i = 0 \/ v[i] = ",") /\ (j = Len(v) + 1 \/ v[j] = ",")
    /\ i < Len(v)
    /\ \A k \in i + 1 .. j - 1 : v[k] \in Blanks

\* Between two options, each factory lists just the items of what it has been
\* given, and a factory that has been given none lists none.
GatewaysAsGiven ==
  Ready \/ proc = "up" =>
    \A f \in Factories : Gateways(f) = UNION {ItemsOf(v) : v \in given[f]}

\* While it starts, the process dies only of a list with a blank item or of a
\* folder that is not there; afterwards, only of a call that needs a gateway
\* or a replication that was not configured, or of an id without a name.
DeathHasACause ==
  proc = "dead" =>
    IF line # << >>
    THEN \/ line[1] = "HdfsGateway" /\ HasBlank(line[2])
         \/ line[1] \in FolderKeys /\ {line[2], LibraryOf(line[2])} \ Folders # {}
    ELSE \/ \A v \in given["pooldriver"] : ItemsOf(v) = {}
         \/ factory["pooldriver"].number["HdfsReplication"] = 0
         \/ owned = <<FALSE, "died">>

\* A process whose options were all given after its plugins were loaded takes
\* the tokens it gives out, from the client they were given to and from those
\* that look like it, and from nobody else, whoever the stack served before.
TokensAccepted ==
  opened # "none" /\ ~ early =>
    (opened = "accepted" <=> Identity("io", token.for) = Identity("io", client))

\* A token is made for a client in the map file, or for root, and for nobody
\* the same stack has served before.
ServedIsMapped ==
  token # NoToken => /\ token.for \in Mapped \cup {Root}
                     /\ token.id = Identity("pooldriver", token.for)

\* An error left behind by an earlier call does not make a look-up fail that
\* has found its id, and no id without a name gets as far as HDFS.
OwnerFromAnswer == owned # << >> => (owned[1] <=> owned[2] = "asked")

\* The path the catalogue keeps, read from where the connection was when it was
\* given, leads to where the connection is now, through all the changes, to
\* absolute and relative paths, that have failed since, and those of clients
\* the stack has served before; unless HDFS did not say where it is.
CwdLeadsThere == cwd # Garbage => Resolve(from, cwd) = workdir
=============================================================================
