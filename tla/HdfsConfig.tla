------------------------------ MODULE HdfsConfig ------------------------------
(***************************************************************************)
(* How a process of the plugin is configured: HdfsNSFactory (src/src/      *)
(* HdfsNS.cpp) and the two instances of HdfsFactory (src/src/Hdfs.cpp),    *)
(* for the pool driver and for the IO driver.  dmlite's plugin manager     *)
(* (external) goes through the lines of the configuration: a LoadPlugin    *)
(* makes a factory, an option is given to each factory there is by then.   *)
(*                                                                         *)
(* Values are sequences of characters.  The options that are only passed   *)
(* on (the name node, the user, the mode, ...) are TextKeys.               *)
(***************************************************************************)
EXTENDS Naturals, Sequences

CONSTANTS Lines,     \* the <<key, value>> lines a configuration may have
          MaxLines,  \* bound on the options given
          Blanks,    \* the characters trim() drops
          Folders,   \* the folders that are there
          Jars,      \* folder -> the .jar files in it
          Number     \* value -> what atoi() makes of it

SharedText == {"TokenPassword", "HdfsNameNode", "HdfsUser"}
NSText     == {"HdfsMode", "MapFile"}
IOText     == {"HdfsTmpFolder"}
TextKeys   == SharedText \cup NSText \cup IOText
NumberKeys == {"TokenLife", "HdfsPort", "HdfsReplication"}
FolderKeys == {"HadoopHomeLib", "HdfsHomeLib", "JavaHome"}
AllKeys    == TextKeys \cup NumberKeys \cup FolderKeys \cup {"TokenId", "HdfsGateway"}

Factories == {"ns", "pooldriver", "io"}

\* The options a factory's configure() knows: of the others it throws
\* DMLITE_UNKNOWN_KEY, which the plugin manager takes as "not mine".
Knows(f) == IF f = "ns" THEN AllKeys \ (IOText \cup {"HdfsReplication"})
                        ELSE AllKeys \ NSText

Values == {line[2] : line \in Lines}

ASSUME LinesAssumption   == Lines \subseteq AllKeys \X Seq(STRING)
ASSUME NumberAssumption  == Number \in [Values -> Nat]
ASSUME FoldersAssumption == /\ Folders \subseteq Seq(STRING)
                            /\ DOMAIN Jars = Folders
ASSUME MaxLinesAssumption == MaxLines \in Nat

VARIABLES proc,      \* the process: "starting", "failed", "dead", "up"
          loaded,    \* the factories, in the order they were loaded
          factory,   \* factory -> its members
          line,      \* the option being given, or << >>
          queue,     \* the factories it has not been given to yet
          rest,      \* what getline() has not taken yet of a gateway list
          environ,   \* what CLASSPATH and LD_LIBRARY_PATH have been given
          count,     \* options given so far
          given,     \* history: factory -> the values of HdfsGateway it got
          early      \* history: an option was given before all were loaded

lineVars   == <<line, queue, rest>>
configVars == <<proc, loaded, factory, lineVars, environ, count, given, early>>

\* What the constructors set.  HdfsNSFactory leaves the kind of id and the
\* life of tokens unset; no token is made with them.
Default == <<"default">>
Defaults(f) == [text     |-> [k \in TextKeys \cap Knows(f) |-> Default],
                number   |-> [k \in NumberKeys \cap Knows(f) |->
                                CASE k = "TokenLife" -> 600
                                  [] k = "HdfsPort" -> 8020
                                  [] k = "HdfsReplication" -> 2],
                tokenId  |-> IF f = "ns" THEN "unset" ELSE "ip",
                gateways |-> << >>]
NotLoaded == [text |-> << >>, number |-> << >>, tokenId |-> "unset",
              gateways |-> << >>]

ConfigInit ==
  /\ proc = "starting" /\ loaded = << >>
  /\ factory = [f \in Factories |-> NotLoaded]
  /\ line = << >> /\ queue = << >> /\ rest = << >> /\ environ = {}
  /\ count = 0 /\ given = [f \in Factories |-> {}] /\ early = FALSE

-----------------------------------------------------------------------------
(* The plugin manager.                                                     *)

Ready == proc = "starting" /\ line = << >>

IsLoaded(f) == \E i \in DOMAIN loaded : loaded[i] = f

LoadPlugin(f) ==
  /\ Ready
  /\ ~ IsLoaded(f)
  /\ loaded' = Append(loaded, f)
  /\ factory' = [factory EXCEPT ![f] = Defaults(f)]
  /\ UNCHANGED <<proc, lineVars, environ, count, given, early>>

Option(l) ==
  /\ Ready /\ count < MaxLines
  /\ count' = count + 1
  /\ line' = l /\ queue' = loaded /\ rest' = l[2]
  /\ given' = [f \in Factories |-> IF l[1] = "HdfsGateway" /\ IsLoaded(f)
                                   THEN given[f] \cup {l[2]} ELSE given[f]]
  /\ early' = (early \/ \E f \in Factories : ~ IsLoaded(f))
  /\ UNCHANGED <<proc, loaded, factory, environ>>

OptionGiven ==
  /\ proc = "starting" /\ line # << >> /\ queue = << >>
  /\ line' = << >> /\ rest' = << >>
  /\ UNCHANGED <<proc, loaded, factory, queue, environ, count, given, early>>

StartUp == /\ Ready
           /\ proc' = "up"
           /\ UNCHANGED <<loaded, factory, lineVars, environ, count, given, early>>

-----------------------------------------------------------------------------
(* configure(key, value) of the factory whose turn it is.                  *)

Turn(f, keys) == /\ proc = "starting" /\ queue # << >> /\ f = Head(queue)
                 /\ line[1] \in keys \cap Knows(f)

Configured == /\ queue' = Tail(queue) /\ rest' = line[2]
              /\ UNCHANGED <<proc, loaded, line, count, given, early>>

Ends(p) == proc' = p /\ UNCHANGED <<loaded, lineVars, environ, count, given, early>>

NotMine(f) ==
  /\ proc = "starting" /\ queue # << >> /\ f = Head(queue)
  /\ line[1] \notin Knows(f)
  /\ Configured
  /\ UNCHANGED <<factory, environ>>

SetText(f) ==
  /\ Turn(f, TextKeys)
  /\ factory' = [factory EXCEPT ![f].text[line[1]] = line[2]]
  /\ Configured
  /\ UNCHANGED environ

\* (unsigned) atoi(value)
SetNumber(f) ==
  /\ Turn(f, NumberKeys)
  /\ factory' = [factory EXCEPT ![f].number[line[1]] = Number[line[2]]]
  /\ Configured
  /\ UNCHANGED environ

\* strcasecmp(value, "ip") == 0
SetTokenId(f) ==
  /\ Turn(f, {"TokenId"})
  /\ factory' = [factory EXCEPT ![f].tokenId = IF line[2] = <<"i", "p">> THEN "ip" ELSE "dn"]
  /\ Configured
  /\ UNCHANGED environ

\* setLibraryPath(): where the Java machine is.
JvmOf(home) == home \o <<"/", "j", "r", "e">>

LibraryOf(folder) == folder \o <<"/", "l", "i", "b">>

\* setClasspath() of the folder and of its lib; readdir() of a folder that
\* is not there, which opendir() has said with a NULL, kills the process.
SetFolder(f) ==
  LET v      == line[2]
      wanted == IF line[1] = "JavaHome" THEN {} ELSE {v, LibraryOf(v)}
      added  == IF line[1] = "JavaHome" THEN {JvmOf(v)}
                ELSE UNION {Jars[d] : d \in wanted}
  IN /\ Turn(f, FolderKeys)
     /\ \/ /\ v # << >> /\ wanted \subseteq Folders
           /\ environ' = environ \cup added
           /\ Configured
        \/ v = << >> /\ Ends("failed")
        \/ v # << >> /\ ~ wanted \subseteq Folders /\ Ends("dead")
     /\ UNCHANGED factory

-----------------------------------------------------------------------------
(* HdfsGateway: a list, split by getline() at the commas.                  *)

Commas(s) == {i \in DOMAIN s : s[i] = ","}
First(S)  == CHOOSE i \in S : \A j \in S : i <= j
Last(S)   == CHOOSE i \in S : \A j \in S : j <= i

\* Variant: getline() without a delimiter.
LineWhole(s) == s

Line(s) == IF Commas(s) = {} THEN s ELSE SubSeq(s, 1, First(Commas(s)) - 1)

\* Variant: a comma at the end is followed by one more item.
AfterEmpty(s) == IF Commas(s) = {} THEN << >>
                 ELSE IF First(Commas(s)) = Len(s) THEN <<",">>
                 ELSE SubSeq(s, First(Commas(s)) + 1, Len(s))

After(s) == IF Commas(s) = {} THEN << >>
            ELSE SubSeq(s, First(Commas(s)) + 1, Len(s))

NonBlank(s) == {i \in DOMAIN s : s[i] \notin Blanks}

\* Variant: only what comes first is looked at.
TrimFront(s) == IF NonBlank(s) = {} THEN << >>
                ELSE SubSeq(s, First(NonBlank(s)), Len(s))

Trim(s) == IF NonBlank(s) = {} THEN << >>
           ELSE SubSeq(s, First(NonBlank(s)), Last(NonBlank(s)))

\* Variant: the item is looked for as it stands in the list.
ListedRaw(f, item) == \E i \in DOMAIN factory[f].gateways :
                        factory[f].gateways[i] = item

Listed(f, item) == \E i \in DOMAIN factory[f].gateways :
                     factory[f].gateways[i] = Trim(item)

\* The loop's body.  trim() changes the item, and is called once more on the
\* result to add it; of an empty one it takes a substring that is not there.
AddGateway(f) ==
  LET item == Line(rest)
  IN /\ Turn(f, {"HdfsGateway"}) /\ rest # << >>
     /\ \/ /\ Listed(f, item)
           /\ rest' = After(rest)
           /\ UNCHANGED <<proc, factory>>
        \/ /\ ~ Listed(f, item) /\ Trim(item) # << >>
           /\ factory' = [factory EXCEPT ![f].gateways = Append(@, Trim(item))]
           /\ rest' = After(rest)
           /\ UNCHANGED proc
        \/ /\ ~ Listed(f, item) /\ Trim(item) = << >>
           /\ proc' = "dead"
           /\ UNCHANGED <<factory, rest>>
     /\ UNCHANGED <<loaded, line, queue, environ, count, given, early>>

GatewaysAdded(f) == /\ Turn(f, {"HdfsGateway"}) /\ rest = << >>
                    /\ Configured
                    /\ UNCHANGED <<factory, environ>>

ConfigNext == \/ \E f \in Factories :
                   \/ LoadPlugin(f) \/ NotMine(f)
                   \/ SetText(f) \/ SetNumber(f) \/ SetTokenId(f) \/ SetFolder(f)
                   \/ AddGateway(f) \/ GatewaysAdded(f)
              \/ \E l \in Lines : Option(l)
              \/ OptionGiven \/ StartUp
=============================================================================
