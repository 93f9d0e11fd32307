------------------------------ MODULE HdfsStore ------------------------------
(***************************************************************************)
(* HDFS as the plugin uses it through libhdfs: the part of the name space  *)
(* a PUT touches, and the file objects behind the names.  External code,   *)
(* modelled from the calls in src/src/HdfsIO.cpp, HdfsPool.cpp, HdfsNS.cpp.*)
(*                                                                         *)
(* Every transfer creates at most one HDFS file, so the file object is     *)
(* named by the transfer that created it.  A name is <<path, suffix>>: the *)
(* plugin only ever uses the final name of a file and the ".upload" name   *)
(* derived from it.                                                        *)
(***************************************************************************)
EXTENDS Puts

CONSTANTS Blocks,   \* what a client may write: the unit of data
          Hole      \* what a never-written position of a file reads as

ASSUME HoleAssumption == Hole \notin Blocks

VARIABLES ns,      \* HDFS name -> the file object it is bound to
          hdata,   \* file object -> the data the name node has for it
          hopen    \* file object -> "none", "open" (has a lease), "closed"

storeVars == <<ns, hdata, hopen>>

Data    == Blocks \cup {Hole}
Names   == Paths \X {"upload", "final"}
Final(p)  == <<p, "final">>

\* Variant: the location forgets the ".upload" suffix.
UploadInPlace(p) == Final(p)

Upload(p) == <<p, "upload">>

StoreTypeOK == /\ ns \in [Names -> Transfers \cup {NoFile}]
               /\ hdata \in [Transfers -> Seq(Data)]
               /\ hopen \in [Transfers -> {"none", "open", "closed"}]

StoreInit == /\ ns = [n \in Names |-> NoFile]
             /\ hdata = [t \in Transfers |-> << >>]
             /\ hopen = [t \in Transfers |-> "none"]

HdfsExists(n)   == ns[n] # NoFile
HasLease(n)     == HdfsExists(n) /\ hopen[ns[n]] = "open"
Linked(t)       == \E n \in Names : ns[n] = t

\* hdfsOpenFile(O_WRONLY): creates the file, replacing one of that name.
HdfsCreate(t, n) == /\ ns' = [ns EXCEPT ![n] = t]
                    /\ hdata' = [hdata EXCEPT ![t] = << >>]
                    /\ hopen' = [hopen EXCEPT ![t] = "open"]

\* The name node may refuse to create over a file another stream has open.
HdfsCreateMayFail(n) == "create" \in Faults \/ HasLease(n)

\* hdfsWrite appends to the stream; the client buffers what it writes, so it
\* succeeds even when the file has been removed or replaced meanwhile.
HdfsAppend(t, s) == hdata' = [hdata EXCEPT ![t] = @ \o s]

HdfsAppendMayFail(t) == "write" \in Faults \/ ~ Linked(t)

\* hdfsCloseFile completes a file that still has a name.
HdfsCloses(t) == /\ Linked(t)
                 /\ hopen' = [hopen EXCEPT ![t] = "closed"]
                 /\ UNCHANGED hdata

\* A failed hdfsCloseFile: the last blocks may never have reached HDFS, and
\* the lease is not given back.
HdfsCloseFails(t) ==
  /\ "hclose" \in Faults \/ ~ Linked(t)
  /\ \E n \in 0 .. Len(hdata[t]) :
       hdata' = [hdata EXCEPT ![t] = SubSeq(@, 1, n)]
  /\ UNCHANGED hopen

HdfsCloseFile(t) == (HdfsCloses(t) \/ HdfsCloseFails(t)) /\ UNCHANGED ns

\* Variant: a rename that overwrites its target.
HdfsCanRenameOver(a, b) == HdfsExists(a)

\* hdfsRename refuses a missing source and an existing target.
HdfsCanRename(a, b) == HdfsExists(a) /\ ~ HdfsExists(b)
HdfsRename(a, b)    == ns' = [ns EXCEPT ![b] = ns[a], ![a] = NoFile]

HdfsDelete(n) == ns' = [ns EXCEPT ![n] = NoFile]
=============================================================================
