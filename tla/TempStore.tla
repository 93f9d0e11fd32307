------------------------------ MODULE TempStore ------------------------------
(***************************************************************************)
(* The local disk of a gateway, where HdfsIOHandler buffers a file before  *)
(* it copies it to HDFS: the folder <tmpFolder>/hdfs-io-temp, its entries, *)
(* and the files behind them.  External code (POSIX calls), modelled from  *)
(* its use in src/src/HdfsIO.cpp.                                          *)
(*                                                                         *)
(* open(O_CREAT) without O_EXCL or O_TRUNC makes a file or reuses the one  *)
(* there; a file lives on without a name while a descriptor refers to it.  *)
(* A transfer makes at most one file, which is named by that transfer.     *)
(***************************************************************************)
EXTENDS HdfsStore

CONSTANTS Draws,      \* the decimal digits of the values rand() may return
          NoDraw,     \* rand() not called yet
          FileName    \* last component of a path, a sequence as the draws are

ASSUME DrawsAssumption  == Draws \subseteq Seq(STRING)
ASSUME NoDrawAssumption == NoDraw \notin Draws
ASSUME FileNameAssumption == FileName \in [Paths -> Seq(STRING)]

VARIABLES tmpFolder,  \* gateway -> is there an hdfs-io-temp folder
          tmpdir,     \* <<gateway, name>> -> the file it is bound to
          tmpdata     \* file -> its contents

tempVars == <<tmpFolder, tmpdir, tmpdata>>

\* Variant: the number is left out.
TempNameAlone(r, p) == FileName[p]

\* "/temp" + rand() + filename, with nothing between the number and the name.
TempName(r, p) == r \o FileName[p]
TempNames      == {TempName(r, p) : r \in Draws, p \in Paths}

TempStoreTypeOK ==
  /\ tmpFolder \in [Gateways -> BOOLEAN]
  /\ tmpdir \in [Gateways \X TempNames -> Transfers \cup {NoFile}]
  /\ tmpdata \in [Transfers -> Seq(Data)]

TempStoreInit ==
  /\ tmpFolder \in [Gateways -> BOOLEAN]
  /\ tmpdir = [e \in Gateways \X TempNames |-> NoFile]
  /\ tmpdata = [t \in Transfers |-> << >>]

\* One block written at an offset: what lies between the old end and the
\* offset reads as a hole, what was there after it stays.
WriteAt(s, off, b) ==
  [i \in 1 .. (IF off < Len(s) THEN Len(s) ELSE off + 1) |->
     IF i = off + 1 THEN b ELSE IF i <= Len(s) THEN s[i] ELSE Hole]

\* The file an open(O_CREAT) of entry e by transfer t yields.
OpenedAt(t, e) == IF tmpdir[e] = NoFile THEN t ELSE tmpdir[e]

RemoveTemp(e) == tmpdir' = [tmpdir EXCEPT ![e] = NoFile]
=============================================================================
