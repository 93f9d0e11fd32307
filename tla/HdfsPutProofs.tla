---------------------------- MODULE HdfsPutProofs ----------------------------
(***************************************************************************)
(* Proofs about HdfsPut, for any number of transfers, paths, gateways,     *)
(* blocks, random numbers and any choice of faults.                        *)
(***************************************************************************)
EXTENDS HdfsPutInv, SequenceTheorems, TLAPS

-----------------------------------------------------------------------------
(* The operators on files.                                                 *)

(* Writing a block at an offset gives a file that is not shorter.          *)
LEMMA WriteAtType ==
  ASSUME NEW s \in Seq(Data), NEW off \in Nat, NEW b \in Blocks
  PROVE  WriteAt(s, off, b) \in Seq(Data) /\ Len(WriteAt(s, off, b)) >= Len(s)
<1> DEFINE n == IF off < Len(s) THEN Len(s) ELSE off + 1
           At1(i) == IF i = off + 1 THEN b ELSE IF i <= Len(s) THEN s[i] ELSE Hole
<1>1. n \in Nat /\ n >= Len(s)
  OBVIOUS
<1>2. \A i \in 1 .. n : At1(i) \in Data
  BY DEF Data
<1>3. WriteAt(s, off, b) = [i \in 1 .. n |-> At1(i)]
  BY DEF WriteAt
<1> HIDE DEF n, At1
<1>4. [i \in 1 .. n |-> At1(i)] \in Seq(Data) /\ Len([i \in 1 .. n |-> At1(i)]) = n
  BY <1>1, <1>2
<1> QED BY <1>1, <1>3, <1>4

(* What copyToHDFS reads next is within the file.                          *)
LEMMA ChunkType ==
  ASSUME NEW t \in Transfers, from[t] \in Transfers,
         tmpdata[from[t]] \in Seq(Data), copyPos[t] \in Nat,
         copyPos[t] <= Len(tmpdata[from[t]])
  PROVE  /\ Chunk(t) \in Seq(Data)
         /\ copyPos[t] + Len(Chunk(t)) <= Len(tmpdata[from[t]])
         /\ Chunk(t) = SubSeq(tmpdata[from[t]], copyPos[t] + 1,
                              copyPos[t] + Len(Chunk(t)))
         /\ Chunk(t) = << >> => copyPos[t] = Len(tmpdata[from[t]])
<1> DEFINE s    == tmpdata[from[t]]
           left == Len(s) - copyPos[t]
           n    == IF left < BufSize THEN left ELSE BufSize
<1>1. Len(s) \in Nat /\ left \in Nat /\ n \in Nat /\ copyPos[t] + n <= Len(s)
  BY SizesAssumption
<1>2. Chunk(t) = SubSeq(s, copyPos[t] + 1, copyPos[t] + n)
  BY DEF Chunk
<1>3. \A i \in copyPos[t] + 1 .. copyPos[t] + n : s[i] \in Data
  BY <1>1
<1>4. n = 0 => left = 0
  BY <1>1, SizesAssumption
<1> HIDE DEF n, s
<1>5. Chunk(t) \in Seq(Data) /\ Len(Chunk(t)) = n
  BY <1>1, <1>2, <1>3, SubSeqProperties, SMTT(60)
<1>6. Chunk(t) = << >> => n = 0
  BY <1>5
<1>7. Chunk(t) = SubSeq(s, copyPos[t] + 1, copyPos[t] + Len(Chunk(t)))
  BY <1>2, <1>5
<1>8. copyPos[t] + Len(Chunk(t)) <= Len(s)
  BY <1>1, <1>5
<1>9. Chunk(t) = << >> => copyPos[t] = Len(s)
  BY <1>1, <1>4, <1>6
<1> QED BY <1>5, <1>7, <1>8, <1>9 DEF s

-----------------------------------------------------------------------------
(* Type correctness.                                                       *)

(* Completing a file, or failing to, keeps the types of the store.         *)
LEMMA CloseFileType ==
  ASSUME NEW t \in Transfers, StoreTypeOK, HdfsCloseFile(t)
  PROVE  StoreTypeOK'
<1>1. CASE HdfsCloses(t)
  BY <1>1 DEF HdfsCloseFile, HdfsCloses, StoreTypeOK
<1>2. CASE HdfsCloseFails(t)
  <2>1. PICK n \in 0 .. Len(hdata[t]) :
          hdata' = [hdata EXCEPT ![t] = SubSeq(hdata[t], 1, n)]
    BY <1>2 DEF HdfsCloseFails
  <2>2. hdata[t] \in Seq(Data)
    BY DEF StoreTypeOK
  <2>3. SubSeq(hdata[t], 1, n) \in Seq(Data)
    BY <2>1, <2>2
  <2> QED BY <1>2, <2>1, <2>3 DEF HdfsCloseFile, HdfsCloseFails, StoreTypeOK
<1> QED BY <1>1, <1>2 DEF HdfsCloseFile

(* copyToHDFS returns: the buffer and the descriptor are gone.             *)
LEMMA CopyDoneType ==
  ASSUME NEW t \in Transfers, NEW r \in {"ok", "error"}, TypeOK, CopyDone(t, r),
         UNCHANGED <<gw, draw, fdIno, fdOff, wrote>>
  PROVE  PutsTypeOK' /\ WriterTypeOK'
<1>1. PutsTypeOK'
  BY DEF CopyDone, TypeOK, PutsTypeOK, Goto, Labels, InCall, InClose
<1>2. WriterTypeOK'
  BY DEF CopyDone, TypeOK, WriterTypeOK
<1> QED BY <1>1, <1>2

(* A piece of what copyToHDFS holds, and what is left of it.               *)
LEMMA PieceType ==
  ASSUME NEW s \in Seq(Data), NEW n \in 1 .. Len(s)
  PROVE  /\ SubSeq(s, 1, n) \in Seq(Data)
         /\ SubSeq(s, n + 1, Len(s)) \in Seq(Data)
         /\ s = SubSeq(s, 1, n) \o SubSeq(s, n + 1, Len(s))
         /\ n = Len(s) => SubSeq(s, n + 1, Len(s)) = << >>
<1>1. SubSeq(s, 1, n) \in Seq(Data) /\ SubSeq(s, n + 1, Len(s)) \in Seq(Data)
  OBVIOUS
<1>2. s = SubSeq(s, 1, n) \o SubSeq(s, n + 1, Len(s))
  OBVIOUS
<1>3. n = Len(s) => SubSeq(s, n + 1, Len(s)) = << >>
  OBVIOUS
<1> QED BY <1>1, <1>2, <1>3

(* Each step of a transfer, or of a user, keeps the types of the variables.*)
LEMMA TypeStep ==
  ASSUME TypeOK, TempInv, [Next]_vars
  PROVE  TypeOK'
<1> USE PathOfAssumption, NoFileAssumption DEF Goto, At
<1> USE DEF TypeOK, PutsTypeOK, StoreTypeOK, TempStoreTypeOK, WriterTypeOK,
            putVars, storeVars, tempVars, handlerVars, copyVars, Labels, InCall,
            InLocate, InOpen, InClose, InDestroy, InDone, InCancel,
            BetweenCalls, Ended
<1>1. ASSUME NEW t \in Transfers, OpenHdfs(t)
      PROVE  TypeOK'
  <2>1. PutsTypeOK'
    BY <1>1 DEF OpenHdfs
  <2>2. StoreTypeOK'
    <3>1. CASE HdfsCreate(t, Upload(PathOf[t]))
      <4>1. Upload(PathOf[t]) \in Names
        BY DEF Upload, Names
      <4>2. << >> \in Seq(Data)
        OBVIOUS
      <4> QED BY <3>1, <4>1, <4>2 DEF HdfsCreate
    <3>2. CASE UNCHANGED storeVars
      BY <3>2
    <3> QED BY <1>1, <3>1, <3>2 DEF OpenHdfs
  <2> QED BY <1>1, <2>1, <2>2 DEF OpenHdfs
<1>2. ASSUME NEW t \in Transfers, StatTempFolder(t)
      PROVE  TypeOK'
  BY <1>2 DEF StatTempFolder
<1>3. ASSUME NEW t \in Transfers, MakeTempFolder(t)
      PROVE  TypeOK'
  BY <1>3 DEF MakeTempFolder
<1>4. ASSUME NEW t \in Transfers, OpenTemp(t)
      PROVE  TypeOK'
  <2>1. PICK r \in Draws :
          LET e == <<gw[t], TempName(r, PathOf[t])>>
          IN /\ draw' = [draw EXCEPT ![t] = r]
             /\ tmpdir' = [tmpdir EXCEPT ![e] = OpenedAt(t, e)]
             /\ fdIno' = [fdIno EXCEPT ![t] = OpenedAt(t, e)]
    BY <1>4 DEF OpenTemp
  <2> DEFINE e == <<gw[t], TempName(r, PathOf[t])>>
  <2>2. gw[t] \in Gateways
    BY <1>4 DEF OpenTemp, TempInv, StageOK, Located, BeforeOpen, Unlocated
  <2>3. e \in Gateways \X TempNames
    BY <2>2 DEF TempNames
  <2>4. OpenedAt(t, e) \in Transfers \cup {NoFile}
    BY <2>3 DEF OpenedAt
  <2>5. PutsTypeOK' /\ StoreTypeOK'
    BY <1>4 DEF OpenTemp
  <2>6. TempStoreTypeOK'
    BY <1>4, <2>1, <2>4 DEF OpenTemp
  <2>7. WriterTypeOK'
    BY <1>4, <2>1, <2>4 DEF OpenTemp
  <2> QED BY <2>5, <2>6, <2>7
<1>5. ASSUME NEW t \in Transfers, OpenTempFails(t)
      PROVE  TypeOK'
  BY <1>5 DEF OpenTempFails
<1>6. ASSUME NEW t \in Transfers, NEW b \in Blocks, Write(t, b)
      PROVE  TypeOK'
  <2>1. WriteAt(wrote[t], fdOff[t], b) \in Seq(Data)
    BY WriteAtType
  <2>2. fdIno[t] \in Transfers
          => WriteAt(tmpdata[fdIno[t]], fdOff[t], b) \in Seq(Data)
    BY WriteAtType
  <2>3. tmpdata' \in [Transfers -> Seq(Data)]
    BY <1>6, <2>2 DEF Write
  <2>4. WriterTypeOK'
    BY <1>6, <2>1 DEF Write
  <2> QED BY <1>6, <2>3, <2>4 DEF Write
<1>7. ASSUME NEW t \in Transfers, NEW off \in 0 .. MaxLen, Seek(t, off)
      PROVE  TypeOK'
  BY <1>7, SizesAssumption DEF Seek
<1>8. ASSUME NEW t \in Transfers, CopyOpenTemp(t)
      PROVE  TypeOK'
  <2> DEFINE file == tmpdir[TempPath(t)]
  <2>1. StoreTypeOK' /\ TempStoreTypeOK'
    BY <1>8 DEF CopyOpenTemp
  <2>2. CASE CopyDone(t, "error")
    BY <1>8, <2>1, <2>2, CopyDoneType DEF CopyOpenTemp
  <2>3. CASE from' = [from EXCEPT ![t] = file] /\ Goto(t, "copying")
                /\ UNCHANGED <<copyPos, cbuf, ret>>
    <3>1. TempPath(t) \in Gateways \X TempNames
      BY <1>8 DEF CopyOpenTemp, TempInv, StageOK, Located, Buffering, TempPath,
                  TempNames
    <3>2. file \in Transfers \cup {NoFile}
      BY <3>1
    <3>3. PutsTypeOK' /\ WriterTypeOK'
      BY <1>8, <2>3, <3>2 DEF CopyOpenTemp
    <3> QED BY <2>1, <3>3
  <2> QED BY <1>8, <2>2, <2>3 DEF CopyOpenTemp
<1>9. ASSUME NEW t \in Transfers, CopyRead(t)
      PROVE  TypeOK'
  <2>1. StoreTypeOK' /\ TempStoreTypeOK'
    BY <1>9 DEF CopyRead
  <2>2. ASSUME NEW r \in {"ok", "error"}, CopyDone(t, r)
        PROVE  TypeOK'
    <3>1. UNCHANGED <<gw, draw, fdIno, fdOff, wrote>>
      BY <1>9 DEF CopyRead
    <3> QED BY <2>1, <2>2, <3>1, CopyDoneType
  <2>3. CASE /\ cbuf' = [cbuf EXCEPT ![t] = Chunk(t)]
             /\ copyPos' = [copyPos EXCEPT ![t] = @ + Len(Chunk(t))]
             /\ Goto(t, "draining")
             /\ UNCHANGED <<from, ret>>
    <3>1. from[t] \in Transfers /\ copyPos[t] <= Len(tmpdata[from[t]])
      BY <1>9 DEF CopyRead, TempInv, CopyOK, Copying
    <3>2. Chunk(t) \in Seq(Data)
      BY <3>1, ChunkType
    <3>3. PutsTypeOK'
      BY <1>9, <2>3 DEF CopyRead
    <3>4. WriterTypeOK'
      BY <1>9, <2>3, <3>2 DEF CopyRead
    <3> QED BY <2>1, <3>3, <3>4
  <2> QED BY <1>9, <2>2, <2>3 DEF CopyRead
<1>10. ASSUME NEW t \in Transfers, CopyWrite(t)
       PROVE  TypeOK'
  <2>1. CASE HdfsAppendMayFail(t) /\ CopyDone(t, "error") /\ UNCHANGED storeVars
    <3>1. StoreTypeOK' /\ TempStoreTypeOK'
      BY <1>10, <2>1 DEF CopyWrite
    <3> QED BY <1>10, <2>1, <3>1, CopyDoneType DEF CopyWrite
  <2>2. ASSUME NEW n \in 1 .. Len(cbuf[t]),
               HdfsAppend(t, SubSeq(cbuf[t], 1, n)),
               cbuf' = [cbuf EXCEPT ![t] = SubSeq(@, n + 1, Len(@))],
               Goto(t, IF Drained(t, n) THEN "copying" ELSE "draining"),
               UNCHANGED <<ns, hopen, from, copyPos, ret>>
        PROVE  TypeOK'
    <3>1. SubSeq(cbuf[t], 1, n) \in Seq(Data)
            /\ SubSeq(cbuf[t], n + 1, Len(cbuf[t])) \in Seq(Data)
      BY PieceType
    <3>2. hdata[t] \o SubSeq(cbuf[t], 1, n) \in Seq(Data)
      BY <3>1
    <3>3. PutsTypeOK'
      BY <1>10, <2>2 DEF CopyWrite
    <3>4. StoreTypeOK'
      BY <2>2, <3>2 DEF HdfsAppend
    <3>5. TempStoreTypeOK'
      BY <1>10 DEF CopyWrite
    <3>6. WriterTypeOK'
      BY <1>10, <2>2, <3>1 DEF CopyWrite
    <3> QED BY <3>3, <3>4, <3>5, <3>6
  <2> QED BY <1>10, <2>1, <2>2 DEF CopyWrite
<1>11. ASSUME NEW t \in Transfers, CloseHdfs(t)
       PROVE  TypeOK'
  <2>1. StoreTypeOK'
    BY <1>11, CloseFileType DEF CloseHdfs
  <2> QED BY <1>11, <2>1 DEF CloseHdfs
<1>12. ASSUME NEW t \in Transfers, CloseTemp(t)
       PROVE  TypeOK'
  BY <1>12 DEF CloseTemp, DropTemp, CloseFd, RemoveTemp
<1>13. ASSUME NEW t \in Transfers, Abandon(t)
       PROVE  TypeOK'
  BY <1>13 DEF Abandon
<1>14. ASSUME NEW t \in Transfers, DestroyHdfs(t)
       PROVE  TypeOK'
  <2>1. StoreTypeOK'
    BY <1>14, CloseFileType DEF DestroyHdfs
  <2> QED BY <1>14, <2>1 DEF DestroyHdfs
<1>15. ASSUME NEW t \in Transfers, DestroyTemp(t)
       PROVE  TypeOK'
  BY <1>15 DEF DestroyTemp, DropTemp, CloseFd, RemoveTemp, Outcome
<1>16. ASSUME NEW t \in Transfers, Crash(t)
       PROVE  TypeOK'
  <2>1. << >> \in Seq(Data)
    OBVIOUS
  <2> QED BY <1>16, <2>1 DEF Crash, CloseFd
<1>17. ASSUME NEW t \in Transfers, DriverCall(t) \/ DriverStep(t),
              UNCHANGED <<tempVars, handlerVars>>
       PROVE  TypeOK'
  <2>1. Upload(PathOf[t]) \in Names /\ Final(PathOf[t]) \in Names
    BY DEF Upload, Final, Names
  <2>2. CASE Rename(t)
    BY <1>17, <2>1, <2>2 DEF Rename, HdfsRename
  <2>3. CASE UpdateReplica(t)
    BY <1>17, <2>3 DEF UpdateReplica, UpdateReplicaOf
  <2> QED BY <1>17, <2>2, <2>3 DEF DriverCall, DriverStep
<1>18. ASSUME NEW t \in Transfers, PoolCall(t) \/ PoolStep(t),
              UNCHANGED <<tempVars, handlerVars>>
       PROVE  TypeOK'
  <2>1. CASE StatTarget(t)
    BY <1>18, <2>1 DEF StatTarget
  <2>2. CASE Locate(t)
    <3>1. gw' \in [Transfers -> Gateways \cup {NoGateway}]
      <4>1. CASE UNCHANGED gw
        BY <4>1
      <4>2. ASSUME NEW g \in Gateways, gw' = [gw EXCEPT ![t] = g]
            PROVE  gw' \in [Transfers -> Gateways \cup {NoGateway}]
        BY <4>2
      <4> QED BY <2>2, <4>1, <4>2 DEF Locate
    <3>2. pc' \in [Transfers -> Labels]
      BY <2>2 DEF Locate
    <3> QED BY <1>18, <2>2, <3>1, <3>2 DEF Locate
  <2>3. CASE CancelLookup(t)
    BY <1>18, <2>3 DEF CancelLookup
  <2>4. CASE CancelDelete(t)
    BY <1>18, <2>4 DEF CancelDelete, HdfsDelete
  <2> QED BY <1>18, <2>1, <2>2, <2>3, <2>4 DEF PoolCall, PoolStep
<1>19. ASSUME NEW p \in Paths, UserUnlink(p)
       PROVE  TypeOK'
  BY <1>19 DEF UserUnlink, Unlink, HdfsDelete
<1>20. CASE UNCHANGED vars
  BY <1>20 DEF vars
<1> HIDE DEF Goto, At, TypeOK
<1> QED
  BY <1>1, <1>2, <1>3, <1>4, <1>5, <1>6, <1>7, <1>8, <1>9, <1>10, <1>11, <1>12,
     <1>13, <1>14, <1>15, <1>16, <1>17, <1>18, <1>19, <1>20
  DEF Next, ClientCall, CallStep, HandlerCall, HandlerStep

-----------------------------------------------------------------------------
(* Who refers to a temp file.                                              *)

(* A step that only moves a transfer on, within the stages it is in.       *)
LEMMA MoveKeepsTemp ==
  ASSUME TypeOK, TempInv, NEW t \in Transfers, NEW l \in Labels, Goto(t, l),
         UNCHANGED <<gw, draw, tmpdir, tmpdata, fdIno, from, copyPos, wrote>>,
         l \in BeforeOpen => pc[t] \in BeforeOpen,
         l \in Unlocated => pc[t] \in Unlocated,
         l \in Located => pc[t] \in Located,
         l \in Buffering => pc[t] \in Buffering,
         l \in Holding => pc[t] \in Holding,
         l \in Copying <=> pc[t] \in Copying
  PROVE  TempInv'
<1>1. ASSUME NEW u \in Transfers
      PROVE  StageOK(u)'
  BY DEF TempInv, StageOK, Goto, TypeOK, PutsTypeOK
<1>2. ASSUME NEW u \in Transfers
      PROVE  RefsOK(u)' /\ CopyOK(u)'
  BY DEF TempInv, RefsOK, RefOK, CopyOK, TempPath, Goto, TypeOK, PutsTypeOK
<1>3. ASSUME NEW e \in Gateways \X TempNames
      PROVE  EntryOK(e)'
  BY DEF TempInv, EntryOK, TempPath
<1> QED BY <1>1, <1>2, <1>3 DEF TempInv

(* copyToHDFS returns.                                                     *)
LEMMA CopyDoneKeepsTemp ==
  ASSUME TypeOK, TempInv, NEW t \in Transfers, NEW r, CopyDone(t, r),
         pc[t] \in {"writing"} \cup Copying,
         UNCHANGED <<gw, draw, tmpdir, tmpdata, fdIno, wrote>>
  PROVE  TempInv'
<1> USE DEF TypeOK, PutsTypeOK, WriterTypeOK, Goto, CopyDone
<1>1. ASSUME NEW u \in Transfers
      PROVE  StageOK(u)'
  BY DEF TempInv, StageOK, BeforeOpen, Unlocated, Located, Buffering, Holding,
         Copying, InClose, InDestroy
<1>2. ASSUME NEW u \in Transfers
      PROVE  RefsOK(u)' /\ CopyOK(u)'
  BY DEF TempInv, RefsOK, RefOK, CopyOK, TempPath, Copying
<1>3. ASSUME NEW e \in Gateways \X TempNames
      PROVE  EntryOK(e)'
  BY DEF TempInv, EntryOK, TempPath
<1> QED BY <1>1, <1>2, <1>3 DEF TempInv

(* ::close(temp_fd) and ::remove(temp_path).                               *)
LEMMA DropKeepsTemp ==
  ASSUME TypeOK, TempInv, NEW t \in Transfers, DropTemp(t),
         NEW l \in {"closed", "stored", "failed"}, Goto(t, l),
         pc[t] \in {"closeTemp", "closed", "destroyTemp"},
         UNCHANGED <<gw, draw, tmpdata, from, copyPos, wrote>>
  PROVE  TempInv'
<1> USE DEF TypeOK, PutsTypeOK, TempStoreTypeOK, WriterTypeOK, Goto, DropTemp,
            CloseFd, RemoveTemp
<1>1. ASSUME NEW u \in Transfers
      PROVE  StageOK(u)'
  BY DEF TempInv, StageOK, BeforeOpen, Unlocated, Located, Buffering, Holding,
         InClose, InDestroy
<1>2. ASSUME NEW u \in Transfers
      PROVE  RefsOK(u)' /\ CopyOK(u)'
  BY DEF TempInv, RefsOK, RefOK, CopyOK, TempPath, Copying
<1>3. ASSUME NEW e \in Gateways \X TempNames
      PROVE  EntryOK(e)'
  BY DEF TempInv, EntryOK, TempPath
<1> QED BY <1>1, <1>2, <1>3 DEF TempInv

(* A transfer opens its temp file: the file is its own, or that of one     *)
(* whose name is the same.                                                 *)
LEMMA OpenTempKeepsTemp ==
  ASSUME TypeOK, TempInv, NEW t \in Transfers, OpenTemp(t)
  PROVE  TempInv'
<1> USE DEF TypeOK, PutsTypeOK, TempStoreTypeOK, WriterTypeOK, Goto, At, copyVars
<1>1. PICK r \in Draws :
        LET e == <<gw[t], TempName(r, PathOf[t])>>
        IN /\ draw' = [draw EXCEPT ![t] = r]
           /\ tmpdir' = [tmpdir EXCEPT ![e] = OpenedAt(t, e)]
           /\ fdIno' = [fdIno EXCEPT ![t] = OpenedAt(t, e)]
  BY DEF OpenTemp
<1> DEFINE e == <<gw[t], TempName(r, PathOf[t])>>
<1>2. gw[t] \in Gateways /\ draw[t] = NoDraw /\ r # NoDraw
  BY NoDrawAssumption DEF OpenTemp, TempInv, StageOK, Located, BeforeOpen, Unlocated
<1>3. e \in Gateways \X TempNames
  BY <1>2, PathOfAssumption DEF TempNames
<1>4. PICK file \in Transfers :
        file = OpenedAt(t, e) /\ (file = t \/ tmpdir[e] = file)
  BY <1>3 DEF OpenedAt
<1>5. TempPath(t)' = e /\ \A u \in Transfers \ {t} : TempPath(u)' = TempPath(u)
  BY <1>1 DEF TempPath, OpenTemp
<1>6. /\ draw' = [draw EXCEPT ![t] = r]
      /\ tmpdir' = [tmpdir EXCEPT ![e] = file]
      /\ fdIno' = [fdIno EXCEPT ![t] = file]
  BY <1>1, <1>4
<1> HIDE DEF e
<1>7. draw'[file] # NoDraw /\ TempPath(file)' = e
  <2>1. CASE file = t
    BY <1>6, <1>2, <1>5, <2>1
  <2>2. CASE file # t /\ tmpdir[e] = file
    <3>1. EntryOK(e) /\ file # NoFile
      BY <1>3, <1>4, NoFileAssumption DEF TempInv
    <3>2. draw[file] # NoDraw /\ TempPath(file) = e
      BY <2>2, <3>1 DEF EntryOK
    <3> QED BY <1>6, <1>4, <1>5, <2>2, <3>2
  <2> QED BY <1>4, <2>1, <2>2
<1>8. ASSUME NEW u \in Transfers
      PROVE  StageOK(u)'
  BY <1>6, <1>2, <1>4, NoFileAssumption
  DEF OpenTemp, TempInv, StageOK, BeforeOpen, Unlocated, Located, Buffering,
      Holding, InClose, InDestroy
<1>9. ASSUME NEW u \in Transfers
      PROVE  RefsOK(u)'
  <2>1. CASE u = t
    <3>1. fdIno'[t] = file /\ draw'[t] # NoDraw
      BY <1>6, <1>2
    <3>2. from[t] # NoFile => draw[t] # NoDraw
      BY DEF TempInv, RefsOK, RefOK
    <3>3. RefOK(t, fdIno[t])'
      BY <1>5, <1>7, <3>1 DEF RefOK
    <3>4. from'[t] = NoFile
      BY <1>2, <3>2 DEF OpenTemp
    <3> QED BY <2>1, <3>3, <3>4 DEF RefsOK, RefOK
  <2>2. CASE u # t
    <3>1. draw'[u] = draw[u] /\ fdIno'[u] = fdIno[u] /\ from'[u] = from[u]
      BY <1>6, <2>2 DEF OpenTemp
    <3>2. RefOK(u, fdIno[u]) /\ RefOK(u, from[u])
      BY DEF TempInv, RefsOK
    <3>3. ASSUME NEW f \in Transfers, RefOK(u, f)
          PROVE  draw'[u] # NoDraw /\ draw'[f] # NoDraw /\ TempPath(f)' = TempPath(u)'
      BY <1>6, <1>2, <1>5, <2>2, <3>3, NoFileAssumption DEF RefOK
    <3> QED BY <3>1, <3>2, <3>3 DEF RefsOK, RefOK
  <2> QED BY <2>1, <2>2
<1>10. ASSUME NEW u \in Transfers
      PROVE  CopyOK(u)'
  BY DEF OpenTemp, TempInv, CopyOK, Copying
<1>11. ASSUME NEW x \in Gateways \X TempNames
       PROVE  EntryOK(x)'
  <2>1. CASE x = e
    BY <1>6, <1>3, <1>7, <2>1 DEF EntryOK
  <2>2. CASE x # e
    <3>1. tmpdir'[x] = tmpdir[x]
      BY <1>6, <1>3, <2>2
    <3>2. tmpdir[x] # NoFile
            => tmpdir[x] \in Transfers /\ draw[tmpdir[x]] # NoDraw
                 /\ TempPath(tmpdir[x]) = x
      BY DEF TempInv, EntryOK
    <3> QED BY <1>6, <1>2, <1>5, <3>1, <3>2 DEF EntryOK
  <2> QED BY <2>1, <2>2
<1> QED BY <1>8, <1>9, <1>10, <1>11 DEF TempInv

(* Every step keeps who may refer to which temp file.                      *)
LEMMA TempStep ==
  ASSUME TypeOK, TempInv, Next
  PROVE  TempInv'
<1> USE DEF putVars, storeVars, tempVars, handlerVars, copyVars, At, BeforeOpen,
            Unlocated, Located, Buffering, Holding, Copying, InClose, InDestroy,
            Labels, InCall, InLocate, InOpen, InDone, InCancel, BetweenCalls, Ended
<1>1. ASSUME NEW t \in Transfers, OpenHdfs(t)
      PROVE  TempInv'
  <2>1. PICK l \in {"connected", "failed"} : Goto(t, l)
    BY <1>1 DEF OpenHdfs
  <2> QED BY <1>1, <2>1, MoveKeepsTemp DEF OpenHdfs
<1>2. ASSUME NEW t \in Transfers, StatTempFolder(t)
      PROVE  TempInv'
  <2>1. PICK l \in {"hasFolder", "noFolder"} : Goto(t, l)
    BY <1>2 DEF StatTempFolder
  <2> QED BY <1>2, <2>1, MoveKeepsTemp DEF StatTempFolder
<1>3. ASSUME NEW t \in Transfers, MakeTempFolder(t)
      PROVE  TempInv'
  <2>1. PICK l \in {"hasFolder", "failed"} : Goto(t, l)
    BY <1>3 DEF MakeTempFolder
  <2> QED BY <1>3, <2>1, MoveKeepsTemp DEF MakeTempFolder
<1>4. ASSUME NEW t \in Transfers, OpenTemp(t)
      PROVE  TempInv'
  BY <1>4, OpenTempKeepsTemp
<1>5. ASSUME NEW t \in Transfers, OpenTempFails(t)
      PROVE  TempInv'
  <2>1. PICK l \in {"failed"} : Goto(t, l)
    BY <1>5 DEF OpenTempFails
  <2> QED BY <1>5, <2>1, MoveKeepsTemp DEF OpenTempFails
<1>6. ASSUME NEW t \in Transfers, NEW b \in Blocks, Write(t, b)
      PROVE  TempInv'
  <2> USE DEF TypeOK, TempStoreTypeOK, WriterTypeOK
  <2>1. /\ UNCHANGED <<pc, gw, draw, tmpdir, fdIno, from, copyPos>>
        /\ draw[t] # NoDraw
        /\ fdIno[t] \in Transfers /\ draw[fdIno[t]] # NoDraw
    BY <1>6, NoDrawAssumption DEF Write, TempInv, StageOK, RefsOK, RefOK
  <2>2. \A u \in Transfers \ {t} : wrote'[u] = wrote[u]
    BY <1>6 DEF Write
  <2>3. \A u \in Transfers : /\ draw[u] = NoDraw => tmpdata'[u] = tmpdata[u]
                            /\ Len(tmpdata'[u]) \in Nat
                            /\ Len(tmpdata[u]) <= Len(tmpdata'[u])
    <3>1. /\ WriteAt(tmpdata[fdIno[t]], fdOff[t], b) \in Seq(Data)
          /\ Len(tmpdata[fdIno[t]]) <= Len(WriteAt(tmpdata[fdIno[t]], fdOff[t], b))
      BY <2>1, WriteAtType
    <3>2. \A u \in Transfers : Len(tmpdata[u]) \in Nat
      OBVIOUS
    <3> QED BY <1>6, <2>1, <3>1, <3>2 DEF Write
  <2>4. ASSUME NEW u \in Transfers
        PROVE  StageOK(u)' /\ RefsOK(u)'
    BY <2>1, <2>2, <2>3 DEF TempInv, StageOK, RefsOK, RefOK, TempPath
  <2>5. ASSUME NEW u \in Transfers
        PROVE  CopyOK(u)'
    <3>1. CopyOK(u) /\ copyPos[u] \in Nat
      BY DEF TempInv
    <3>2. from[u] # NoFile => /\ from[u] \in Transfers
                              /\ Len(tmpdata[from[u]]) \in Nat
      OBVIOUS
    <3>3. from[u] # NoFile => /\ Len(tmpdata'[from[u]]) \in Nat
                              /\ Len(tmpdata[from[u]]) <= Len(tmpdata'[from[u]])
      BY <2>3, <3>2
    <3>4. pc'[u] = pc[u] /\ from'[u] = from[u] /\ copyPos'[u] = copyPos[u]
      BY <2>1
    <3> HIDE DEF TypeOK
    <3> QED BY <3>1, <3>2, <3>3, <3>4 DEF CopyOK
  <2>6. ASSUME NEW e \in Gateways \X TempNames
        PROVE  EntryOK(e)'
    BY <2>1 DEF TempInv, EntryOK, TempPath
  <2> QED BY <2>4, <2>5, <2>6 DEF TempInv
<1>7. ASSUME NEW t \in Transfers, NEW off \in 0 .. MaxLen, Seek(t, off)
      PROVE  TempInv'
  BY <1>7 DEF Seek, TempInv, StageOK, RefsOK, RefOK, CopyOK, EntryOK, TempPath
<1>8. ASSUME NEW t \in Transfers, CopyOpenTemp(t)
      PROVE  TempInv'
  <2>1. CASE CopyDone(t, "error")
    BY <1>8, <2>1, CopyDoneKeepsTemp DEF CopyOpenTemp
  <2>2. CASE ~ CopyDone(t, "error")
    <3> USE DEF TypeOK, PutsTypeOK, TempStoreTypeOK, WriterTypeOK
    <3>1. TempPath(t) \in Gateways \X TempNames /\ draw[t] # NoDraw
      BY <1>8, NoDrawAssumption, PathOfAssumption
      DEF CopyOpenTemp, TempInv, StageOK, TempPath, TempNames
    <3>2. PICK file \in Transfers : file = tmpdir[TempPath(t)]
                                     /\ from' = [from EXCEPT ![t] = file]
      BY <1>8, <2>2, <3>1 DEF CopyOpenTemp
    <3>3. draw[file] # NoDraw /\ TempPath(file) = TempPath(t)
      BY <3>1, <3>2, NoFileAssumption DEF TempInv, EntryOK
    <3>4. UNCHANGED <<gw, draw, tmpdir, tmpdata, fdIno, copyPos, wrote>>
            /\ Goto(t, "copying")
      BY <1>8, <2>2 DEF CopyOpenTemp
    <3>5. ASSUME NEW u \in Transfers
          PROVE  StageOK(u)'
      BY <1>8, <3>4 DEF CopyOpenTemp, TempInv, StageOK, Goto
    <3>6. ASSUME NEW u \in Transfers
          PROVE  RefsOK(u)'
      BY <3>1, <3>2, <3>3, <3>4 DEF TempInv, RefsOK, RefOK, TempPath
    <3>7. ASSUME NEW u \in Transfers
          PROVE  CopyOK(u)'
      <4>1. CASE u = t
        <5>1. copyPos[t] = 0
          BY <1>8 DEF TempInv, CopyOK, CopyOpenTemp
        <5>2. Len(tmpdata[file]) \in Nat
          OBVIOUS
        <5> QED BY <3>2, <3>4, <4>1, <5>1, <5>2, NoFileAssumption DEF CopyOK, Goto
      <4>2. CASE u # t
        BY <3>2, <3>4, <4>2 DEF TempInv, CopyOK, Goto
      <4> QED BY <4>1, <4>2
    <3>8. ASSUME NEW e \in Gateways \X TempNames
          PROVE  EntryOK(e)'
      BY <3>4 DEF TempInv, EntryOK, TempPath
    <3> QED BY <3>5, <3>6, <3>7, <3>8 DEF TempInv
  <2> QED BY <2>1, <2>2
<1>9. ASSUME NEW t \in Transfers, CopyRead(t)
      PROVE  TempInv'
  <2>1. ASSUME NEW r \in {"ok", "error"}, CopyDone(t, r)
        PROVE  TempInv'
    BY <1>9, <2>1, CopyDoneKeepsTemp DEF CopyRead
  <2>2. CASE /\ copyPos' = [copyPos EXCEPT ![t] = @ + Len(Chunk(t))]
             /\ Goto(t, "draining")
             /\ UNCHANGED from
    <3> USE DEF TypeOK, PutsTypeOK, TempStoreTypeOK, WriterTypeOK
    <3>1. /\ from[t] \in Transfers
          /\ copyPos[t] + Len(Chunk(t)) <= Len(tmpdata[from[t]])
      BY <1>9, ChunkType DEF CopyRead, TempInv, CopyOK
    <3>2. UNCHANGED <<gw, draw, tmpdir, tmpdata, fdIno, from, wrote>>
      BY <1>9, <2>2 DEF CopyRead
    <3>3. ASSUME NEW u \in Transfers
          PROVE  StageOK(u)' /\ RefsOK(u)'
      BY <1>9, <2>2, <3>2
      DEF CopyRead, TempInv, StageOK, RefsOK, RefOK, TempPath, Goto
    <3>4. ASSUME NEW u \in Transfers
          PROVE  CopyOK(u)'
      BY <1>9, <2>2, <3>1, <3>2, NoFileAssumption DEF CopyRead, TempInv, CopyOK, Goto
    <3>5. ASSUME NEW e \in Gateways \X TempNames
          PROVE  EntryOK(e)'
      BY <3>2 DEF TempInv, EntryOK, TempPath
    <3> QED BY <3>3, <3>4, <3>5 DEF TempInv
  <2> QED BY <1>9, <2>1, <2>2 DEF CopyRead
<1>10. ASSUME NEW t \in Transfers, CopyWrite(t)
       PROVE  TempInv'
  <2>1. CASE CopyDone(t, "error")
    BY <1>10, <2>1, CopyDoneKeepsTemp DEF CopyWrite
  <2>2. CASE UNCHANGED <<from, copyPos>>
              /\ \E n \in 1 .. Len(cbuf[t]) :
                   Goto(t, IF Drained(t, n) THEN "copying" ELSE "draining")
    <3>1. PICK l \in {"copying", "draining"} : Goto(t, l)
      BY <2>2
    <3> QED BY <1>10, <2>2, <3>1, MoveKeepsTemp DEF CopyWrite
  <2> QED BY <1>10, <2>1, <2>2 DEF CopyWrite
<1>11. ASSUME NEW t \in Transfers, CloseHdfs(t)
      PROVE  TempInv'
  <2>1. PICK l \in {"closeTemp"} : Goto(t, l)
    BY <1>11 DEF CloseHdfs
  <2> QED BY <1>11, <2>1, MoveKeepsTemp DEF CloseHdfs
<1>12. ASSUME NEW t \in Transfers, CloseTemp(t)
       PROVE  TempInv'
  BY <1>12, DropKeepsTemp DEF CloseTemp
<1>13. ASSUME NEW t \in Transfers, Abandon(t)
      PROVE  TempInv'
  <2>1. PICK l \in {"destroyHdfs"} : Goto(t, l)
    BY <1>13 DEF Abandon
  <2> QED BY <1>13, <2>1, MoveKeepsTemp DEF Abandon
<1>14. ASSUME NEW t \in Transfers, DestroyHdfs(t)
      PROVE  TempInv'
  <2>1. PICK l \in {"destroyTemp"} : Goto(t, l)
    BY <1>14 DEF DestroyHdfs
  <2> QED BY <1>14, <2>1, MoveKeepsTemp DEF DestroyHdfs
<1>15. ASSUME NEW t \in Transfers, DestroyTemp(t)
       PROVE  TempInv'
  BY <1>15, DropKeepsTemp DEF DestroyTemp, Outcome
<1>16. ASSUME NEW t \in Transfers, Crash(t)
       PROVE  TempInv'
  <2> USE DEF TypeOK, PutsTypeOK, TempStoreTypeOK, WriterTypeOK, Crash, CloseFd, Goto
  <2>1. ASSUME NEW u \in Transfers
        PROVE  StageOK(u)'
    BY <1>16 DEF TempInv, StageOK
  <2>2. ASSUME NEW u \in Transfers
        PROVE  RefsOK(u)' /\ CopyOK(u)'
    BY <1>16 DEF TempInv, RefsOK, RefOK, CopyOK, TempPath
  <2>3. ASSUME NEW e \in Gateways \X TempNames
        PROVE  EntryOK(e)'
    BY <1>16 DEF TempInv, EntryOK, TempPath
  <2> QED BY <2>1, <2>2, <2>3 DEF TempInv
<1>17. ASSUME NEW t \in Transfers, Rename(t), UNCHANGED <<tempVars, handlerVars>>
       PROVE  TempInv'
  <2>1. PICK l \in {"renamed", "failed", "halfDone"} : Goto(t, l)
    BY <1>17 DEF Rename
  <2> QED BY <1>17, <2>1, MoveKeepsTemp DEF Rename, handlerVars
<1>18. ASSUME NEW t \in Transfers, UpdateReplica(t), UNCHANGED <<tempVars, handlerVars>>
       PROVE  TempInv'
  <2>1. PICK l \in {"done", "halfDone"} : Goto(t, l)
    BY <1>18 DEF UpdateReplica, UpdateReplicaOf
  <2> QED BY <1>18, <2>1, MoveKeepsTemp DEF UpdateReplica, UpdateReplicaOf, handlerVars
<1>19. ASSUME NEW t \in Transfers, StatTarget(t), UNCHANGED <<tempVars, handlerVars>>
       PROVE  TempInv'
  <2>1. PICK l \in {"absent", "refused"} : Goto(t, l)
    BY <1>19 DEF StatTarget
  <2> QED BY <1>19, <2>1, MoveKeepsTemp DEF StatTarget, handlerVars
<1>20. ASSUME NEW t \in Transfers, CancelLookup(t), UNCHANGED <<tempVars, handlerVars>>
       PROVE  TempInv'
  <2>1. PICK l \in {"cancelDelete", "ended"} : Goto(t, l)
    BY <1>20 DEF CancelLookup
  <2> QED BY <1>20, <2>1, MoveKeepsTemp DEF CancelLookup, handlerVars
<1>21. ASSUME NEW t \in Transfers, CancelDelete(t), UNCHANGED <<tempVars, handlerVars>>
       PROVE  TempInv'
  <2>1. PICK l \in {"cancelled"} : Goto(t, l)
    BY <1>21 DEF CancelDelete
  <2> QED BY <1>21, <2>1, MoveKeepsTemp DEF CancelDelete, handlerVars
<1>22. ASSUME NEW t \in Transfers, Locate(t), UNCHANGED <<tempVars, handlerVars>>
       PROVE  TempInv'
  <2>1. CASE Goto(t, "refused") /\ UNCHANGED gw
    BY <1>22, <2>1, MoveKeepsTemp DEF Locate, handlerVars
  <2>2. ASSUME NEW g \in Gateways, gw' = [gw EXCEPT ![t] = g], Goto(t, "located")
        PROVE  TempInv'
    <3> USE DEF TypeOK, PutsTypeOK, TempStoreTypeOK, WriterTypeOK
    <3>1. draw[t] = NoDraw /\ pc[t] = "absent"
      BY <1>22 DEF Locate, TempInv, StageOK
    <3>2. UNCHANGED <<draw, tmpdir, tmpdata, fdIno, from, copyPos, wrote>>
      BY <1>22 DEF handlerVars
    <3>3. \A u \in Transfers \ {t} : gw'[u] = gw[u] /\ TempPath(u)' = TempPath(u)
      BY <2>2, <3>2 DEF TempPath
    <3>4. ASSUME NEW u \in Transfers
          PROVE  StageOK(u)' /\ CopyOK(u)'
      BY <2>2, <3>1, <3>2 DEF TempInv, StageOK, CopyOK, Goto
    <3>5. ASSUME NEW u \in Transfers
          PROVE  RefsOK(u)'
      BY <3>1, <3>2, <3>3 DEF TempInv, RefsOK, RefOK
    <3>6. ASSUME NEW e \in Gateways \X TempNames
          PROVE  EntryOK(e)'
      BY <3>1, <3>2, <3>3 DEF TempInv, EntryOK
    <3> QED BY <3>4, <3>5, <3>6 DEF TempInv
  <2> QED BY <1>22, <2>1, <2>2 DEF Locate
<1>23. ASSUME NEW p \in Paths, UserUnlink(p)
       PROVE  TempInv'
  BY <1>23 DEF UserUnlink, Unlink, handlerVars, TempInv, StageOK, RefsOK, RefOK,
               CopyOK, EntryOK, TempPath
<1> QED
  BY <1>1, <1>2, <1>3, <1>4, <1>5, <1>6, <1>7, <1>8, <1>9, <1>10, <1>11, <1>12,
     <1>13, <1>14, <1>15, <1>16, <1>17, <1>18, <1>19, <1>20, <1>21, <1>22, <1>23
  DEF Next, ClientCall, CallStep, HandlerCall, HandlerStep, DriverCall, DriverStep,
      PoolCall, PoolStep

-----------------------------------------------------------------------------
(* The buffer of a handler that is apart from the others is its own.       *)

(* Gateway and number are final once a temp file has been opened.          *)
DrawsKept == \A u \in Transfers :
               draw[u] # NoDraw => draw'[u] = draw[u] /\ gw'[u] = gw[u]

(* No step takes them back: neither a close nor a crash.                   *)
LEMMA DrawsStep ==
  ASSUME TypeOK, TempInv, Next
  PROVE  DrawsKept
<1> USE DEF TypeOK, PutsTypeOK, WriterTypeOK, putVars, storeVars, tempVars,
            handlerVars, copyVars, At, DrawsKept
<1>1. ASSUME NEW t \in Transfers, OpenTemp(t)
      PROVE  DrawsKept
  BY <1>1 DEF OpenTemp, TempInv, StageOK, BeforeOpen
<1>2. ASSUME NEW t \in Transfers, Locate(t), UNCHANGED handlerVars
      PROVE  DrawsKept
  <2>1. draw[t] = NoDraw /\ UNCHANGED draw
    BY <1>2 DEF Locate, TempInv, StageOK, BeforeOpen
  <2>2. \A u \in Transfers \ {t} : gw'[u] = gw[u]
    BY <1>2 DEF Locate
  <2> QED BY <2>1, <2>2
<1>3. ASSUME NEW t \in Transfers,
             \/ OpenHdfs(t) \/ StatTempFolder(t) \/ MakeTempFolder(t)
             \/ OpenTempFails(t) \/ CopyOpenTemp(t) \/ CopyRead(t) \/ CopyWrite(t)
             \/ CloseHdfs(t) \/ CloseTemp(t) \/ Abandon(t) \/ DestroyHdfs(t)
             \/ DestroyTemp(t) \/ Crash(t)
             \/ \E b \in Blocks : Write(t, b)
             \/ \E off \in 0 .. MaxLen : Seek(t, off)
      PROVE  DrawsKept
  BY <1>3 DEF OpenHdfs, StatTempFolder, MakeTempFolder, OpenTempFails, CopyOpenTemp,
              CopyRead, CopyWrite, CloseHdfs, CloseTemp, Abandon, DestroyHdfs,
              DestroyTemp, Crash, Write, Seek
<1>4. ASSUME NEW t \in Transfers, UNCHANGED handlerVars,
             \/ Rename(t) \/ UpdateReplica(t) \/ StatTarget(t)
             \/ CancelLookup(t) \/ CancelDelete(t)
      PROVE  DrawsKept
  BY <1>4 DEF Rename, UpdateReplica, UpdateReplicaOf, StatTarget, CancelLookup,
              CancelDelete
<1>5. ASSUME NEW p \in Paths, UserUnlink(p)
      PROVE  DrawsKept
  BY <1>5 DEF UserUnlink, Unlink
<1> QED
  BY <1>1, <1>2, <1>3, <1>4, <1>5
  DEF Next, ClientCall, CallStep, HandlerCall, HandlerStep, DriverCall, DriverStep,
      PoolCall, PoolStep

(* Two transfers have the same buffer when their temp paths are the same.  *)
LEMMA SameBufferPath ==
  ASSUME NEW t \in Transfers, NEW u \in Transfers,
         draw[t] # NoDraw, draw[u] # NoDraw
  PROVE  SameBuffer(t, u) <=> TempPath(t) = TempPath(u)
BY DEF SameBuffer, TempPath, TempName

(* Who is apart after a step was apart before it.                          *)
LEMMA ApartBefore ==
  ASSUME DrawsKept, NEW t \in Transfers, draw[t] # NoDraw, Apart(t)'
  PROVE  Apart(t)
BY DEF DrawsKept, Apart, SameBuffer
=============================================================================
