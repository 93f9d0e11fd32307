-------------------------- MODULE HdfsPutDataProofs --------------------------
(***************************************************************************)
(* What the data of a PUT goes through, for any number of transfers: the   *)
(* buffer of a handler is its own, and what close() has copied from it is  *)
(* what the client wrote.                                                  *)
(***************************************************************************)
EXTENDS HdfsPutProofs

-----------------------------------------------------------------------------
(* The buffer of a handler that is apart from the others is its own.       *)

(* An open buffer has a path, and an apart one is its transfer's.          *)
LEMMA OpenBuffer ==
  ASSUME TempInv, BufferIsolated, NEW t \in Transfers, fdIno[t] # NoFile
  PROVE  /\ draw[t] # NoDraw
         /\ Apart(t) => /\ fdIno[t] = t
                        /\ tmpdir[TempPath(t)] = t
                        /\ tmpdata[t] = wrote[t]
<1>1. draw[t] # NoDraw
  BY DEF TempInv, RefsOK, RefOK
<1>2. Apart(t) => /\ fdIno[t] = t
                  /\ tmpdir[TempPath(t)] = t
                  /\ tmpdata[t] = wrote[t]
  BY DEF BufferIsolated
<1> QED BY <1>1, <1>2

(* The temp path of a transfer that has drawn its number does not change.  *)
LEMMA PathKept ==
  ASSUME DrawsKept, NEW t \in Transfers, draw[t] # NoDraw
  PROVE  TempPath(t)' = TempPath(t) /\ draw'[t] # NoDraw
BY DEF DrawsKept, TempPath

(* A step that leaves the buffers alone, and at most closes descriptors.   *)
LEMMA BufferFrame ==
  ASSUME TempInv, BufferIsolated, DrawsKept,
         UNCHANGED <<tmpdir, tmpdata, wrote>>,
         \A u \in Transfers : fdIno'[u] \in {fdIno[u], NoFile}
  PROVE  BufferIsolated'
<1> SUFFICES ASSUME NEW t \in Transfers, fdIno'[t] # NoFile, Apart(t)'
             PROVE  /\ fdIno'[t] = t
                    /\ tmpdir'[TempPath(t)'] = t
                    /\ tmpdata'[t] = wrote'[t]
  BY DEF BufferIsolated
<1>1. fdIno'[t] = fdIno[t]
  OBVIOUS
<1>2. draw[t] # NoDraw
  BY <1>1, OpenBuffer
<1>3. Apart(t) /\ TempPath(t)' = TempPath(t)
  BY <1>2, ApartBefore, PathKept
<1> QED BY <1>1, <1>3, OpenBuffer

(* Removing one's own temp file removes nobody else's.                     *)
LEMMA BufferDrop ==
  ASSUME TypeOK, TempInv, BufferIsolated, DrawsKept, NEW t \in Transfers,
         pc[t] \in Buffering, DropTemp(t), UNCHANGED <<tmpdata, wrote>>
  PROVE  BufferIsolated'
<1> SUFFICES ASSUME NEW u \in Transfers, fdIno'[u] # NoFile, Apart(u)'
             PROVE  /\ fdIno'[u] = u
                    /\ tmpdir'[TempPath(u)'] = u
                    /\ tmpdata'[u] = wrote'[u]
  BY DEF BufferIsolated
<1>1. u # t /\ fdIno'[u] = fdIno[u]
  BY DEF DropTemp, CloseFd, TypeOK, WriterTypeOK
<1>2. draw[u] # NoDraw /\ draw[t] # NoDraw
  BY <1>1, OpenBuffer, NoDrawAssumption DEF TempInv, StageOK
<1>3. Apart(u) /\ TempPath(u)' = TempPath(u)
  BY <1>2, ApartBefore, PathKept
<1>4. TempPath(u) # TempPath(t)
  BY <1>1, <1>2, <1>3, SameBufferPath DEF Apart
<1>5. tmpdir'[TempPath(u)] = tmpdir[TempPath(u)]
  <2>1. tmpdir[TempPath(u)] = u
    BY <1>1, <1>3, OpenBuffer
  <2>2. TempPath(u) \in Gateways \X TempNames
    BY <1>2, PathOfAssumption
    DEF TempInv, StageOK, TypeOK, WriterTypeOK, TempPath, TempNames
  <2> QED BY <1>4, <2>2 DEF DropTemp, RemoveTemp, TypeOK, TempStoreTypeOK
<1> QED BY <1>1, <1>3, <1>5, OpenBuffer

(* A temp file is opened under a name that nobody apart has in use.        *)
LEMMA BufferOpen ==
  ASSUME TypeOK, TempInv, BufferIsolated, DrawsKept, NEW t \in Transfers, OpenTemp(t)
  PROVE  BufferIsolated'
<1>1. PICK r \in Draws :
        LET e == <<gw[t], TempName(r, PathOf[t])>>
        IN /\ draw' = [draw EXCEPT ![t] = r]
           /\ tmpdir' = [tmpdir EXCEPT ![e] = OpenedAt(t, e)]
           /\ fdIno' = [fdIno EXCEPT ![t] = OpenedAt(t, e)]
  BY DEF OpenTemp
<1>2. /\ draw[t] = NoDraw /\ gw[t] \in Gateways /\ gw' = gw
      /\ tmpdata[t] = wrote[t] /\ UNCHANGED <<tmpdata, wrote>>
  BY DEF OpenTemp, At, TempInv, StageOK, BeforeOpen, Unlocated, Located
<1>3. PICK e \in Gateways \X TempNames : e = <<gw[t], TempName(r, PathOf[t])>>
  <2>1. <<gw[t], TempName(r, PathOf[t])>> \in Gateways \X TempNames
    BY <1>2, PathOfAssumption DEF TempNames
  <2> QED BY <2>1
<1>4. PICK f \in Transfers \cup {NoFile} : f = tmpdir[e]
  BY <1>3 DEF TypeOK, TempStoreTypeOK
<1>5. PICK g \in Transfers : g = OpenedAt(t, e) /\ g = (IF f = NoFile THEN t ELSE f)
  BY <1>4, NoFileAssumption DEF OpenedAt
<1>6. /\ draw' = [draw EXCEPT ![t] = r]
      /\ tmpdir' = [tmpdir EXCEPT ![e] = g]
      /\ fdIno' = [fdIno EXCEPT ![t] = g]
  BY <1>1, <1>3, <1>5
<1>7. TempPath(t)' = e /\ draw'[t] # NoDraw
  BY <1>2, <1>3, <1>6, NoDrawAssumption DEF TempPath, TypeOK, WriterTypeOK
<1> SUFFICES ASSUME NEW u \in Transfers, fdIno'[u] # NoFile, Apart(u)'
             PROVE  /\ fdIno'[u] = u
                    /\ tmpdir'[TempPath(u)'] = u
                    /\ tmpdata'[u] = wrote'[u]
  BY DEF BufferIsolated
<1>8. CASE u = t
  <2>1. f = NoFile
    <3> SUFFICES ASSUME f # NoFile PROVE FALSE
      OBVIOUS
    <3>1. f \in Transfers /\ draw[f] # NoDraw /\ TempPath(f) = e
      BY <1>4 DEF TempInv, EntryOK
    <3>2. f # t /\ TempPath(f)' = e /\ draw'[f] # NoDraw
      BY <1>2, <3>1, PathKept
    <3>3. /\ gw'[t] = gw'[f]
          /\ draw'[t] \o FileName[PathOf[t]] = draw'[f] \o FileName[PathOf[f]]
      <4>1. TempPath(t)' = TempPath(f)'
        BY <1>7, <3>2
      <4> QED BY <4>1 DEF TempPath, TempName
    <3>4. SameBuffer(t, f)'
      BY <1>7, <3>2, <3>3 DEF SameBuffer
    <3> QED BY <1>8, <3>1, <3>2, <3>4 DEF Apart
  <2> QED BY <1>2, <1>5, <1>6, <1>7, <1>8, <2>1 DEF TypeOK, WriterTypeOK, TempStoreTypeOK
<1>9. CASE u # t
  <2>1. fdIno'[u] = fdIno[u]
    BY <1>6, <1>9
  <2>2. Apart(u) /\ TempPath(u)' = TempPath(u)
    BY <2>1, OpenBuffer, ApartBefore, PathKept
  <2>3. fdIno[u] = u /\ tmpdir[TempPath(u)] = u /\ tmpdata[u] = wrote[u]
    BY <2>1, <2>2, OpenBuffer
  <2>4. tmpdir'[TempPath(u)] = u
    BY <1>4, <1>5, <1>6, <2>3, NoFileAssumption DEF TypeOK, TempStoreTypeOK
  <2> QED BY <1>2, <2>1, <2>2, <2>3, <2>4
<1> QED BY <1>8, <1>9

(* A write goes to the buffer of the handler, and to no other one that is  *)
(* apart.                                                                  *)
LEMMA BufferWrite ==
  ASSUME TypeOK, TempInv, BufferIsolated, DrawsKept, NEW t \in Transfers,
         NEW b \in Blocks, Write(t, b)
  PROVE  BufferIsolated'
<1>1. /\ fdIno[t] \in Transfers /\ draw[t] # NoDraw
      /\ UNCHANGED <<tmpdir, fdIno, draw, gw>>
      /\ tmpdata' = [tmpdata EXCEPT ![fdIno[t]] = WriteAt(@, fdOff[t], b)]
      /\ wrote' = [wrote EXCEPT ![t] = WriteAt(@, fdOff[t], b)]
  BY NoDrawAssumption
  DEF Write, At, putVars, TempInv, StageOK, Holding, Buffering, TypeOK, WriterTypeOK
<1> SUFFICES ASSUME NEW u \in Transfers, fdIno'[u] # NoFile, Apart(u)'
             PROVE  /\ fdIno'[u] = u
                    /\ tmpdir'[TempPath(u)'] = u
                    /\ tmpdata'[u] = wrote'[u]
  BY DEF BufferIsolated
<1>2. fdIno[u] # NoFile
  BY <1>1
<1>3. draw[u] # NoDraw
  BY <1>2, OpenBuffer
<1>4. Apart(u) /\ TempPath(u)' = TempPath(u)
  BY <1>3, ApartBefore, PathKept
<1>5. fdIno[u] = u /\ tmpdir[TempPath(u)] = u /\ tmpdata[u] = wrote[u]
  BY <1>2, <1>4, OpenBuffer
<1>6. u # t => fdIno[t] # u
  <2> SUFFICES ASSUME u # t, fdIno[t] = u PROVE FALSE
    OBVIOUS
  <2>1. RefOK(t, u) /\ u # NoFile
    BY NoFileAssumption DEF TempInv, RefsOK
  <2>2. TempPath(u) = TempPath(t)
    BY <2>1 DEF RefOK
  <2> QED BY <1>1, <1>3, <1>4, <2>2, SameBufferPath DEF Apart
<1>7. tmpdata'[u] = wrote'[u]
  BY <1>1, <1>5, <1>6 DEF TypeOK, WriterTypeOK, TempStoreTypeOK
<1> QED BY <1>1, <1>4, <1>5, <1>7

(* Every step keeps the buffers that are apart their handlers' own.        *)
LEMMA BufferStep ==
  ASSUME TypeOK, TempInv, BufferIsolated, [Next]_vars
  PROVE  BufferIsolated'
<1> USE DEF putVars, storeVars, tempVars, handlerVars, copyVars
<1>1. CASE UNCHANGED vars
  BY <1>1 DEF vars, BufferIsolated, Apart, SameBuffer, TempPath
<1>2. CASE Next
  <2>1. DrawsKept
    BY <1>2, DrawsStep
  <2>2. ASSUME NEW t \in Transfers, OpenTemp(t)
        PROVE  BufferIsolated'
    BY <2>1, <2>2, BufferOpen
  <2>3. ASSUME NEW t \in Transfers, NEW b \in Blocks, Write(t, b)
        PROVE  BufferIsolated'
    BY <2>1, <2>3, BufferWrite
  <2>4. ASSUME NEW t \in Transfers, CloseTemp(t) \/ DestroyTemp(t)
        PROVE  BufferIsolated'
    <3>1. /\ pc[t] \in Buffering /\ DropTemp(t)
          /\ UNCHANGED <<tmpdata, wrote>>
      BY <2>4 DEF CloseTemp, DestroyTemp, At, Buffering, InClose, InDestroy
    <3> QED BY <2>1, <3>1, BufferDrop
  <2>5. ASSUME NEW t \in Transfers, Crash(t)
        PROVE  BufferIsolated'
    <3>1. /\ UNCHANGED <<tmpdir, tmpdata, wrote>>
          /\ \A u \in Transfers : fdIno'[u] \in {fdIno[u], NoFile}
      BY <2>5 DEF Crash, CloseFd, TypeOK, WriterTypeOK
    <3> QED BY <2>1, <3>1, BufferFrame
  <2>6. ASSUME NEW t \in Transfers,
               \/ OpenHdfs(t) \/ StatTempFolder(t) \/ MakeTempFolder(t)
               \/ OpenTempFails(t) \/ CopyOpenTemp(t) \/ CopyRead(t) \/ CopyWrite(t)
               \/ CloseHdfs(t) \/ Abandon(t) \/ DestroyHdfs(t)
               \/ \E off \in 0 .. MaxLen : Seek(t, off)
        PROVE  BufferIsolated'
    <3>1. UNCHANGED <<tmpdir, tmpdata, wrote, fdIno>>
      BY <2>6 DEF OpenHdfs, StatTempFolder, MakeTempFolder, OpenTempFails,
                  CopyOpenTemp, CopyRead, CopyWrite, CloseHdfs, Abandon,
                  DestroyHdfs, Seek
    <3> QED BY <2>1, <3>1, BufferFrame
  <2>7. ASSUME UNCHANGED <<tempVars, handlerVars>>
        PROVE  BufferIsolated'
    BY <2>1, <2>7, BufferFrame
  <2> QED
    BY <1>2, <2>2, <2>3, <2>4, <2>5, <2>6, <2>7
    DEF Next, ClientCall, CallStep, HandlerCall, HandlerStep, UserUnlink
<1> QED BY <1>1, <1>2

-----------------------------------------------------------------------------
(* What has been copied.                                                   *)

Stored(t) == ret[t] = "ok" /\ hopen[t] = "closed" /\ Apart(t)
               => hdata[t] = wrote[t]

(* What a transfer has copied and stored.                                  *)
DataOK(t) == CopiedOK(t) /\ Stored(t)

(* A transfer in a buffering stage has drawn a number.                     *)
LEMMA DrawnInBuffering ==
  ASSUME TempInv, NEW t \in Transfers, pc[t] \in Buffering
  PROVE  draw[t] # NoDraw
BY NoDrawAssumption DEF TempInv, StageOK

(* A step that leaves the data of a transfer alone.                        *)
LEMMA DataFrame ==
  ASSUME TempInv, DrawsKept, NEW t \in Transfers, DataOK(t),
         pc'[t] = pc[t], ret'[t] = ret[t], hdata'[t] = hdata[t],
         hopen'[t] = hopen[t], cbuf'[t] = cbuf[t], from'[t] = from[t],
         copyPos'[t] = copyPos[t], wrote'[t] = wrote[t]
  PROVE  DataOK(t)'
<1>1. draw[t] # NoDraw => draw'[t] # NoDraw /\ (Apart(t)' => Apart(t))
  BY ApartBefore DEF DrawsKept
<1>2. pc[t] \in Copying \cup {"closeHdfs"} => draw[t] # NoDraw
  BY DrawnInBuffering DEF Copying, Buffering, InClose
<1>3. CopiedOK(t)'
  BY <1>1, <1>2 DEF DataOK, CopiedOK, Copying
<1>4. Stored(t)'
  BY <1>1 DEF DataOK, CopiedOK, Stored
<1> QED BY <1>3, <1>4 DEF DataOK

(* A step that only moves a transfer on, outside the copy.                 *)
LEMMA DataMove ==
  ASSUME TypeOK, TempInv, DrawsKept, NEW t \in Transfers, DataOK(t),
         NEW l \in Labels \ (Copying \cup {"closeHdfs"}), Goto(t, l),
         UNCHANGED <<ret, hdata, hopen, cbuf, wrote>>,
         pc[t] # "draining",
         l \in BeforeOpen \cup {"writing"} => pc[t] \in BeforeOpen \cup {"writing"},
         l \in InDestroy => pc[t] \in {"writing"} \cup InDestroy
  PROVE  DataOK(t)'
<1>1. draw[t] # NoDraw => draw'[t] # NoDraw /\ (Apart(t)' => Apart(t))
  BY ApartBefore DEF DrawsKept
<1>2. pc'[t] = l
  BY DEF Goto, TypeOK, PutsTypeOK
<1>3. CopiedOK(t)'
  BY <1>1, <1>2 DEF DataOK, CopiedOK, Copying, BeforeOpen, InDestroy, Labels
<1>4. Stored(t)'
  BY <1>1 DEF DataOK, CopiedOK, Stored
<1> QED BY <1>3, <1>4 DEF DataOK

(* A step of one transfer leaves the data of the others alone.             *)
LEMMA DataOther ==
  ASSUME TypeOK, TempInv, DrawsKept, NEW t \in Transfers, NEW u \in Transfers \ {t},
         DataOK(u), ClientCall(t) \/ CallStep(t) \/ Crash(t)
  PROVE  DataOK(u)'
<1> DEFINE Same == /\ pc'[u] = pc[u] /\ ret'[u] = ret[u] /\ hdata'[u] = hdata[u]
                   /\ hopen'[u] = hopen[u] /\ cbuf'[u] = cbuf[u]
                   /\ from'[u] = from[u] /\ copyPos'[u] = copyPos[u]
                   /\ wrote'[u] = wrote[u]
<1> USE DEF putVars, storeVars, tempVars, handlerVars, copyVars, Goto, TypeOK,
            PutsTypeOK, StoreTypeOK, WriterTypeOK
<1>1. ASSUME \/ OpenHdfs(t) \/ StatTempFolder(t) \/ MakeTempFolder(t)
             \/ OpenTemp(t) \/ OpenTempFails(t)
             \/ \E b \in Blocks : Write(t, b)
             \/ \E off \in 0 .. MaxLen : Seek(t, off)
      PROVE  Same
  BY <1>1 DEF OpenHdfs, StatTempFolder, MakeTempFolder, OpenTemp, OpenTempFails,
              Write, Seek, HdfsCreate
<1>2. ASSUME CopyOpenTemp(t) \/ CopyRead(t) \/ CopyWrite(t)
      PROVE  Same
  BY <1>2 DEF CopyOpenTemp, CopyRead, CopyWrite, CopyDone, HdfsAppend
<1>3. ASSUME \/ CloseHdfs(t) \/ CloseTemp(t) \/ Abandon(t) \/ DestroyHdfs(t)
             \/ DestroyTemp(t) \/ Crash(t)
      PROVE  Same
  BY <1>3 DEF CloseHdfs, CloseTemp, Abandon, DestroyHdfs, DestroyTemp, Crash,
              HdfsCloseFile, HdfsCloses, HdfsCloseFails
<1>4. ASSUME /\ UNCHANGED <<tempVars, handlerVars>>
             /\ \/ Rename(t) \/ UpdateReplica(t) \/ StatTarget(t) \/ Locate(t)
                \/ CancelLookup(t) \/ CancelDelete(t)
      PROVE  Same
  BY <1>4 DEF Rename, UpdateReplica, UpdateReplicaOf, StatTarget, Locate,
              CancelLookup, CancelDelete
<1> HIDE DEF Goto, TypeOK, Same
<1>5. Same
  BY <1>1, <1>2, <1>3, <1>4
  DEF ClientCall, CallStep, HandlerCall, HandlerStep, DriverCall, DriverStep,
      PoolCall, PoolStep
<1> QED BY <1>5, DataFrame DEF Same

(* copyToHDFS opens the buffer of its own handler.                         *)
LEMMA DataCopyOpen ==
  ASSUME TypeOK, TempInv, BufferIsolated, DrawsKept, NEW t \in Transfers,
         DataOK(t), CopyOpenTemp(t)
  PROVE  DataOK(t)'
<1>1. /\ pc[t] = "writing" /\ ret[t] = "none" /\ hdata[t] = << >>
      /\ hopen[t] # "closed" /\ cbuf[t] = << >> /\ copyPos[t] = 0
  BY DEF CopyOpenTemp, At, DataOK, CopiedOK, TempInv, CopyOK, Copying
<1>2. /\ draw[t] # NoDraw /\ fdIno[t] # NoFile
  BY <1>1, DrawnInBuffering DEF TempInv, StageOK, Holding, Buffering
<1>3. UNCHANGED <<hdata, hopen, wrote, draw>>
  BY DEF CopyOpenTemp, storeVars
<1>4. CASE CopyDone(t, "error")
  BY <1>1, <1>2, <1>3, <1>4
  DEF CopyDone, Goto, TypeOK, PutsTypeOK, WriterTypeOK, DataOK, CopiedOK, Stored,
      BeforeOpen, Copying, InDestroy
<1>5. CASE from' = [from EXCEPT ![t] = tmpdir[TempPath(t)]] /\ Goto(t, "copying")
             /\ UNCHANGED <<copyPos, cbuf, ret>>
  <2>1. Apart(t)' => from'[t] = t
    BY <1>2, <1>5, ApartBefore, OpenBuffer DEF TypeOK, WriterTypeOK
  <2>2. hdata[t] \o cbuf[t] = SubSeq(wrote[t], 1, copyPos[t])
    <3>1. << >> \o << >> = SubSeq(wrote[t], 1, 0)
      BY DEF TypeOK, WriterTypeOK
    <3> QED BY <1>1, <3>1
  <2>3. pc'[t] = "copying"
    BY <1>5 DEF Goto, TypeOK, PutsTypeOK
  <2>4. hdata'[t] \o cbuf'[t] = SubSeq(wrote'[t], 1, copyPos'[t])
    BY <1>3, <1>5, <2>2
  <2>5. /\ ret'[t] = "none" /\ hopen'[t] # "closed" /\ cbuf'[t] = << >>
    BY <1>1, <1>3, <1>5
  <2> QED BY <2>1, <2>3, <2>4, <2>5
          DEF DataOK, CopiedOK, Stored, BeforeOpen, Copying, InDestroy
<1> QED BY <1>4, <1>5 DEF CopyOpenTemp

(* What copyToHDFS reads is what comes next in what the client wrote, and  *)
(* it ends where that ends.                                                *)
LEMMA DataCopyRead ==
  ASSUME TypeOK, TempInv, BufferIsolated, DrawsKept, NEW t \in Transfers,
         DataOK(t), CopyRead(t)
  PROVE  DataOK(t)'
<1>1. /\ pc[t] = "copying" /\ hopen[t] # "closed" /\ cbuf[t] = << >>
      /\ from[t] \in Transfers /\ copyPos[t] <= Len(tmpdata[from[t]])
      /\ Apart(t) => from[t] = t /\ ret[t] = "none"
      /\ Apart(t) => hdata[t] \o cbuf[t] = SubSeq(wrote[t], 1, copyPos[t])
  BY DEF CopyRead, At, DataOK, CopiedOK, TempInv, CopyOK, Copying, TypeOK, WriterTypeOK
<1>2. draw[t] # NoDraw /\ fdIno[t] # NoFile
  BY <1>1, DrawnInBuffering DEF TempInv, StageOK, Holding, Buffering, InClose
<1>3. Apart(t)' => Apart(t) /\ tmpdata[t] = wrote[t]
  BY <1>2, ApartBefore, OpenBuffer
<1>4. UNCHANGED <<hdata, hopen, wrote, draw>>
  BY DEF CopyRead, storeVars
<1>5. PICK c \in Seq(Data) :
        /\ c = Chunk(t)
        /\ copyPos[t] + Len(c) <= Len(tmpdata[from[t]])
        /\ c = SubSeq(tmpdata[from[t]], copyPos[t] + 1, copyPos[t] + Len(c))
        /\ c = << >> => copyPos[t] = Len(tmpdata[from[t]])
  <2>1. tmpdata[from[t]] \in Seq(Data) /\ copyPos[t] \in Nat
    BY <1>1 DEF TypeOK, TempStoreTypeOK, WriterTypeOK
  <2> QED BY <1>1, <2>1, ChunkType
<1>6. hdata[t] \in Seq(Data) /\ wrote[t] \in Seq(Data) /\ copyPos[t] \in Nat
  BY DEF TypeOK, StoreTypeOK, WriterTypeOK
<1>7. Apart(t) => hdata[t] = SubSeq(wrote[t], 1, copyPos[t])
  <2>1. hdata[t] \o << >> = hdata[t]
    BY <1>6
  <2> QED BY <1>1, <2>1
<1>8. ASSUME NEW r \in {"ok", "error"}, CopyDone(t, r), r = "ok" => Chunk(t) = << >>
      PROVE  DataOK(t)'
  <2>1. Apart(t)' /\ r = "ok" => hdata[t] = wrote[t]
    <3> SUFFICES ASSUME Apart(t)', r = "ok" PROVE hdata[t] = wrote[t]
      OBVIOUS
    <3>1. copyPos[t] = Len(wrote[t])
      BY <1>1, <1>3, <1>5, <1>8
    <3>2. SubSeq(wrote[t], 1, Len(wrote[t])) = wrote[t]
      BY <1>6
    <3> QED BY <1>3, <1>7, <3>1, <3>2
  <2>2. /\ pc'[t] = "closeHdfs" /\ ret'[t] = r /\ cbuf'[t] = << >>
        /\ draw'[t] # NoDraw /\ hopen'[t] # "closed"
        /\ hdata'[t] = hdata[t] /\ wrote'[t] = wrote[t]
    BY <1>1, <1>2, <1>4, <1>8 DEF CopyDone, Goto, TypeOK, PutsTypeOK, WriterTypeOK
  <2> QED BY <2>1, <2>2 DEF DataOK, CopiedOK, Stored, BeforeOpen, Copying, InDestroy
<1>9. CASE /\ cbuf' = [cbuf EXCEPT ![t] = Chunk(t)]
           /\ copyPos' = [copyPos EXCEPT ![t] = @ + Len(Chunk(t))]
           /\ Goto(t, "draining")
           /\ UNCHANGED <<from, ret>>
  <2>1. Apart(t)' => hdata[t] \o c = SubSeq(wrote[t], 1, copyPos[t] + Len(c))
    <3> SUFFICES ASSUME Apart(t)'
                 PROVE  hdata[t] \o c = SubSeq(wrote[t], 1, copyPos[t] + Len(c))
      OBVIOUS
    <3>1. /\ c = SubSeq(wrote[t], copyPos[t] + 1, copyPos[t] + Len(c))
          /\ copyPos[t] + Len(c) <= Len(wrote[t])
          /\ hdata[t] = SubSeq(wrote[t], 1, copyPos[t])
      BY <1>1, <1>3, <1>5, <1>7
    <3>2. ASSUME NEW s \in Seq(Data), NEW i \in Nat, NEW j \in Nat, i + j <= Len(s)
          PROVE  SubSeq(s, 1, i) \o SubSeq(s, i + 1, i + j) = SubSeq(s, 1, i + j)
      OBVIOUS
    <3>3. Len(c) \in Nat
      OBVIOUS
    <3> QED BY <1>6, <3>1, <3>2, <3>3
  <2>2. /\ pc'[t] = "draining" /\ ret'[t] = ret[t] /\ cbuf'[t] = c
        /\ copyPos'[t] = copyPos[t] + Len(c) /\ from'[t] = from[t]
        /\ draw'[t] # NoDraw /\ hopen'[t] # "closed"
        /\ hdata'[t] = hdata[t] /\ wrote'[t] = wrote[t]
    BY <1>1, <1>2, <1>4, <1>5, <1>9 DEF Goto, TypeOK, PutsTypeOK, WriterTypeOK
  <2> QED BY <1>1, <1>3, <2>1, <2>2
          DEF DataOK, CopiedOK, Stored, BeforeOpen, Copying, InDestroy
<1> QED BY <1>8, <1>9 DEF CopyRead

(* What hdfsWrite takes leaves the buffer and joins the file; a failed one *)
(* ends the copy with an error.                                            *)
LEMMA DataCopyWrite ==
  ASSUME TypeOK, TempInv, DrawsKept, NEW t \in Transfers, DataOK(t), CopyWrite(t)
  PROVE  DataOK(t)'
<1>1. /\ pc[t] = "draining" /\ hopen[t] # "closed"
      /\ hdata[t] \in Seq(Data) /\ cbuf[t] \in Seq(Data)
      /\ Apart(t) => from[t] = t /\ ret[t] = "none"
      /\ Apart(t) => hdata[t] \o cbuf[t] = SubSeq(wrote[t], 1, copyPos[t])
  BY DEF CopyWrite, At, DataOK, CopiedOK, Copying, TypeOK, StoreTypeOK, WriterTypeOK
<1>2. draw[t] # NoDraw
  BY <1>1, DrawnInBuffering DEF Buffering, InClose
<1>3. (Apart(t)' => Apart(t)) /\ draw'[t] # NoDraw
  BY <1>2, ApartBefore DEF DrawsKept
<1>4. CASE CopyDone(t, "error") /\ UNCHANGED storeVars
  <2>1. /\ pc'[t] = "closeHdfs" /\ ret'[t] = "error" /\ cbuf'[t] = << >>
        /\ hopen'[t] # "closed"
    BY <1>1, <1>4
    DEF CopyDone, Goto, storeVars, TypeOK, PutsTypeOK, WriterTypeOK
  <2> QED BY <1>3, <2>1 DEF DataOK, CopiedOK, Stored, BeforeOpen, Copying, InDestroy
<1>5. ASSUME NEW n \in 1 .. Len(cbuf[t]),
             HdfsAppend(t, SubSeq(cbuf[t], 1, n)),
             cbuf' = [cbuf EXCEPT ![t] = SubSeq(@, n + 1, Len(@))],
             Goto(t, IF Drained(t, n) THEN "copying" ELSE "draining"),
             UNCHANGED <<ns, hopen, from, copyPos, ret>>
      PROVE  DataOK(t)'
  <2>1. PICK a \in Seq(Data), b \in Seq(Data) :
          /\ a = SubSeq(cbuf[t], 1, n) /\ b = SubSeq(cbuf[t], n + 1, Len(cbuf[t]))
          /\ cbuf[t] = a \o b
          /\ n = Len(cbuf[t]) => b = << >>
    BY <1>1, PieceType
  <2>2. /\ hdata'[t] = hdata[t] \o a /\ cbuf'[t] = b /\ from'[t] = from[t]
        /\ copyPos'[t] = copyPos[t] /\ ret'[t] = ret[t] /\ hopen'[t] # "closed"
        /\ wrote'[t] = wrote[t]
    BY <1>1, <1>5, <2>1 DEF CopyWrite, HdfsAppend, TypeOK, StoreTypeOK, WriterTypeOK
  <2>3. pc'[t] \in Copying /\ (pc'[t] # "draining" => cbuf'[t] = << >>)
    BY <1>5, <2>1, <2>2 DEF Goto, Drained, Copying, TypeOK, PutsTypeOK
  <2>4. (hdata[t] \o a) \o b = hdata[t] \o cbuf[t]
    <3>1. hdata[t] \in Seq(Data)
      BY <1>1
    <3>2. ASSUME NEW x \in Seq(Data), NEW y \in Seq(Data), NEW z \in Seq(Data)
          PROVE  (x \o y) \o z = x \o (y \o z)
      OBVIOUS
    <3>3. (hdata[t] \o a) \o b = hdata[t] \o (a \o b)
      BY <3>1, <3>2
    <3>4. a \o b = cbuf[t]
      BY <2>1
    <3> QED BY <3>3, <3>4
  <2>5. Apart(t)' => hdata'[t] \o cbuf'[t] = SubSeq(wrote'[t], 1, copyPos'[t])
    BY <1>1, <1>3, <2>2, <2>4
  <2> QED BY <1>1, <1>3, <2>2, <2>3, <2>5
          DEF DataOK, CopiedOK, Stored, BeforeOpen, Copying, InDestroy
<1> QED BY <1>4, <1>5 DEF CopyWrite

(* A step of a transfer keeps what it has copied right.                    *)
LEMMA DataOwn ==
  ASSUME TypeOK, TempInv, BufferIsolated, DrawsKept, NEW t \in Transfers,
         DataOK(t), ClientCall(t) \/ CallStep(t) \/ Crash(t)
  PROVE  DataOK(t)'
<1> USE DEF putVars, storeVars, tempVars, handlerVars, copyVars, At
<1> DEFINE Moves(l) == /\ l \in Labels \ (Copying \cup {"closeHdfs"})
                       /\ pc[t] # "draining"
                       /\ l \in BeforeOpen \cup {"writing"}
                            => pc[t] \in BeforeOpen \cup {"writing"}
                       /\ l \in InDestroy => pc[t] \in {"writing"} \cup InDestroy
                       /\ Goto(t, l)
                       /\ UNCHANGED <<ret, hdata, hopen, cbuf, wrote>>
<1> USE DEF Labels, Copying, BeforeOpen, InDestroy, InCall, InLocate, InOpen,
            InClose, InDone, InCancel, BetweenCalls, Ended
<1>1. ASSUME NEW l, Moves(l)
      PROVE  DataOK(t)'
  <2> HIDE DEF Labels, Copying, BeforeOpen, InDestroy
  <2> QED BY <1>1, DataMove
<1>2. CASE OpenHdfs(t)
  <2>1. CASE /\ HdfsCreate(t, Upload(PathOf[t]))
             /\ Goto(t, "connected") \/ Goto(t, "failed")
    <3>1. /\ pc'[t] \in {"connected", "failed"} /\ hdata'[t] = << >> /\ hopen'[t] = "open"
          /\ ret'[t] = "none" /\ cbuf'[t] = << >>
      BY <1>2, <2>1 DEF OpenHdfs, HdfsCreate, DataOK, CopiedOK, Goto, TypeOK,
                        PutsTypeOK, StoreTypeOK
    <3> QED BY <3>1 DEF DataOK, CopiedOK, Stored
  <2>2. CASE Goto(t, "failed") /\ UNCHANGED storeVars
    <3>1. Moves("failed")
      BY <1>2, <2>2 DEF OpenHdfs
    <3> QED BY <1>1, <3>1
  <2> QED BY <1>2, <2>1, <2>2 DEF OpenHdfs
<1>3. CASE \/ StatTempFolder(t) \/ MakeTempFolder(t) \/ OpenTemp(t)
           \/ OpenTempFails(t) \/ CloseTemp(t) \/ Abandon(t) \/ DestroyTemp(t)
  <2>1. \E l \in {"hasFolder", "noFolder", "failed", "writing", "closed",
                  "destroyHdfs", "stored"} : Moves(l)
    BY <1>3 DEF StatTempFolder, MakeTempFolder, OpenTemp, OpenTempFails, CloseTemp,
                Abandon, DestroyTemp, Outcome
  <2> QED BY <1>1, <2>1
<1>4. CASE (DriverCall(t) \/ DriverStep(t) \/ PoolCall(t) \/ PoolStep(t))
             /\ UNCHANGED <<tempVars, handlerVars>>
  <2>1. \E l \in {"renamed", "failed", "done", "halfDone", "absent", "refused",
                  "located", "cancelDelete", "ended", "cancelled"} : Moves(l)
    BY <1>4 DEF DriverCall, DriverStep, PoolCall, PoolStep, Rename, UpdateReplica,
                UpdateReplicaOf, StatTarget, Locate, CancelLookup, CancelDelete
  <2> QED BY <1>1, <2>1
<1>5. ASSUME NEW b \in Blocks, Write(t, b)
      PROVE  DataOK(t)'
  BY <1>5 DEF Write, DataOK, CopiedOK, Stored
<1>6. ASSUME NEW off \in 0 .. MaxLen, Seek(t, off)
      PROVE  DataOK(t)'
  BY <1>6, DataFrame DEF Seek
<1>7. CASE CopyOpenTemp(t) \/ CopyRead(t) \/ CopyWrite(t)
  BY <1>7, DataCopyOpen, DataCopyRead, DataCopyWrite
<1>8. CASE CloseHdfs(t)
  <2>1. (Apart(t)' => Apart(t)) /\ draw'[t] # NoDraw
    BY <1>8, DrawnInBuffering, ApartBefore DEF CloseHdfs, Buffering, DrawsKept
  <2>2. /\ pc'[t] = "closeTemp" /\ UNCHANGED <<ret, cbuf, wrote>>
        /\ pc[t] = "closeHdfs" /\ hopen[t] # "closed"
    BY <1>8 DEF CloseHdfs, Goto, DataOK, CopiedOK, TypeOK, PutsTypeOK
  <2>3. hopen'[t] = "closed" => hdata'[t] = hdata[t]
    BY <1>8, <2>2 DEF CloseHdfs, HdfsCloseFile, HdfsCloses, HdfsCloseFails
  <2> QED BY <2>1, <2>2, <2>3 DEF DataOK, CopiedOK, Stored
<1>9. CASE DestroyHdfs(t)
  <2>1. /\ pc'[t] = "destroyTemp" /\ ret'[t] = "none" /\ cbuf'[t] = << >>
    BY <1>9 DEF DestroyHdfs, Goto, DataOK, CopiedOK, TypeOK, PutsTypeOK
  <2> QED BY <2>1 DEF DataOK, CopiedOK, Stored
<1>10. CASE Crash(t)
  <2>1. /\ pc'[t] = "crashed" /\ cbuf'[t] = << >>
        /\ UNCHANGED <<ret, hdata, hopen, wrote>>
    BY <1>10 DEF Crash, Goto, TypeOK, PutsTypeOK, WriterTypeOK
  <2>2. draw[t] # NoDraw => draw'[t] # NoDraw /\ (Apart(t)' => Apart(t))
    BY ApartBefore DEF DrawsKept
  <2> QED BY <2>1, <2>2 DEF DataOK, CopiedOK, Stored
<1> QED
  BY <1>2, <1>3, <1>4, <1>5, <1>6, <1>7, <1>8, <1>9, <1>10
  DEF ClientCall, CallStep, HandlerCall, HandlerStep

(* Every step keeps what all transfers have copied right.                  *)
LEMMA DataStep ==
  ASSUME TypeOK, TempInv, BufferIsolated, \A t \in Transfers : DataOK(t),
         [Next]_vars
  PROVE  \A t \in Transfers : DataOK(t)'
<1> SUFFICES ASSUME NEW t \in Transfers
             PROVE  DataOK(t)'
  OBVIOUS
<1>1. CASE UNCHANGED vars
  BY <1>1 DEF vars, putVars, storeVars, tempVars, handlerVars, DataOK, CopiedOK,
              Stored, Apart, SameBuffer
<1>2. CASE Next
  <2>1. DrawsKept
    BY <1>2, DrawsStep
  <2>2. ASSUME NEW u \in Transfers, ClientCall(u) \/ CallStep(u) \/ Crash(u)
        PROVE  DataOK(t)'
    BY <2>1, <2>2, DataOwn, DataOther
  <2>3. ASSUME NEW p \in Paths, UserUnlink(p)
        PROVE  DataOK(t)'
    BY <2>1, <2>3, DataFrame DEF UserUnlink, Unlink, putVars, handlerVars
  <2> QED BY <1>2, <2>2, <2>3 DEF Next
<1> QED BY <1>1, <1>2

-----------------------------------------------------------------------------
(* The theorems.                                                           *)

(* At the start nobody has a gateway, a number or a file.                  *)
LEMMA InitIInv == Init => IInv
<1> SUFFICES ASSUME Init PROVE IInv
  OBVIOUS
<1> USE DEF Init, PutsInit, StoreInit, TempStoreInit, WriterInit
<1>1. << >> \in Seq(Data) /\ << >> \o << >> = << >>
  OBVIOUS
<1>2. TypeOK
  BY <1>1 DEF TypeOK, PutsTypeOK, StoreTypeOK, TempStoreTypeOK, WriterTypeOK, Labels,
              BetweenCalls
<1>3. TempInv
  BY DEF TempInv, StageOK, RefsOK, RefOK, CopyOK, EntryOK, Unlocated, Located,
         BeforeOpen, Buffering, Holding, Copying, InClose, InDestroy
<1>4. BufferIsolated
  BY DEF BufferIsolated
<1>5. StoredAsWritten
  BY DEF StoredAsWritten
<1>6. \A t \in Transfers : CopiedOK(t)
  BY DEF CopiedOK, Copying, InDestroy
<1> QED BY <1>2, <1>3, <1>4, <1>5, <1>6 DEF IInv

(* Every step keeps the invariant.                                         *)
LEMMA StepIInv == IInv /\ [Next]_vars => IInv'
<1> SUFFICES ASSUME IInv, [Next]_vars PROVE IInv'
  OBVIOUS
<1>1. TypeOK' /\ BufferIsolated'
  BY TypeStep, BufferStep DEF IInv
<1>2. TempInv'
  <2>1. CASE UNCHANGED vars
    BY <2>1 DEF IInv, vars, putVars, tempVars, handlerVars, TempInv, StageOK, RefsOK,
                RefOK, CopyOK, EntryOK, TempPath
  <2> QED BY <2>1, TempStep DEF IInv
<1>3. \A t \in Transfers : DataOK(t)
  BY DEF IInv, DataOK, Stored, StoredAsWritten
<1>4. \A t \in Transfers : DataOK(t)'
  BY <1>3, DataStep DEF IInv
<1>5. StoredAsWritten' /\ (\A t \in Transfers : CopiedOK(t))'
  BY <1>4 DEF DataOK, Stored, StoredAsWritten
<1> QED BY <1>1, <1>2, <1>5 DEF IInv

(* The invariant holds throughout a PUT.                                   *)
THEOREM Invariance == Spec => []IInv
BY InitIInv, StepIInv, PTL DEF Spec

(* Whatever the transfers, the faults and the interleaving, the state of   *)
(* the writers, of HDFS and of the gateways' disks is well formed.         *)
THEOREM TypeCorrect == Spec => []TypeOK
<1>1. IInv => TypeOK
  BY DEF IInv
<1> QED BY Invariance, <1>1, PTL

(* A handler whose temp file name nobody else has drawn is the only one to *)
(* write its buffer: open() without O_EXCL is safe up to name collisions.  *)
THEOREM BuffersAreIsolated == Spec => []BufferIsolated
<1>1. IInv => BufferIsolated
  BY DEF IInv
<1> QED BY Invariance, <1>1, PTL

(* What copyToHDFS has copied and hdfsCloseFile completed is what the      *)
(* client wrote, for any buffer size, file length and partial writes.      *)
THEOREM CopyIsFaithful == Spec => []StoredAsWritten
<1>1. IInv => StoredAsWritten
  BY DEF IInv
<1> QED BY Invariance, <1>1, PTL
=============================================================================
