--------------------------- MODULE HdfsPublishProofs ---------------------------
(***************************************************************************)
(* Proofs about what a PUT publishes: a published file stays, is whole and *)
(* does not change; what fails is not seen, but a rename whose answer is   *)
(* lost; a torn file needs a rival; no temp file is left unowned; and a PUT is atomic for the readers.          *)
(***************************************************************************)
EXTENDS HdfsPutDataProofs

\* Where a transfer is whose file has its final name.
PublishedAt == {"renamed", "done", "crashed", "halfDone", "ended"}

UploadOf(t) == ns[Upload(PathOf[t])]
FinalOf(t)  == ns[Final(PathOf[t])]

\* A name in HDFS is one of the path its transfer stores.
NameOK(n) == ns[n] # NoFile => PathOf[ns[n]] = n[1]

\* What a transfer has in HDFS at each stage.
PubOK(t) ==
  /\ pc[t] \in {"idle", "absent", "located"} => UploadOf(t) # t /\ FinalOf(t) # t
  /\ ~ (UploadOf(t) = t /\ FinalOf(t) = t)
  /\ pc[t] = "stored" => ret[t] = "ok"
  /\ pc[t] \in {"closeTemp", "closed", "stored"} /\ UploadOf(t) = t
       => hopen[t] = "closed" \/ "hclose" \in Faults
  /\ FinalOf(t) = t /\ Sole(t)
       => /\ pc[t] \in PublishedAt /\ ret[t] = "ok"
          /\ hopen[t] = "closed" \/ "hclose" \in Faults

\* A temp file that has a name is wanted, or its process has died.
Wanted == {"writing", "crashed"} \cup InClose \cup InDestroy

PubInv == /\ IInv /\ TempFileOwned
          /\ \A n \in Names : NameOK(n)
          /\ \A t \in Transfers : PubOK(t)

-----------------------------------------------------------------------------
(* What the steps of a transfer do.                                        *)

Moves(t) == ClientCall(t) \/ CallStep(t) \/ Crash(t)

LEMMA NamesOf ==
  ASSUME NEW t \in Transfers
  PROVE  /\ Upload(PathOf[t]) \in Names /\ Final(PathOf[t]) \in Names
         /\ \A p, q \in Paths : /\ Upload(p) # Final(q)
                                /\ Upload(p) = Upload(q) => p = q
                                /\ Final(p) = Final(q) => p = q
  BY PathOfAssumption DEF Upload, Final, Names

\* A transfer's step leaves what belongs to the others alone.
LEMMA MovesOwn ==
  ASSUME TypeOK, NEW t \in Transfers, Moves(t), NEW u \in Transfers \ {t}
  PROVE  pc'[u] = pc[u] /\ ret'[u] = ret[u] /\ hopen'[u] = hopen[u] /\ hdata'[u] = hdata[u]
  <1> USE DEF TypeOK, PutsTypeOK, StoreTypeOK, WriterTypeOK, At, Goto, putVars,
              storeVars, tempVars, handlerVars, copyVars
  <1>1. CASE OpenHdfs(t)
    BY <1>1 DEF OpenHdfs, HdfsCreate
  <1>2. CASE \/ StatTempFolder(t) \/ MakeTempFolder(t) \/ OpenTemp(t) \/ OpenTempFails(t)
             \/ Abandon(t)
    BY <1>2 DEF StatTempFolder, MakeTempFolder, OpenTemp, OpenTempFails, Abandon
  <1>3. CASE (\E b \in Blocks : Write(t, b)) \/ (\E off \in 0 .. MaxLen : Seek(t, off))
    BY <1>3 DEF Write, Seek
  <1>4. CASE CopyOpenTemp(t) \/ CopyRead(t)
    BY <1>4 DEF CopyOpenTemp, CopyRead, CopyDone
  <1>5. CASE CopyWrite(t)
    BY <1>5 DEF CopyWrite, CopyDone, HdfsAppend
  <1>6. CASE CloseHdfs(t) \/ DestroyHdfs(t)
    BY <1>6 DEF CloseHdfs, DestroyHdfs, HdfsCloseFile, HdfsCloses, HdfsCloseFails
  <1>7. CASE CloseTemp(t) \/ DestroyTemp(t) \/ Crash(t)
    BY <1>7 DEF CloseTemp, DestroyTemp, Crash, DropTemp, CloseFd
  <1>8. CASE (\/ Rename(t) \/ UpdateReplica(t) \/ StatTarget(t) \/ Locate(t)
              \/ CancelLookup(t) \/ CancelDelete(t)) /\ UNCHANGED handlerVars
    BY <1>8 DEF Rename, UpdateReplica, UpdateReplicaOf, StatTarget, Locate,
                CancelLookup, CancelDelete
  <1> QED BY <1>1, <1>2, <1>3, <1>4, <1>5, <1>6, <1>7, <1>8
          DEF Moves, ClientCall, CallStep, HandlerCall, HandlerStep, DriverCall,
              DriverStep, PoolCall, PoolStep

\* The three ways a transfer's step changes the names in HDFS.
Creates(t) == /\ pc[t] = "located" /\ pc'[t] \in {"connected", "failed"}
              /\ ns' = [ns EXCEPT ![Upload(PathOf[t])] = t]
Renames(t) == /\ pc[t] = "stored" /\ pc'[t] \in {"renamed", "halfDone"}
              /\ UploadOf(t) # NoFile /\ FinalOf(t) = NoFile
              /\ ns' = [ns EXCEPT ![Final(PathOf[t])] = UploadOf(t),
                                  ![Upload(PathOf[t])] = NoFile]
              /\ UNCHANGED <<ret, hopen>>
Deletes(t) == /\ pc[t] = "cancelDelete" /\ pc'[t] = "cancelled"
              /\ ns' = [ns EXCEPT ![Upload(PathOf[t])] = NoFile]
              /\ UNCHANGED <<ret, hopen>>

\* What other steps do, as far as it matters for what is published.
Works(t) ==
  /\ UNCHANGED ns
  /\ pc'[t] \in {"idle", "absent", "located"} => pc[t] \in {"idle", "absent", "located"}
  /\ pc'[t] = "stored" => pc[t] \in {"closed", "destroyTemp"} /\ ret'[t] = "ok" /\ ret[t] = "ok"
  /\ pc'[t] \in {"closeTemp", "closed", "stored"}
       => \/ pc[t] = "destroyTemp" /\ pc'[t] = "stored"
          \/ pc[t] \in {"closeTemp", "closed"} /\ hopen'[t] = hopen[t]
          \/ pc[t] = "closeHdfs" /\ (hopen'[t] = "closed" \/ "hclose" \in Faults \/ ~ Linked(t))
  /\ pc[t] \in PublishedAt
       => /\ ret'[t] = ret[t] /\ hopen'[t] = hopen[t] /\ hdata'[t] = hdata[t]
          /\ \/ pc'[t] \in PublishedAt
             \/ pc'[t] = "cancelDelete" /\ UploadOf(t) # NoFile

LEMMA MovesHow ==
  ASSUME TypeOK, NEW t \in Transfers, Moves(t)
  PROVE  Creates(t) \/ Renames(t) \/ Deletes(t) \/ Works(t)
  <1> USE DEF TypeOK, PutsTypeOK, StoreTypeOK, WriterTypeOK, At, Goto, putVars,
              storeVars, tempVars, handlerVars, copyVars, UploadOf, FinalOf
  <1>1. CASE OpenHdfs(t)
    BY <1>1 DEF OpenHdfs, HdfsCreate, Creates, Works, PublishedAt
  <1>2. CASE \/ StatTempFolder(t) \/ MakeTempFolder(t) \/ OpenTemp(t) \/ OpenTempFails(t)
             \/ Abandon(t)
    BY <1>2 DEF StatTempFolder, MakeTempFolder, OpenTemp, OpenTempFails, Abandon, Works,
                PublishedAt
  <1>3. CASE (\E b \in Blocks : Write(t, b)) \/ (\E off \in 0 .. MaxLen : Seek(t, off))
    BY <1>3 DEF Write, Seek, Works, PublishedAt
  <1>4. CASE CopyOpenTemp(t) \/ CopyRead(t)
    BY <1>4 DEF CopyOpenTemp, CopyRead, CopyDone, Works, PublishedAt
  <1>5. CASE CopyWrite(t)
    BY <1>5 DEF CopyWrite, CopyDone, HdfsAppend, Works, PublishedAt
  <1>6. CASE CloseHdfs(t)
    BY <1>6 DEF CloseHdfs, HdfsCloseFile, HdfsCloses, HdfsCloseFails, Works, PublishedAt
  <1>7. CASE DestroyHdfs(t)
    BY <1>7 DEF DestroyHdfs, HdfsCloseFile, HdfsCloses, HdfsCloseFails, Works, PublishedAt
  <1>8. CASE CloseTemp(t) \/ DestroyTemp(t)
    BY <1>8 DEF CloseTemp, DestroyTemp, DropTemp, CloseFd, Outcome, Works, PublishedAt
  <1>9. CASE Crash(t)
    BY <1>9 DEF Crash, Works, PublishedAt, Ended
  <1>10. CASE Rename(t) /\ UNCHANGED handlerVars
    BY <1>10 DEF Rename, HdfsCanRename, HdfsRename, HdfsExists, Renames, Works, PublishedAt
  <1>11. CASE UpdateReplica(t) /\ UNCHANGED handlerVars
    BY <1>11 DEF UpdateReplica, UpdateReplicaOf, HdfsExists, Works, PublishedAt
  <1>12. CASE (StatTarget(t) \/ Locate(t)) /\ UNCHANGED handlerVars
    BY <1>12 DEF StatTarget, Locate, Works, PublishedAt
  <1>13. CASE CancelLookup(t) /\ UNCHANGED handlerVars
    BY <1>13 DEF CancelLookup, HdfsExists, Works, PublishedAt
  <1>14. CASE CancelDelete(t) /\ UNCHANGED handlerVars
    BY <1>14 DEF CancelDelete, HdfsDelete, ReplicaRfn, Deletes, Works, PublishedAt
  <1> QED BY <1>1, <1>2, <1>3, <1>4, <1>5, <1>6, <1>7, <1>8, <1>9, <1>10, <1>11, <1>12,
             <1>13, <1>14
          DEF Moves, ClientCall, CallStep, HandlerCall, HandlerStep, DriverCall,
              DriverStep, PoolCall, PoolStep

-----------------------------------------------------------------------------
(* The names in HDFS.                                                      *)

\* What a transfer's step does to the names of a path.
LEMMA NamesAfter ==
  ASSUME TypeOK, NEW t \in Transfers, NEW u \in Transfers
  PROVE  /\ Creates(t) => /\ FinalOf(u)' = FinalOf(u)
                          /\ UploadOf(u)' = IF PathOf[u] = PathOf[t] THEN t ELSE UploadOf(u)
         /\ Renames(t) => /\ FinalOf(u)' = IF PathOf[u] = PathOf[t] THEN UploadOf(u)
                                            ELSE FinalOf(u)
                          /\ UploadOf(u)' = IF PathOf[u] = PathOf[t] THEN NoFile
                                            ELSE UploadOf(u)
         /\ Deletes(t) => /\ FinalOf(u)' = FinalOf(u)
                          /\ UploadOf(u)' = IF PathOf[u] = PathOf[t] THEN NoFile
                                            ELSE UploadOf(u)
  <1> USE NamesOf, PathOfAssumption
          DEF TypeOK, StoreTypeOK, UploadOf, FinalOf
  <1>1. ns \in [Names -> Transfers \cup {NoFile}] /\ PathOf[t] \in Paths /\ PathOf[u] \in Paths
    OBVIOUS
  <1>2. CASE Creates(t)
    BY <1>1, <1>2 DEF Creates, Renames, Deletes
  <1>3. CASE Renames(t)
    BY <1>1, <1>3 DEF Creates, Renames, Deletes
  <1>4. CASE Deletes(t)
    BY <1>1, <1>4 DEF Creates, Renames, Deletes
  <1> QED BY <1>2, <1>3, <1>4

LEMMA NameStep ==
  ASSUME TypeOK, \A n \in Names : NameOK(n), [Next]_vars
  PROVE  \A n \in Names : NameOK(n)'
  <1> USE PathOfAssumption DEF TypeOK, StoreTypeOK, NameOK
  <1>1. CASE UNCHANGED ns
    BY <1>1
  <1>2. ASSUME NEW t \in Transfers, Moves(t) PROVE \A n \in Names : NameOK(n)'
    <2> DEFINE up == Upload(PathOf[t])
               fn == Final(PathOf[t])
    <2>1. up \in Names /\ fn \in Names /\ up[1] = PathOf[t] /\ fn[1] = PathOf[t]
      BY NamesOf DEF Upload, Final
    <2> HIDE DEF up, fn
    <2>2. CASE Creates(t)
      <3>1. ns' = [ns EXCEPT ![up] = t]
        BY <2>2 DEF Creates, up
      <3> QED BY <2>1, <3>1, NoFileAssumption
    <2>3. CASE Renames(t)
      <3>1. ns' = [ns EXCEPT ![fn] = ns[up], ![up] = NoFile]
        BY <2>3 DEF Renames, up, fn, UploadOf
      <3> QED BY <2>1, <3>1
    <2>4. CASE Deletes(t)
      <3>1. ns' = [ns EXCEPT ![up] = NoFile]
        BY <2>4 DEF Deletes, up
      <3> QED BY <2>1, <3>1
    <2> QED BY <1>1, <1>2, <2>2, <2>3, <2>4, MovesHow DEF Works
  <1>3. ASSUME NEW p \in Paths, UserUnlink(p) PROVE \A n \in Names : NameOK(n)'
    BY <1>3 DEF UserUnlink, Unlink, HdfsDelete
  <1> QED BY <1>1, <1>2, <1>3 DEF Next, Moves, vars, storeVars

\* With one writer of the path, its names are bound to that writer's file.
LEMMA SoleNames ==
  ASSUME TypeOK, \A n \in Names : NameOK(n), NEW t \in Transfers, Sole(t)
  PROVE  UploadOf(t) \in {t, NoFile} /\ FinalOf(t) \in {t, NoFile}
  <1>1. /\ Upload(PathOf[t]) \in Names /\ Final(PathOf[t]) \in Names
        /\ Upload(PathOf[t])[1] = PathOf[t] /\ Final(PathOf[t])[1] = PathOf[t]
    BY NamesOf DEF Upload, Final
  <1>2. UploadOf(t) \in Transfers \cup {NoFile} /\ FinalOf(t) \in Transfers \cup {NoFile}
    BY <1>1 DEF TypeOK, StoreTypeOK, UploadOf, FinalOf
  <1>3. /\ UploadOf(t) # NoFile => PathOf[UploadOf(t)] = PathOf[t]
        /\ FinalOf(t) # NoFile => PathOf[FinalOf(t)] = PathOf[t]
    BY <1>1 DEF NameOK, UploadOf, FinalOf
  <1> QED BY <1>2, <1>3 DEF Sole

-----------------------------------------------------------------------------
(* PubOK, of the transfer that moves and of the others.                    *)

LEMMA PubOwn ==
  ASSUME IInv, \A n \in Names : NameOK(n), NEW t \in Transfers, PubOK(t), Moves(t)
  PROVE  PubOK(t)'
  <1>0. TypeOK /\ (Sole(t)' <=> Sole(t))
    BY DEF IInv, Sole
  <1>1. Sole(t) => UploadOf(t) \in {t, NoFile} /\ FinalOf(t) \in {t, NoFile}
    BY <1>0, SoleNames
  <1>2. t # NoFile
    BY NoFileAssumption
  <1>3. CASE Creates(t)
    <2>1. FinalOf(t)' = FinalOf(t) /\ UploadOf(t)' = t
      BY <1>0, <1>3, NamesAfter
    <2>2. pc[t] = "located" /\ pc'[t] \in {"connected", "failed"}
      BY <1>3 DEF Creates
    <2> QED BY <2>1, <2>2 DEF PubOK
  <1>4. CASE Renames(t)
    <2>1. FinalOf(t)' = UploadOf(t) /\ UploadOf(t)' = NoFile
      BY <1>0, <1>4, NamesAfter
    <2>2. /\ pc[t] = "stored" /\ pc'[t] \in {"renamed", "halfDone"}
          /\ ret'[t] = ret[t] /\ hopen'[t] = hopen[t]
      BY <1>4 DEF Renames
    <2> QED BY <1>0, <1>2, <2>1, <2>2 DEF PubOK, PublishedAt
  <1>5. CASE Deletes(t)
    <2>1. FinalOf(t)' = FinalOf(t) /\ UploadOf(t)' = NoFile
      BY <1>0, <1>5, NamesAfter
    <2>2. pc[t] = "cancelDelete" /\ pc'[t] = "cancelled"
      BY <1>5 DEF Deletes
    <2>3. Sole(t) => FinalOf(t) # t
      BY <2>2 DEF PubOK, PublishedAt
    <2> QED BY <1>0, <1>2, <2>1, <2>2, <2>3 DEF PubOK
  <1>6. CASE Works(t)
    <2>1. FinalOf(t)' = FinalOf(t) /\ UploadOf(t)' = UploadOf(t)
      BY <1>6 DEF Works, UploadOf, FinalOf
    <2>2. /\ pc'[t] \in {"idle", "absent", "located"} => pc[t] \in {"idle", "absent", "located"}
          /\ pc'[t] = "stored" => ret'[t] = "ok"
      BY <1>6 DEF Works
    <2>3. pc[t] = "destroyTemp" => ret[t] = "none"
      BY DEF IInv, CopiedOK, InDestroy
    <2>4. pc'[t] \in {"closeTemp", "closed", "stored"} /\ UploadOf(t) = t
             => hopen'[t] = "closed" \/ "hclose" \in Faults
      <3> SUFFICES ASSUME pc'[t] \in {"closeTemp", "closed", "stored"}, UploadOf(t) = t
                   PROVE  hopen'[t] = "closed" \/ "hclose" \in Faults
        OBVIOUS
      <3>1. Linked(t)
        BY NamesOf DEF Linked, UploadOf
      <3>2. CASE pc[t] = "destroyTemp"
        BY <1>6, <2>3, <3>2 DEF Works, PublishedAt
      <3>3. CASE pc[t] \in {"closeTemp", "closed"} /\ hopen'[t] = hopen[t]
        BY <3>3 DEF PubOK
      <3> QED BY <1>6, <3>1, <3>2, <3>3 DEF Works
    <2>5. FinalOf(t) = t /\ Sole(t)
            => /\ pc'[t] \in PublishedAt /\ ret'[t] = "ok"
               /\ hopen'[t] = "closed" \/ "hclose" \in Faults
      <3> SUFFICES ASSUME FinalOf(t) = t, Sole(t)
                   PROVE  /\ pc'[t] \in PublishedAt /\ ret'[t] = "ok"
                          /\ hopen'[t] = "closed" \/ "hclose" \in Faults
        OBVIOUS
      <3>1. /\ pc[t] \in PublishedAt /\ ret[t] = "ok"
            /\ hopen[t] = "closed" \/ "hclose" \in Faults
            /\ UploadOf(t) # t
        BY DEF PubOK
      <3>2. UploadOf(t) = NoFile
        BY <1>1, <3>1
      <3> QED BY <1>2, <1>6, <3>1, <3>2 DEF Works
    <2> QED BY <1>0, <2>1, <2>2, <2>4, <2>5 DEF PubOK
  <1> QED BY <1>0, <1>3, <1>4, <1>5, <1>6, MovesHow

LEMMA PubOther ==
  ASSUME IInv, \A n \in Names : NameOK(n), NEW t \in Transfers, Moves(t),
         NEW u \in Transfers \ {t}, PubOK(u)
  PROVE  PubOK(u)'
  <1>0. TypeOK /\ (Sole(u)' <=> Sole(u)) /\ u # NoFile
    BY NoFileAssumption DEF IInv, Sole
  <1>1. pc'[u] = pc[u] /\ ret'[u] = ret[u] /\ hopen'[u] = hopen[u]
    BY <1>0, MovesOwn
  <1>2. Sole(u) => PathOf[t] # PathOf[u]
    BY DEF Sole
  <1>3. CASE Creates(t)
    BY <1>0, <1>1, <1>2, <1>3, NamesAfter DEF PubOK
  <1>4. CASE Renames(t)
    BY <1>0, <1>1, <1>2, <1>4, NamesAfter DEF PubOK
  <1>5. CASE Deletes(t)
    BY <1>0, <1>1, <1>2, <1>5, NamesAfter DEF PubOK
  <1>6. CASE Works(t)
    <2>1. FinalOf(u)' = FinalOf(u) /\ UploadOf(u)' = UploadOf(u)
      BY <1>6 DEF Works, UploadOf, FinalOf
    <2> QED BY <1>0, <1>1, <2>1 DEF PubOK
  <1> QED BY <1>0, <1>3, <1>4, <1>5, <1>6, MovesHow

LEMMA PubUnlink ==
  ASSUME IInv, NEW p \in Paths, UserUnlink(p), NEW u \in Transfers, PubOK(u)
  PROVE  PubOK(u)'
  <1>1. /\ UNCHANGED <<pc, ret, hopen>>
        /\ ns' = [ns EXCEPT ![Final(p)] = NoFile]
    BY DEF UserUnlink, Unlink, HdfsDelete, putVars, handlerVars
  <1>2. UploadOf(u)' = UploadOf(u) /\ FinalOf(u)' \in {FinalOf(u), NoFile}
    BY <1>1, NamesOf, PathOfAssumption DEF UploadOf, FinalOf, IInv, TypeOK, StoreTypeOK
  <1> QED BY <1>1, <1>2, NoFileAssumption DEF PubOK, Sole

-----------------------------------------------------------------------------
(* The temp files.                                                         *)

\* Who has no longer its temp file has removed its name.
LEMMA TempFileStep ==
  ASSUME IInv, TempFileOwned, [Next]_vars
  PROVE  TempFileOwned'
  <1> USE DEF Wanted, InClose, InDestroy, At, Goto
  <1>0. /\ tmpdir \in [Gateways \X TempNames -> Transfers \cup {NoFile}]
        /\ pc \in [Transfers -> Labels]
        /\ \A e \in Gateways \X TempNames : tmpdir[e] # NoFile => pc[tmpdir[e]] \in Wanted
    BY DEF IInv, TypeOK, TempStoreTypeOK, PutsTypeOK, TempFileOwned
  <1>t. TypeOK' => DOMAIN tmpdir' = Gateways \X TempNames
    BY DEF TypeOK, TempStoreTypeOK
  <1>d. DOMAIN tmpdir' = Gateways \X TempNames
    BY <1>t, StepIInv DEF IInv
  <1> SUFFICES ASSUME NEW e \in Gateways \X TempNames, tmpdir'[e] # NoFile
               PROVE  pc'[tmpdir'[e]] \in Wanted
    BY <1>d DEF TempFileOwned
  <1>1. CASE UNCHANGED <<tmpdir, pc>>
    BY <1>0, <1>1
  <1>2. ASSUME NEW t \in Transfers, UNCHANGED tmpdir,
               \E l \in Labels : Goto(t, l) /\ (pc[t] \in Wanted => l \in Wanted)
        PROVE  pc'[tmpdir'[e]] \in Wanted
    BY <1>0, <1>2
  <1>3. ASSUME NEW t \in Transfers, OpenTemp(t)
        PROVE  pc'[tmpdir'[e]] \in Wanted
    <2>1. PICK r \in Draws :
            tmpdir' = [tmpdir EXCEPT ![<<gw[t], TempName(r, PathOf[t])>>] =
                         OpenedAt(t, <<gw[t], TempName(r, PathOf[t])>>)]
      BY <1>3 DEF OpenTemp
    <2>2. tmpdir'[e] = tmpdir[e] \/ tmpdir'[e] = t
      BY <1>0, <2>1 DEF OpenedAt
    <2>3. pc' = [pc EXCEPT ![t] = "writing"]
      BY <1>3 DEF OpenTemp
    <2> QED BY <1>0, <2>2, <2>3
  <1>4. ASSUME NEW t \in Transfers, CloseTemp(t) \/ DestroyTemp(t)
        PROVE  pc'[tmpdir'[e]] \in Wanted
    <2>1. tmpdir' = [tmpdir EXCEPT ![TempPath(t)] = NoFile]
      BY <1>4 DEF CloseTemp, DestroyTemp, DropTemp, RemoveTemp
    <2>2. \A u \in Transfers \ {t} : pc'[u] = pc[u]
      BY <1>0, <1>4 DEF CloseTemp, DestroyTemp
    <2>3. tmpdir'[e] = tmpdir[e] /\ e # TempPath(t)
      BY <1>0, <2>1
    <2>4. tmpdir[e] \in Transfers /\ TempPath(tmpdir[e]) = e
      BY <1>0, <2>3 DEF IInv, TempInv, EntryOK
    <2> QED BY <1>0, <2>2, <2>3, <2>4
  <1>5. ASSUME NEW t \in Transfers,
               \/ OpenHdfs(t) \/ StatTempFolder(t) \/ MakeTempFolder(t) \/ OpenTempFails(t)
               \/ CopyOpenTemp(t) \/ CopyRead(t) \/ CopyWrite(t) \/ CloseHdfs(t)
               \/ Abandon(t) \/ DestroyHdfs(t) \/ Crash(t)
        PROVE  pc'[tmpdir'[e]] \in Wanted
    <2>1. UNCHANGED tmpdir
      BY <1>5 DEF OpenHdfs, StatTempFolder, MakeTempFolder, OpenTempFails, CopyOpenTemp,
                  CopyRead, CopyWrite, CloseHdfs, Abandon, DestroyHdfs, Crash, tempVars
    <2>2. \A u \in Transfers \ {t} : pc'[u] = pc[u]
      BY <1>0, <1>5 DEF OpenHdfs, StatTempFolder, MakeTempFolder, OpenTempFails, CopyOpenTemp,
                  CopyRead, CopyWrite, CloseHdfs, Abandon, DestroyHdfs, Crash, CopyDone
    <2>3. pc[t] \in Wanted => pc'[t] \in Wanted
      BY <1>0, <1>5 DEF OpenHdfs, StatTempFolder, MakeTempFolder, OpenTempFails, CopyOpenTemp,
                  CopyRead, CopyWrite, CloseHdfs, Abandon, DestroyHdfs, Crash, CopyDone
    <2> QED BY <1>0, <2>1, <2>2, <2>3
  <1>6. ASSUME NEW t \in Transfers, UNCHANGED tempVars,
               \/ Rename(t) \/ UpdateReplica(t) \/ StatTarget(t) \/ Locate(t)
               \/ CancelLookup(t) \/ CancelDelete(t)
        PROVE  pc'[tmpdir'[e]] \in Wanted
    <2>1. pc[t] \notin Wanted /\ \A u \in Transfers \ {t} : pc'[u] = pc[u]
      BY <1>0, <1>6 DEF Rename, UpdateReplica, UpdateReplicaOf, StatTarget, Locate,
                        CancelLookup, CancelDelete
    <2> QED BY <1>0, <1>6, <2>1 DEF tempVars
  <1>7. ASSUME NEW t \in Transfers,
               (\E b \in Blocks : Write(t, b)) \/ (\E off \in 0 .. MaxLen : Seek(t, off))
        PROVE  pc'[tmpdir'[e]] \in Wanted
    BY <1>1, <1>7 DEF Write, Seek, putVars, tempVars
  <1>8. ASSUME NEW p \in Paths, UserUnlink(p) PROVE pc'[tmpdir'[e]] \in Wanted
    BY <1>1, <1>8 DEF UserUnlink, Unlink, putVars, tempVars
  <1>9. CASE UNCHANGED vars
    BY <1>1, <1>9 DEF vars, putVars, tempVars
  <1> QED BY <1>3, <1>4, <1>5, <1>6, <1>7, <1>8, <1>9
          DEF Next, ClientCall, CallStep, HandlerCall, HandlerStep, DriverCall, DriverStep,
              PoolCall, PoolStep

-----------------------------------------------------------------------------
LEMMA PubInit == Init => PubInv
  <1> SUFFICES ASSUME Init PROVE PubInv
    OBVIOUS
  <1>1. IInv
    BY InitIInv
  <1>2. TempFileOwned
    BY DEF Init, TempStoreInit, TempFileOwned
  <1>3. /\ \A n \in Names : ns[n] = NoFile
        /\ \A t \in Transfers : pc[t] = "idle" /\ t # NoFile
    BY NoFileAssumption DEF Init, PutsInit, StoreInit
  <1>4. \A t \in Transfers : UploadOf(t) = NoFile /\ FinalOf(t) = NoFile
    BY <1>3, NamesOf DEF UploadOf, FinalOf
  <1> QED BY <1>1, <1>2, <1>3, <1>4 DEF PubInv, NameOK, PubOK

LEMMA PubStep == PubInv /\ [Next]_vars => PubInv'
  <1> SUFFICES ASSUME PubInv, [Next]_vars PROVE PubInv'
    OBVIOUS
  <1>1. IInv' /\ TempFileOwned' /\ \A n \in Names : NameOK(n)'
    BY StepIInv, TempFileStep, NameStep DEF PubInv, IInv
  <1>2. ASSUME NEW u \in Transfers PROVE PubOK(u)'
    <2>1. ASSUME NEW t \in Transfers, Moves(t) PROVE PubOK(u)'
      BY <2>1, PubOwn, PubOther DEF PubInv
    <2>2. ASSUME NEW p \in Paths, UserUnlink(p) PROVE PubOK(u)'
      BY <2>2, PubUnlink DEF PubInv
    <2>3. CASE UNCHANGED vars
      BY <2>3 DEF vars, putVars, storeVars, handlerVars, PubInv, PubOK, UploadOf, FinalOf, Sole
    <2> QED BY <2>1, <2>2, <2>3 DEF Next, Moves
  <1> QED BY <1>1, <1>2 DEF PubInv

(* The inductive invariant of what a PUT publishes.                        *)
THEOREM PubInvariance == Spec => []PubInv
  BY PubInit, PubStep, PTL DEF Spec

(* No temp file is left behind but by a process that has died.             *)
THEOREM TempFilesAreOwned == Spec => []TempFileOwned
  <1>1. PubInv => TempFileOwned
    BY DEF PubInv
  <1> QED BY <1>1, PubInvariance, PTL

(* When hdfsCloseFile does not fail, what is published is whole.           *)
THEOREM PublishedIsComplete ==
  ASSUME "hclose" \notin Faults
  PROVE  Spec => []PublishedComplete
  <1>1. PubInv => PublishedComplete
    BY DEF PubInv, PubOK, IInv, StoredAsWritten, PublishedComplete, FinalOf
  <1> QED BY <1>1, PubInvariance, PTL

(* Whatever fails, and whatever answer is lost, a failing PUT publishes in *)
(* its doneWriting only, and leaves nothing for cancelWrite then.          *)
THEOREM FailuresAreInvisible == Spec => []FailedPutInvisible
  <1>1. PubInv => FailedPutInvisible
    BY DEF PubInv, PubOK, FailedPutInvisible, UploadOf, FinalOf, PublishedAt
  <1> QED BY <1>1, PubInvariance, PTL

\* A file that has no name gets none, but when it is made.
LEMMA LinkedAfter ==
  ASSUME PubInv, NEW t \in Transfers, Moves(t), NEW u \in Transfers, Linked(u)'
  PROVE  Linked(u) \/ (u = t /\ Creates(t))
  <1> DEFINE up == Upload(PathOf[t])
             fn == Final(PathOf[t])
  <1>1. ns \in [Names -> Transfers \cup {NoFile}] /\ u # NoFile /\ up \in Names /\ fn \in Names
    BY NamesOf, NoFileAssumption DEF PubInv, IInv, TypeOK, StoreTypeOK
  <1> HIDE DEF up, fn
  <1>2. PICK n \in Names : ns'[n] = u
    BY DEF Linked
  <1>3. CASE Creates(t)
    <2>1. ns' = [ns EXCEPT ![up] = t]
      BY <1>3 DEF Creates, up
    <2> QED BY <1>1, <1>2, <1>3, <2>1 DEF Linked
  <1>4. CASE Renames(t)
    <2>1. ns' = [ns EXCEPT ![fn] = ns[up], ![up] = NoFile]
      BY <1>4 DEF Renames, up, fn, UploadOf
    <2> QED BY <1>1, <1>2, <2>1 DEF Linked
  <1>5. CASE Deletes(t)
    <2>1. ns' = [ns EXCEPT ![up] = NoFile]
      BY <1>5 DEF Deletes, up
    <2> QED BY <1>1, <1>2, <2>1 DEF Linked
  <1>6. CASE Works(t)
    BY <1>2, <1>6 DEF Works, Linked
  <1> QED BY <1>3, <1>4, <1>5, <1>6, MovesHow DEF PubInv, IInv

\* A copy that has come to its end without error stays so.
LEMMA OkStays ==
  ASSUME PubInv, [Next]_vars, NEW u \in Transfers, ret[u] = "ok"
  PROVE  ret'[u] = "ok"
  <1>0. TypeOK /\ pc[u] \notin {"writing"} \cup Copying
    BY DEF PubInv, IInv, CopiedOK
  <1>1. ASSUME NEW t \in Transfers \ {u}, Moves(t) PROVE ret'[u] = "ok"
    BY <1>0, <1>1, MovesOwn
  <1>2. CASE Moves(u)
    BY <1>0, <1>2
       DEF Moves, ClientCall, CallStep, HandlerCall, HandlerStep, DriverCall, DriverStep,
           PoolCall, PoolStep, OpenHdfs, StatTempFolder, MakeTempFolder, OpenTemp,
           OpenTempFails, Write, Seek, Abandon, CopyOpenTemp, CopyRead, CopyWrite, CloseHdfs,
           DestroyHdfs, CloseTemp, DestroyTemp, Crash, handlerVars, At, Copying
  <1>3. ASSUME NEW p \in Paths, UserUnlink(p) PROVE ret'[u] = "ok"
    BY <1>3 DEF UserUnlink, handlerVars
  <1>4. CASE UNCHANGED vars
    BY <1>4 DEF vars, handlerVars
  <1> QED BY <1>1, <1>2, <1>3, <1>4 DEF Next, Moves

\* One who has renamed another's upload has no file of its own in HDFS.
LEMMA RivalUnlinked ==
  ASSUME PubInv, NEW u \in Transfers, Moves(u), Renames(u), UploadOf(u) # u
  PROVE  ret[u] = "ok" /\ ~ Linked(u)
  <1>1. pc[u] = "stored" /\ FinalOf(u) = NoFile
    BY DEF Renames
  <1>2. ASSUME NEW n \in Names, ns[n] = u PROVE FALSE
    <2>1. n[1] = PathOf[u] /\ u # NoFile
      BY <1>2, NoFileAssumption DEF PubInv, NameOK
    <2>2. n = Upload(PathOf[u]) \/ n = Final(PathOf[u])
      BY <2>1 DEF Names, Upload, Final
    <2> QED BY <1>1, <1>2, <2>1, <2>2 DEF UploadOf, FinalOf
  <1> QED BY <1>1, <1>2 DEF PubInv, PubOK, Linked

\* A torn file has a rival that has lost its own.
HasRival(t) == \E u \in Transfers \ {t} :
                 PathOf[u] = PathOf[t] /\ ret[u] = "ok" /\ ~ Linked(u)
Torn(t)     == FinalOf(t) = t /\ ret[t] # "ok"

LEMMA RivalStays ==
  ASSUME PubInv, [Next]_vars, NEW t \in Transfers, HasRival(t)
  PROVE  HasRival(t)'
  <1>1. PICK u \in Transfers \ {t} : PathOf[u] = PathOf[t] /\ ret[u] = "ok" /\ ~ Linked(u)
    BY DEF HasRival
  <1>2. ret'[u] = "ok"
    BY <1>1, OkStays
  <1>3. ASSUME Linked(u)' PROVE FALSE
    <2>1. ASSUME NEW s \in Transfers, Moves(s) PROVE FALSE
      <3>1. u = s /\ Creates(s)
        BY <1>1, <1>3, <2>1, LinkedAfter
      <3> QED BY <1>1, <3>1 DEF Creates, PubInv, IInv, CopiedOK, BeforeOpen
    <2>2. ASSUME NEW p \in Paths, UserUnlink(p) PROVE FALSE
      <3>1. u # NoFile /\ ns \in [Names -> Transfers \cup {NoFile}]
        BY NoFileAssumption DEF PubInv, IInv, TypeOK, StoreTypeOK
      <3> QED BY <1>1, <1>3, <2>2, <3>1 DEF UserUnlink, Unlink, HdfsDelete, Linked
    <2>3. CASE UNCHANGED vars
      BY <1>1, <1>3, <2>3 DEF vars, storeVars, Linked
    <2> QED BY <2>1, <2>2, <2>3 DEF Next, Moves
  <1> QED BY <1>1, <1>2, <1>3 DEF HasRival

\* A file becomes torn by the rename of a rival.
LEMMA TornStep ==
  ASSUME PubInv, [Next]_vars, NEW t \in Transfers, Torn(t)', ~ Torn(t)
  PROVE  HasRival(t)'
  <1>0. /\ TypeOK /\ t # NoFile /\ ret[t] # "ok"
        /\ Upload(PathOf[t]) \in Names /\ Final(PathOf[t]) \in Names
    BY NoFileAssumption, NamesOf, OkStays DEF PubInv, IInv, Torn
  <1>1. FinalOf(t) # t /\ FinalOf(t)' = t
    BY <1>0 DEF Torn
  <1>2. ASSUME NEW s \in Transfers, Moves(s) PROVE HasRival(t)'
    <2>1. Renames(s)
      BY <1>0, <1>1, <1>2, MovesHow, NamesAfter DEF Works, FinalOf
    <2>2. PathOf[s] = PathOf[t] /\ UploadOf(t) = t
      BY <1>0, <1>1, <2>1, NamesAfter
    <2>3. s # t
      BY <1>0, <2>1 DEF Renames, PubInv, PubOK
    <2>4. ret[s] = "ok" /\ ~ Linked(s)
      BY <1>2, <2>1, <2>2, <2>3, RivalUnlinked DEF UploadOf
    <2>5. HasRival(t)
      BY <2>2, <2>3, <2>4 DEF HasRival
    <2> QED BY <2>5, RivalStays
  <1>3. ASSUME NEW p \in Paths, UserUnlink(p) PROVE FALSE
    BY <1>0, <1>1, <1>3 DEF UserUnlink, Unlink, HdfsDelete, FinalOf, TypeOK, StoreTypeOK
  <1>4. CASE UNCHANGED vars
    BY <1>1, <1>4 DEF vars, storeVars, FinalOf
  <1> QED BY <1>2, <1>3, <1>4 DEF Next, Moves

(* Among any number of rivals, a file that is published without a close of *)
(* its own takes a rival that has closed, renamed and lost its own.        *)
THEOREM TornFilesNeedRivals == Spec => []TornNeedsRival
  <1> DEFINE Rivals == \A t \in Transfers : Torn(t) => HasRival(t)
  <1>1. Init => Rivals
    <2> SUFFICES ASSUME Init, NEW t \in Transfers PROVE ~ Torn(t)
      OBVIOUS
    <2> QED BY NoFileAssumption, NamesOf DEF Init, StoreInit, Torn, FinalOf
  <1>2. PubInv /\ Rivals /\ [Next]_vars => Rivals'
    <2> SUFFICES ASSUME PubInv, Rivals, [Next]_vars, NEW t \in Transfers, Torn(t)'
                 PROVE  HasRival(t)'
      OBVIOUS
    <2> QED BY RivalStays, TornStep
  <1>3. Rivals => TornNeedsRival
    BY DEF TornNeedsRival, Torn, HasRival, FinalOf
  <1> QED BY <1>1, <1>2, <1>3, PubInvariance, PTL DEF Spec

-----------------------------------------------------------------------------
(* A published file keeps its name until a user removes it, also among     *)
(* rivals that write its path, and whatever fails.                         *)
THEOREM PublishedFilesStay == Spec => PublishedStays
  <1> DEFINE Stays == \A p \in Paths : HdfsExists(Final(p)) /\ ns'[Final(p)] # ns[Final(p)]
                        => ns'[Final(p)] = NoFile /\ UNCHANGED pc
  <1>1. ASSUME TypeOK, Next PROVE Stays
    <2> SUFFICES ASSUME NEW p \in Paths, ns[Final(p)] # NoFile, ns'[Final(p)] # ns[Final(p)]
                 PROVE  ns'[Final(p)] = NoFile /\ UNCHANGED pc
      BY DEF HdfsExists
    <2>1. Final(p) \in Names /\ ns \in [Names -> Transfers \cup {NoFile}]
      BY <1>1 DEF Final, Names, TypeOK, StoreTypeOK
    <2>2. ASSUME NEW t \in Transfers, Moves(t) PROVE FALSE
      <3> DEFINE up == Upload(PathOf[t])
                 fn == Final(PathOf[t])
      <3>1. up # Final(p) /\ up \in Names /\ fn \in Names
        BY NamesOf, PathOfAssumption
      <3> HIDE DEF up, fn
      <3>2. CASE Creates(t)
        <4>1. ns' = [ns EXCEPT ![up] = t]
          BY <3>2 DEF Creates, up
        <4> QED BY <2>1, <3>1, <4>1
      <3>3. CASE Renames(t)
        <4>1. ns' = [ns EXCEPT ![fn] = ns[up], ![up] = NoFile] /\ ns[fn] = NoFile
          BY <3>3 DEF Renames, up, fn, UploadOf, FinalOf
        <4> QED BY <2>1, <3>1, <4>1
      <3>4. CASE Deletes(t)
        <4>1. ns' = [ns EXCEPT ![up] = NoFile]
          BY <3>4 DEF Deletes, up
        <4> QED BY <2>1, <3>1, <4>1
      <3> QED BY <1>1, <2>2, <3>2, <3>3, <3>4, MovesHow DEF Works
    <2>3. ASSUME NEW q \in Paths, UserUnlink(q)
          PROVE  ns'[Final(p)] = NoFile /\ UNCHANGED pc
      BY <2>1, <2>3 DEF UserUnlink, Unlink, HdfsDelete, putVars
    <2> QED BY <1>1, <2>2, <2>3 DEF Next, Moves
  <1>2. TypeOK /\ [Next]_vars => [Stays]_vars
    BY <1>1
  <1> QED BY <1>2, TypeCorrect, PTL DEF Spec, PublishedStays

(* With no other writer of its path, a published file does not change.     *)
THEOREM PublishedFilesAreFrozen == Spec => PublishedFrozen
  <1> DEFINE Frozen == \A t \in Transfers :
                         Sole(t) /\ ns[Final(PathOf[t])] = t => hdata'[t] = hdata[t]
  <1>1. ASSUME PubInv, Next PROVE Frozen
    <2> SUFFICES ASSUME NEW t \in Transfers, Sole(t), FinalOf(t) = t
                 PROVE  hdata'[t] = hdata[t]
      BY DEF FinalOf
    <2>1. pc[t] \in PublishedAt
      BY <1>1 DEF PubInv, PubOK
    <2>2. ASSUME Moves(t) PROVE hdata'[t] = hdata[t]
      <3>1. ~ Creates(t) /\ ~ Renames(t) /\ ~ Deletes(t)
        BY <2>1 DEF Creates, Renames, Deletes, PublishedAt
      <3> QED BY <1>1, <2>1, <2>2, <3>1, MovesHow DEF Works, PubInv, IInv
    <2>3. ASSUME NEW u \in Transfers \ {t}, Moves(u) PROVE hdata'[t] = hdata[t]
      BY <1>1, <2>3, MovesOwn DEF PubInv, IInv
    <2>4. ASSUME NEW p \in Paths, UserUnlink(p) PROVE hdata'[t] = hdata[t]
      BY <2>4 DEF UserUnlink, Unlink
    <2> QED BY <1>1, <2>2, <2>3, <2>4 DEF Next, Moves
  <1>2. PubInv /\ [Next]_vars => [Frozen]_vars
    BY <1>1
  <1> QED BY <1>2, PubInvariance, PTL DEF Spec, PublishedFrozen

-----------------------------------------------------------------------------
(* Who may have a stream open.                                             *)

Streaming == {"writing", "copying", "draining", "closeHdfs", "destroyHdfs", "crashed"}

LeaseOK(t) == hopen[t] = "open" /\ "hclose" \notin Faults
                => pc[t] \in Streaming \/ draw[t] = NoDraw \/ ~ Linked(t)

\* What a step of a transfer does to its stream.
LEMMA StreamAfter ==
  ASSUME PubInv, NEW t \in Transfers, Moves(t)
  PROVE  /\ \/ pc'[t] \in Streaming \/ hopen'[t] = "closed" \/ "hclose" \in Faults
            \/ /\ hopen'[t] = hopen[t] /\ pc[t] \notin Streaming /\ draw'[t] = draw[t]
               /\ ~ Creates(t)
            \/ ~ Linked(t) /\ ~ Creates(t)
            \/ draw'[t] = NoDraw
         /\ \A u \in Transfers \ {t} : draw'[u] = draw[u]
  <1> USE DEF PubInv, IInv, TypeOK, PutsTypeOK, StoreTypeOK, WriterTypeOK, At, Goto, putVars,
              storeVars, tempVars, handlerVars, copyVars, Streaming, Creates
  <1>1. CASE OpenHdfs(t)
    <2>1. draw[t] = NoDraw
      BY <1>1 DEF OpenHdfs, TempInv, StageOK, BeforeOpen
    <2> QED BY <1>1, <2>1 DEF OpenHdfs, HdfsCreate
  <1>2. CASE \/ StatTempFolder(t) \/ MakeTempFolder(t) \/ OpenTemp(t) \/ OpenTempFails(t)
             \/ Abandon(t)
    BY <1>2 DEF StatTempFolder, MakeTempFolder, OpenTemp, OpenTempFails, Abandon
  <1>3. CASE (\E b \in Blocks : Write(t, b)) \/ (\E off \in 0 .. MaxLen : Seek(t, off))
    BY <1>3 DEF Write, Seek
  <1>4. CASE CopyOpenTemp(t) \/ CopyRead(t)
    BY <1>4 DEF CopyOpenTemp, CopyRead, CopyDone
  <1>5. CASE CopyWrite(t)
    BY <1>5 DEF CopyWrite, CopyDone, HdfsAppend
  <1>6. CASE CloseHdfs(t) \/ DestroyHdfs(t)
    BY <1>6 DEF CloseHdfs, DestroyHdfs, HdfsCloseFile, HdfsCloses, HdfsCloseFails
  <1>7. CASE CloseTemp(t) \/ DestroyTemp(t) \/ Crash(t)
    BY <1>7 DEF CloseTemp, DestroyTemp, Crash, DropTemp, CloseFd
  <1>8. CASE (\/ Rename(t) \/ UpdateReplica(t) \/ StatTarget(t) \/ Locate(t)
              \/ CancelLookup(t) \/ CancelDelete(t)) /\ UNCHANGED handlerVars
    BY <1>8 DEF Rename, UpdateReplica, UpdateReplicaOf, StatTarget, Locate,
                CancelLookup, CancelDelete
  <1> QED BY <1>1, <1>2, <1>3, <1>4, <1>5, <1>6, <1>7, <1>8
          DEF Moves, ClientCall, CallStep, HandlerCall, HandlerStep, DriverCall,
              DriverStep, PoolCall, PoolStep

LEMMA LeaseStep ==
  ASSUME PubInv, [Next]_vars, \A t \in Transfers : LeaseOK(t)
  PROVE  \A t \in Transfers : LeaseOK(t)'
  <1>1. ASSUME NEW t \in Transfers, Moves(t) PROVE LeaseOK(t)'
    BY <1>1, StreamAfter, LinkedAfter DEF LeaseOK
  <1>2. ASSUME NEW t \in Transfers, Moves(t), NEW u \in Transfers \ {t} PROVE LeaseOK(u)'
    <2>1. pc'[u] = pc[u] /\ hopen'[u] = hopen[u] /\ draw'[u] = draw[u]
      BY <1>2, MovesOwn, StreamAfter DEF PubInv, IInv
    <2> QED BY <1>2, <2>1, LinkedAfter DEF LeaseOK
  <1>3. ASSUME NEW p \in Paths, UserUnlink(p), NEW u \in Transfers PROVE LeaseOK(u)'
    <2>1. ns \in [Names -> Transfers \cup {NoFile}] /\ u # NoFile
      BY NoFileAssumption DEF PubInv, IInv, TypeOK, StoreTypeOK
    <2>2. UNCHANGED <<pc, hopen, draw>> /\ ns' = [ns EXCEPT ![Final(p)] = NoFile]
      BY <1>3 DEF UserUnlink, Unlink, HdfsDelete, putVars, handlerVars
    <2> QED BY <2>1, <2>2 DEF LeaseOK, Linked
  <1>4. CASE UNCHANGED vars
    BY <1>4 DEF vars, putVars, storeVars, handlerVars, LeaseOK, Linked
  <1> QED BY <1>1, <1>2, <1>3, <1>4 DEF Next, Moves

(* When hdfsCloseFile does not fail, a lease on a name is held by a        *)
(* handler that has still to close its stream, left by a constructor that  *)
(* threw, or by a process that died.                                       *)
THEOREM LeasesHaveHolders ==
  ASSUME "hclose" \notin Faults
  PROVE  Spec => []LeaseHasHolder
  <1> DEFINE Leases == \A t \in Transfers : LeaseOK(t)
  <1>1. Init => Leases
    BY DEF Init, StoreInit, LeaseOK
  <1>2. PubInv /\ Leases /\ [Next]_vars => Leases'
    BY LeaseStep
  <1>3. PubInv /\ Leases => LeaseHasHolder
    <2> SUFFICES ASSUME PubInv, Leases, NEW n \in Names, HasLease(n)
                 PROVE  pc[ns[n]] \in Streaming \/ draw[ns[n]] = NoDraw
      BY DEF LeaseHasHolder, Streaming
    <2>1. ns[n] \in Transfers /\ hopen[ns[n]] = "open" /\ Linked(ns[n])
      BY DEF HasLease, HdfsExists, Linked, PubInv, IInv, TypeOK, StoreTypeOK
    <2> QED BY <2>1 DEF LeaseOK
  <1> QED BY <1>1, <1>2, <1>3, PubInvariance, PTL DEF Spec

-----------------------------------------------------------------------------
(* The refinement of AtomicPut, for transfers that are not in each other's *)
(* way and calls whose answers tell what has happened.                     *)

Separate == \A t, u \in Transfers :
              t # u => /\ PathOf[t] # PathOf[u]
                       /\ \A r, s \in Draws : TempName(r, PathOf[t]) # TempName(s, PathOf[u])

\* What AtomicPut takes for what a reader finds, and for the live transfers.
Visible == [p \in Paths |-> IF HdfsExists(Final(p)) THEN hdata[ns[Final(p)]] ELSE NoFile]
Live    == {t \in Transfers :
              pc[t] \notin {"renamed", "failed", "halfDone", "cancelDelete"} \cup Ended}

LEMMA SeparateFacts ==
  ASSUME Separate, IInv, NEW t \in Transfers
  PROVE  Sole(t) /\ Apart(t)
  <1>1. Sole(t)
    BY DEF Separate, Sole
  <1>2. ASSUME NEW u \in Transfers \ {t}, SameBuffer(t, u) PROVE FALSE
    <2>1. draw[t] \in Draws /\ draw[u] \in Draws
      BY <1>2 DEF SameBuffer, IInv, TypeOK, WriterTypeOK
    <2> QED BY <1>2, <2>1 DEF Separate, SameBuffer, TempName
  <1> QED BY <1>1, <1>2 DEF Apart

\* What a reader finds does not change unless the name does.
LEMMA VisibleKept ==
  ASSUME Separate, PubInv, [Next]_vars, NEW p \in Paths, ns'[Final(p)] = ns[Final(p)]
  PROVE  Visible'[p] = Visible[p]
  <1>0. /\ Final(p) \in Names /\ ns[Final(p)] \in Transfers \cup {NoFile}
        /\ NameOK(Final(p))
    BY DEF Final, Names, PubInv, IInv, TypeOK, StoreTypeOK
  <1>1. ASSUME NEW t \in Transfers, ns[Final(p)] = t PROVE hdata'[t] = hdata[t]
    <2>1. PathOf[t] = p /\ FinalOf(t) = t
      BY <1>0, <1>1, NoFileAssumption DEF NameOK, FinalOf, Final
    <2>2. pc[t] \in PublishedAt
      BY <2>1, SeparateFacts DEF PubInv, PubOK
    <2>3. ASSUME Moves(t) PROVE hdata'[t] = hdata[t]
      <3>1. ~ Creates(t) /\ ~ Renames(t) /\ ~ Deletes(t)
        BY <2>2 DEF Creates, Renames, Deletes, PublishedAt
      <3> QED BY <2>2, <2>3, <3>1, MovesHow DEF Works, PubInv, IInv
    <2>4. ASSUME NEW u \in Transfers \ {t}, Moves(u) PROVE hdata'[t] = hdata[t]
      BY <2>4, MovesOwn DEF PubInv, IInv
    <2>5. ASSUME NEW q \in Paths, UserUnlink(q) PROVE hdata'[t] = hdata[t]
      BY <2>5 DEF UserUnlink, Unlink
    <2>6. CASE UNCHANGED vars
      BY <2>6 DEF vars, storeVars
    <2> QED BY <2>3, <2>4, <2>5, <2>6 DEF Next, Moves
  <1> QED BY <1>0, <1>1 DEF Visible, HdfsExists

\* A transfer stops, and does not start again.
LEMMA LiveAfter ==
  ASSUME TypeOK, NEW t \in Transfers, Moves(t)
  PROVE  Live' = Live \/ Live' = Live \ {t}
  <1>1. \A u \in Transfers \ {t} : pc'[u] = pc[u]
    BY MovesOwn
  <1>2. t \in Live' => t \in Live
    <2> USE DEF TypeOK, PutsTypeOK, At, Goto, Live, Ended, putVars
    <2>1. CASE \/ OpenHdfs(t) \/ StatTempFolder(t) \/ MakeTempFolder(t) \/ OpenTemp(t)
               \/ OpenTempFails(t) \/ Abandon(t) \/ CopyOpenTemp(t) \/ CopyRead(t)
               \/ CopyWrite(t) \/ CloseHdfs(t) \/ DestroyHdfs(t) \/ CloseTemp(t)
      BY <2>1 DEF OpenHdfs, StatTempFolder, MakeTempFolder, OpenTemp, OpenTempFails,
                  Abandon, CopyOpenTemp, CopyRead, CopyWrite, CloseHdfs, DestroyHdfs,
                  CloseTemp
    <2>2. CASE DestroyTemp(t) \/ Crash(t)
      BY <2>2 DEF DestroyTemp, Crash
    <2>3. CASE (\E b \in Blocks : Write(t, b)) \/ (\E off \in 0 .. MaxLen : Seek(t, off))
      BY <2>3 DEF Write, Seek
    <2>4. CASE \/ Rename(t) \/ UpdateReplica(t) \/ StatTarget(t) \/ Locate(t)
               \/ CancelLookup(t) \/ CancelDelete(t)
      BY <2>4 DEF Rename, UpdateReplica, UpdateReplicaOf, StatTarget, Locate,
                  CancelLookup, CancelDelete
    <2> QED BY <2>1, <2>2, <2>3, <2>4
            DEF Moves, ClientCall, CallStep, HandlerCall, HandlerStep, DriverCall,
                DriverStep, PoolCall, PoolStep
  <1>3. Live \subseteq Transfers /\ Live' \subseteq Transfers
    BY DEF Live
  <1>4. \A u \in Transfers \ {t} : u \in Live' <=> u \in Live
    BY <1>1 DEF Live
  <1> QED BY <1>2, <1>3, <1>4

\* What has been written changes in write() alone.
LEMMA WroteAfter ==
  ASSUME TypeOK, NEW t \in Transfers, Moves(t)
  PROVE  \/ UNCHANGED wrote
         \/ /\ t \in Live /\ UNCHANGED <<pc, ns>>
            /\ \A u \in Transfers \ {t} : wrote'[u] = wrote[u]
  <1>1. CASE \E b \in Blocks : Write(t, b)
    BY <1>1 DEF Write, At, TypeOK, WriterTypeOK, Live, Ended, putVars, storeVars
  <1>2. CASE ~ \E b \in Blocks : Write(t, b)
    BY <1>2
       DEF Moves, ClientCall, CallStep, HandlerCall, HandlerStep, DriverCall, DriverStep,
           PoolCall, PoolStep, OpenHdfs, StatTempFolder, MakeTempFolder, OpenTemp,
           OpenTempFails, Seek, Abandon, CopyOpenTemp, CopyRead, CopyWrite, CloseHdfs,
           DestroyHdfs, CloseTemp, DestroyTemp, Crash, handlerVars
  <1> QED BY <1>1, <1>2

LEMMA AtomicStep ==
  ASSUME Separate, "hclose" \notin Faults, PubInv, PubInv', [Next]_vars
  PROVE  \/ Visible' = Visible /\ UNCHANGED wrote /\ Live' = Live
         \/ \E t \in Transfers :
              \/ /\ t \in Live /\ wrote' \in [Transfers -> Seq(Data)]
                 /\ \A u \in Transfers \ {t} : wrote'[u] = wrote[u]
                 /\ Visible' = Visible /\ Live' = Live
              \/ /\ t \in Live /\ Visible[PathOf[t]] = NoFile
                 /\ Visible' = [Visible EXCEPT ![PathOf[t]] = wrote[t]]
                 /\ Live' = Live \ {t} /\ UNCHANGED wrote
              \/ Live' = Live \ {t} /\ Visible' = Visible /\ UNCHANGED wrote
         \/ \E p \in Paths : /\ Visible' = [Visible EXCEPT ![p] = NoFile]
                             /\ UNCHANGED wrote /\ Live' = Live
  <1>0. TypeOK /\ wrote' \in [Transfers -> Seq(Data)]
    BY DEF PubInv, IInv, TypeOK, WriterTypeOK
  <1>v. (\A p \in Paths : ns'[Final(p)] = ns[Final(p)]) => Visible' = Visible
    <2>1. ASSUME \A p \in Paths : ns'[Final(p)] = ns[Final(p)]
          PROVE  \A p \in Paths : Visible'[p] = Visible[p]
      BY <2>1, VisibleKept
    <2> QED BY <2>1 DEF Visible
  <1>1. CASE UNCHANGED vars
    BY <1>1 DEF vars, putVars, storeVars, handlerVars, Visible, Live, HdfsExists
  <1>2. ASSUME NEW p \in Paths, UserUnlink(p)
        PROVE  /\ Visible' = [Visible EXCEPT ![p] = NoFile]
               /\ UNCHANGED wrote /\ Live' = Live
    <2>1. UNCHANGED <<pc, hdata, wrote>> /\ ns' = [ns EXCEPT ![Final(p)] = NoFile]
      BY <1>2 DEF UserUnlink, Unlink, HdfsDelete, putVars, handlerVars
    <2>2. \A q \in Paths : /\ Final(q) \in Names /\ (Final(q) = Final(p) => q = p)
                           /\ ns'[Final(q)] = IF q = p THEN NoFile ELSE ns[Final(q)]
      BY <1>0, <2>1 DEF Final, Names, TypeOK, StoreTypeOK
    <2>3. ASSUME NEW q \in Paths
          PROVE  Visible'[q] = IF q = p THEN NoFile ELSE Visible[q]
      BY <2>1, <2>2 DEF Visible, HdfsExists
    <2>4. Visible' = [Visible EXCEPT ![p] = NoFile]
      <3>1. Visible' = [q \in Paths |-> Visible'[q]] /\ Visible = [q \in Paths |-> Visible[q]]
        BY DEF Visible
      <3> QED BY <2>3, <3>1
    <2> QED BY <2>1, <2>4 DEF Live
  <1>3. ASSUME NEW t \in Transfers, Moves(t), ~ Renames(t)
        PROVE  \/ Visible' = Visible /\ UNCHANGED wrote /\ Live' = Live
               \/ /\ t \in Live /\ wrote' \in [Transfers -> Seq(Data)]
                  /\ \A u \in Transfers \ {t} : wrote'[u] = wrote[u]
                  /\ Visible' = Visible /\ Live' = Live
               \/ Live' = Live \ {t} /\ Visible' = Visible /\ UNCHANGED wrote
    <2>1. \A p \in Paths : ns'[Final(p)] = ns[Final(p)]
      <3> DEFINE up == Upload(PathOf[t])
      <3>1. up \in Names /\ \A p \in Paths : Final(p) \in Names /\ Final(p) # up
        BY NamesOf, PathOfAssumption DEF Final, Names
      <3> HIDE DEF up
      <3>2. UNCHANGED ns \/ ns' = [ns EXCEPT ![up] = t] \/ ns' = [ns EXCEPT ![up] = NoFile]
        BY <1>0, <1>3, MovesHow DEF Creates, Deletes, Works, up
      <3> QED BY <1>0, <3>1, <3>2 DEF TypeOK, StoreTypeOK
    <2>2. Visible' = Visible
      BY <1>v, <2>1
    <2>3. UNCHANGED pc => Live' = Live
      BY DEF Live
    <2> QED BY <1>0, <1>3, <2>2, <2>3, LiveAfter, WroteAfter
  <1>4. ASSUME NEW t \in Transfers, Moves(t), Renames(t)
        PROVE  /\ t \in Live /\ Visible[PathOf[t]] = NoFile
               /\ Visible' = [Visible EXCEPT ![PathOf[t]] = wrote[t]]
               /\ Live' = Live \ {t} /\ UNCHANGED wrote
    <2>0. PathOf[t] \in Paths /\ t # NoFile
      BY PathOfAssumption, NoFileAssumption
    <2>1. /\ pc[t] = "stored" /\ pc'[t] \in {"renamed", "halfDone"} /\ FinalOf(t) = NoFile
          /\ UploadOf(t) = t
      <3>1. Sole(t)
        BY SeparateFacts DEF PubInv
      <3> QED BY <1>0, <1>4, <3>1, SoleNames DEF Renames, PubInv
    <2>2. FinalOf(t)' = t
      BY <1>0, <1>4, <2>1, NamesAfter
    <2>3. t \in Live /\ t \notin Live'
      BY <2>1 DEF Live, Ended
    <2>4. Live' = Live \ {t} /\ UNCHANGED wrote
      BY <1>0, <1>4, <2>1, <2>3, LiveAfter, WroteAfter
    <2>5. hdata'[t] = wrote'[t]
      <3>1. Sole(t)'
        BY DEF Separate, Sole
      <3>2. ASSUME NEW u \in Transfers \ {t}, SameBuffer(t, u)' PROVE FALSE
        <4>1. draw'[t] \in Draws /\ draw'[u] \in Draws
          BY <3>2 DEF SameBuffer, PubInv, IInv, TypeOK, WriterTypeOK
        <4> QED BY <3>2, <4>1 DEF Separate, SameBuffer, TempName
      <3>3. Apart(t)'
        BY <3>2 DEF Apart
      <3>4. ret'[t] = "ok" /\ hopen'[t] = "closed"
        BY <2>2, <3>1 DEF PubInv, PubOK
      <3> QED BY <3>3, <3>4 DEF PubInv, IInv, StoredAsWritten
    <2>6. Visible[PathOf[t]] = NoFile /\ Visible'[PathOf[t]] = wrote[t]
      BY <2>0, <2>1, <2>2, <2>4, <2>5 DEF Visible, HdfsExists, FinalOf
    <2>7. ASSUME NEW p \in Paths \ {PathOf[t]} PROVE Visible'[p] = Visible[p]
      <3> DEFINE up == Upload(PathOf[t])
                 fn == Final(PathOf[t])
      <3>1. /\ Final(p) \in Names /\ Final(p) # up /\ Final(p) # fn
            /\ up \in Names /\ fn \in Names
        BY NamesOf, <2>0 DEF Final, Upload, Names
      <3> HIDE DEF up, fn
      <3>2. ns' = [ns EXCEPT ![fn] = UploadOf(t), ![up] = NoFile]
        BY <1>4 DEF Renames, up, fn
      <3>3. ns'[Final(p)] = ns[Final(p)]
        BY <1>0, <3>1, <3>2 DEF TypeOK, StoreTypeOK
      <3> QED BY <3>3, VisibleKept
    <2> QED BY <2>0, <2>3, <2>4, <2>6, <2>7 DEF Visible
  <1> QED BY <1>1, <1>2, <1>3, <1>4 DEF Next, Moves

(* For transfers with a path and a temp file name each, and answers that   *)
(* tell what has happened, readers see each PUT done at once or not at all.*)
THEOREM PutsAreAtomic ==
  ASSUME Separate, "hclose" \notin Faults
  PROVE  Spec => PutIsAtomic
  <1>1. Init => Put!Init
    <2> SUFFICES ASSUME Init PROVE Put!Init
      OBVIOUS
    <2>1. \A p \in Paths : ns[Final(p)] = NoFile
      BY DEF Init, StoreInit, Final, Names
    <2>2. wrote \in [Transfers -> Seq(Data)]
      BY InitIInv DEF IInv, TypeOK, WriterTypeOK
    <2>3. \A t \in Transfers : pc[t] = "idle"
      BY DEF Init, PutsInit
    <2> QED BY <2>1, <2>2, <2>3 DEF Put!Init, HdfsExists, Ended
  <1>2. PubInv /\ PubInv' /\ [Next]_vars => [Put!Next]_(Put!vars)
    <2> SUFFICES ASSUME PubInv, PubInv', [Next]_vars PROVE [Put!Next]_(Put!vars)
      OBVIOUS
    <2> QED BY AtomicStep DEF Put!Next, Put!Send, Put!Publish, Put!Stop, Put!Remove, Put!vars,
                              Visible, Live
  <1> QED BY <1>1, <1>2, PubInvariance, PTL DEF Spec, PutIsAtomic, Put!Spec
=============================================================================
