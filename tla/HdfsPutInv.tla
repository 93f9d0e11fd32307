----------------------------- MODULE HdfsPutInv -----------------------------
(***************************************************************************)
(* The inductive invariant behind BufferIsolated and StoredAsWritten: what *)
(* a transfer has at each stage, who may refer to a temp file, and how far *)
(* a copy has got.                                                         *)
(***************************************************************************)
EXTENDS HdfsPut

BeforeOpen == {"idle", "absent", "located", "connected", "noFolder", "hasFolder"}
Unlocated  == {"idle", "absent"}
Buffering  == {"writing", "closed"} \cup InClose \cup InDestroy
Located    == (BeforeOpen \ Unlocated) \cup Buffering
Holding    == {"writing", "destroyHdfs"} \cup InClose
Copying    == {"copying", "draining"}

\* What a transfer has before and after it opens its temp file.
StageOK(t) ==
  /\ pc[t] \in Unlocated => gw[t] = NoGateway
  /\ pc[t] \in Located => gw[t] \in Gateways
  /\ pc[t] \in BeforeOpen => draw[t] = NoDraw
  /\ pc[t] \in Buffering => draw[t] \in Draws
  /\ draw[t] # NoDraw => gw[t] \in Gateways
  /\ draw[t] = NoDraw => tmpdata[t] = << >> /\ wrote[t] = << >>
  /\ pc[t] \in Holding => fdIno[t] # NoFile

\* A name in the temp folder, or a descriptor, refers to a file that was made
\* under the same name.
EntryOK(e) == tmpdir[e] # NoFile
                => draw[tmpdir[e]] # NoDraw /\ TempPath(tmpdir[e]) = e

RefOK(t, file) == file # NoFile => /\ draw[t] # NoDraw
                                   /\ draw[file] # NoDraw
                                   /\ TempPath(file) = TempPath(t)

RefsOK(t) == RefOK(t, fdIno[t]) /\ RefOK(t, from[t])

\* copyToHDFS reads within the file.
CopyOK(t) ==
  /\ pc[t] \in Copying
       => from[t] # NoFile /\ copyPos[t] <= Len(tmpdata[from[t]])
  /\ pc[t] \notin Copying => copyPos[t] = 0

TempInv == /\ \A t \in Transfers : StageOK(t) /\ RefsOK(t) /\ CopyOK(t)
           /\ \A e \in Gateways \X TempNames : EntryOK(e)

\* What has been copied, with what is in copyToHDFS's buffer, is what has
\* been read; after a copy without error it is all that was written.
CopiedOK(t) ==
  /\ ret[t] # "none" => draw[t] # NoDraw
  /\ pc[t] \in BeforeOpen \cup {"writing"} => ret[t] = "none" /\ hdata[t] = << >>
  /\ pc[t] \in BeforeOpen \cup {"writing", "closeHdfs"} \cup Copying => hopen[t] # "closed"
  /\ pc[t] \in InDestroy \cup Copying => ret[t] = "none"
  /\ pc[t] # "draining" => cbuf[t] = << >>
  /\ pc[t] \in Copying /\ Apart(t)
       => /\ from[t] = t
          /\ hdata[t] \o cbuf[t] = SubSeq(wrote[t], 1, copyPos[t])
  /\ pc[t] = "closeHdfs" /\ ret[t] = "ok" /\ Apart(t) => hdata[t] = wrote[t]

(* The invariant of a PUT that its steps preserve: it says why no handler  *)
(* can write into, or copy from, a buffer that is not its own, and why the *)
(* copy is the buffer.                                                     *)
IInv == TypeOK /\ TempInv /\ BufferIsolated /\ StoredAsWritten
          /\ \A t \in Transfers : CopiedOK(t)
=============================================================================
