----------------------------- MODULE HdfsIOWriter -----------------------------
(***************************************************************************)
(* HdfsIOHandler opened for writing (src/src/HdfsIO.cpp).  HDFS files can  *)
(* only be appended to, so the handler buffers the writes and seeks of its *)
(* client in a file on the gateway's disk, and close() copies that file to *)
(* the HDFS file the constructor has created.                              *)
(*                                                                         *)
(* One action per call on HDFS or on the disk; the state a handler keeps   *)
(* is in the variables below, indexed by the transfer it belongs to.  Two  *)
(* handlers share nothing but the disk and HDFS, and each is used by one   *)
(* thread, so that its own mutex never blocks.                             *)
(***************************************************************************)
EXTENDS TempStore

CONSTANTS MaxLen,    \* longest file a client writes: bounds Write and Seek
          BufSize    \* size of copyToHDFS's buffer, in blocks

ASSUME SizesAssumption == MaxLen \in Nat \ {0} /\ BufSize \in Nat \ {0}

VARIABLES draw,      \* the random number in temp_path
          fdIno,     \* the file temp_fd refers to
          fdOff,     \* its offset
          from,      \* the file copyToHDFS reads, by a descriptor of its own
          copyPos,   \* how far it has been read
          cbuf,      \* what is read and not yet written to HDFS
          ret,       \* what copyToHDFS returned to close()
          wrote      \* history: a private file after the same writes

handlerVars == <<draw, fdIno, fdOff, from, copyPos, cbuf, ret, wrote>>
copyVars    == <<from, copyPos, cbuf>>

WriterTypeOK == /\ draw \in [Transfers -> Draws \cup {NoDraw}]
                /\ fdIno \in [Transfers -> Transfers \cup {NoFile}]
                /\ fdOff \in [Transfers -> Nat]
                /\ from \in [Transfers -> Transfers \cup {NoFile}]
                /\ copyPos \in [Transfers -> Nat]
                /\ cbuf \in [Transfers -> Seq(Data)]
                /\ ret \in [Transfers -> {"none", "ok", "error"}]
                /\ wrote \in [Transfers -> Seq(Data)]

WriterInit == /\ draw = [t \in Transfers |-> NoDraw]
              /\ fdIno = [t \in Transfers |-> NoFile]
              /\ fdOff = [t \in Transfers |-> 0]
              /\ from = [t \in Transfers |-> NoFile]
              /\ copyPos = [t \in Transfers |-> 0]
              /\ cbuf = [t \in Transfers |-> << >>]
              /\ ret = [t \in Transfers |-> "none"]
              /\ wrote = [t \in Transfers |-> << >>]

TempPath(t) == <<gw[t], TempName(draw[t], PathOf[t])>>

\* Variant: the two resets swapped.
CloseFdSwapped(t) == /\ fdIno' = [fdIno EXCEPT ![t] = 0]
                     /\ fdOff' = [fdOff EXCEPT ![t] = NoFile]

CloseFd(t) == /\ fdIno' = [fdIno EXCEPT ![t] = NoFile]
              /\ fdOff' = [fdOff EXCEPT ![t] = 0]

\* Variant: the temp file is closed and not removed.
DropTempKept(t) == CloseFd(t) /\ UNCHANGED tmpdir

\* ::close(temp_fd), then ::remove(temp_path).
DropTemp(t) == CloseFd(t) /\ RemoveTemp(TempPath(t))

-----------------------------------------------------------------------------
(* The constructor.  When it throws no destructor runs: the HDFS stream it *)
(* has opened stays open.                                                  *)

\* Connecting and hdfsOpenFile; the client gives the O_WRONLY flag.
OpenHdfs(t) ==
  /\ At(t, "located")
  /\ \/ /\ HdfsCreate(t, Upload(PathOf[t]))
        /\ \/ Goto(t, "connected")
           \/ "lost" \in Faults /\ Goto(t, "failed")
     \/ /\ "connect" \in Faults \/ HdfsCreateMayFail(Upload(PathOf[t]))
        /\ Goto(t, "failed")
        /\ UNCHANGED storeVars
  /\ UNCHANGED <<gw, tempVars, handlerVars>>

\* stat() of the temp folder.
StatTempFolder(t) ==
  /\ At(t, "connected")
  /\ Goto(t, IF tmpFolder[gw[t]] THEN "hasFolder" ELSE "noFolder")
  /\ UNCHANGED <<gw, storeVars, tempVars, handlerVars>>

\* HDFSUtil::mkdirs returns what the last mkdir() returns, so a folder that
\* is there by now is an error (EEXIST), and the constructor throws.
MakeTempFolder(t) ==
  /\ At(t, "noFolder")
  /\ \/ /\ ~ tmpFolder[gw[t]]
        /\ tmpFolder' = [tmpFolder EXCEPT ![gw[t]] = TRUE]
        /\ Goto(t, "hasFolder")
     \/ /\ tmpFolder[gw[t]] \/ "mkdir" \in Faults
        /\ Goto(t, "failed")
        /\ UNCHANGED tmpFolder
  /\ UNCHANGED <<gw, storeVars, tmpdir, tmpdata, handlerVars>>

\* srand(time(NULL)) makes the numbers of one second equal, hence any draw.
OpenTemp(t) ==
  /\ At(t, "hasFolder")
  /\ \E r \in Draws :
       LET e == <<gw[t], TempName(r, PathOf[t])>>
       IN /\ draw' = [draw EXCEPT ![t] = r]
          /\ tmpdir' = [tmpdir EXCEPT ![e] = OpenedAt(t, e)]
          /\ fdIno' = [fdIno EXCEPT ![t] = OpenedAt(t, e)]
  /\ Goto(t, "writing")
  /\ UNCHANGED <<gw, storeVars, tmpFolder, tmpdata, fdOff, copyVars, ret, wrote>>

OpenTempFails(t) ==
  /\ At(t, "hasFolder")
  /\ "tmpopen" \in Faults
  /\ Goto(t, "failed")
  /\ UNCHANGED <<gw, storeVars, tempVars, handlerVars>>

-----------------------------------------------------------------------------
(* write() and seek(), on the buffer.  A call that throws changes nothing. *)

Write(t, b) ==
  /\ At(t, "writing")
  /\ fdOff[t] < MaxLen
  /\ tmpdata' = [tmpdata EXCEPT ![fdIno[t]] = WriteAt(@, fdOff[t], b)]
  /\ wrote' = [wrote EXCEPT ![t] = WriteAt(@, fdOff[t], b)]
  /\ fdOff' = [fdOff EXCEPT ![t] = @ + 1]
  /\ UNCHANGED <<putVars, storeVars, tmpFolder, tmpdir, draw, fdIno, copyVars, ret>>

Seek(t, off) ==
  /\ At(t, "writing")
  /\ fdOff' = [fdOff EXCEPT ![t] = off]
  /\ UNCHANGED <<putVars, storeVars, tempVars, draw, fdIno, copyVars, ret, wrote>>

-----------------------------------------------------------------------------
(* close(): copyToHDFS, hdfsCloseFile, then the temp file goes.            *)

CopyDone(t, r) == /\ Goto(t, "closeHdfs")
                  /\ ret' = [ret EXCEPT ![t] = r]
                  /\ from' = [from EXCEPT ![t] = NoFile]
                  /\ copyPos' = [copyPos EXCEPT ![t] = 0]
                  /\ cbuf' = [cbuf EXCEPT ![t] = << >>]

\* copyToHDFS opens the temp file by its path, not by temp_fd.
CopyOpenTemp(t) ==
  LET file == tmpdir[TempPath(t)]
  IN /\ At(t, "writing")
     /\ \/ /\ file # NoFile
           /\ from' = [from EXCEPT ![t] = file]
           /\ Goto(t, "copying")
           /\ UNCHANGED <<copyPos, cbuf, ret>>
        \/ /\ file = NoFile \/ "tmpopen" \in Faults
           /\ CopyDone(t, "error")
     /\ UNCHANGED <<gw, storeVars, tempVars, draw, fdIno, fdOff, wrote>>

Chunk(t) == LET left == Len(tmpdata[from[t]]) - copyPos[t]
                n    == IF left < BufSize THEN left ELSE BufSize
            IN SubSeq(tmpdata[from[t]], copyPos[t] + 1, copyPos[t] + n)

CopyRead(t) ==
  /\ At(t, "copying")
  /\ \/ /\ Chunk(t) # << >>
        /\ cbuf' = [cbuf EXCEPT ![t] = Chunk(t)]
        /\ copyPos' = [copyPos EXCEPT ![t] = @ + Len(Chunk(t))]
        /\ Goto(t, "draining")
        /\ UNCHANGED <<from, ret>>
     \/ Chunk(t) = << >> /\ CopyDone(t, "ok")
     \/ "tmpread" \in Faults /\ CopyDone(t, "error")
  /\ UNCHANGED <<gw, storeVars, tempVars, draw, fdIno, fdOff, wrote>>

\* Variant: what a short hdfsWrite leaves over is forgotten.
DrainedAtOnce(t, n) == n > 0

Drained(t, n) == n = Len(cbuf[t])

\* hdfsWrite may take less than it is given; EINTR only repeats the call.
CopyWrite(t) ==
  /\ At(t, "draining")
  /\ \/ \E n \in 1 .. Len(cbuf[t]) :
          /\ HdfsAppend(t, SubSeq(cbuf[t], 1, n))
          /\ cbuf' = [cbuf EXCEPT ![t] = SubSeq(@, n + 1, Len(@))]
          /\ Goto(t, IF Drained(t, n) THEN "copying" ELSE "draining")
          /\ UNCHANGED <<ns, hopen, from, copyPos, ret>>
     \/ /\ HdfsAppendMayFail(t)
        /\ CopyDone(t, "error")
        /\ UNCHANGED storeVars
  /\ UNCHANGED <<gw, tempVars, draw, fdIno, fdOff, wrote>>

\* Variant: the stream is closed only when the copy is complete.
CloseHdfsIfCopied(t) ==
  /\ At(t, "closeHdfs")
  /\ IF ret[t] = "ok" THEN HdfsCloseFile(t) ELSE UNCHANGED storeVars
  /\ Goto(t, "closeTemp")
  /\ UNCHANGED <<gw, tempVars, handlerVars>>

\* The value of hdfsCloseFile is not looked at.
CloseHdfs(t) ==
  /\ At(t, "closeHdfs")
  /\ HdfsCloseFile(t)
  /\ Goto(t, "closeTemp")
  /\ UNCHANGED <<gw, tempVars, handlerVars>>

\* The last step: close() returns, or throws when ret is an error.
CloseTemp(t) ==
  /\ At(t, "closeTemp")
  /\ DropTemp(t)
  /\ Goto(t, "closed")
  /\ UNCHANGED <<gw, storeVars, tmpFolder, tmpdata, draw, copyVars, ret, wrote>>

-----------------------------------------------------------------------------
(* The destructor, after close() or instead of it.                         *)

Abandon(t) ==
  /\ At(t, "writing")
  /\ Goto(t, "destroyHdfs")
  /\ UNCHANGED <<gw, storeVars, tempVars, handlerVars>>

DestroyHdfs(t) ==
  /\ At(t, "destroyHdfs")
  /\ HdfsCloseFile(t)
  /\ Goto(t, "destroyTemp")
  /\ UNCHANGED <<gw, tempVars, handlerVars>>

\* Variant: close() does not throw when the copy has failed.
OutcomeIgnored(t) == "stored"

\* What the client has been told of its file.
Outcome(t) == IF ret[t] = "ok" THEN "stored" ELSE "failed"

\* The name is removed once more even when close() has removed it.
DestroyTemp(t) ==
  /\ At(t, "closed") \/ At(t, "destroyTemp")
  /\ DropTemp(t)
  /\ Goto(t, Outcome(t))
  /\ UNCHANGED <<gw, storeVars, tmpFolder, tmpdata, draw, copyVars, ret, wrote>>

\* The process of the gateway dies: descriptors go, names and the lease stay.
Crash(t) ==
  /\ "crash" \in Faults
  /\ pc[t] \notin Ended \cup {"idle"}
  /\ Goto(t, "crashed")
  /\ CloseFd(t)
  /\ from' = [from EXCEPT ![t] = NoFile]
  /\ copyPos' = [copyPos EXCEPT ![t] = 0]
  /\ cbuf' = [cbuf EXCEPT ![t] = << >>]
  /\ UNCHANGED <<gw, storeVars, tempVars, draw, ret, wrote>>

\* What the client asks of the handler, and what a call in progress does.
HandlerCall(t) == \/ OpenHdfs(t)
                  \/ \E b \in Blocks : Write(t, b)
                  \/ \E off \in 0 .. MaxLen : Seek(t, off)
                  \/ CopyOpenTemp(t)
                  \/ Abandon(t)

HandlerStep(t) == \/ StatTempFolder(t)
                  \/ MakeTempFolder(t)
                  \/ OpenTemp(t) \/ OpenTempFails(t)
                  \/ CopyRead(t)
                  \/ CopyWrite(t)
                  \/ CloseHdfs(t)
                  \/ CloseTemp(t)
                  \/ DestroyHdfs(t)
                  \/ DestroyTemp(t)
=============================================================================
