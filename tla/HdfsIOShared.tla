----------------------------- MODULE HdfsIOShared -----------------------------
(***************************************************************************)
(* An HdfsIOHandler (src/src/HdfsIO.cpp) shared by the threads of a        *)
(* server, opened for reading or for writing.  Most calls take the         *)
(* handler's mutex; close(), fstat() and a seek of a handler that writes   *)
(* do not.  Of an HDFS stream (libhdfs) only this is assumed: a read gets  *)
(* what follows the position and then moves it, in two steps; one that is  *)
(* closed is freed.  So what the mutex is for is not taken for granted.    *)
(***************************************************************************)
EXTENDS Integers

CONSTANTS Threads,
          Free,       \* the mutex is nobody's
          Size,       \* length of the file
          BuffSize,   \* BUFF_SIZE of Hdfs.h
          MaxCount,   \* bound on the count of a read and an offset
          Calls       \* the kinds of calls the threads make

ReadCalls  == {"read", "pread", "tell", "fstat", "seekSet", "seekCur", "seekEnd"}
WriteCalls == {"write", "lseek"}
CallKinds  == ReadCalls \cup WriteCalls \cup {"flush", "close"}

ASSUME FreeAssumption  == Free \notin Threads
ASSUME SizeAssumption  == /\ Size \in Nat /\ BuffSize \in Nat \ {0}
                          /\ MaxCount \in Nat
ASSUME CallsAssumption == Calls \subseteq CallKinds

VARIABLES isWriting,
          pc, call, arg,   \* thread -> what it is doing, for which call
          mtx,             \* mtx_: the thread that holds it
          pos,             \* the position of the HDFS stream
          isEof,
          tmp,             \* thread -> the data, or the target, its call works on
          got,             \* history: the data the last read returned
          file, temp_fd,   \* what these refer to: "open", "freed", "null"
          beside,          \* history: calls a close() has been in progress with
          harmed           \* history: calls that used what was freed

resources == <<isWriting, file, temp_fd, beside, harmed>>
stream    == <<pos, isEof>>
vars      == <<pc, call, arg, mtx, tmp, got, stream, resources>>

\* The offset of a seek may be negative; the count of a read is not.
Args == -MaxCount .. MaxCount

\* The -1 of a failed hdfsRead, as a size_t: larger than any BUFF_SIZE.
Huge == Size + BuffSize

ReaderTypeOK ==
  /\ isWriting \in BOOLEAN
  /\ pc \in [Threads -> {"idle", "bare", "lock", "locked", "relock", "fetched",
                         "moved", "target", "unlock", "return",
                         "closeFile", "fileClosed", "closeTemp", "tempClosed"}]
  /\ call \in [Threads -> CallKinds \cup {"none"}]
  /\ arg \in [Threads -> Args]
  /\ mtx \in Threads \cup {Free}
  /\ pos \in 0 .. Size
  /\ isEof \in BOOLEAN
  /\ tmp \in [Threads -> Int \X Int]
  /\ got \in (0 .. Size) \X (0 .. Size)
  /\ file \in {"open", "freed", "null"} /\ temp_fd \in {"open", "freed", "null"}
  /\ beside \subseteq Threads /\ harmed \subseteq Threads

Init == /\ isWriting \in BOOLEAN
        /\ pc = [th \in Threads |-> "idle"]
        /\ call = [th \in Threads |-> "none"]
        /\ arg = [th \in Threads |-> 0]
        /\ mtx = Free
        /\ pos = 0
        /\ isEof = FALSE
        /\ tmp = [th \in Threads |-> <<0, 0>>]
        /\ got = <<0, 0>>
        /\ file = "open"
        /\ temp_fd = IF isWriting THEN "open" ELSE "null"
        /\ beside = {} /\ harmed = {}

At(th, l)   == pc[th] = l
Goto(th, l) == pc' = [pc EXCEPT ![th] = l]
In(th, l, k) == At(th, l) /\ call[th] = k

Available == Size - pos

-----------------------------------------------------------------------------
Offered == Calls \cap ((IF isWriting THEN WriteCalls ELSE ReadCalls)
                         \cup {"flush", "close"})

\* The calls that do not begin with the mutex.  close() of a handler that
\* writes does: its first step is copyToHDFS.
Bare(k) == k \in {"fstat", "flush", "lseek"} \/ (k = "close" /\ ~ isWriting)

Calling == {th \in Threads : ~ At(th, "idle")}
Closing == {th \in Threads : call[th] = "close"}

\* A thread calls the handler.
Start(th) ==
  /\ At(th, "idle")
  /\ \E k \in Offered, a \in Args :
       /\ k = "read" => a > 0
       /\ k \notin {"read", "seekSet", "seekCur", "seekEnd"} => a = 0
       /\ call' = [call EXCEPT ![th] = k]
       /\ arg' = [arg EXCEPT ![th] = a]
       /\ Goto(th, IF Bare(k) THEN "bare" ELSE "lock")
       /\ beside' = IF k = "close" THEN beside \cup Calling
                                        \cup (IF Closing = {} THEN {} ELSE {th})
                    ELSE IF Closing # {} THEN beside \cup {th} ELSE beside
  /\ UNCHANGED <<mtx, tmp, got, stream, isWriting, file, temp_fd, harmed>>

\* Variant: read() does not take the mutex.
MayLockOrRead(th) == mtx = Free \/ call[th] = "read"

MayLock(th) == mtx = Free

\* lk l(&mtx_).  The mutex is not recursive: a thread waits for itself too.
Lock(th) ==
  /\ At(th, "lock") \/ At(th, "relock")
  /\ MayLock(th)
  /\ mtx' = th
  /\ Goto(th, "locked")
  /\ UNCHANGED <<call, arg, tmp, got, stream, resources>>

Returns(th) == /\ Goto(th, "idle")
               /\ call' = [call EXCEPT ![th] = "none"]
               /\ arg' = [arg EXCEPT ![th] = 0]
               /\ tmp' = [tmp EXCEPT ![th] = <<0, 0>>]
               /\ beside' = beside \ {th}
               /\ harmed' = harmed \ {th}
               /\ UNCHANGED <<got, stream, isWriting, file>>

\* ~lk, and the call returns; close() has only done its copy.
Unlock(th) ==
  /\ At(th, "unlock")
  /\ mtx' = Free
  /\ \/ call[th] # "close" /\ Returns(th) /\ UNCHANGED temp_fd
     \/ /\ call[th] = "close"
        /\ Goto(th, "closeFile")
        /\ UNCHANGED <<call, arg, tmp, got, stream, resources>>

Return(th) == At(th, "return") /\ Returns(th) /\ UNCHANGED <<mtx, temp_fd>>

\* A call on libhdfs or the disk that finds its object freed does anything:
\* the call ends, and is marked.  One that finds none, or that fails, ends
\* with an error and changes nothing.
Fails(th, object, l) ==
  /\ object # "open"
  /\ harmed' = IF object = "freed" THEN harmed \cup {th} ELSE harmed
  /\ Goto(th, l)
  /\ UNCHANGED <<call, arg, mtx, tmp, got, stream, isWriting, file, temp_fd, beside>>

-----------------------------------------------------------------------------
(* Reading.                                                                *)

\* read(): hdfsRead returns up to count bytes, none only at the end ...
ReadFetch(th) ==
  /\ In(th, "locked", "read") /\ file = "open"
  /\ \E n \in 0 .. Available :
       /\ n <= arg[th]
       /\ n = 0 => Available = 0
       /\ tmp' = [tmp EXCEPT ![th] = <<pos, n>>]
  /\ Goto(th, "fetched")
  /\ UNCHANGED <<call, arg, mtx, got, stream, resources>>

\* ... and moves the position ...
ReadMove(th) ==
  /\ At(th, "fetched") /\ file = "open"
  /\ pos' = tmp[th][1] + tmp[th][2]
  /\ got' = tmp[th]
  /\ Goto(th, "moved")
  /\ UNCHANGED <<call, arg, mtx, isEof, tmp, resources>>

\* ... or it returns -1, which becomes a size_t.
ReadFails(th) ==
  /\ In(th, "locked", "read") /\ file # "freed"
  /\ tmp' = [tmp EXCEPT ![th] = <<pos, Huge>>]
  /\ Goto(th, "moved")
  /\ UNCHANGED <<call, arg, mtx, got, stream, resources>>

\* Variants: nothing read is not a short read; the -1 is compared as a -1.
ShortReadSome(n) == n \in 1 .. BuffSize - 1
ShortReadSigned(n) == n < BuffSize \/ n = Huge

ShortRead(n) == n < BuffSize

\* Variant: read() tries again when it got nothing.
ReadEofRetry(th) ==
  /\ At(th, "moved")
  /\ isEof' = (isEof \/ ShortRead(tmp[th][2]))
  /\ Goto(th, IF tmp[th][2] = 0 THEN "locked" ELSE "unlock")
  /\ UNCHANGED <<call, arg, mtx, pos, tmp, got, resources>>

\* After that fewer bytes than BUFF_SIZE are taken to mean the end of the
\* file, also when no more were asked for.
ReadEof(th) ==
  /\ At(th, "moved")
  /\ isEof' = (isEof \/ ShortRead(tmp[th][2]))
  /\ Goto(th, "unlock")
  /\ UNCHANGED <<call, arg, mtx, pos, tmp, got, resources>>

\* pread() and tell() leave the stream where it is.
Peek(th) ==
  /\ In(th, "locked", "pread") \/ In(th, "locked", "tell")
  /\ file = "open"
  /\ Goto(th, "unlock")
  /\ UNCHANGED <<call, arg, mtx, tmp, got, stream, resources>>

\* seek(): the position to set, from the beginning ...
SeekSet(th) ==
  /\ In(th, "locked", "seekSet")
  /\ tmp' = [tmp EXCEPT ![th] = <<arg[th], 0>>]
  /\ Goto(th, "target")
  /\ UNCHANGED <<call, arg, mtx, got, stream, resources>>

\* ... from hdfsAvailable, which is what lies ahead ...
SeekEnd(th) ==
  /\ In(th, "locked", "seekEnd") /\ file = "open"
  /\ tmp' = [tmp EXCEPT ![th] = <<Available - arg[th], 0>>]
  /\ Goto(th, "target")
  /\ UNCHANGED <<call, arg, mtx, got, stream, resources>>

\* ... or from tell(), which locks the mutex that this thread holds.
SeekCur(th) ==
  /\ In(th, "locked", "seekCur")
  /\ Goto(th, "relock")
  /\ UNCHANGED <<call, arg, mtx, tmp, got, stream, resources>>

\* Variant: any position is taken.
SeekableAll(x) == x \in Int

Seekable(x) == x \in 0 .. Size

\* hdfsSeek refuses a position outside the file; its value is not looked at.
SeekMove(th) ==
  /\ At(th, "target") /\ file = "open"
  /\ pos' = IF Seekable(tmp[th][1]) THEN tmp[th][1] ELSE pos
  /\ Goto(th, "unlock")
  /\ UNCHANGED <<call, arg, mtx, isEof, tmp, got, resources>>

\* fstat(): the st_size it returns is hdfsAvailable.
Fstat(th) ==
  /\ In(th, "bare", "fstat") /\ file = "open"
  /\ tmp' = [tmp EXCEPT ![th] = <<Available, 0>>]
  /\ Goto(th, "return")
  /\ UNCHANGED <<call, arg, mtx, got, stream, resources>>

\* flush(): hdfsFlush, whose value is not looked at.
Flush(th) ==
  /\ In(th, "bare", "flush")
  /\ \/ /\ file = "open"
        /\ Goto(th, "return")
        /\ UNCHANGED <<call, arg, mtx, tmp, got, stream, resources>>
     \/ Fails(th, file, "return")

\* A call finds the stream closed: by then another thread has called close().
\* An hdfsRead under way has a pointer of its own to it.
UseClosed(th) ==
  \/ /\ \/ At(th, "target")
        \/ In(th, "locked", "read") /\ file = "freed"
        \/ \E k \in {"pread", "tell", "seekEnd"} : In(th, "locked", k)
     /\ Fails(th, file, "unlock")
  \/ At(th, "fetched") /\ file # "open" /\ Fails(th, "freed", "unlock")
  \/ In(th, "bare", "fstat") /\ Fails(th, file, "return")

-----------------------------------------------------------------------------
(* Writing: write() in the mutex, a seek without; what the calls do to the *)
(* buffer is HdfsIOWriter's matter.                                        *)

UseTemp(th) ==
  LET next == IF call[th] = "write" THEN "unlock" ELSE "return"
  IN /\ In(th, "locked", "write") \/ In(th, "bare", "lseek")
     /\ \/ /\ temp_fd = "open"
           /\ Goto(th, next)
           /\ UNCHANGED <<call, arg, mtx, tmp, got, stream, resources>>
        \/ Fails(th, temp_fd, next)

-----------------------------------------------------------------------------
(* close(), without the mutex but for the copy.                            *)

\* copyToHDFS, which writes to the stream.
Copy(th) ==
  /\ In(th, "locked", "close")
  /\ \/ /\ file = "open"
        /\ Goto(th, "unlock")
        /\ UNCHANGED <<call, arg, mtx, tmp, got, stream, resources>>
     \/ Fails(th, file, "unlock")

\* hdfsCloseFile, unless file is null ...
CloseFile(th) ==
  /\ In(th, "bare", "close") \/ At(th, "closeFile")
  /\ file' = IF file = "open" THEN "freed" ELSE file
  /\ harmed' = IF file = "freed" THEN harmed \cup {th} ELSE harmed
  /\ Goto(th, "fileClosed")
  /\ UNCHANGED <<call, arg, mtx, tmp, got, stream, isWriting, temp_fd, beside>>

\* Variant: the pointer to the file that was closed is kept.
ForgottenKept(object) == object

Forgotten(object) == "null"

\* ... and file = 0 after it.
ForgetFile(th) ==
  /\ At(th, "fileClosed")
  /\ file' = Forgotten(file)
  /\ Goto(th, IF isWriting THEN "closeTemp" ELSE "return")
  /\ UNCHANGED <<call, arg, mtx, tmp, got, stream, isWriting, temp_fd, beside, harmed>>

\* ::close(temp_fd): the number is free for the next open of the process ...
CloseTempFd(th) ==
  /\ At(th, "closeTemp")
  /\ temp_fd' = IF temp_fd = "open" THEN "freed" ELSE temp_fd
  /\ harmed' = IF temp_fd = "freed" THEN harmed \cup {th} ELSE harmed
  /\ Goto(th, "tempClosed")
  /\ UNCHANGED <<call, arg, mtx, tmp, got, stream, isWriting, file, beside>>

\* ... temp_fd = -1, and close() returns.
ForgetTempFd(th) == /\ At(th, "tempClosed")
                    /\ temp_fd' = Forgotten(temp_fd)
                    /\ Returns(th)
                    /\ UNCHANGED mtx

-----------------------------------------------------------------------------
Step(th) == \/ Lock(th) \/ Unlock(th) \/ Return(th)
            \/ ReadFetch(th) \/ ReadMove(th) \/ ReadFails(th) \/ ReadEof(th)
            \/ Peek(th) \/ Fstat(th)
            \/ SeekSet(th) \/ SeekEnd(th) \/ SeekCur(th) \/ SeekMove(th)
            \/ Flush(th) \/ UseClosed(th) \/ UseTemp(th)
            \/ Copy(th) \/ CloseFile(th) \/ ForgetFile(th)
            \/ CloseTempFd(th) \/ ForgetTempFd(th)

Next == \E th \in Threads : Start(th) \/ Step(th)

Spec == Init /\ [][Next]_vars

\* A thread in a call goes on when it can.  Nothing is said of which of the
\* waiting threads gets the mutex.
FairSpec == Spec /\ \A th \in Threads : WF_vars(Step(th))

-----------------------------------------------------------------------------
(* The threads that share a handler see one stream, on which each read is  *)
(* a single step: no data is read twice, none is passed over.              *)
Stream == INSTANCE AtomicStream
StreamIsAtomic == Stream!Spec

(* eof() tells a reader to stop: a read that found the end has set isEof   *)
(* by the time it returns, also when the length of the file is a multiple  *)
(* of the size of the reads.                                               *)
EndIsSeen ==
  \A th \in Threads \ harmed :
    In(th, "unlock", "read") /\ tmp[th][2] = 0 => isEof

(* eof() tells a reader to stop only after a read that came out short: one *)
(* that failed, whose -1 is compared without its sign, is no end.          *)
EofWasShort ==
  [][~ isEof /\ isEof' =>
       \E th \in Threads : pc[th] = "moved" /\ tmp[th][2] \in 0 .. BuffSize - 1]_vars

(* hdfsSeek takes a position computed from the one it replaces: between    *)
(* the two no other call moves the stream.                                 *)
SeekTargetFresh ==
  \A th \in Threads : At(th, "target") /\ call[th] = "seekEnd"
                        => tmp[th][1] = Available - arg[th]

(* close() takes no mutex, so a call may use the stream or the descriptor  *)
(* it has freed; but only one that is in progress together with close():   *)
(* a call that starts when close() has returned fails, and does no harm.   *)
HarmNeedsOverlap == harmed \subseteq beside

(* Every call but a SEEK_CUR gives the mutex back, so that none of them    *)
(* shuts the other threads out for good.                                   *)
MutexReleased ==
  \A th \in Threads : mtx = th ~> mtx # th \/ At(th, "relock")

-----------------------------------------------------------------------------
(* What a comment says, and the code does not keep.                        *)

(* HdfsIO.cpp:260: seek() sets the offset from the begin, the current      *)
(* position or the end, so that one of the three also returns.             *)
SeekReturns == \A th \in Threads : At(th, "relock") ~> At(th, "idle")
=============================================================================
