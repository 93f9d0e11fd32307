-------------------------- MODULE HdfsIOSharedProofs --------------------------
(***************************************************************************)
(* Proofs about HdfsIOShared: the mutex makes the stream of a handler one  *)
(* stream, whatever the number of threads, the length of the file and the  *)
(* calls; and what close() does without it harms only calls it overlaps.   *)
(***************************************************************************)
EXTENDS HdfsIOShared, TLAPS

\* Where a thread has the mutex, also when it waits for it once more.
Inside == {"locked", "relock", "fetched", "moved", "target", "unlock"}

MutexInv == \A th \in Threads : pc[th] \in Inside => mtx = th

\* Which call is where.
CallInv ==
  \A th \in Threads :
    /\ pc[th] = "idle" <=> call[th] = "none"
    /\ pc[th] \in {"closeFile", "fileClosed", "closeTemp", "tempClosed"}
         => call[th] = "close"
    /\ pc[th] \in {"fetched", "moved"} => call[th] = "read"
    /\ pc[th] = "target" => call[th] \in {"seekSet", "seekEnd"}

\* What a call works on is what it finds when it goes on.
DataInv ==
  \A th \in Threads :
    /\ pc[th] = "fetched" => /\ tmp[th][1] = pos
                             /\ tmp[th][2] \in 0 .. Available
                             /\ tmp[th][2] = 0 => Available = 0
    /\ pc[th] = "moved" => tmp[th][2] >= 0
    /\ At(th, "target") /\ call[th] = "seekEnd" => tmp[th][1] = Available - arg[th]
    /\ In(th, "unlock", "read") /\ th \notin harmed /\ tmp[th][2] = 0 => isEof

\* What is freed, a close() is about to forget.
FreedInv ==
  /\ file = "freed" => \E c \in Threads : pc[c] = "fileClosed"
  /\ temp_fd = "freed" => \E c \in Threads : pc[c] = "tempClosed"

\* A call in progress with another thread's close() is beside it; an hdfsRead
\* that has lost its stream was.
BesideInv ==
  \A th \in Threads :
    /\ \A c \in Threads \ {th} :
         call[th] # "none" /\ call[c] = "close" => th \in beside
    /\ pc[th] = "fetched" /\ file # "open" => th \in beside

SharedInv == /\ ReaderTypeOK /\ MutexInv /\ CallInv /\ DataInv
             /\ FreedInv /\ BesideInv /\ HarmNeedsOverlap

-----------------------------------------------------------------------------
LEMMA ArgsFacts == 0 \in Args /\ Args \subseteq Int
  BY SizeAssumption DEF Args

LEMMA SharedInit == Init => SharedInv
  <1> SUFFICES ASSUME Init PROVE SharedInv
    OBVIOUS
  <1> USE FreeAssumption, SizeAssumption DEF Init
  <1>1. ReaderTypeOK
    <2>1. /\ tmp \in [Threads -> Int \X Int] /\ arg \in [Threads -> Args]
          /\ got \in (0 .. Size) \X (0 .. Size) /\ pos \in 0 .. Size
      BY ArgsFacts
    <2>2. temp_fd \in {"open", "freed", "null"}
      BY isWriting \in BOOLEAN
    <2> QED BY <2>1, <2>2 DEF ReaderTypeOK
  <1>2. MutexInv /\ CallInv /\ FreedInv /\ BesideInv /\ HarmNeedsOverlap
    BY DEF MutexInv, Inside, CallInv, FreedInv, BesideInv, HarmNeedsOverlap
  <1>3. DataInv
    BY DEF DataInv, At, In
  <1> QED BY <1>1, <1>2, <1>3 DEF SharedInv

LEMMA TypeStep == ReaderTypeOK /\ CallInv /\ DataInv /\ [Next]_vars => ReaderTypeOK'
  <1> SUFFICES ASSUME ReaderTypeOK, CallInv, DataInv, [Next]_vars
               PROVE  ReaderTypeOK'
    OBVIOUS
  <1> USE SizeAssumption, CallsAssumption, ArgsFacts
      DEF ReaderTypeOK, At, In, Goto, stream, resources
  <1>1. ASSUME NEW th \in Threads, Start(th) PROVE ReaderTypeOK'
    BY <1>1 DEF Start, Offered, Bare, Calling, CallKinds, ReadCalls, WriteCalls
  <1>2. ASSUME NEW th \in Threads, Lock(th) PROVE ReaderTypeOK'
    BY <1>2 DEF Lock
  <1>3. ASSUME NEW th \in Threads, Unlock(th) PROVE ReaderTypeOK'
    <2>1. CASE call[th] # "close"
      <3>1. mtx' = Free /\ Returns(th) /\ UNCHANGED temp_fd
        BY <1>3, <2>1 DEF Unlock
      <3> QED BY <3>1 DEF Returns
    <2>2. CASE call[th] = "close"
      <3>1. /\ mtx' = Free /\ pc' = [pc EXCEPT ![th] = "closeFile"]
            /\ UNCHANGED <<call, arg, tmp, got, stream, resources>>
        BY <1>3, <2>2 DEF Unlock
      <3> QED BY <3>1
    <2> QED BY <2>1, <2>2
  <1>4. ASSUME NEW th \in Threads, Return(th) PROVE ReaderTypeOK'
    BY <1>4 DEF Return, Returns
  <1>5. ASSUME NEW th \in Threads, ReadFetch(th) PROVE ReaderTypeOK'
    BY <1>5 DEF ReadFetch, Available
  <1>6. ASSUME NEW th \in Threads, ReadMove(th) PROVE ReaderTypeOK'
    BY <1>6 DEF ReadMove, DataInv, Available
  <1>7. ASSUME NEW th \in Threads, ReadFails(th) PROVE ReaderTypeOK'
    BY <1>7 DEF ReadFails, Huge
  <1>8. ASSUME NEW th \in Threads, ReadEof(th) PROVE ReaderTypeOK'
    BY <1>8 DEF ReadEof, ShortRead
  <1>9. ASSUME NEW th \in Threads, Peek(th) \/ SeekCur(th) PROVE ReaderTypeOK'
    BY <1>9 DEF Peek, SeekCur
  <1>10. ASSUME NEW th \in Threads, SeekSet(th) \/ SeekEnd(th) \/ Fstat(th)
         PROVE  ReaderTypeOK'
    <2>1. \E x \in Int : tmp' = [tmp EXCEPT ![th] = <<x, 0>>]
      <3>1. arg[th] \in Int /\ pos \in Int /\ Size \in Int
        <4>1. Size \in Int /\ pos \in 0 .. Size
          OBVIOUS
        <4>2. arg[th] \in Args /\ Args \subseteq Int
          OBVIOUS
        <4>3. arg[th] \in Int
          BY <4>2
        <4>4. pos \in Int
          BY <4>1
        <4> QED BY <4>1, <4>3, <4>4
      <3> QED BY <1>10, <3>1 DEF SeekSet, SeekEnd, Fstat, Available
    <2>2. \E l \in {"target", "return"} : pc' = [pc EXCEPT ![th] = l]
      BY <1>10 DEF SeekSet, SeekEnd, Fstat
    <2> QED BY <1>10, <2>1, <2>2 DEF SeekSet, SeekEnd, Fstat
  <1>11. ASSUME NEW th \in Threads, SeekMove(th) PROVE ReaderTypeOK'
    BY <1>11 DEF SeekMove, Seekable
  <1>12. ASSUME NEW th \in Threads, UseClosed(th) PROVE ReaderTypeOK'
    BY <1>12 DEF UseClosed, Fails
  <1>13. ASSUME NEW th \in Threads, UseTemp(th) \/ Copy(th) \/ Flush(th) PROVE ReaderTypeOK'
    BY <1>13 DEF UseTemp, Copy, Flush, Fails
  <1>14. ASSUME NEW th \in Threads, CloseFile(th) \/ ForgetFile(th)
         PROVE  ReaderTypeOK'
    BY <1>14 DEF CloseFile, ForgetFile, Forgotten
  <1>15. ASSUME NEW th \in Threads, CloseTempFd(th) \/ ForgetTempFd(th)
         PROVE  ReaderTypeOK'
    <2>1. CASE CloseTempFd(th)
      BY <2>1 DEF CloseTempFd
    <2>2. CASE ForgetTempFd(th)
      BY <2>2 DEF ForgetTempFd, Forgotten, Returns
    <2> QED BY <1>15, <2>1, <2>2
  <1>16. CASE UNCHANGED vars
    BY <1>16 DEF vars
  <1> QED BY <1>1, <1>2, <1>3, <1>4, <1>5, <1>6, <1>7, <1>8, <1>9, <1>10, <1>11,
             <1>12, <1>13, <1>14, <1>15, <1>16 DEF Next, Step

-----------------------------------------------------------------------------
\* A step of a thread leaves the locals of the others alone.
LEMMA Locals ==
  ASSUME NEW th \in Threads, Start(th) \/ Step(th), ReaderTypeOK
  PROVE  \A o \in Threads \ {th} :
           /\ pc'[o] = pc[o] /\ call'[o] = call[o]
           /\ arg'[o] = arg[o] /\ tmp'[o] = tmp[o]
  <1> USE DEF ReaderTypeOK, Goto
  <1>1. CASE Start(th)
    BY <1>1 DEF Start
  <1>2. CASE Lock(th) \/ Peek(th) \/ SeekCur(th) \/ ReadMove(th) \/ ReadEof(th)
    BY <1>2 DEF Lock, Peek, SeekCur, ReadMove, ReadEof
  <1>3. CASE Unlock(th) \/ Return(th) \/ ForgetTempFd(th)
    BY <1>3 DEF Unlock, Return, ForgetTempFd, Returns
  <1>4. CASE ReadFetch(th) \/ ReadFails(th) \/ SeekSet(th)
    BY <1>4 DEF ReadFetch, ReadFails, SeekSet
  <1>5. CASE SeekEnd(th) \/ SeekMove(th) \/ Fstat(th)
    BY <1>5 DEF SeekEnd, SeekMove, Fstat
  <1>6. CASE UseClosed(th) \/ UseTemp(th) \/ Copy(th) \/ Flush(th)
    BY <1>6 DEF UseClosed, UseTemp, Copy, Flush, Fails
  <1>7. CASE CloseFile(th) \/ ForgetFile(th) \/ CloseTempFd(th)
    BY <1>7 DEF CloseFile, ForgetFile, CloseTempFd
  <1> QED BY <1>1, <1>2, <1>3, <1>4, <1>5, <1>6, <1>7 DEF Step

LEMMA CallStep == SharedInv /\ ReaderTypeOK' /\ [Next]_vars => CallInv'
  <1> SUFFICES ASSUME SharedInv, ReaderTypeOK', [Next]_vars PROVE CallInv'
    OBVIOUS
  <1> USE DEF SharedInv, CallInv, ReaderTypeOK, At, In, Goto
  <1>1. CASE UNCHANGED vars
    BY <1>1 DEF vars
  <1>2. ASSUME NEW th \in Threads, Start(th) \/ Step(th) PROVE CallInv'
    <2> DEFINE Ok(o) == /\ pc[o] = "idle" <=> call[o] = "none"
                        /\ pc[o] \in {"closeFile", "fileClosed", "closeTemp", "tempClosed"}
                             => call[o] = "close"
                        /\ pc[o] \in {"fetched", "moved"} => call[o] = "read"
                        /\ pc[o] = "target" => call[o] \in {"seekSet", "seekEnd"}
    <2>1. ASSUME NEW o \in Threads \ {th} PROVE Ok(o)'
      <3>1. pc'[o] = pc[o] /\ call'[o] = call[o]
        BY <1>2, Locals
      <3>2. Ok(o)
        OBVIOUS
      <3> QED BY <3>1, <3>2
    <2>2. Ok(th)'
      <3>1. CASE Start(th)
        <4>1. PICK k \in Offered, l \in {"bare", "lock"} :
                call' = [call EXCEPT ![th] = k] /\ pc' = [pc EXCEPT ![th] = l]
          BY <3>1 DEF Start
        <4>2. k # "none"
          BY DEF Offered, ReadCalls, WriteCalls
        <4>3. call'[th] # "none" /\ pc'[th] \in {"bare", "lock"}
          BY <4>1, <4>2
        <4> QED BY <4>3
      <3>2. CASE Lock(th) \/ Peek(th) \/ SeekCur(th) \/ ReadMove(th) \/ ReadEof(th)
        BY <3>2 DEF Lock, Peek, SeekCur, ReadMove, ReadEof
      <3>3. CASE Unlock(th) \/ Return(th) \/ ForgetTempFd(th)
        BY <3>3 DEF Unlock, Return, ForgetTempFd, Returns
      <3>4. CASE ReadFetch(th) \/ ReadFails(th) \/ SeekSet(th)
        BY <3>4 DEF ReadFetch, ReadFails, SeekSet
      <3>5. CASE SeekEnd(th) \/ SeekMove(th) \/ Fstat(th)
        BY <3>5 DEF SeekEnd, SeekMove, Fstat
      <3>6. CASE UseClosed(th) \/ UseTemp(th) \/ Copy(th) \/ Flush(th)
        BY <3>6 DEF UseClosed, UseTemp, Copy, Flush, Fails
      <3>7. CASE CloseFile(th) \/ ForgetFile(th) \/ CloseTempFd(th)
        BY <3>7 DEF CloseFile, ForgetFile, CloseTempFd
      <3> QED BY <1>2, <3>1, <3>2, <3>3, <3>4, <3>5, <3>6, <3>7 DEF Step
    <2> QED BY <2>1, <2>2
  <1> QED BY <1>1, <1>2 DEF Next

LEMMA MutexStep == SharedInv /\ ReaderTypeOK' /\ [Next]_vars => MutexInv'
  <1> SUFFICES ASSUME SharedInv, ReaderTypeOK', [Next]_vars PROVE MutexInv'
    OBVIOUS
  <1> USE FreeAssumption
      DEF SharedInv, MutexInv, Inside, ReaderTypeOK, At, In, Goto
  <1>1. CASE UNCHANGED vars
    BY <1>1 DEF vars
  <1>2. ASSUME NEW th \in Threads, Start(th) \/ Step(th) PROVE MutexInv'
    <2>1. CASE Lock(th)
      <3>1. mtx = Free /\ mtx' = th
        BY <2>1 DEF Lock, MayLock
      <3>2. \A o \in Threads : pc[o] \notin Inside
        BY <3>1
      <3> QED BY <1>2, <3>1, <3>2, Locals
    <2>2. CASE Unlock(th)
      <3>1. \A o \in Threads \ {th} : pc[o] \notin Inside
        BY <2>2 DEF Unlock
      <3>2. pc'[th] \in {"idle", "closeFile"}
        BY <2>2 DEF Unlock, Returns
      <3> QED BY <1>2, <3>1, <3>2, Locals
    <2>3. CASE UNCHANGED mtx /\ (pc'[th] \in Inside => pc[th] \in Inside)
      BY <1>2, <2>3, Locals
    <2> QED
      <3>1. CASE Start(th) \/ Return(th) \/ ForgetTempFd(th)
        BY <3>1, <2>3 DEF Start, Return, ForgetTempFd, Returns
      <3>2. CASE Peek(th) \/ SeekCur(th) \/ ReadMove(th) \/ ReadEof(th)
        BY <3>2, <2>3 DEF Peek, SeekCur, ReadMove, ReadEof
      <3>3. CASE ReadFetch(th) \/ ReadFails(th) \/ SeekSet(th)
        BY <3>3, <2>3 DEF ReadFetch, ReadFails, SeekSet
      <3>4. CASE SeekEnd(th) \/ SeekMove(th) \/ Fstat(th)
        BY <3>4, <2>3 DEF SeekEnd, SeekMove, Fstat
      <3>5. CASE UseClosed(th) \/ UseTemp(th) \/ Copy(th) \/ Flush(th)
        BY <3>5, <2>3 DEF UseClosed, UseTemp, Copy, Flush, Fails
      <3>6. CASE CloseFile(th) \/ ForgetFile(th) \/ CloseTempFd(th)
        BY <3>6, <2>3 DEF CloseFile, ForgetFile, CloseTempFd
      <3> QED BY <1>2, <2>1, <2>2, <3>1, <3>2, <3>3, <3>4, <3>5, <3>6 DEF Step
  <1> QED BY <1>1, <1>2 DEF Next

\* What the threads share changes as follows.
LEMMA Effects ==
  ASSUME NEW th \in Threads, Start(th) \/ Step(th), SharedInv
  PROVE  /\ pos' = pos \/ ReadMove(th) \/ SeekMove(th)
         /\ isEof => isEof'
         /\ \A o \in Threads \ {th} : /\ o \in harmed' <=> o \in harmed
                                      /\ o \in beside => o \in beside'
  <1> USE DEF SharedInv, stream, resources
  <1>1. CASE Start(th)
    BY <1>1 DEF Start
  <1>2. CASE Lock(th) \/ Peek(th) \/ SeekCur(th) \/ ReadMove(th)
    BY <1>2 DEF Lock, Peek, SeekCur, ReadMove
  <1>3. CASE Unlock(th) \/ Return(th) \/ ForgetTempFd(th)
    BY <1>3 DEF Unlock, Return, ForgetTempFd, Returns
  <1>4. CASE ReadFetch(th) \/ ReadFails(th) \/ SeekSet(th)
    BY <1>4 DEF ReadFetch, ReadFails, SeekSet
  <1>5. CASE SeekEnd(th) \/ SeekMove(th) \/ Fstat(th)
    BY <1>5 DEF SeekEnd, SeekMove, Fstat
  <1>6. CASE UseClosed(th) \/ UseTemp(th) \/ Copy(th) \/ Flush(th)
    BY <1>6 DEF UseClosed, UseTemp, Copy, Flush, Fails
  <1>7. CASE CloseFile(th) \/ ForgetFile(th) \/ CloseTempFd(th)
    BY <1>7 DEF CloseFile, ForgetFile, CloseTempFd
  <1>8. CASE ReadEof(th)
    <2>1. isEof => isEof'
      BY <1>8, Zenon DEF ReadEof
    <2> QED BY <1>8, <2>1 DEF ReadEof
  <1> QED BY <1>1, <1>2, <1>3, <1>4, <1>5, <1>6, <1>7, <1>8 DEF Step

LEMMA DataStep == SharedInv /\ ReaderTypeOK' /\ [Next]_vars => DataInv'
  <1> SUFFICES ASSUME SharedInv, ReaderTypeOK', [Next]_vars PROVE DataInv'
    OBVIOUS
  <1> DEFINE Fetched(o) == pc[o] = "fetched" => /\ tmp[o][1] = pos
                                                /\ tmp[o][2] \in 0 .. Available
                                                /\ tmp[o][2] = 0 => Available = 0
             Moved(o) == pc[o] = "moved" => tmp[o][2] >= 0
             Target(o) == pc[o] = "target" /\ call[o] = "seekEnd"
                            => tmp[o][1] = Available - arg[o]
             AtEof(o) == pc[o] = "unlock" /\ call[o] = "read" /\ o \notin harmed
                         /\ tmp[o][2] = 0 => isEof
             Ok(o) == Fetched(o) /\ Moved(o) /\ Target(o) /\ AtEof(o)
  <1>1. \A o \in Threads : Ok(o)
    BY DEF SharedInv, DataInv, At, In
  <1>2. CASE UNCHANGED vars
    BY <1>1, <1>2 DEF vars, stream, resources, DataInv, At, In, Available
  <1>3. ASSUME NEW th \in Threads, Start(th) \/ Step(th) PROVE DataInv'
    <2>1. ASSUME NEW o \in Threads \ {th} PROVE Ok(o)'
      <3>1. Ok(o) /\ pc'[o] = pc[o] /\ call'[o] = call[o] /\ arg'[o] = arg[o]
            /\ tmp'[o] = tmp[o] /\ (o \in harmed' <=> o \in harmed)
            /\ (isEof => isEof')
        BY <1>1, <1>3, Locals, Effects DEF SharedInv
      <3>2. pc[o] \in {"fetched", "target"} => pos' = pos
        <4>1. ReadMove(th) \/ SeekMove(th) => pc[th] \in Inside
          BY DEF ReadMove, SeekMove, At, Inside
        <4>2. pc[o] \in {"fetched", "target"} => pc[th] \notin Inside
          BY DEF SharedInv, MutexInv, Inside
        <4> QED BY <1>3, <4>1, <4>2, Effects
      <3> QED BY <3>1, <3>2 DEF Available
    <2>2. Ok(th)'
      <3> USE SizeAssumption DEF SharedInv, ReaderTypeOK, At, In, Goto
      <3>1. CASE ReadFetch(th)
        <4>1. PICK n \in 0 .. Available : /\ n = 0 => Available = 0
                                         /\ tmp' = [tmp EXCEPT ![th] = <<pos, n>>]
          BY <3>1 DEF ReadFetch
        <4>2. pc'[th] = "fetched" /\ pos' = pos /\ tmp'[th] = <<pos, n>>
          BY <3>1, <4>1 DEF ReadFetch, stream
        <4> QED BY <4>1, <4>2 DEF Available
      <3>2. CASE ReadMove(th)
        BY <1>1, <3>2 DEF ReadMove
      <3>3. CASE ReadFails(th)
        <4>1. pc'[th] = "moved" /\ tmp'[th][2] = Size + BuffSize
          BY <3>3 DEF ReadFails, Huge
        <4> QED BY <4>1
      <3>4. CASE ReadEof(th)
        <4>1. pc'[th] = "unlock" /\ tmp' = tmp
          BY <3>4 DEF ReadEof
        <4>2. tmp[th][2] = 0 => ShortRead(tmp[th][2])
          BY DEF ShortRead
        <4>3. isEof' = (isEof \/ ShortRead(tmp[th][2]))
          BY <3>4, Zenon DEF ReadEof
        <4>4. tmp'[th][2] = 0 => isEof'
          BY <4>1, <4>2, <4>3, Zenon
        <4> QED BY <4>1, <4>4
      <3>5. CASE SeekEnd(th)
        <4>1. pc'[th] = "target" /\ tmp'[th][1] = Available - arg[th]
              /\ UNCHANGED <<arg, pos>>
          BY <3>5 DEF SeekEnd, stream
        <4> QED BY <4>1 DEF Available
      <3>6. CASE SeekSet(th)
        <4>1. pc'[th] = "target" /\ call'[th] = "seekSet"
          BY <3>6 DEF SeekSet
        <4> QED BY <4>1
      <3>7. CASE UseClosed(th)
        <4>1. pc'[th] \in {"unlock", "return"}
          BY <3>7 DEF UseClosed, Fails
        <4>2. pc'[th] = "unlock" /\ call'[th] = "read" => th \in harmed'
          BY <3>7 DEF UseClosed, Fails, CallInv
        <4> QED BY <4>1, <4>2
      <3>8. CASE Start(th) \/ Lock(th) \/ Fstat(th) \/ SeekCur(th)
        <4>1. pc'[th] \in {"bare", "lock", "locked", "return", "relock"}
          BY <3>8 DEF Start, Lock, Fstat, SeekCur
        <4> QED BY <4>1
      <3>9. CASE Unlock(th) \/ Return(th) \/ ForgetTempFd(th)
        <4>1. pc'[th] \in {"idle", "closeFile"}
          BY <3>9 DEF Unlock, Return, ForgetTempFd, Returns
        <4> QED BY <4>1
      <3>10. CASE Peek(th) \/ SeekMove(th) \/ UseTemp(th) \/ Copy(th) \/ Flush(th)
        <4>1. pc'[th] \in {"unlock", "return"} /\ call'[th] # "read"
          BY <3>10 DEF Peek, SeekMove, UseTemp, Copy, Flush, Fails, CallInv
        <4> QED BY <4>1
      <3>11. CASE CloseFile(th) \/ ForgetFile(th) \/ CloseTempFd(th)
        <4>1. pc'[th] \in {"fileClosed", "closeTemp", "return", "tempClosed"}
          BY <3>11 DEF CloseFile, ForgetFile, CloseTempFd
        <4> QED BY <4>1
      <3> QED BY <1>3, <3>1, <3>2, <3>3, <3>4, <3>5, <3>6, <3>7, <3>8, <3>9,
                 <3>10, <3>11 DEF Step
    <2> QED BY <2>1, <2>2 DEF DataInv, At, In
  <1> QED BY <1>2, <1>3 DEF Next

LEMMA FreedStep == SharedInv /\ ReaderTypeOK' /\ [Next]_vars => FreedInv'
  <1> SUFFICES ASSUME SharedInv, ReaderTypeOK', [Next]_vars PROVE FreedInv'
    OBVIOUS
  <1> USE DEF SharedInv, FreedInv, ReaderTypeOK, At, In, Goto, stream, resources
  <1>1. CASE UNCHANGED vars
    BY <1>1 DEF vars
  <1>2. ASSUME NEW th \in Threads, Start(th) \/ Step(th) PROVE FreedInv'
    <2>1. CASE CloseFile(th)
      <3>1. pc'[th] = "fileClosed" /\ temp_fd' = temp_fd /\ pc[th] # "tempClosed"
        BY <2>1 DEF CloseFile
      <3> QED BY <1>2, <3>1, Locals
    <2>2. CASE CloseTempFd(th)
      <3>1. pc'[th] = "tempClosed" /\ file' = file /\ pc[th] # "fileClosed"
        BY <2>2 DEF CloseTempFd
      <3> QED BY <1>2, <3>1, Locals
    <2>3. CASE ForgetFile(th)
      <3>1. file' = "null" /\ temp_fd' = temp_fd /\ pc[th] # "tempClosed"
        BY <2>3 DEF ForgetFile, Forgotten
      <3> QED BY <1>2, <3>1, Locals
    <2>4. CASE ForgetTempFd(th)
      <3>1. file' = file /\ temp_fd' = "null" /\ pc[th] # "fileClosed"
        BY <2>4 DEF ForgetTempFd, Forgotten, Returns
      <3> QED BY <1>2, <3>1, Locals
    <2>5. CASE UNCHANGED <<file, temp_fd>> /\ pc[th] \notin {"fileClosed", "tempClosed"}
      BY <1>2, <2>5, Locals
    <2> QED
      <3>1. CASE Start(th)
        BY <3>1, <2>5 DEF Start
      <3>2. CASE Lock(th) \/ Peek(th) \/ SeekCur(th) \/ ReadMove(th) \/ ReadEof(th)
        BY <3>2, <2>5 DEF Lock, Peek, SeekCur, ReadMove, ReadEof
      <3>3. CASE Unlock(th) \/ Return(th)
        BY <3>3, <2>5 DEF Unlock, Return, Returns
      <3>4. CASE ReadFetch(th) \/ ReadFails(th) \/ SeekSet(th)
        BY <3>4, <2>5 DEF ReadFetch, ReadFails, SeekSet
      <3>5. CASE SeekEnd(th) \/ SeekMove(th) \/ Fstat(th)
        BY <3>5, <2>5 DEF SeekEnd, SeekMove, Fstat
      <3>6. CASE UseClosed(th) \/ UseTemp(th) \/ Copy(th) \/ Flush(th)
        BY <3>6, <2>5 DEF UseClosed, UseTemp, Copy, Flush, Fails
      <3> QED BY <1>2, <2>1, <2>2, <2>3, <2>4, <3>1, <3>2, <3>3, <3>4, <3>5, <3>6
              DEF Step
  <1> QED BY <1>1, <1>2 DEF Next

\* A call that another thread's close() has been in progress with.
LEMMA FreedMeansBeside ==
  ASSUME SharedInv, NEW th \in Threads, pc[th] # "idle"
  PROVE  /\ file = "freed" /\ pc[th] # "fileClosed" => th \in beside
         /\ temp_fd = "freed" /\ pc[th] # "tempClosed" => th \in beside
  <1>1. call[th] # "none"
    BY DEF SharedInv, CallInv
  <1>2. ASSUME NEW c \in Threads, c # th, pc[c] \in {"fileClosed", "tempClosed"}
        PROVE  th \in beside
    BY <1>1, <1>2 DEF SharedInv, CallInv, BesideInv
  <1> QED BY <1>2 DEF SharedInv, FreedInv

\* Only a call that has been beside a close() is harmed by it.
LEMMA HarmStep == SharedInv /\ ReaderTypeOK' /\ [Next]_vars => HarmNeedsOverlap'
  <1> SUFFICES ASSUME SharedInv, ReaderTypeOK', [Next]_vars PROVE HarmNeedsOverlap'
    OBVIOUS
  <1> USE DEF HarmNeedsOverlap
  <1>1. CASE UNCHANGED vars
    BY <1>1 DEF vars, resources, SharedInv
  <1>2. ASSUME NEW th \in Threads, Start(th) \/ Step(th) PROVE HarmNeedsOverlap'
    <2>1. \A o \in Threads \ {th} : o \in harmed' => o \in beside'
      BY <1>2, Effects DEF SharedInv
    <2>2. th \in harmed' => th \in beside'
      <3> USE DEF SharedInv, resources, At, In
      <3>1. CASE UNCHANGED harmed /\ (th \in beside => th \in beside')
        BY <3>1
      <3>2. CASE harmed' = harmed \ {th}
        BY <3>2
      <3>3. CASE UNCHANGED beside /\ th \in beside
        BY <3>3
      <3>4. CASE Start(th)
        BY <3>4, <3>1 DEF Start
      <3>5. CASE Lock(th) \/ Peek(th) \/ SeekCur(th) \/ ReadMove(th) \/ ReadEof(th)
        BY <3>5, <3>1 DEF Lock, Peek, SeekCur, ReadMove, ReadEof
      <3>6. CASE Unlock(th) \/ Return(th) \/ ForgetTempFd(th)
        BY <3>6, <3>1, <3>2 DEF Unlock, Return, ForgetTempFd, Returns
      <3>7. CASE ReadFetch(th) \/ ReadFails(th) \/ SeekSet(th)
        BY <3>7, <3>1 DEF ReadFetch, ReadFails, SeekSet
      <3>8. CASE SeekEnd(th) \/ SeekMove(th) \/ Fstat(th)
        BY <3>8, <3>1 DEF SeekEnd, SeekMove, Fstat
      <3>9. CASE UseClosed(th)
        <4>1. CASE pc[th] = "fetched" /\ file # "open"
          BY <3>9, <3>3, <4>1 DEF UseClosed, Fails, BesideInv
        <4>2. CASE Fails(th, file, "unlock") \/ Fails(th, file, "return")
          <5>1. pc[th] # "idle" /\ pc[th] # "fileClosed"
            BY <3>9 DEF UseClosed
          <5> QED BY <4>2, <5>1, <3>1, <3>3, FreedMeansBeside DEF Fails
        <4> QED BY <3>9, <4>1, <4>2 DEF UseClosed
      <3>10. CASE UseTemp(th)
        <4>1. pc[th] # "idle" /\ pc[th] # "tempClosed"
          BY <3>10 DEF UseTemp
        <4> QED BY <3>10, <4>1, <3>1, <3>3, FreedMeansBeside DEF UseTemp, Fails
      <3>11. CASE Copy(th) \/ Flush(th) \/ CloseFile(th)
        <4>1. pc[th] # "idle" /\ pc[th] # "fileClosed"
          BY <3>11 DEF Copy, Flush, CloseFile
        <4> QED BY <3>11, <4>1, <3>1, <3>3, FreedMeansBeside DEF Copy, Flush, CloseFile, Fails
      <3>12. CASE CloseTempFd(th)
        <4>1. pc[th] # "idle" /\ pc[th] # "tempClosed"
          BY <3>12 DEF CloseTempFd
        <4> QED BY <3>12, <4>1, <3>1, <3>3, FreedMeansBeside DEF CloseTempFd
      <3>13. CASE ForgetFile(th)
        BY <3>13, <3>1 DEF ForgetFile
      <3> QED BY <1>2, <3>4, <3>5, <3>6, <3>7, <3>8, <3>9, <3>10, <3>11, <3>12,
                 <3>13 DEF Step
    <2> QED BY <2>1, <2>2 DEF ReaderTypeOK
  <1> QED BY <1>1, <1>2 DEF Next

LEMMA BesideStep == SharedInv /\ ReaderTypeOK' /\ [Next]_vars => BesideInv'
  <1> SUFFICES ASSUME SharedInv, ReaderTypeOK', [Next]_vars PROVE BesideInv'
    OBVIOUS
  <1> DEFINE Besides == \A o, c \in Threads :
                          o # c /\ call[o] # "none" /\ call[c] = "close"
                            => o \in beside
             LostStream == \A o \in Threads :
                             pc[o] = "fetched" /\ file # "open" => o \in beside
  <1> USE DEF SharedInv, ReaderTypeOK, At, In, Goto, stream, resources
  <1>1. Besides /\ LostStream
    BY DEF BesideInv
  <1>2. CASE UNCHANGED vars
    BY <1>2 DEF vars, BesideInv
  <1>3. ASSUME NEW th \in Threads, Start(th) \/ Step(th) PROVE BesideInv'
    <2> SUFFICES Besides' /\ LostStream'
      BY DEF BesideInv
    <2>1. CASE Start(th)
      <3>1. Besides'
        <4> SUFFICES ASSUME NEW o \in Threads, NEW c \in Threads, o # c,
                            call'[o] # "none", call'[c] = "close"
                     PROVE  o \in beside'
          OBVIOUS
        <4>1. CASE o # th /\ c # th
          <5>1. call[o] # "none" /\ call[c] = "close"
            BY <1>3, <4>1, Locals
          <5>2. o \in beside
            BY <1>1, <5>1
          <5> QED BY <1>3, <4>1, <5>2, Effects
        <4>2. CASE c = th
          <5>1. o \in Calling
            BY <1>3, <4>2, Locals DEF Calling, CallInv
          <5> QED BY <2>1, <4>2, <5>1 DEF Start
        <4>3. CASE o = th
          <5>1. c \in Closing
            BY <1>3, <4>3, Locals DEF Closing
          <5> QED BY <2>1, <4>3, <5>1 DEF Start
        <4> QED BY <4>1, <4>2, <4>3
      <3>2. LostStream'
        <4>1. file' = file
          BY <2>1 DEF Start
        <4>2. \E k : Goto(th, IF Bare(k) THEN "bare" ELSE "lock")
          BY <2>1 DEF Start
        <4>3. pc'[th] # "fetched"
          BY <4>2
        <4> QED BY <1>1, <1>3, <4>1, <4>3, Locals, Effects
      <3> QED BY <3>1, <3>2
    <2>2. CASE call'[th] = "none" /\ pc'[th] # "fetched" /\ UNCHANGED file
      BY <1>1, <1>3, <2>2, Locals, Effects
    <2>3. CASE UNCHANGED <<call, beside, file>> /\ (pc'[th] = "fetched" => file = "open")
      BY <1>1, <1>3, <2>3, Locals
    <2>4. CASE CloseFile(th) \/ ForgetFile(th)
      <3>1. call[th] = "close" /\ pc'[th] # "fetched" /\ UNCHANGED <<call, beside>>
        BY <2>4 DEF CloseFile, ForgetFile, CallInv
      <3>2. \A o \in Threads \ {th} : pc[o] = "fetched" => o \in beside
        BY <1>1, <3>1 DEF CallInv
      <3> QED BY <1>1, <1>3, <3>1, <3>2, Locals
    <2> QED
      <3>1. CASE Lock(th) \/ Peek(th) \/ SeekCur(th) \/ ReadMove(th) \/ ReadEof(th)
        BY <3>1, <2>3 DEF Lock, Peek, SeekCur, ReadMove, ReadEof
      <3>2. CASE Unlock(th)
        <4>1. CASE call[th] # "close"
          <5>1. Returns(th)
            BY <3>2, <4>1 DEF Unlock
          <5> QED BY <5>1, <2>2 DEF Returns
        <4>2. CASE call[th] = "close"
          BY <3>2, <4>2, <2>3 DEF Unlock
        <4> QED BY <4>1, <4>2
      <3>3. CASE Return(th) \/ ForgetTempFd(th)
        BY <3>3, <2>2 DEF Return, ForgetTempFd, Returns
      <3>4. CASE ReadFetch(th) \/ ReadFails(th) \/ SeekSet(th)
        BY <3>4, <2>3 DEF ReadFetch, ReadFails, SeekSet
      <3>5. CASE SeekEnd(th) \/ SeekMove(th) \/ Fstat(th)
        BY <3>5, <2>3 DEF SeekEnd, SeekMove, Fstat
      <3>6. CASE UseClosed(th) \/ UseTemp(th) \/ Copy(th) \/ Flush(th)
        BY <3>6, <2>3 DEF UseClosed, UseTemp, Copy, Flush, Fails
      <3>7. CASE CloseTempFd(th)
        BY <3>7, <2>3 DEF CloseTempFd
      <3> QED BY <1>3, <2>1, <2>4, <3>1, <3>2, <3>3, <3>4, <3>5, <3>6, <3>7 DEF Step
  <1> QED BY <1>2, <1>3 DEF Next

-----------------------------------------------------------------------------
(* The invariant holds, of any number of threads, file and buffer sizes.   *)
THEOREM SharedInvariance == Spec => []SharedInv
  <1>1. SharedInv /\ [Next]_vars => SharedInv'
    <2> SUFFICES ASSUME SharedInv, [Next]_vars PROVE SharedInv'
      OBVIOUS
    <2>1. ReaderTypeOK'
      BY TypeStep DEF SharedInv
    <2> QED BY <2>1, MutexStep, CallStep, DataStep, FreedStep, BesideStep, HarmStep
            DEF SharedInv
  <1> QED BY <1>1, SharedInit, PTL DEF Spec

(* The handler's members stay well formed, and the position in the file.   *)
THEOREM ReaderTypeCorrect == Spec => []ReaderTypeOK
  <1>1. SharedInv => ReaderTypeOK
    BY DEF SharedInv
  <1> QED BY <1>1, SharedInvariance, PTL

(* A read that has found the end of the file returns with isEof set.       *)
THEOREM EndsAreSeen == Spec => []EndIsSeen
  <1>1. SharedInv => EndIsSeen
    BY DEF SharedInv, DataInv, EndIsSeen
  <1> QED BY <1>1, SharedInvariance, PTL

(* Between computing the target of a SEEK_END and hdfsSeek, nobody moves.  *)
THEOREM TargetsAreFresh == Spec => []SeekTargetFresh
  <1>1. SharedInv => SeekTargetFresh
    BY DEF SharedInv, DataInv, SeekTargetFresh
  <1> QED BY <1>1, SharedInvariance, PTL

(* What close() frees without the mutex harms only calls that were in      *)
(* progress together with it.                                              *)
THEOREM HarmIsOverlap == Spec => []HarmNeedsOverlap
  <1>1. SharedInv => HarmNeedsOverlap
    BY DEF SharedInv
  <1> QED BY <1>1, SharedInvariance, PTL

(* isEof is set by a read that came out short, and by nothing else.        *)
THEOREM EofIsShort == Spec => EofWasShort
  <1> DEFINE A == ~ isEof /\ isEof' =>
               \E th \in Threads : pc[th] = "moved" /\ tmp[th][2] \in 0 .. BuffSize - 1
  <1>1. SharedInv /\ [Next]_vars => [A]_vars
    <2> SUFFICES ASSUME SharedInv, NEW th \in Threads, Start(th) \/ Step(th),
                        ~ isEof, isEof'
                 PROVE  A
      BY DEF Next
    <2>1. CASE ReadEof(th)
      <3>1. pc[th] = "moved" /\ ShortRead(tmp[th][2])
        BY <2>1, Zenon DEF ReadEof, At
      <3>2. tmp[th][2] \in Int /\ tmp[th][2] >= 0
        BY <3>1 DEF SharedInv, DataInv, ReaderTypeOK
      <3> QED BY <3>1, <3>2, SizeAssumption DEF ShortRead
    <2> QED
      <3> USE DEF stream, resources
      <3>1. CASE Start(th)
        BY <3>1 DEF Start
      <3>2. CASE Lock(th) \/ Peek(th) \/ SeekCur(th) \/ ReadMove(th)
        BY <3>2 DEF Lock, Peek, SeekCur, ReadMove
      <3>3. CASE Unlock(th) \/ Return(th) \/ ForgetTempFd(th)
        BY <3>3 DEF Unlock, Return, ForgetTempFd, Returns
      <3>4. CASE ReadFetch(th) \/ ReadFails(th) \/ SeekSet(th)
        BY <3>4 DEF ReadFetch, ReadFails, SeekSet
      <3>5. CASE SeekEnd(th) \/ SeekMove(th) \/ Fstat(th)
        BY <3>5 DEF SeekEnd, SeekMove, Fstat
      <3>6. CASE UseClosed(th) \/ UseTemp(th) \/ Copy(th) \/ Flush(th)
        BY <3>6 DEF UseClosed, UseTemp, Copy, Flush, Fails
      <3>7. CASE CloseFile(th) \/ ForgetFile(th) \/ CloseTempFd(th)
        BY <3>7 DEF CloseFile, ForgetFile, CloseTempFd
      <3> QED BY <2>1, <3>1, <3>2, <3>3, <3>4, <3>5, <3>6, <3>7 DEF Step
  <1> QED BY <1>1, SharedInvariance, PTL DEF Spec, EofWasShort

(* The detailed handler implements AtomicStream: the step of hdfsRead that *)
(* moves the position is the whole read, every other step a seek or none.  *)
THEOREM StreamRefines == Spec => StreamIsAtomic
  <1>1. Init => Stream!Init
    BY DEF Init, Stream!Init
  <1>2. SharedInv /\ ReaderTypeOK' /\ [Next]_vars => [Stream!Next]_(Stream!vars)
    <2> SUFFICES ASSUME SharedInv, ReaderTypeOK', [Next]_vars
                 PROVE  [Stream!Next]_(Stream!vars)
      OBVIOUS
    <2>1. CASE UNCHANGED vars
      BY <2>1 DEF vars, stream, Stream!vars
    <2>2. ASSUME NEW th \in Threads, Start(th) \/ Step(th)
          PROVE  [Stream!Next]_(Stream!vars)
      <3> USE DEF stream, resources
      <3>1. CASE ReadMove(th)
        <4>1. /\ tmp[th] = <<pos, tmp[th][2]>>
              /\ tmp[th][2] \in 0 .. Size - pos
              /\ tmp[th][2] = 0 => pos = Size
          <5>1. tmp[th] \in Int \X Int /\ pos \in 0 .. Size
            BY DEF SharedInv, ReaderTypeOK
          <5>2. /\ tmp[th][1] = pos /\ tmp[th][2] \in 0 .. Size - pos
                /\ tmp[th][2] = 0 => Size - pos = 0
            BY <3>1 DEF ReadMove, At, SharedInv, DataInv, Available
          <5> QED BY <5>1, <5>2, SizeAssumption
        <4>2. got' = tmp[th] /\ pos' = pos + tmp[th][2]
          BY <3>1, <4>1 DEF ReadMove
        <4> QED BY <4>1, <4>2 DEF Stream!Next, Stream!Read
      <3>2. CASE SeekMove(th)
        BY <3>2 DEF SeekMove, ReaderTypeOK, Stream!Next, Stream!Seek
      <3>3. CASE UNCHANGED <<pos, got>>
        BY <3>3 DEF Stream!vars
      <3>4. CASE Start(th)
        BY <3>4, <3>3 DEF Start
      <3>5. CASE Lock(th) \/ Peek(th) \/ SeekCur(th) \/ ReadEof(th)
        BY <3>5, <3>3 DEF Lock, Peek, SeekCur, ReadEof
      <3>6. CASE Unlock(th) \/ Return(th) \/ ForgetTempFd(th)
        BY <3>6, <3>3 DEF Unlock, Return, ForgetTempFd, Returns
      <3>7. CASE ReadFetch(th) \/ ReadFails(th) \/ SeekSet(th)
        BY <3>7, <3>3 DEF ReadFetch, ReadFails, SeekSet
      <3>8. CASE SeekEnd(th) \/ Fstat(th)
        BY <3>8, <3>3 DEF SeekEnd, Fstat
      <3>9. CASE UseClosed(th) \/ UseTemp(th) \/ Copy(th) \/ Flush(th)
        BY <3>9, <3>3 DEF UseClosed, UseTemp, Copy, Flush, Fails
      <3>10. CASE CloseFile(th) \/ ForgetFile(th) \/ CloseTempFd(th)
        BY <3>10, <3>3 DEF CloseFile, ForgetFile, CloseTempFd
      <3> QED BY <2>2, <3>1, <3>2, <3>4, <3>5, <3>6, <3>7, <3>8, <3>9, <3>10 DEF Step
    <2> QED BY <2>1, <2>2 DEF Next
  <1>3. SharedInv => ReaderTypeOK
    BY DEF SharedInv
  <1> QED BY <1>1, <1>2, <1>3, SharedInvariance, PTL DEF Spec, StreamIsAtomic, Stream!Spec
=============================================================================
