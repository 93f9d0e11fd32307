# A verification project for the dmlite HDFS plugin

The plugin lets dmlite serve a grid storage pool from HDFS. A *head node* runs
the name space and the pool manager; *gateways* (disk servers) run the IO driver
and move the data. This directory holds TLA+ models of the plugin's own logic,
TLC instances of them, and proofs about each of them. `src/` below is
the repository's source tree; file names without a path are those of
`src/src/`.

## 1. Inventory

| Component | State it keeps | Operations | What makes it correct |
|---|---|---|---|
| `HdfsPoolManager` (HdfsNS.cpp) | mode, token options, identity of the request | `whereToWrite`, `whereToRead`, `canRead`, `canWrite` | a location is given for a new file only; a GET answers what was so during the call |
| `HdfsPoolDriver`, `HdfsPoolHandler` (HdfsPool.cpp) | one HDFS connection for each request | `createPoolHandler`, `whereToWrite`, `whereToRead`, `cancelWrite`, `removeReplica`, `replicaIsAvailable`, space | tokens name what may be done; a cancel takes nothing that is published; reports were true, or HDFS did not answer |
| `HdfsIOHandler` for writing (HdfsIO.cpp) | HDFS stream, temp file name and descriptor, its offset | constructor, `write`, `seek`, `close`/`copyToHDFS`, destructor | what is stored is what was written, and nobody else's |
| `HdfsIOHandler` shared by threads | HDFS stream and its position, `isEof`, `temp_fd`, a mutex | `read`, `seek`, `tell`, `pread`, `fstat`, `flush`, `write`, `close` | threads see one stream; the mutex is given back; only calls beside a `close()` can come to harm |
| `HdfsIODriver` (HdfsIO.cpp) | identity, token password | `createIOHandler`, `doneWriting`/`updateReplica` | only who was given a PUT location writes; publishing is the last step |
| `HdfsNS` (HdfsNS.cpp) | an HDFS connection, a working directory; for a directory handle an offset and a length | `openDir`, `readDirx`, `create`, `makeDir`, `unlink`, `removeDir`, `rename`, `getReplicas`, `getReplicaByRFN`, ... | a traversal is exact when nothing changes and no listing fails, and always ends; what `create` may empty is known |
| Factories (Hdfs.cpp, HdfsNS.cpp), `HDFSUtil` | their options; `CLASSPATH`, `LD_LIBRARY_PATH` | `configure`, `trim`, `setClasspath`, `setLibraryPath`, `getRandomGateway`, `mkdirs` | each factory lists just the gateways it was given; a process dies only of what it was not, or wrongly, given |
| A stack: catalogue, drivers, `HdfsAuthn`, `wrapCall` | whom the drivers serve, the working directory, `errno` | `createSecurityContext`, `setSecurityContext`, `changeDir`, `getWorkingDir`, `setOwner`, `setMode`, `utime` | a token is made for who is served now, and taken by the driver of a process configured alike |
| HDFS, the gateway's disk (external) | names, leases, blocks; temp folder | called through libhdfs and POSIX | assumed as the plugin uses them |

**How they interact.** A PUT is four calls on two machines:
`whereToWrite` on the head node checks that the file is absent and gives a
location on a random gateway, with a token; there `createIOHandler` opens
`<file>.upload` in HDFS *and* a temp file on local disk. HDFS files can only be
appended to, so writes and seeks go to the temp file; `close()` copies it to
HDFS. `doneWriting` renames `.upload` to the final name, or `cancelWrite`
deletes it. The catalogue keeps no replicas of its own: HDFS *is* the
catalogue, and replicas are made up from what is there. A GET is `getReplicas`
(one made-up replica for each gateway), `whereToRead`, and `createIOHandler`
with the token. Before any of this, dmlite's plugin manager makes the three
factories and gives each option of the configuration to those that are there by
then; a server makes a *stack* from them and uses it for one client after
another.

**What is hard.** Nothing but HDFS is shared between the head node and the
gateways, so every decision is a check followed by an act on a name that others
use too; handlers of one gateway share the temp folder; threads of a server
share a handler, which `close()` takes apart without the mutex; every HDFS call
may fail, `hdfsWrite` may take a part of the data, the answer to an open or a
rename that took effect may be lost, and a look-up that fails is mostly taken
for the absence of the file; a gateway may die at any step and nothing cleans up
after it.
The hazards in PROJECT.json are listed at the lines where these bite.

## 2. Modules

```
 Puts -- HdfsStore -- HdfsPoolPut ------.
             |  \---- HdfsIODriver ------+-- HdfsPut -- HdfsPutInv -- MCHdfsPut
             '- TempStore - HdfsIOWriter '      |           \
                                           AtomicPut     HdfsPutProofs
                                          (refined by)      HdfsPutDataProofs
                                                               HdfsPublishProofs
 HdfsIOShared -- HdfsIOSharedProofs    HdfsGet -- HdfsGetProofs
      '-> AtomicStream                 HdfsPoolHandler -- HdfsPoolProofs
                                       HdfsNamespace -- HdfsNamespaceProofs
                                       HdfsConfig -- HdfsStack -- HdfsStackProofs
```

| Module | Models | State and actions |
|---|---|---|
| `Puts` | the transfers of a system and where each is | `pc`, `gw` (the gateway of its location); fault kinds |
| `HdfsStore` | HDFS (external) | `ns` binds `.upload` and final names to file objects, `hdata` their blocks, `hopen` their lease; create, append, close, rename, delete. The ways they fail are in the modules that call them, at the call: an open or a rename may be refused, or take effect with its answer lost, an append may take a part, a close or a delete may fail unseen |
| `TempStore` | a gateway's temp folder (external), and `temp_path` | `tmpFolder`, `tmpdir`, `tmpdata`; names are sequences of characters, a number and a file name joined, because the code joins them without a separator |
| `HdfsIOWriter` | `HdfsIOHandler` for writing | one action for each HDFS or disk call of the constructor, `write`, `seek`, `close`, the destructor; the process's death |
| `HdfsIODriver` | `doneWriting`, `updateReplica` | rename, which throws when it was refused and also when only its answer was lost, then update: two steps that fail separately |
| `HdfsPoolPut` | `whereToWrite` on both levels, `cancelWrite`, `removeReplica`, `unlink` | check and locate, look up and delete: separate steps; the delete may fail, which nobody looks at |
| `HdfsPut` | the composition, its properties | `ClientCall` starts a call, `CallStep` goes on with one, `UserUnlink` is another user |
| `HdfsPutInv` | the inductive invariant `IInv` | |
| `HdfsPutProofs`, `HdfsPutDataProofs` | the proofs about the buffers and the copy | |
| `HdfsPublishProofs` | the proofs about what is published, and of the refinement | `PubInv` |
| `AtomicPut` | what a PUT promises its readers | `Send`, `Publish`, `Stop`, `Remove` |
| `HdfsIOShared` | `HdfsIOHandler`, for reading or writing, shared by threads | `mtx`, `pos`, `isEof`, and whether `file` and `temp_fd` are open, freed or null; a call locks, works in one to three steps on the stream or the descriptor, unlocks; `close()` frees and forgets each in steps of its own, without the mutex |
| `HdfsIOSharedProofs` | the proofs about it | `SharedInv` |
| `AtomicStream` | a stream whose operations are single steps | `Read`, `Seek` |
| `HdfsNamespace` | one directory, its users, a reader with a handle | `node` (entries), `length`, `offset`; `readDirx` is a listing and a stat; `create` a check and an open; the listings, the stat and the check may fail |
| `HdfsNamespaceProofs` | the proofs about it | `NamespaceInv` |
| `HdfsGet` | GET, tokens, flags of an open | the look-ups of `getReplicas` and `whereToRead` one by one, each of which may fail; `whereToWrite` as a check and a location; the pool handlers made and deleted; a clock; locations, IO handlers |
| `HdfsGetProofs` | the proofs about it | `GetInv` |
| `HdfsPoolHandler` | free space, `replicaIsAvailable` over a changing cluster | the two answers each is made of, which may fail |
| `HdfsPoolProofs` | the proofs about it | `PoolInv` |
| `HdfsConfig` | the factories and how dmlite's plugin manager (external) configures them | `loaded`, `factory`; a line goes from factory to factory (`queue`), a gateway list item by item (`rest`); values are sequences of characters |
| `HdfsStack` | a stack of a configured process and the clients it serves | `userId` of each driver, `workdir` of the connection and `cwd`, the path of the catalogue, absolute or relative, `errno`, the token given out |
| `HdfsStackProofs` | the proofs about it and `HdfsConfig`, and about lists | `ConfigInv`, `StackInv`, `ProcessInv` |
| `MC...` | the instances for TLC | |

Choices that hold for all of them. Data is a model value or a number; a write
is one block, so a file is a sequence of blocks, and a hole reads as `Hole`.
Log messages, times and permissions are left out, but the mode given to
`create()`, which the code uses as flags, is kept. A definition whose comment
starts with *Variant* is a changed form of the one that follows it, for showing
that a property notices the change; no specification uses it.

What the models leave out of the code they cover: in the PUT a write handler is
used by one thread (its mutex never blocks then; several are the matter of
`HdfsIOShared`, which keeps of the data only offsets); its client destroys it before it calls
`doneWriting` or `cancelWrite`, and calls `doneWriting` only after a `close()`
that returned; EINTR, after which `copyToHDFS` tries again, and a second
`close()` change nothing and are no steps; `removeReplica` is only called with
replicas `HdfsNS` has made up, whose status is `kAvailable`, so its branch for
`kBeingPopulated`, which deletes two names, is not taken; a reader of a directory
stops, or closes it, when `readDirx` has thrown, and does not ask again with the
offset it was left; a path to change to has no `..` in it; the
`hdfsConnect` of `doneWriting`, whose result is not looked at, is taken to work;
what a call does that has found its stream freed is not followed, the call is
marked `harmed` and ends; stacks have connections of their own, as a working
directory set by one would else be seen by the others.

## 3. Runs

All bounds are constants of the .cfg files. `Faults` names what may fail. In the
PUT: connecting, creating, writing, closing, renaming and deleting in HDFS, its
look-ups, the answer to an open or a rename that took effect ("lost"), making the
temp folder, opening and reading the temp file, and the process. In `HdfsGet` and
`HdfsNamespace`: the look-ups of the code, each taken for absence, or for an
empty listing, where the code does.

| Run | Instance | Shows |
|---|---|---|
| `put_copy` | one writer, up to 3 blocks of 2 kinds, 2-block buffer, all faults | `TypeOK`, `StoredAsWritten`, `CallsReturn` |
| `put_buffers` | two writers of one path on one gateway, who draw one number or two, all faults, a user who unlinks (709 thousand states) | `BufferIsolated`, `TempFileOwned`, `IInv`, `PublishedStays`, `TornNeedsRival` |
| `put_atomic` | two writers with a path each, two gateways; every fault but a failing `hdfsCloseFile` (810 thousand states) | `PublishedComplete`, `FailedPutInvisible`, `LeaseHasHolder`, `PublishedFrozen`, `PutIsAtomic` (refinement of `AtomicPut`) |
| `stream_atomic` | two threads, a handler that reads or writes, a file of 3 units, `BUFF_SIZE` 2, every call (565 thousand states) | `StreamIsAtomic` (refinement of `AtomicStream`), `SeekTargetFresh`, `EndIsSeen`, `EofWasShort`, `HarmNeedsOverlap`, `MutexReleased` |
| `dir_listing` | two users, one reader, two entries, modes that read as O_WRONLY and as not, look-ups that fail (232 thousand states) | `QuietListing`, `OverrunNeedsRemoval`, `ListingEnds`, `CreateSparesOld` |
| `get_answers` | two clients that are alike, two gateways, three modes of the pool, look-ups that fail, tokens that expire (2.8 million states) | `AnswerWasTrue`, `ConnectionsReturned`, `WritersHavePut`, `PublishedNotEmptied` |
| `pool_reports` | five units of space, two copies, all statuses, answers that fail (66 thousand states) | `FreeWasTrue`, `AvailabilityWasTrue` |
| `head_node` | three factories loaded in any order among up to two options of ten, four clients, one not in the map file, two of one address, one id with a name and one without, an absolute and a relative path (681 thousand states) | `NoGatewayTwice`, `GatewaysAsGiven`, `DeathHasACause`, `TokensAccepted`, `ServedIsMapped`, `OwnerFromAnswer`, `CwdLeadsThere` |
| `buffer_shared` | two writers that draw one number | violates `BufferHoldsWrites` |
| `close_unchecked` | one writer, `hdfsCloseFile` fails after a block was copied | violates `CloseStores` |
| `seek_cur` | one thread, SEEK_CUR | violates `SeekReturns` |
| `dir_skips` | one user, one reader, three entries, no failures | violates `NoEntrySkipped` |

**Why the bounds are enough.** A copy needs three blocks and a buffer of two for
a full, a partial and a final chunk, and two kinds of block to tell an exchange.
Handlers meet in pairs, in the temp folder or at a path, so two writers show
every meeting; that different numbers and names may spell one temp path is not
reached by `put_buffers` and left to the proof of `BufferIsolated`, which holds for any of them. A read of 3 units with a `BUFF_SIZE` of 2 has full reads, short
reads, and reads of one unit that come out exactly at the end. Readers of a directory do not look at each
other's handles, so one is enough; two users are what it takes for a file to come
between the two steps of a `create()`; with two entries one can come or go before
or behind another that stays, and a listing of two can shrink under an offset of
one (`dir_skips` has three). The two clients of a GET have addresses and
identities of the same kind, so one may be taken for the other (SYMMETRY; the run
checks no liveness). Two gateways make the loops of a GET go round. Two threads are enough for
one to close what the other uses or closes too. Two options are enough for a
repeated gateway over two lines, and for an option before and one after a
plugin is loaded; the lists have blanks around, a repeated item, and a blank
item, each with a comma at the end. `CHECK_DEADLOCK
FALSE` stands where the system does stop: transfers end, and a SEEK_CUR never
does.

**Fairness.** Weak, and only for steps the plugin owes: a call in progress goes
on (`CallStep`: its thread is scheduled and the libhdfs and POSIX calls it makes
return, with an answer or an error, which their timeouts see to); a thread in a
call on a shared handler goes on when it can (`Step`), with nothing assumed of who gets the
mutex; a reader that has opened a directory asks for the next entry
(`ReaderStep`; the loop of `src/test/test-hdfs.cpp:265`). Clients, other users, the clock,
failures and crashes owe nothing.

## 4. Proofs

`tlapm` checks, for any sets of transfers, gateways, paths, names, numbers and
blocks and for any `MaxLen`, `BufSize` and `Faults`:

| Theorem (HdfsPutDataProofs) | Says |
|---|---|
| `TypeCorrect` | `Spec => []TypeOK` |
| `Invariance` | `Spec => []IInv` |
| `BuffersAreIsolated` | `Spec => []BufferIsolated` |
| `CopyIsFaithful` | `Spec => []StoredAsWritten` |

for the same, about what readers see (`HdfsPublishProofs`, which extends it):

| Theorem (HdfsPublishProofs) | Says | If |
|---|---|---|
| `PubInvariance` | `Spec => []PubInv` | |
| `TempFilesAreOwned` | `Spec => []TempFileOwned` | |
| `PublishedFilesStay` | `Spec => PublishedStays` | |
| `PublishedFilesAreFrozen` | `Spec => PublishedFrozen` | |
| `FailuresAreInvisible` | `Spec => []FailedPutInvisible` | |
| `TornFilesNeedRivals` | `Spec => []TornNeedsRival` | |
| `PublishedIsComplete` | `Spec => []PublishedComplete` | `hdfsCloseFile` does not fail |
| `LeasesHaveHolders` | `Spec => []LeaseHasHolder` | `hdfsCloseFile` does not fail |
| `PutsAreAtomic` | `Spec => PutIsAtomic`: a PUT implements `AtomicPut` | `hdfsCloseFile` does not fail, and each transfer has its path and its temp names (`Separate`) |

for any threads, size of the file, `BUFF_SIZE` and counts:

| Theorem (HdfsIOSharedProofs) | Says |
|---|---|
| `ReaderTypeCorrect` | `Spec => []ReaderTypeOK` |
| `StreamRefines` | `Spec => StreamIsAtomic`: the handler implements `AtomicStream` |
| `TargetsAreFresh` | `Spec => []SeekTargetFresh` |
| `EndsAreSeen` | `Spec => []EndIsSeen` |
| `EofIsShort` | `Spec => EofWasShort` |
| `HarmIsOverlap` | `Spec => []HarmNeedsOverlap` |

and for any clients, names, sizes, gateways, modes, flags and lives of tokens:

| Theorem (HdfsGetProofs) | Says |
|---|---|
| `GetTypeCorrect` | `Spec => []GetTypeOK` |
| `AnswersWereTrue` | `Spec => []AnswerWasTrue` |
| `ConnectionsAreReturned` | `Spec => []ConnectionsReturned` |
| `WritersHadPut` | `Spec => []WritersHavePut` |
| `EmptiedOnlyInsecurely` | `Spec => PublishedNotEmptied` |

for any cluster, replication and word that holds the space:

| Theorem (HdfsPoolProofs) | Says |
|---|---|
| `PoolTypeCorrect` | `Spec => []PoolTypeOK` |
| `FreeSpaceWasTrue` | `Spec => []FreeWasTrue` |
| `AvailabilitiesWereTrue` | `Spec => []AvailabilityWasTrue` |

and for any lines of configuration, clients and map file:

| Theorem (HdfsStackProofs) | Says |
|---|---|
| `GatewaysAreListedOnce` | `Spec => []NoGatewayTwice` |
| `TokensAreAccepted` | `Spec => []TokensAccepted` |
| `ServedAreMapped` | `Spec => []ServedIsMapped` |
| `OwnersAreAnswered` | `Spec => []OwnerFromAnswer` |
| `CwdsLeadThere` | `Spec => []CwdLeadsThere` |
| `StackTypeCorrect` | `Spec => []StackTypeOK` |
| `GatewaysAreAsGiven` | `Spec => []GatewaysAsGiven` |
| `DeathsHaveCauses` | `Spec => []DeathHasACause` |

and for any users and readers of a directory, any finite set of names and any
modes below 8:

| Theorem (HdfsNamespaceProofs) | Says |
|---|---|
| `NamespaceInvariance` | `Spec => []NamespaceInv` |
| `QuietTraversals` | `Spec => []QuietListing` |
| `OverrunsNeedRemoval` | `Spec => []OverrunNeedsRemoval` |
| `CreatesSpareOld` | `Spec => CreateSparesOld` |

The assumptions are the named ASSUMEs of the modules (sizes are positive,
`NoFile` and its like are not members of the sets they are kept apart from, the
names a directory may have are finitely many, as they are of bounded length).

*The PUT.* `BufferIsolated` is not inductive: it speaks of the handlers that
have a descriptor, but another handler may reach the same file by its name. So
`IInv` says of every reference, an entry of the temp folder, a descriptor or the
file `copyToHDFS` reads, that it goes to a file made under the same `temp_path`
(`EntryOK`, `RefsOK`), and of every stage what a transfer has by then
(`StageOK`): its gateway and number do not change once drawn (`DrawsStep`). Two
handlers whose paths are apart can then have no file in common, whatever either
does, its second `remove()` by name included. `StoredAsWritten` needs
`CopiedOK`: what is in HDFS followed by what `copyToHDFS` holds is a prefix of
what the client wrote, of the length read so far (`CopyOK` keeps that within the
file); a short `hdfsWrite` moves blocks from the one to the other, and at the
end nothing is held. `HdfsPutProofs` proves the types and `TempInv`;
`HdfsPutDataProofs` proves `BufferStep` and `DataStep`, one step for each action,
and from them the theorems.

*What a PUT publishes.* `PubInv` adds to `IInv` where the names of HDFS point:
only to transfers of that path (`NameOK`), and to a transfer not under both its
names at once, nor before it has opened the upload (`PubOK`). A transfer whose
file has the final name has been renamed, has returned "ok" from `close()`, and
has its stream closed, so what is published is what `StoredAsWritten` speaks of.
The faults enter in two places. A rename that took effect but whose answer is
lost ("lost"), or whose look-ups fail afterwards ("info"), makes `doneWriting`
throw with the file published; `FailedPutInvisible` names these as the only failed
PUTs that are seen, and says that they are whole and have no upload left, so that
the `cancelWrite` that may follow finds nothing to delete. A failing
`hdfsCloseFile` leaves the lease open and the file torn ("hclose"), which three of
the theorems exclude. `TornFilesNeedRivals` excludes nothing: the rename of a
transfer takes what is under the name of its upload by then, and if that is
another's, the transfer's own file has lost its name to it before. A step of a transfer makes the
upload, renames it, deletes it, or leaves the names alone (`MovesHow`); by that
`PublishedStays` needs no assumption on rivals, and a file that has lost its name
never gets one again (`LinkedAfter`), so that a stream whose close failed for that
reason locks nobody out. For the refinement
(`AtomicStep`) the rename is `Publish`, the steps in which the client or an error
ends a transfer are `Stop`, `write()` is `Send`, and all the others change
nothing that `AtomicPut` sees.

*The reports.* A call notes each free space there was while it ran; without nodes
that join or leave, the total it has read is still the total, and the difference
of two quotients differs from the quotient of the difference by at most one
(`FreeIsShare`). That difference is not negative, so it does not wrap.

*Configuration and stack.* An option is in the hands of some factories and not
yet of others; `AgreeOK` says that the drivers differ in nothing but the option
being given, and in that only while one of them waits for it. A process is
configured only while it starts, so the drivers of a live stack agree; `ServedOK`
and `TokenOK` say that both serve the client logged on last and that the token
carries the identity the pool driver had for it.

*The shared handler.* A thread that is between `Lock` and `Unlock` is the one
that holds the mutex, so that at most one is; what it has read off the stream
(the position of a read, the target of a seek) is then still so when it goes on,
although `close()` may have freed the stream meanwhile. Each step of the detailed
handler is therefore a step of `AtomicStream` or leaves `pos` and `got` alone.
For `HarmNeedsOverlap` the invariant says that a freed object implies a
`close()` between its free and its forget, and that of two calls that are in
progress, one of them a `close()`, each is in `beside` but a `close()` that was
there alone.

*The GET.* `FlowInv` ties the stage of a GET to what it holds (a connection at
`handler`, none elsewhere unless it ended with "gone"; `missed` only there), `SeenInv` says that the
version its name has now is among those noted, and `TokenInv` that a token which
writes is the one of a PUT location and names an `.upload`. `NeedsWrite` holds
whenever `IsWriting` does, although the two read the flags differently; that
gives `WritersHavePut`, and that no token opens a published file to write.

*Lists.* What `configure()` makes of a gateway list is a loop over its items;
`GatewaysAsGiven` compares it with `ItemsOf`, which describes the items without
going through the list. `ItemsSplit` is what connects them: the items of a list
are those behind its first comma, and what trimming leaves of what is before it,
if anything is left. Its proof looks for the first comma (`CutOf`) and the first
and last character that is not blank (`TrimOf`), and moves an item behind the
comma to its place in the rest (`TailItem`). `ProcessInv` then holds in the
middle of the loop: the gateways a factory lists, with the items of what it has
still to go through (`Pending`), are the items of the lists it has been given
(`ListsOK`). What is left of a list starts at its beginning or behind one of its
commas (`LeftOf`), so that when `trim()` finds nothing there is a blank item in
the list itself (`BlankFound`). With the shape of the factories (`FactoryOK`) and
no step after a death, that gives `DeathHasACause`.

*The directory.* A listing is the increasing sequence of the names there.
`ListingExists` proves that every finite set has one; the induction over the
size of the set is by a smallest counterexample, which exists because < is well
founded on the naturals, and takes no operator as a parameter. What `readDirx`
relies on follows (`ListingIsComplete`): as many entries as names, each name once.
`NamespaceInv` says of a reader that its length is that of a listing and its
offset within it (`HandleOK`), that the names which have stayed since `openDir`
are in that listing and still there (`KeptOK`), and that while nothing came or
went, every listing is the first and what has been returned is its part up to the
offset (`QuietOK`); where the listing of `openDir` failed, the length is 0 and
nothing is returned. A traversal that runs over the end has met a listing shorter
than its length; had all the names of the first stayed, they would be a subset of
a smaller set, so one has gone. `CreatesSpareOld` needs that a user
between the two steps of `create()` has found its name absent, unless another has
made it since (`made`) or the check has failed (`unknown`).

*Only model-checked:* the liveness properties (`CallsReturn`, `MutexReleased`,
`ListingEnds`), since liveness and ENABLED are outside the prover's reach. Every
other property a passing run checks is stated by a theorem.

## 5. Where the code and its comments differ

Four differences have runs (section 3, the last four rows) and are listed under
"findings". The models also show the following, which have no run of their own:

* HdfsIO.cpp:92 - two first writers race to make `hdfs-io-temp`: the one whose
  `mkdir` comes second throws "Could not create the temp folder" with the folder
  there (`MakeTempFolder`).
* HdfsIO.cpp:55 - `flags & (O_RDWR | O_CREAT)` holds for O_RDWR alone, so the
  branch that opens for reading (58-61) is dead; an O_RDWR open of a published
  file with `kInsecure` empties it (`IsWriting`, `CreateIOHandler`).
* HdfsIO.cpp:170 - a short read sets `isEof` even if it was asked to be short
  (`ReadEof`); HdfsIO.cpp:270 and 318 take `hdfsAvailable`, what lies ahead, for
  the size of the file (`SeekEnd`, `Fstat`).
* HdfsNS.cpp:312 - a file published between `create()`'s check and its open is
  emptied (`CreateCheck`, `CreateOpen`); the permissions are passed as open
  flags, so with 0644 nothing is made.
* HdfsNS.cpp:800, 806 and HdfsPool.cpp:91 - the mode `wr` is taken by
  `canRead`/`canWrite` and refused by `createPoolHandler` (`KnownMode`).
* HdfsPool.cpp:201 - free space wraps when data nodes leave, or join and fill,
  between its two answers (`GetFreeSpace`).
* HdfsIO.cpp:404 - a rename that took effect and whose answer is lost is reported
  as an error, and so is a look-up that fails after it: the file is published
  (`Rename`, `UpdateReplica`).
* HdfsPool.cpp:303 - `cancelWrite` ends well although `hdfsDelete` has failed, and
  the upload stays (`CancelDelete`); it deletes by name, so it may remove a
  rival's upload.
* HdfsNS.cpp:200, 306, 386, 505 and HdfsPool.cpp:231, 255 - a look-up that fails
  is taken for the absence of the file: a GET says that a file which is there is
  gone (`GetReplicas`, `AddReplica`, `LocateFails`), a replica is not available
  (`ReplicaExists`), `create()` opens over an old file (`CreateCheck`), a location
  is given for a file that exists (`PutCheck`, `StatTarget`), and a full directory
  is listed as empty, without an error (`OpenDir`).
* HdfsIO.cpp:147 - a write by another thread that comes between the copy of
  `close()` and the close of the buffer returns without an error and is lost
  (`UseTemp` after `Copy`); a call that meets the freed stream or descriptor may
  do anything (`harmed`).
* HdfsIO.cpp:170 - the -1 of a failed `hdfsRead` is returned as a count of bytes
  (`ReadFails`).
* HdfsNS.cpp:731 - when `whereToRead` of the pool handler throws, the handler and
  its connection are not freed (`LocateFails`).
* HdfsNS.cpp:174 - a relative path is kept as it was given, and means another
  directory from then on (`ChangeDir`); the working directory a client sets stays for the next client
  of the stack (`Logout`); `getWorkingDir` tests an array for NULL and so
  returns what was in it when HDFS does not answer (`GetWorkingDir`).
* HdfsNS.cpp:453, Throw.cpp - the look-up of an id without a name may leave
  `errno` 0, and the NULL is then followed (`SetOwner`).
* Hdfs.cpp:64, HdfsUtil.cpp:114 - a blank item in a gateway list kills the
  process (`AddGateway`), and so do a missing Hadoop folder (`SetFolder`), a
  request when no gateway is configured (`WhereToWrite`) and a replication of 0
  (`AskSpace`).
* Hdfs.cpp:38 - an option given between two LoadPlugin lines reaches only the
  first plugin; pool driver and IO driver may then disagree on the password or
  the kind of id (`Option`; `TokensAccepted` excludes it).

## 6. Not modelled, and why

`umask`, `setSize`, `setChecksum`, `addReplica`, `deleteReplica`,
`updateReplica` of `HdfsNS` (empty bodies). `readDir` copies a name through a
pointer it never sets: undefined from its first call. `poolIsAvailable` is a
condition on the mode. The other fields of a stat (times, sizes of folders,
ids) and the codes of exceptions are data no property here tells apart. `whereToRead` of replicas the
caller hands over is the second half of the modelled one. Memory that failing
calls do not free, and the HDFS connection of an IO handler whose constructor
throws, are not counted; the lease that constructor leaves is (`LeaseHasHolder`).

## 7. Plan

1. *Done:* the PUT with its stores, its abstract specification, its invariant
   and proofs up to the refinement; the handler shared by threads, with
   `close()`, and its proofs; the directory and its proofs; GET, tokens and connections with their proofs; reports; the
   configuration and the stack with theirs.
2. *Next, proofs:* what `AtomicPut` and `AtomicStream` promise by themselves, so
   that it carries over to the detailed modules by the two refinements; an
   abstract specification of a configured process (a factory is a function of the
   lines it was given) and that `HdfsConfig` implements it.
3. *Next, models:* the connections a constructor that throws leaves open; a
   reader of a directory that goes on after `readDirx` has thrown.
