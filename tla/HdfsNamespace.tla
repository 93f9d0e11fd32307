---------------------------- MODULE HdfsNamespace ----------------------------
(***************************************************************************)
(* The name space operations of HdfsNS (src/src/HdfsNS.cpp) on one         *)
(* directory: users create, make, rename and remove its entries, readers   *)
(* traverse it through a handle (openDir, readDirx, closeDir).  A handle   *)
(* keeps no entries, only the length of the directory when it was opened   *)
(* and an offset: each readDirx lists the directory anew.                  *)
(*                                                                         *)
(* HDFS lists a directory in the order of the names; a name is a number.   *)
(***************************************************************************)
EXTENDS Naturals, Sequences, FiniteSets, SequencesExt

CONSTANTS Users,     \* clients that change the name space, one call at a time
          Readers,   \* clients that list the directory
          Entries,   \* the names entries may have
          Modes,     \* the last octal digits of the modes given to create()
          Faults,    \* the look-ups in HDFS that may fail
          NoEntry    \* a string that is no name

ASSUME EntriesAssumption == /\ Entries \subseteq Nat /\ IsFiniteSet(Entries)
                            /\ NoEntry \notin Entries
ASSUME ModesAssumption == Modes \subseteq 0 .. 7
ASSUME FaultsAssumption == Faults \subseteq {"list", "stat", "exists"}

VARIABLES there,     \* the directory exists
          node,      \* entry -> "none", "dir", "empty" or "full" (a file)
          upc, uarg, \* user -> where in create() it is, and for <<name, mode>>
          made,      \* user -> history: its name has been made since its check
          rpc,       \* reader -> where it is
          length, offset,  \* reader -> the fields of its HDFSDir
          picked,    \* reader -> the name it has found in a listing
          seen,      \* reader -> history: the entries readDirx has returned
          base,      \* reader -> history: the listing when the handle was opened
          kept,      \* reader -> history: its entries that have stayed since
          changed    \* reader -> history: entries have come or gone since

dirVars   == <<there, node>>
userVars  == <<upc, uarg, made>>
handle    == <<length, offset, picked>>
since     == <<kept, changed>>
history   == <<seen, base, since>>
vars      == <<dirVars, userVars, rpc, handle, history>>

Stopped   == {"ended", "threw", "crashed"}

Init == /\ there = TRUE
        /\ node \in [Entries -> {"none", "dir", "full"}]
        /\ upc = [u \in Users |-> "idle"]
        /\ uarg = [u \in Users |-> <<NoEntry, 0>>]
        /\ made = [u \in Users |-> FALSE]
        /\ rpc = [r \in Readers |-> "closed"]
        /\ length = [r \in Readers |-> 0]
        /\ offset = [r \in Readers |-> 0]
        /\ picked = [r \in Readers |-> NoEntry]
        /\ seen = [r \in Readers |-> << >>]
        /\ base = [r \in Readers |-> << >>]
        /\ kept = [r \in Readers |-> {}]
        /\ changed = [r \in Readers |-> FALSE]

PresentIn(f) == {n \in Entries : f[n] # "none"}
Present      == PresentIn(node)
Exists(n)    == n \in Present

\* The names of a set, each once, in their order.
InOrder(s)   == \A i, j \in DOMAIN s : i < j => s[i] < s[j]
ListingOf(S) == CHOOSE s \in [1 .. Cardinality(S) -> S] : InOrder(s)
Listing      == ListingOf(Present)

\* The entries become those of f; the history notes what came and went.
Becomes(f) ==
  /\ node' = f
  /\ kept' = [r \in Readers |-> kept[r] \cap PresentIn(f)]
  /\ changed' = [r \in Readers |-> changed[r] \/ PresentIn(f) # Present]
  /\ made' = [u \in Users |-> upc'[u] # "idle" /\ (made[u] \/ uarg[u][1] \in PresentIn(f) \ Present)]
  /\ UNCHANGED <<rpc, handle, seen, base>>

-----------------------------------------------------------------------------
(* The operations of a user.  Each is one call on HDFS, but create().      *)

Idle(u) == upc[u] = "idle"

\* A file another plugin call publishes: the rename at the end of a PUT.
Publish(u, n) ==
  /\ Idle(u) /\ UNCHANGED <<upc, uarg>>
  /\ there /\ node[n] = "none"
  /\ Becomes([node EXCEPT ![n] = "full"])
  /\ UNCHANGED there

\* hdfsCreateDirectory, which makes the parents too.
MakeDir(u, n) ==
  /\ Idle(u) /\ UNCHANGED <<upc, uarg>>
  /\ node[n] = "none"
  /\ Becomes([node EXCEPT ![n] = "dir"])
  /\ there' = TRUE

\* unlink() and removeDir() are the same recursive hdfsDelete.
Unlink(u, n) ==
  /\ Idle(u) /\ UNCHANGED <<upc, uarg>>
  /\ Exists(n)
  /\ Becomes([node EXCEPT ![n] = "none"])
  /\ UNCHANGED there

\* removeDir() of the directory itself.
RemoveDir(u) ==
  /\ Idle(u) /\ UNCHANGED <<upc, uarg>>
  /\ there
  /\ Becomes([n \in Entries |-> "none"])
  /\ there' = FALSE

\* hdfsRename moves a source into a target that is a directory, and refuses a
\* target that is a file.
Rename(u, a, b) ==
  /\ Idle(u) /\ UNCHANGED <<upc, uarg>>
  /\ Exists(a) /\ a # b
  /\ \/ /\ node[b] = "none"
        /\ Becomes([node EXCEPT ![b] = node[a], ![a] = "none"])
     \/ /\ node[b] = "dir"
        /\ Becomes([node EXCEPT ![a] = "none"])
  /\ UNCHANGED there

\* Variant: create() does not look first.
CreateUnchecked(n) == TRUE

CreateFinds(n) == ~ Exists(n)

\* create(): hdfsExists, whose failure counts as absence ...
CreateCheck(u, n, mode) ==
  /\ Idle(u)
  /\ \/ CreateFinds(n) /\ upc' = [upc EXCEPT ![u] = "absent"]
     \/ "exists" \in Faults /\ upc' = [upc EXCEPT ![u] = "unknown"]
  /\ uarg' = [uarg EXCEPT ![u] = <<n, mode>>]
  /\ made' = [made EXCEPT ![u] = FALSE]
  /\ UNCHANGED <<dirVars, rpc, handle, history>>

\* ... then hdfsOpenFile, which is given the mode as its flags: O_WRONLY is 1
\* under the access mask, and only then a file is made, over one that is there.
CreateOpen(u) ==
  LET n == uarg[u][1]
  IN /\ upc[u] \in {"absent", "unknown"}
     /\ upc' = [upc EXCEPT ![u] = "idle"]
     /\ uarg' = [uarg EXCEPT ![u] = <<NoEntry, 0>>]
     /\ \/ /\ uarg[u][2] % 4 = 1 /\ node[n] # "dir"
           /\ Becomes([node EXCEPT ![n] = "empty"])
           /\ there' = TRUE
        \/ /\ made' = [made EXCEPT ![u] = FALSE]              \* only read, or refused
           /\ UNCHANGED <<dirVars, rpc, handle, history>>

UserCall(u) == \/ \E n \in Entries : Publish(u, n) \/ MakeDir(u, n) \/ Unlink(u, n)
               \/ RemoveDir(u)
               \/ \E a, b \in Entries : Rename(u, a, b)
               \/ \E n \in Entries, mode \in Modes : CreateCheck(u, n, mode)
               \/ CreateOpen(u)

-----------------------------------------------------------------------------
(* The traversal of a directory by a reader.                               *)

ReaderGoes(r, l) == rpc' = [rpc EXCEPT ![r] = l]

\* openDir(): extendedStat throws when the directory is not there ...
OpenDirStat(r) ==
  /\ rpc[r] = "closed"
  /\ there
  /\ ReaderGoes(r, "statted")
  /\ UNCHANGED <<dirVars, userVars, handle, history>>

\* ... and the length is that of a listing made after it, or 0 when that
\* fails, which is not looked at.
OpenDir(r) ==
  /\ rpc[r] = "statted"
  /\ \/ length' = [length EXCEPT ![r] = Len(Listing)]
     \/ "list" \in Faults /\ length' = [length EXCEPT ![r] = 0]
  /\ offset' = [offset EXCEPT ![r] = 0]
  /\ base' = [base EXCEPT ![r] = Listing]
  /\ kept' = [kept EXCEPT ![r] = Present]
  /\ changed' = [changed EXCEPT ![r] = FALSE]
  /\ ReaderGoes(r, "open")
  /\ UNCHANGED <<dirVars, userVars, picked, seen>>

\* Variant: one too many.
AtEndLate(r) == offset[r] = length[r] + 1

AtEnd(r) == offset[r] = length[r]

\* readDirx(): 0x00 at the length of old ...
ReadDirEnd(r) ==
  /\ rpc[r] = "open"
  /\ AtEnd(r)
  /\ ReaderGoes(r, "ended")
  /\ UNCHANGED <<dirVars, userVars, handle, history>>

\* ... or the name at the offset in a listing of now, which may be empty or
\* fail, or be too short: the offset is not compared with its length.
ReadDirList(r) ==
  /\ rpc[r] = "open"
  /\ ~ AtEnd(r)
  /\ \/ /\ Listing = << >> \/ "list" \in Faults
        /\ ReaderGoes(r, "threw")
        /\ UNCHANGED picked
     \/ /\ offset[r] < Len(Listing)
        /\ picked' = [picked EXCEPT ![r] = Listing[offset[r] + 1]]
        /\ ReaderGoes(r, "listed")
     \/ /\ Listing # << >> /\ offset[r] >= Len(Listing)
        /\ ReaderGoes(r, "overrun")
        /\ UNCHANGED picked
  /\ UNCHANGED <<dirVars, userVars, length, offset, history>>

\* What lies behind the listing is read as a name: any, or the process dies.
Overrun(r) ==
  /\ rpc[r] = "overrun"
  /\ \/ /\ \E n \in Entries \cup {NoEntry} : picked' = [picked EXCEPT ![r] = n]
        /\ ReaderGoes(r, "listed")
     \/ /\ ReaderGoes(r, "crashed")
        /\ UNCHANGED picked
  /\ UNCHANGED <<dirVars, userVars, length, offset, history>>

\* Variant: the offset moves by two.
AdvanceTwo(r) == IF offset[r] + 1 < length[r] THEN offset[r] + 2 ELSE length[r]

Advance(r) == offset[r] + 1

\* Variant: readDirx tries again when the entry has gone.
AfterGoneRetry == "open"

AfterGone == "threw"

\* The entry is returned with its extendedStat, which throws if it is gone
\* or if HDFS does not answer.
ReadDirStat(r) ==
  /\ rpc[r] = "listed"
  /\ \/ /\ Exists(picked[r])
        /\ seen' = [seen EXCEPT ![r] = Append(@, picked[r])]
        /\ offset' = [offset EXCEPT ![r] = Advance(r)]
        /\ ReaderGoes(r, "open")
     \/ /\ ~ Exists(picked[r]) \/ "stat" \in Faults
        /\ ReaderGoes(r, AfterGone)
        /\ UNCHANGED <<seen, offset>>
  /\ picked' = [picked EXCEPT ![r] = NoEntry]
  /\ UNCHANGED <<dirVars, userVars, length, base, since>>

CloseDir(r) ==
  /\ rpc[r] \in {"ended", "threw"}
  /\ ReaderGoes(r, "closed")
  /\ length' = [length EXCEPT ![r] = 0]
  /\ offset' = [offset EXCEPT ![r] = 0]
  /\ seen' = [seen EXCEPT ![r] = << >>]
  /\ base' = [base EXCEPT ![r] = << >>]
  /\ kept' = [kept EXCEPT ![r] = {}]
  /\ changed' = [changed EXCEPT ![r] = FALSE]
  /\ UNCHANGED <<dirVars, userVars, picked>>

ReaderStep(r) == \/ OpenDir(r) \/ ReadDirEnd(r) \/ ReadDirList(r)
                 \/ Overrun(r) \/ ReadDirStat(r)

Next == \/ \E u \in Users : UserCall(u)
        \/ \E r \in Readers : OpenDirStat(r) \/ ReaderStep(r) \/ CloseDir(r)

Spec == Init /\ [][Next]_vars

\* A reader that has opened a directory reads on to the end of it.
FairSpec == Spec /\ \A r \in Readers : WF_vars(ReaderStep(r))

-----------------------------------------------------------------------------
(* A traversal that comes to its end in a directory in which no entry has  *)
(* come or gone has returned each entry once, in order, however many       *)
(* listings it took: never a part of them.  It returns none, and reports   *)
(* no error, where the listing of openDir has failed.                      *)
QuietListing ==
  \A r \in Readers : rpc[r] = "ended" /\ ~ changed[r] =>
    \/ seen[r] = base[r]
    \/ "list" \in Faults /\ length[r] = 0 /\ seen[r] = << >>

(***************************************************************************)
(* readDirx reads past the end of a listing only if an entry the reader    *)
(* started with has gone: entries that come cannot make it do so.          *)
(***************************************************************************)
OverrunNeedsRemoval ==
  \A r \in Readers : rpc[r] = "overrun" => kept[r] # ToSet(base[r])

(* Every traversal stops, however often the directory changes meanwhile.   *)
ListingEnds ==
  \A r \in Readers : rpc[r] = "open" ~> rpc[r] \in Stopped

(* What empties a file with data is a create() of its name, with a mode    *)
(* that reads as O_WRONLY, and only one that did not see it: another user  *)
(* has made the file since the check, or the check has failed.             *)
CreateSparesOld ==
  [][\A n \in Entries : node[n] = "full" /\ node'[n] = "empty" =>
       \E u \in Users : /\ upc[u] # "idle" /\ uarg[u][1] = n /\ uarg[u][2] % 4 = 1
                        /\ upc[u] = "unknown" \/ made[u]]_vars

(* readDirx returns every entry that is there from openDir to the end, as  *)
(* its comment says: it reads the next entry.                              *)
NoEntrySkipped ==
  \A r \in Readers : rpc[r] = "ended" => kept[r] \subseteq ToSet(seen[r])
=============================================================================
