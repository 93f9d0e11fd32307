------------------------- MODULE HdfsNamespaceProofs -------------------------
(***************************************************************************)
(* Proofs about the traversal of a directory: what a listing is, what a    *)
(* traversal of a directory that stays as it is returns, and when one can  *)
(* run over the end of a listing.                                          *)
(***************************************************************************)
EXTENDS HdfsNamespace, FiniteSetTheorems, TLAPS

(***************************************************************************)
(* Listings.  The induction over the size of the set is by a smallest      *)
(* counterexample: there is one, as < is well founded on the naturals.     *)
(***************************************************************************)
LessThan == {p \in Nat \X Nat : p[1] < p[2]}

LEMMA LessThanWellFounded == IsWellFoundedOn(LessThan, Nat)
  BY NatLessThanWellFounded DEF OpToRel, LessThan

\* A set of naturals with something in it has a least element.
LEMMA LeastOf ==
  ASSUME NEW T \in SUBSET Nat, T # {}
  PROVE  \E x \in T : \A y \in T : x <= y
  <1>1. PICK x \in T : \A y \in T : <<y, x>> \notin LessThan
    BY LessThanWellFounded, WFMin
  <1>2. ASSUME NEW y \in T PROVE x <= y
    <2>1. x \in Nat /\ y \in Nat
      OBVIOUS
    <2>2. <<y, x>> \in Nat \X Nat /\ <<y, x>> \notin LessThan
      BY <1>1, <2>1
    <2> QED BY <2>1, <2>2 DEF LessThan
  <1> QED BY <1>2

IsListing(s, S) == s \in [1 .. Cardinality(S) -> S] /\ InOrder(s)

\* One more name, before all the others.
LEMMA ListingExtended ==
  ASSUME NEW S \in SUBSET Nat, NEW x \in S, \A y \in S : x <= y,
         NEW n \in Nat \ {0}, NEW s \in [1 .. n - 1 -> S \ {x}], InOrder(s)
  PROVE  \E t \in [1 .. n -> S] : InOrder(t)
  <1> DEFINE t == [i \in 1 .. n |-> IF i = 1 THEN x ELSE s[i - 1]]
  <1>1. \A i \in 2 .. n : i - 1 \in 1 .. n - 1 /\ t[i] = s[i - 1] /\ t[i] \in S \ {x}
    OBVIOUS
  <1>2. t[1] = x
    OBVIOUS
  <1>3. t \in [1 .. n -> S]
    OBVIOUS
  <1>4. ASSUME NEW i \in 1 .. n, NEW j \in 1 .. n, i < j PROVE t[i] < t[j]
    <2>1. j \in 2 .. n /\ t[j] \in S \ {x}
      BY <1>1, <1>4
    <2>2. CASE i = 1
      <3>1. t[i] = x /\ x <= t[j] /\ x # t[j] /\ t[j] \in Nat
        BY <1>2, <2>1, <2>2
      <3> HIDE DEF t
      <3> QED BY <3>1
    <2>3. CASE i # 1
      <3>1. i \in 2 .. n
        BY <2>3
      <3>2. i - 1 < j - 1 /\ i - 1 \in 1 .. n - 1 /\ j - 1 \in 1 .. n - 1
        BY <1>4, <2>1, <3>1
      <3>3. s[i - 1] < s[j - 1]
        BY <3>2 DEF InOrder
      <3> QED BY <1>1, <2>1, <3>1, <3>3
    <2> QED BY <2>2, <2>3
  <1>5. InOrder(t)
    BY <1>4 DEF InOrder
  <1> QED BY <1>3, <1>5

\* A finite set of naturals has a listing.
LEMMA ListingExists ==
  ASSUME NEW S \in SUBSET Nat, IsFiniteSet(S)
  PROVE  \E s : IsListing(s, S)
  <1> DEFINE Bad == {n \in Nat : \E T \in SUBSET Nat :
                       IsFiniteSet(T) /\ Cardinality(T) = n /\ ~ \E s : IsListing(s, T)}
  <1> SUFFICES ASSUME Bad # {} PROVE FALSE
    BY FS_CardinalityType
  <1>1. PICK n \in Bad : \A m \in Bad : n <= m
    <2> Bad \in SUBSET Nat
      OBVIOUS
    <2> HIDE DEF Bad
    <2> QED BY LeastOf
  <1>2. PICK T \in SUBSET Nat : IsFiniteSet(T) /\ Cardinality(T) = n /\ ~ \E s : IsListing(s, T)
    BY <1>1
  <1>3. CASE T = {}
    <2>1. Cardinality(T) = 0
      BY <1>3, FS_EmptySet
    <2>2. IsListing(<< >>, T)
      BY <2>1, <1>3 DEF IsListing, InOrder
    <2> QED BY <1>2, <2>2
  <1>4. CASE T # {}
    <2>1. PICK x \in T : \A y \in T : x <= y
      BY LeastOf, <1>4
    <2>2. /\ IsFiniteSet(T \ {x}) /\ Cardinality(T \ {x}) = n - 1
          /\ n \in Nat /\ n # 0
      BY <1>2, <1>4, FS_RemoveElement, FS_EmptySet, FS_CardinalityType
    <2>3. PICK s : IsListing(s, T \ {x})
      <3>1. n - 1 \notin Bad
        BY <1>1, <2>2
      <3> QED BY <3>1, <2>2
    <2>4. s \in [1 .. n - 1 -> T \ {x}] /\ InOrder(s)
      BY <2>2, <2>3 DEF IsListing
    <2>5. \E t \in [1 .. n -> T] : InOrder(t)
      <3> HIDE DEF Bad
      <3> QED BY <2>1, <2>2, <2>4, ListingExtended
    <2> QED BY <1>2, <2>5 DEF IsListing
  <1> QED BY <1>3, <1>4

\* What hdfsListDirectory returns: each name once, in order, and no other.
LEMMA ListingIsComplete ==
  ASSUME NEW S \in SUBSET Entries
  PROVE  /\ IsFiniteSet(S) /\ Cardinality(S) \in Nat
         /\ ListingOf(S) \in Seq(S) /\ Len(ListingOf(S)) = Cardinality(S)
         /\ InOrder(ListingOf(S))
         /\ ToSet(ListingOf(S)) = S
  <1> DEFINE s == ListingOf(S)
             n == Cardinality(S)
  <1>1. S \in SUBSET Nat /\ IsFiniteSet(S) /\ n \in Nat
    BY EntriesAssumption, FS_Subset, FS_CardinalityType
  <1>2. s \in [1 .. n -> S] /\ InOrder(s)
    BY <1>1, ListingExists DEF IsListing, ListingOf
  <1> HIDE DEF s
  <1>3. s \in Seq(S) /\ Len(s) = n
    BY <1>1, <1>2
  <1>4. s \in Injection(1 .. n, S)
    <2>1. ASSUME NEW i \in 1 .. n, NEW j \in 1 .. n, s[i] = s[j] PROVE i = j
      <3>1. ~ s[i] < s[j] /\ ~ s[j] < s[i]
        <4>1. s[i] \in Nat
          BY <1>1, <1>2
        <4> QED BY <4>1, <2>1
      <3>2. ~ i < j /\ ~ j < i
        BY <1>2, <3>1 DEF InOrder
      <3> QED BY <1>1, <3>2
    <2> QED BY <1>2, <2>1 DEF Injection, IsInjective
  <1>5. s \in Surjection(1 .. n, S)
    <2>1. IsFiniteSet(1 .. n) /\ Cardinality(1 .. n) = n
      BY <1>1, FS_Interval
    <2> QED BY <1>1, <1>4, <2>1, FS_Injection
  <1>6. ToSet(s) = S
    BY <1>2, <1>5 DEF ToSet, Surjection
  <1> QED BY <1>1, <1>2, <1>3, <1>6 DEF s

-----------------------------------------------------------------------------
(* The inductive invariant.                                                *)

\* What each variable holds.
NamespaceTypeOK ==
  /\ there \in BOOLEAN
  /\ node \in [Entries -> {"none", "dir", "empty", "full"}]
  /\ upc \in [Users -> {"idle", "absent", "unknown"}]
  /\ uarg \in [Users -> (Entries \cup {NoEntry}) \X (0 .. 7)]
  /\ made \in [Users -> BOOLEAN]
  /\ rpc \in [Readers -> {"closed", "statted", "open", "listed", "overrun"} \cup Stopped]
  /\ length \in [Readers -> Nat] /\ offset \in [Readers -> Nat]
  /\ picked \in [Readers -> Entries \cup {NoEntry}]
  /\ seen \in [Readers -> Seq(Entries)] /\ base \in [Readers -> Seq(Entries)]
  /\ kept \in [Readers -> SUBSET Entries]
  /\ changed \in [Readers -> BOOLEAN]

Traversing == {"open", "listed", "overrun", "ended"}

\* The handle of a traversal: a length, which is 0 where the first listing has
\* failed, and an offset that stays within it.
HandleOK(r) ==
  /\ rpc[r] \in {"closed", "statted"} => seen[r] = << >>
  /\ rpc[r] \in Traversing =>
       /\ \E S \in SUBSET Entries : base[r] = ListingOf(S)
       /\ length[r] = Len(base[r]) \/ ("list" \in Faults /\ length[r] = 0)
       /\ offset[r] <= length[r]
  /\ rpc[r] \in {"listed", "overrun"} => offset[r] < length[r]
  /\ rpc[r] = "ended" => offset[r] = length[r]

\* What has stayed is still there, and a listing too short has lost a name.
KeptOK(r) ==
  /\ rpc[r] \in Traversing => kept[r] \subseteq Present /\ kept[r] \subseteq ToSet(base[r])
  /\ rpc[r] = "overrun" => kept[r] # ToSet(base[r])

\* While nothing comes or goes, every listing is the first, the names up to the
\* offset have been returned, and the one picked is the next.
QuietOK(r) ==
  rpc[r] \in Traversing /\ ~ changed[r] =>
    /\ base[r] = Listing
    /\ seen[r] = SubSeq(base[r], 1, offset[r])
    /\ rpc[r] = "listed" => picked[r] = base[r][offset[r] + 1]
    /\ rpc[r] # "overrun"

ReaderOK(r) == HandleOK(r) /\ KeptOK(r) /\ QuietOK(r)

NamespaceInv == NamespaceTypeOK /\ \A r \in Readers : ReaderOK(r)

\* A listing made now, and its length.
LEMMA ListingNow ==
  ASSUME NamespaceTypeOK
  PROVE  /\ Present \in SUBSET Entries /\ IsFiniteSet(Present)
         /\ Listing \in Seq(Entries) /\ Len(Listing) = Cardinality(Present)
         /\ ToSet(Listing) = Present
         /\ \A i \in 1 .. Len(Listing) : Listing[i] \in Present
         /\ Listing = << >> <=> Len(Listing) = 0
  <1>1. Present \in SUBSET Entries
    BY DEF Present, PresentIn
  <1>2. /\ IsFiniteSet(Present) /\ ListingOf(Present) \in Seq(Present)
        /\ Len(ListingOf(Present)) = Cardinality(Present)
        /\ ToSet(ListingOf(Present)) = Present
    BY <1>1, ListingIsComplete
  <1> QED BY <1>1, <1>2 DEF Listing

-----------------------------------------------------------------------------
(* The steps of the users.                                                 *)

\* The names that come and go do not disturb a traversal's invariant.
LEMMA BecomesKeeps ==
  ASSUME NamespaceInv, NEW f \in [Entries -> {"none", "dir", "empty", "full"}], Becomes(f),
         there' \in BOOLEAN,
         upc' \in [Users -> {"idle", "absent", "unknown"}],
         uarg' \in [Users -> (Entries \cup {NoEntry}) \X (0 .. 7)]
  PROVE  NamespaceInv'
  <1>1. PresentIn(f) = Present' /\ Present' \in SUBSET Entries
    BY DEF Becomes, Present, PresentIn
  <1>2. NamespaceTypeOK'
    BY <1>1 DEF NamespaceInv, NamespaceTypeOK, Becomes, handle
  <1>3. ASSUME NEW r \in Readers PROVE ReaderOK(r)'
    <2>1. /\ ReaderOK(r)
          /\ kept'[r] = kept[r] \cap Present'
          /\ changed'[r] = (changed[r] \/ Present' # Present)
          /\ UNCHANGED <<rpc, length, offset, picked, seen, base>>
      BY <1>1 DEF NamespaceInv, Becomes, handle
    <2>2. HandleOK(r)'
      BY <2>1 DEF ReaderOK, HandleOK
    <2>3. KeptOK(r)'
      BY <2>1 DEF ReaderOK, KeptOK, Traversing
    <2>4. QuietOK(r)'
      <3>1. Present' = Present => Listing' = Listing
        BY DEF Listing
      <3> QED BY <2>1, <3>1 DEF ReaderOK, QuietOK
    <2> QED BY <2>2, <2>3, <2>4 DEF ReaderOK
  <1> QED BY <1>2, <1>3 DEF NamespaceInv

\* Steps that leave the entries and the readers alone.
LEMMA NamesKept ==
  ASSUME NamespaceInv, UNCHANGED <<dirVars, rpc, handle, history>>,
         made' \in [Users -> BOOLEAN],
         upc' \in [Users -> {"idle", "absent", "unknown"}],
         uarg' \in [Users -> (Entries \cup {NoEntry}) \X (0 .. 7)]
  PROVE  NamespaceInv'
  <1>1. Present' = Present /\ Listing' = Listing
    BY DEF Present, Listing, PresentIn, dirVars
  <1>2. NamespaceTypeOK'
    BY DEF NamespaceInv, NamespaceTypeOK, dirVars, handle, history, since
  <1>3. ASSUME NEW r \in Readers PROVE ReaderOK(r)'
    BY <1>1 DEF NamespaceInv, ReaderOK, HandleOK, KeptOK, QuietOK, dirVars, handle, history, since
  <1> QED BY <1>2, <1>3 DEF NamespaceInv

LEMMA UserStep ==
  ASSUME NamespaceInv, NEW u \in Users, UserCall(u)
  PROVE  NamespaceInv'
  <1> NamespaceTypeOK
    BY DEF NamespaceInv
  <1>1. ASSUME NEW n \in Entries, Publish(u, n) \/ MakeDir(u, n) \/ Unlink(u, n)
        PROVE  NamespaceInv'
    <2>1. PICK k \in {"none", "dir", "full"} : Becomes([node EXCEPT ![n] = k])
      BY <1>1 DEF Publish, MakeDir, Unlink
    <2>2. [node EXCEPT ![n] = k] \in [Entries -> {"none", "dir", "empty", "full"}]
      BY DEF NamespaceTypeOK
    <2>3. there' \in BOOLEAN /\ UNCHANGED <<upc, uarg>>
      BY <1>1 DEF Publish, MakeDir, Unlink, NamespaceTypeOK
    <2> QED BY <2>1, <2>2, <2>3, BecomesKeeps DEF NamespaceTypeOK
  <1>2. CASE RemoveDir(u)
    <2>1. [n \in Entries |-> "none"] \in [Entries -> {"none", "dir", "empty", "full"}]
      OBVIOUS
    <2> QED BY <1>2, <2>1, BecomesKeeps DEF RemoveDir, NamespaceTypeOK
  <1>3. ASSUME NEW a \in Entries, NEW b \in Entries, Rename(u, a, b) PROVE NamespaceInv'
    <2>1. PICK f : f \in [Entries -> {"none", "dir", "empty", "full"}] /\ Becomes(f)
      <3>1. /\ [node EXCEPT ![b] = node[a], ![a] = "none"] \in [Entries -> {"none", "dir", "empty", "full"}]
            /\ [node EXCEPT ![a] = "none"] \in [Entries -> {"none", "dir", "empty", "full"}]
        BY DEF NamespaceTypeOK
      <3> QED BY <1>3, <3>1 DEF Rename
    <2> QED BY <1>3, <2>1, BecomesKeeps DEF Rename, NamespaceTypeOK
  <1>4. ASSUME NEW n \in Entries, NEW mode \in Modes, CreateCheck(u, n, mode) PROVE NamespaceInv'
    <2>1. mode \in 0 .. 7
      BY ModesAssumption
    <2> QED BY <1>4, <2>1, NamesKept DEF CreateCheck, NamespaceTypeOK
  <1>5. CASE CreateOpen(u)
    <2>1. /\ upc' \in [Users -> {"idle", "absent", "unknown"}]
          /\ uarg' \in [Users -> (Entries \cup {NoEntry}) \X (0 .. 7)]
      BY <1>5 DEF CreateOpen, NamespaceTypeOK
    <2>2. CASE made' = [made EXCEPT ![u] = FALSE] /\ UNCHANGED <<dirVars, rpc, handle, history>>
      BY <2>1, <2>2, NamesKept DEF NamespaceTypeOK
    <2>3. CASE Becomes([node EXCEPT ![uarg[u][1]] = "empty"]) /\ there' = TRUE
      <3>1. [node EXCEPT ![uarg[u][1]] = "empty"] \in [Entries -> {"none", "dir", "empty", "full"}]
        BY DEF NamespaceTypeOK
      <3> QED BY <2>1, <2>3, <3>1, BecomesKeeps
    <2> QED BY <1>5, <2>2, <2>3 DEF CreateOpen
  <1> QED BY <1>1, <1>2, <1>3, <1>4, <1>5 DEF UserCall

-----------------------------------------------------------------------------
(* The steps of a reader.                                                  *)

\* A step of one reader that keeps the entries leaves the other readers be.
Elsewhere(r) ==
  /\ UNCHANGED <<dirVars, userVars>>
  /\ \A q \in Readers \ {r} :
       /\ rpc'[q] = rpc[q] /\ length'[q] = length[q] /\ offset'[q] = offset[q]
       /\ picked'[q] = picked[q] /\ seen'[q] = seen[q] /\ base'[q] = base[q]
       /\ kept'[q] = kept[q] /\ changed'[q] = changed[q]

LEMMA OneReader ==
  ASSUME NamespaceInv, NEW r \in Readers, Elsewhere(r), NamespaceTypeOK', ReaderOK(r)'
  PROVE  NamespaceInv'
  <1>1. Present' = Present /\ Listing' = Listing
    BY DEF Elsewhere, Present, Listing, PresentIn, dirVars
  <1>2. ASSUME NEW q \in Readers \ {r} PROVE ReaderOK(q)'
    <2>1. ReaderOK(q)
      BY DEF NamespaceInv
    <2> QED BY <1>1, <2>1 DEF ReaderOK, HandleOK, KeptOK, QuietOK, Elsewhere
  <1> QED BY <1>2 DEF NamespaceInv

LEMMA OpenStep ==
  ASSUME NamespaceInv, NEW r \in Readers, OpenDirStat(r) \/ OpenDir(r)
  PROVE  NamespaceInv'
  <1> NamespaceTypeOK /\ ReaderOK(r)
    BY DEF NamespaceInv
  <1> USE DEF ReaderGoes, dirVars, userVars, handle, history, since
  <1>1. CASE OpenDirStat(r)
    <2>1. Elsewhere(r) /\ NamespaceTypeOK'
      BY <1>1 DEF OpenDirStat, Elsewhere, NamespaceTypeOK
    <2>2. rpc'[r] = "statted" /\ seen'[r] = << >>
      BY <1>1 DEF OpenDirStat, NamespaceTypeOK, ReaderOK, HandleOK
    <2>3. ReaderOK(r)'
      BY <2>2 DEF ReaderOK, HandleOK, KeptOK, QuietOK, Traversing
    <2> QED BY <2>1, <2>3, OneReader
  <1>2. CASE OpenDir(r)
    <2>1. Present \in SUBSET Entries /\ Listing \in Seq(Entries) /\ ToSet(Listing) = Present
      BY ListingNow
    <2> PICK n \in Nat : /\ n = Len(Listing) \/ ("list" \in Faults /\ n = 0)
                       /\ length' = [length EXCEPT ![r] = n]
      <3>1. Len(Listing) \in Nat
        BY <2>1
      <3> QED BY <1>2, <3>1 DEF OpenDir
    <2>2. Elsewhere(r) /\ NamespaceTypeOK'
      BY <1>2, <2>1 DEF OpenDir, Elsewhere, NamespaceTypeOK
    <2>3. /\ rpc'[r] = "open" /\ seen'[r] = << >>
          /\ base'[r] = Listing /\ offset'[r] = 0
          /\ length'[r] = Len(Listing) \/ ("list" \in Faults /\ length'[r] = 0)
          /\ kept'[r] = Present /\ UNCHANGED node
      BY <1>2 DEF OpenDir, NamespaceTypeOK, ReaderOK, HandleOK
    <2>4. Present' = Present /\ Listing' = Listing
      BY <2>3 DEF Present, Listing, PresentIn
    <2>5. HandleOK(r)'
      BY <2>1, <2>3 DEF HandleOK, Listing
    <2>6. KeptOK(r)'
      BY <2>1, <2>3, <2>4 DEF KeptOK
    <2>7. QuietOK(r)'
      BY <2>1, <2>3, <2>4 DEF QuietOK
    <2> QED BY <2>2, <2>5, <2>6, <2>7, OneReader DEF ReaderOK
  <1> QED BY <1>1, <1>2

\* What a reader does between two calls.
LEMMA ListStep ==
  ASSUME NamespaceInv, NEW r \in Readers, ReadDirEnd(r) \/ ReadDirList(r) \/ Overrun(r)
  PROVE  NamespaceInv'
  <1> NamespaceTypeOK /\ ReaderOK(r)
    BY DEF NamespaceInv
  <1>1. CASE ReadDirEnd(r)
    <2>1. Elsewhere(r) /\ NamespaceTypeOK'
      BY <1>1 DEF ReadDirEnd, Elsewhere, NamespaceTypeOK, ReaderGoes, dirVars, userVars, handle,
                  history, since, Stopped
    <2>2. /\ rpc[r] = "open" /\ rpc'[r] = "ended" /\ offset[r] = length[r]
          /\ UNCHANGED <<node, length, offset, picked, seen, base, kept, changed>>
      BY <1>1 DEF ReadDirEnd, NamespaceTypeOK, ReaderGoes, AtEnd, dirVars, handle, history, since
    <2>3. Present' = Present /\ Listing' = Listing
      BY <2>2 DEF Present, Listing, PresentIn
    <2>4. ReaderOK(r)'
      BY <2>2, <2>3 DEF ReaderOK, HandleOK, KeptOK, QuietOK, Traversing
    <2> QED BY <2>1, <2>4, OneReader
  <1>2. CASE ReadDirList(r)
    <2>1. /\ rpc[r] = "open" /\ offset[r] # length[r]
          /\ UNCHANGED <<dirVars, userVars, length, offset, seen, base, kept, changed>>
      BY <1>2 DEF ReadDirList, AtEnd, history, since
    <2>2. Present' = Present /\ Listing' = Listing
      BY <2>1 DEF Present, Listing, PresentIn, dirVars
    <2>3. offset[r] < length[r] /\ offset[r] \in Nat /\ length[r] \in Nat
      BY <2>1 DEF ReaderOK, HandleOK, NamespaceTypeOK, Traversing
    <2>4. CASE ReaderGoes(r, "threw") /\ UNCHANGED picked
      <3>1. Elsewhere(r) /\ NamespaceTypeOK' /\ rpc'[r] = "threw"
        BY <2>1, <2>4 DEF Elsewhere, NamespaceTypeOK, ReaderGoes, dirVars, userVars, Stopped
      <3> QED BY <3>1, OneReader DEF ReaderOK, HandleOK, KeptOK, QuietOK, Traversing
    <2>5. CASE /\ offset[r] < Len(Listing)
               /\ picked' = [picked EXCEPT ![r] = Listing[offset[r] + 1]]
               /\ ReaderGoes(r, "listed")
      <3>1. Listing[offset[r] + 1] \in Entries
        <4>1. Listing \in Seq(Entries) /\ offset[r] + 1 \in 1 .. Len(Listing)
          BY <2>3, <2>5, ListingNow
        <4> QED BY <4>1
      <3>2. Elsewhere(r) /\ NamespaceTypeOK'
        BY <2>1, <2>5, <3>1 DEF Elsewhere, NamespaceTypeOK, ReaderGoes, dirVars, userVars
      <3>3. rpc'[r] = "listed" /\ picked'[r] = Listing[offset[r] + 1]
        BY <2>5 DEF NamespaceTypeOK, ReaderGoes
      <3>4. HandleOK(r)' /\ KeptOK(r)' /\ QuietOK(r)'
        BY <2>1, <2>2, <2>3, <3>3 DEF ReaderOK, HandleOK, KeptOK, QuietOK, Traversing
      <3> QED BY <3>2, <3>4, OneReader DEF ReaderOK
    <2>6. CASE offset[r] >= Len(Listing) /\ ReaderGoes(r, "overrun") /\ UNCHANGED picked
      <3>1. Elsewhere(r) /\ NamespaceTypeOK'
        BY <2>1, <2>6 DEF Elsewhere, NamespaceTypeOK, ReaderGoes, dirVars, userVars
      <3>2. rpc'[r] = "overrun" /\ UNCHANGED picked
        BY <2>6 DEF NamespaceTypeOK, ReaderGoes
      <3>3. Len(Listing) < Len(base[r])
        <4>1. Len(Listing) \in Nat /\ length[r] = Len(base[r])
          BY <2>1, <2>3, ListingNow DEF ReaderOK, HandleOK, Traversing
        <4> QED BY <2>3, <2>6, <4>1
      <3>4. kept[r] # ToSet(base[r])
        <4> SUFFICES ASSUME kept[r] = ToSet(base[r]) PROVE FALSE
          OBVIOUS
        <4>1. PICK S \in SUBSET Entries : base[r] = ListingOf(S)
          BY <2>1 DEF ReaderOK, HandleOK, Traversing
        <4>2. Len(base[r]) = Cardinality(S) /\ S = kept[r] /\ Cardinality(S) \in Nat
          BY <4>1, ListingIsComplete
        <4>3. S \in SUBSET Present
          BY <2>1, <4>2 DEF ReaderOK, KeptOK, Traversing
        <4>4. Cardinality(S) <= Cardinality(Present) /\ Len(Listing) = Cardinality(Present)
          BY <4>3, ListingNow, FS_Subset
        <4>5. Cardinality(Present) \in Nat
          BY ListingNow, FS_CardinalityType
        <4> QED BY <3>3, <4>2, <4>4, <4>5
      <3>5. changed[r]
        BY <2>1, <3>3, ListingNow DEF ReaderOK, QuietOK, Traversing, NamespaceTypeOK
      <3>6. HandleOK(r)' /\ KeptOK(r)' /\ QuietOK(r)'
        BY <2>1, <2>2, <2>3, <3>2, <3>4, <3>5
           DEF ReaderOK, HandleOK, KeptOK, QuietOK, Traversing
      <3> QED BY <3>1, <3>6, OneReader DEF ReaderOK
    <2> QED BY <1>2, <2>4, <2>5, <2>6 DEF ReadDirList
  <1>3. CASE Overrun(r)
    <2>1. /\ rpc[r] = "overrun"
          /\ UNCHANGED <<dirVars, userVars, length, offset, seen, base, kept, changed>>
      BY <1>3 DEF Overrun, history, since
    <2>2. Present' = Present /\ Listing' = Listing
      BY <2>1 DEF Present, Listing, PresentIn, dirVars
    <2>3. Elsewhere(r) /\ NamespaceTypeOK' /\ rpc'[r] \in {"listed", "crashed"}
      <3>1. PICK l \in {"listed", "crashed"}, n \in Entries \cup {NoEntry} :
              ReaderGoes(r, l) /\ picked' = [picked EXCEPT ![r] = n]
        <4>1. picked[r] \in Entries \cup {NoEntry} /\ picked = [picked EXCEPT ![r] = picked[r]]
          BY DEF NamespaceTypeOK
        <4> QED BY <1>3, <4>1 DEF Overrun
      <3> QED BY <2>1, <3>1 DEF Elsewhere, NamespaceTypeOK, ReaderGoes, dirVars, userVars, Stopped
    <2>4. changed[r]
      BY <2>1 DEF ReaderOK, QuietOK, Traversing
    <2>5. HandleOK(r)' /\ KeptOK(r)' /\ QuietOK(r)'
      BY <2>1, <2>2, <2>3, <2>4 DEF ReaderOK, HandleOK, KeptOK, QuietOK, Traversing
    <2> QED BY <2>3, <2>5, OneReader DEF ReaderOK
  <1> QED BY <1>1, <1>2, <1>3

\* One more of the first names.
LEMMA OneMore ==
  ASSUME NEW S, NEW s \in Seq(S), NEW n \in Nat, n < Len(s)
  PROVE  Append(SubSeq(s, 1, n), s[n + 1]) = SubSeq(s, 1, n + 1)
  <1> DEFINE a == SubSeq(s, 1, n)
             b == SubSeq(s, 1, n + 1)
  <1>1. /\ a \in Seq(S) /\ Len(a) = n /\ \A i \in 1 .. n : a[i] = s[i]
        /\ b \in Seq(S) /\ Len(b) = n + 1 /\ \A i \in 1 .. n + 1 : b[i] = s[i]
        /\ s[n + 1] \in S
    OBVIOUS
  <1> HIDE DEF a, b
  <1>2. Append(a, s[n + 1]) \in Seq(S) /\ Len(Append(a, s[n + 1])) = n + 1
    BY <1>1
  <1>3. \A i \in 1 .. n + 1 : Append(a, s[n + 1])[i] = b[i]
    BY <1>1
  <1>4. Append(a, s[n + 1]) = b
    BY <1>1, <1>2, <1>3
  <1> QED BY <1>4 DEF a, b

LEMMA StatStep ==
  ASSUME NamespaceInv, NEW r \in Readers, ReadDirStat(r) \/ CloseDir(r)
  PROVE  NamespaceInv'
  <1> NamespaceTypeOK /\ ReaderOK(r)
    BY DEF NamespaceInv
  <1>1. CASE ReadDirStat(r)
    <2>1. /\ rpc[r] = "listed"
          /\ picked' = [picked EXCEPT ![r] = NoEntry]
          /\ UNCHANGED <<dirVars, userVars, length, base, kept, changed>>
      BY <1>1 DEF ReadDirStat, since
    <2>2. Present' = Present /\ Listing' = Listing
      BY <2>1 DEF Present, Listing, PresentIn, dirVars
    <2>3. CASE ReaderGoes(r, "threw") /\ UNCHANGED <<seen, offset>>
      <3>1. Elsewhere(r) /\ NamespaceTypeOK' /\ rpc'[r] = "threw"
        BY <2>1, <2>3 DEF Elsewhere, NamespaceTypeOK, ReaderGoes, dirVars, userVars, Stopped
      <3> QED BY <3>1, OneReader DEF ReaderOK, HandleOK, KeptOK, QuietOK, Traversing
    <2>4. CASE /\ picked[r] \in Present
               /\ seen' = [seen EXCEPT ![r] = Append(@, picked[r])]
               /\ offset' = [offset EXCEPT ![r] = offset[r] + 1]
               /\ ReaderGoes(r, "open")
      <3>1. picked[r] \in Entries
        BY <2>4 DEF Present, PresentIn
      <3>2. Elsewhere(r) /\ NamespaceTypeOK'
        BY <2>1, <2>4, <3>1 DEF Elsewhere, NamespaceTypeOK, ReaderGoes, dirVars, userVars
      <3>3. /\ rpc'[r] = "open" /\ offset'[r] = offset[r] + 1
            /\ seen'[r] = Append(seen[r], picked[r])
        BY <2>4 DEF NamespaceTypeOK, ReaderGoes
      <3>4. offset[r] \in Nat /\ length[r] = Len(base[r]) /\ offset[r] < Len(base[r])
            /\ base[r] \in Seq(Entries)
        BY <2>1 DEF ReaderOK, HandleOK, NamespaceTypeOK, Traversing
      <3>5. HandleOK(r)' /\ KeptOK(r)'
        BY <2>1, <2>2, <3>3, <3>4 DEF ReaderOK, HandleOK, KeptOK, Traversing
      <3>6. QuietOK(r)'
        <4> SUFFICES ASSUME ~ changed[r]
                     PROVE  base[r] = Listing /\ seen'[r] = SubSeq(base[r], 1, offset[r] + 1)
          BY <2>1, <2>2, <3>3 DEF QuietOK
        <4>1. /\ base[r] = Listing /\ seen[r] = SubSeq(base[r], 1, offset[r])
              /\ picked[r] = base[r][offset[r] + 1]
          BY <2>1 DEF ReaderOK, QuietOK, Traversing
        <4> QED BY <3>3, <3>4, <4>1, OneMore
      <3> QED BY <3>2, <3>5, <3>6, OneReader DEF ReaderOK
    <2> QED BY <1>1, <2>3, <2>4 DEF ReadDirStat, Exists, Advance, AfterGone
  <1>2. CASE CloseDir(r)
    <2>1. Elsewhere(r) /\ NamespaceTypeOK' /\ rpc'[r] = "closed" /\ seen'[r] = << >>
      BY <1>2 DEF CloseDir, Elsewhere, NamespaceTypeOK, ReaderGoes, dirVars, userVars
    <2> QED BY <2>1, OneReader DEF ReaderOK, HandleOK, KeptOK, QuietOK, Traversing
  <1> QED BY <1>1, <1>2

-----------------------------------------------------------------------------
LEMMA NamespaceInitial == Init => NamespaceInv
  <1> SUFFICES ASSUME Init PROVE NamespaceInv
    OBVIOUS
  <1>1. NamespaceTypeOK
    BY DEF Init, NamespaceTypeOK
  <1>2. ASSUME NEW r \in Readers PROVE ReaderOK(r)
    BY DEF Init, ReaderOK, HandleOK, KeptOK, QuietOK, Traversing
  <1> QED BY <1>1, <1>2 DEF NamespaceInv

LEMMA NamespaceStep == NamespaceInv /\ [Next]_vars => NamespaceInv'
  <1> SUFFICES ASSUME NamespaceInv, [Next]_vars PROVE NamespaceInv'
    OBVIOUS
  <1>1. ASSUME NEW u \in Users, UserCall(u) PROVE NamespaceInv'
    BY <1>1, UserStep
  <1>2. ASSUME NEW r \in Readers, OpenDirStat(r) \/ ReaderStep(r) \/ CloseDir(r)
        PROVE  NamespaceInv'
    BY <1>2, OpenStep, ListStep, StatStep DEF ReaderStep
  <1>3. CASE UNCHANGED vars
    BY <1>3, NamesKept DEF vars, userVars, NamespaceInv, NamespaceTypeOK
  <1> QED BY <1>1, <1>2, <1>3 DEF Next

(***************************************************************************)
(* Whatever users do to a directory, a reader's offset stays within the    *)
(* length it took, and the rest of the invariant of openDir, readDirx and  *)
(* closeDir holds.                                                         *)
(***************************************************************************)
THEOREM NamespaceInvariance == Spec => []NamespaceInv
  BY NamespaceInitial, NamespaceStep, PTL DEF Spec

(***************************************************************************)
(* A traversal with readDirx of a directory in which no entry comes or     *)
(* goes returns all the entries openDir found, or none of them when the    *)
(* listing that openDir does not check has failed: never a part.           *)
(***************************************************************************)
THEOREM QuietTraversals == Spec => []QuietListing
  <1>1. NamespaceInv => QuietListing
    <2> SUFFICES ASSUME NamespaceInv, NEW r \in Readers, rpc[r] = "ended", ~ changed[r]
                 PROVE  \/ seen[r] = base[r]
                        \/ "list" \in Faults /\ length[r] = 0 /\ seen[r] = << >>
      BY DEF QuietListing
    <2>1. /\ base[r] \in Seq(Entries) /\ offset[r] = length[r]
          /\ length[r] = Len(base[r]) \/ ("list" \in Faults /\ length[r] = 0)
          /\ seen[r] = SubSeq(base[r], 1, offset[r])
      BY DEF NamespaceInv, NamespaceTypeOK, ReaderOK, HandleOK, QuietOK, Traversing
    <2>2. \A s \in Seq(Entries) : SubSeq(s, 1, Len(s)) = s /\ SubSeq(s, 1, 0) = << >>
      OBVIOUS
    <2> QED BY <2>1, <2>2
  <1> QED BY <1>1, NamespaceInvariance, PTL

(***************************************************************************)
(* readDirx reads past the end of a listing only after an entry that was   *)
(* there at openDir has gone.                                              *)
(***************************************************************************)
THEOREM OverrunsNeedRemoval == Spec => []OverrunNeedsRemoval
  <1>1. NamespaceInv => OverrunNeedsRemoval
    BY DEF NamespaceInv, ReaderOK, KeptOK, OverrunNeedsRemoval
  <1> QED BY <1>1, NamespaceInvariance, PTL

-----------------------------------------------------------------------------
(* create().                                                               *)

\* What a check has found absent is absent, or has been made since.
CheckHolds ==
  \A u \in Users :
    /\ upc[u] # "idle" => uarg[u][1] \in Entries
    /\ upc[u] = "absent" => made[u] \/ ~ Exists(uarg[u][1])

CreateInv == NamespaceInv /\ CheckHolds

\* The one who may empty n: who did not see it in a check, and opens to write.
MayEmpty(u, n) == /\ upc[u] # "idle" /\ uarg[u][1] = n /\ uarg[u][2] % 4 = 1
                  /\ upc[u] = "unknown" \/ made[u]

\* Names that come and go leave what the checks have found.
LEMMA BecomesHolds ==
  ASSUME CreateInv, NEW u \in Users, NEW f \in [Entries -> {"none", "dir", "empty", "full"}],
         Becomes(f), upc'[u] = "idle",
         \A v \in Users \ {u} : upc'[v] = upc[v] /\ uarg'[v] = uarg[v]
  PROVE  CheckHolds'
  <1>1. ASSUME NEW v \in Users \ {u}, upc[v] # "idle"
        PROVE  made'[v] = (made[v] \/ uarg[v][1] \in PresentIn(f) \ Present)
    BY <1>1 DEF Becomes
  <1>2. PresentIn(f) = Present'
    BY DEF Becomes, Present, PresentIn
  <1> QED BY <1>1, <1>2 DEF CreateInv, CheckHolds, Exists

LEMMA CreateStep ==
  ASSUME CreateInv, [Next]_vars
  PROVE  /\ CheckHolds'
         /\ \A n \in Entries : node[n] = "full" /\ node'[n] = "empty" =>
              \E u \in Users : MayEmpty(u, n)
  <1> DEFINE Spares == \A n \in Entries : node[n] = "full" /\ node'[n] = "empty" =>
                         \E u \in Users : MayEmpty(u, n)
             Kinds  == {"none", "dir", "empty", "full"}
  <1> NamespaceTypeOK
    BY DEF CreateInv, NamespaceInv
  <1>1. ASSUME UNCHANGED <<node, userVars>>
        PROVE  CheckHolds' /\ Spares
    BY <1>1 DEF CreateInv, CheckHolds, userVars, Exists, Present, PresentIn
  <1>2. ASSUME NEW r \in Readers, OpenDirStat(r) \/ ReaderStep(r) \/ CloseDir(r)
        PROVE  UNCHANGED <<node, userVars>>
    BY <1>2 DEF OpenDirStat, ReaderStep, CloseDir, OpenDir, ReadDirEnd, ReadDirList, Overrun,
                ReadDirStat, dirVars
  <1>3. ASSUME NEW u \in Users, UserCall(u)
        PROVE  CheckHolds' /\ Spares
    <2>1. ASSUME NEW f \in [Entries -> Kinds], Idle(u), UNCHANGED <<upc, uarg>>, Becomes(f)
          PROVE  CheckHolds'
      BY <2>1, BecomesHolds DEF Idle
    <2>2. ASSUME NEW n \in Entries, Publish(u, n) \/ MakeDir(u, n) \/ Unlink(u, n)
          PROVE  CheckHolds' /\ Spares
      <3>1. PICK k \in {"none", "dir", "full"} :
              Becomes([node EXCEPT ![n] = k]) /\ Idle(u) /\ UNCHANGED <<upc, uarg>>
        BY <2>2 DEF Publish, MakeDir, Unlink
      <3>2. [node EXCEPT ![n] = k] \in [Entries -> Kinds] /\ node' = [node EXCEPT ![n] = k]
        BY <3>1 DEF NamespaceTypeOK, Becomes
      <3> QED BY <2>1, <3>1, <3>2 DEF NamespaceTypeOK
    <2>3. CASE RemoveDir(u)
      <3>1. [n \in Entries |-> "none"] \in [Entries -> Kinds]
        OBVIOUS
      <3> QED BY <2>1, <2>3, <3>1 DEF RemoveDir, Becomes
    <2>4. ASSUME NEW a \in Entries, NEW b \in Entries, Rename(u, a, b)
          PROVE  CheckHolds' /\ Spares
      <3>1. PICK f \in [Entries -> Kinds] :
              /\ Becomes(f) /\ Idle(u) /\ UNCHANGED <<upc, uarg>>
              /\ \A n \in Entries : node[n] = "full" => f[n] # "empty"
        <4>1. /\ [node EXCEPT ![b] = node[a], ![a] = "none"] \in [Entries -> Kinds]
              /\ [node EXCEPT ![a] = "none"] \in [Entries -> Kinds]
          BY DEF NamespaceTypeOK
        <4> QED BY <2>4, <4>1 DEF Rename, NamespaceTypeOK
      <3> QED BY <2>1, <3>1 DEF Becomes
    <2>5. ASSUME NEW n \in Entries, NEW mode \in Modes, CreateCheck(u, n, mode)
          PROVE  CheckHolds' /\ Spares
      <3>1. /\ UNCHANGED node /\ uarg'[u][1] = n
            /\ upc'[u] \in {"absent", "unknown"} /\ (upc'[u] = "absent" => ~ Exists(n))
            /\ \A v \in Users \ {u} : upc'[v] = upc[v] /\ uarg'[v] = uarg[v] /\ made'[v] = made[v]
        BY <2>5 DEF CreateCheck, CreateFinds, NamespaceTypeOK, dirVars
      <3> QED BY <3>1 DEF CreateInv, CheckHolds, Exists, Present, PresentIn
    <2>6. CASE CreateOpen(u)
      <3> DEFINE n == uarg[u][1]
      <3>1. /\ upc[u] # "idle" /\ upc'[u] = "idle" /\ n \in Entries
            /\ \A v \in Users \ {u} : upc'[v] = upc[v] /\ uarg'[v] = uarg[v]
        BY <2>6 DEF CreateOpen, CreateInv, CheckHolds, NamespaceTypeOK
      <3>2. CASE uarg[u][2] % 4 = 1 /\ Becomes([node EXCEPT ![n] = "empty"])
        <4>1. /\ [node EXCEPT ![n] = "empty"] \in [Entries -> Kinds]
              /\ node' = [node EXCEPT ![n] = "empty"]
          BY <3>2 DEF NamespaceTypeOK, Becomes
        <4>2. CheckHolds'
          BY <3>1, <3>2, <4>1, BecomesHolds
        <4>3. ASSUME NEW m \in Entries, node[m] = "full", node'[m] = "empty"
              PROVE  m = n /\ MayEmpty(u, n)
          <5>1. m = n /\ Exists(n)
            BY <3>1, <4>1, <4>3 DEF Exists, Present, PresentIn, NamespaceTypeOK
          <5>2. upc[u] = "unknown" \/ made[u]
            BY <3>1, <5>1 DEF CreateInv, CheckHolds, NamespaceTypeOK
          <5> QED BY <3>1, <3>2, <5>1, <5>2 DEF MayEmpty
        <4> QED BY <4>2, <4>3
      <3>3. CASE made' = [made EXCEPT ![u] = FALSE] /\ UNCHANGED dirVars
        <4>1. UNCHANGED node /\ \A v \in Users \ {u} : made'[v] = made[v]
          BY <3>3 DEF dirVars, NamespaceTypeOK
        <4> QED BY <3>1, <4>1 DEF CreateInv, CheckHolds, Exists, Present, PresentIn
      <3> QED BY <2>6, <3>2, <3>3 DEF CreateOpen
    <2> QED BY <1>3, <2>2, <2>3, <2>4, <2>5, <2>6 DEF UserCall
  <1> QED BY <1>1, <1>2, <1>3 DEF Next, vars, dirVars

(***************************************************************************)
(* create() empties a file with data only when its mode reads as O_WRONLY  *)
(* and it did not see the file: hdfsExists failed, or the file was made    *)
(* between hdfsExists and hdfsOpenFile.                                    *)
(***************************************************************************)
THEOREM CreatesSpareOld == Spec => CreateSparesOld
  <1> DEFINE Spares == \A n \in Entries : node[n] = "full" /\ node'[n] = "empty" =>
                         \E u \in Users : MayEmpty(u, n)
  <1>1. Init => CreateInv
    BY NamespaceInitial DEF Init, CreateInv, CheckHolds
  <1>2. CreateInv /\ [Next]_vars => CreateInv'
    BY CreateStep, NamespaceStep DEF CreateInv
  <1>3. CreateInv /\ [Next]_vars => [Spares]_vars
    BY CreateStep
  <1>4. Spec => [][Spares]_vars
    BY <1>1, <1>2, <1>3, PTL DEF Spec
  <1> QED BY <1>4 DEF CreateSparesOld, MayEmpty
=============================================================================
