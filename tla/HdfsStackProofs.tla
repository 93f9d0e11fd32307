--------------------------- MODULE HdfsStackProofs ---------------------------
(***************************************************************************)
(* Proofs about a configured process and the clients its stack serves: no  *)
(* gateway is listed twice, drivers configured together take each other's  *)
(* tokens, a token is for the client it was given to, the gateways listed  *)
(* are the items of the lists given, and the process dies only of a cause. *)
(***************************************************************************)
EXTENDS HdfsStack, WellFoundedInduction, TLAPS

Password(f) == factory[f].text["TokenPassword"]
KindOf(v)   == IF v = <<"i", "p">> THEN "ip" ELSE "dn"
InQueue(f)  == \E i \in DOMAIN queue : queue[i] = f
AllLoaded   == \A f \in Factories : IsLoaded(f)

\* The four members of a factory.
Members(t, n, k, g) == [text |-> t, number |-> n, tokenId |-> k, gateways |-> g]
IsMade(r)           == r = Members(r.text, r.number, r.tokenId, r.gateways)

LEMMA MembersOf ==
  ASSUME NEW r, IsMade(r), NEW x
  PROVE  /\ [r EXCEPT !.text = x] = Members(x, r.number, r.tokenId, r.gateways)
         /\ [r EXCEPT !.number = x] = Members(r.text, x, r.tokenId, r.gateways)
         /\ [r EXCEPT !.tokenId = x] = Members(r.text, r.number, x, r.gateways)
         /\ [r EXCEPT !.gateways = x] = Members(r.text, r.number, r.tokenId, x)
  BY DEF IsMade, Members

\* A factory has its members, and a driver's has a password once loaded.
IsList(g)    == \E S : g \in Seq(S)
TextOK(f, t) == t = [k \in TextKeys \cap Knows(f) |-> t[k]]
Shape(f) ==
  /\ IsMade(factory[f])
  /\ IsList(factory[f].gateways)
  /\ f \in Drivers /\ IsLoaded(f) => TextOK(f, factory[f].text)

\* The sequences of the plugin manager name each factory once.
LinesOK ==
  /\ loaded \in Seq(Factories) /\ queue \in Seq(Factories)
  /\ \A i, j \in DOMAIN loaded : loaded[i] = loaded[j] => i = j
  /\ \A i, j \in DOMAIN queue : queue[i] = queue[j] => i = j
  /\ line = << >> \/ line \in Lines
  /\ line = << >> => queue = << >>

\* What the factories have in common, if none missed an option: the one being
\* given is the only one on which they may differ, until both have it.
AgreeOK ==
  ~ early =>
    /\ AllLoaded \/ (line = << >> /\ \A f \in Factories : IsLoaded(f) => factory[f] = Defaults(f))
    /\ AllLoaded /\ (line = << >> \/ line[1] # "TokenPassword"
                       \/ (InQueue("io") <=> InQueue("pooldriver")))
         => Password("io") = Password("pooldriver")
    /\ AllLoaded /\ (line = << >> \/ line[1] # "TokenId"
                       \/ (InQueue("io") <=> InQueue("pooldriver")))
         => factory["io"].tokenId = factory["pooldriver"].tokenId
    /\ \A f \in Drivers : line # << >> /\ ~ InQueue(f) =>
         /\ line[1] = "TokenPassword" => Password(f) = line[2]
         /\ line[1] = "TokenId" => factory[f].tokenId = KindOf(line[2])

-----------------------------------------------------------------------------
LEMMA EmptyList == IsList(<< >>)
  <1>1. << >> \in Seq({})
    OBVIOUS
  <1> QED BY <1>1 DEF IsList

\* The sequences of the plugin manager.
LEMMA LinesStep ==
  ASSUME LinesOK, ConfigNext
  PROVE  LinesOK'
  <1>1. ASSUME NEW f \in Factories, LoadPlugin(f) PROVE LinesOK'
    <2>1. loaded' = Append(loaded, f) /\ \A i \in DOMAIN loaded : loaded[i] # f
      BY <1>1 DEF LoadPlugin, IsLoaded
    <2> QED BY <1>1, <2>1 DEF LoadPlugin, LinesOK, lineVars
  <1>2. ASSUME NEW l \in Lines, Option(l) PROVE LinesOK'
    <2>1. l # << >>
      BY LinesAssumption
    <2> QED BY <1>2, <2>1 DEF Option, LinesOK
  <1>3. CASE OptionGiven
    BY <1>3 DEF OptionGiven, LinesOK
  <1>4. ASSUME queue # << >>, Configured PROVE LinesOK'
    BY <1>4 DEF Configured, LinesOK
  <1>5. ASSUME NEW f \in Factories, NotMine(f) \/ SetText(f) \/ SetNumber(f) \/ SetTokenId(f)
                                    \/ SetFolder(f) \/ GatewaysAdded(f)
        PROVE  LinesOK'
    <2>1. queue # << >> /\ (Configured \/ UNCHANGED <<loaded, lineVars>>)
      BY <1>5 DEF NotMine, SetText, SetNumber, SetTokenId, SetFolder, GatewaysAdded, Turn, Ends
    <2> QED BY <1>4, <2>1 DEF LinesOK, lineVars
  <1>6. ASSUME NEW f \in Factories, AddGateway(f) PROVE LinesOK'
    BY <1>6 DEF AddGateway, LinesOK
  <1>7. CASE StartUp
    BY <1>7 DEF StartUp, LinesOK, lineVars
  <1> QED BY <1>1, <1>2, <1>3, <1>5, <1>6, <1>7 DEF ConfigNext

-----------------------------------------------------------------------------
(* How a factory's members change.                                         *)

FactoriesOK == DOMAIN factory = Factories /\ factory = [f \in Factories |-> factory[f]]

Sets(f, r) == factory' = [factory EXCEPT ![f] = r]

Appended(f, g) == /\ \A i \in DOMAIN factory[f].gateways : factory[f].gateways[i] # g
                  /\ Sets(f, [factory[f] EXCEPT !.gateways = Append(@, g)])

LEMMA FactoryChanges ==
  ASSUME ConfigNext
  PROVE  \/ UNCHANGED <<factory, loaded>>
         \/ \E f \in Factories :
              \/ LoadPlugin(f)
              \/ SetText(f) \/ SetNumber(f) \/ SetTokenId(f)
              \/ AddGateway(f) /\ UNCHANGED loaded /\ \E g : Appended(f, g)
  <1>1. ASSUME NEW f \in Factories, NotMine(f) \/ SetFolder(f) \/ GatewaysAdded(f)
        PROVE  UNCHANGED <<factory, loaded>>
    BY <1>1 DEF NotMine, SetFolder, GatewaysAdded, Configured, Ends
  <1>2. ASSUME NEW f \in Factories, AddGateway(f)
        PROVE  UNCHANGED loaded /\ (UNCHANGED factory \/ \E g : Appended(f, g))
    <2>1. UNCHANGED loaded
      BY <1>2 DEF AddGateway
    <2>2. CASE UNCHANGED factory
      BY <2>1, <2>2
    <2>3. CASE /\ ~ Listed(f, Line(rest))
               /\ factory' = [factory EXCEPT ![f].gateways = Append(@, Trim(Line(rest)))]
      <3>1. Appended(f, Trim(Line(rest)))
        BY <2>3 DEF Listed, Appended, Sets
      <3> QED BY <2>1, <3>1
    <2> QED BY <1>2, <2>2, <2>3 DEF AddGateway
  <1>3. ASSUME NEW l \in Lines, Option(l) PROVE UNCHANGED <<factory, loaded>>
    BY <1>3 DEF Option
  <1>4. CASE OptionGiven \/ StartUp
    BY <1>4 DEF OptionGiven, StartUp
  <1> QED BY <1>1, <1>2, <1>3, <1>4 DEF ConfigNext

Distinct(g) == \A i, j \in DOMAIN g : g[i] = g[j] => i = j

MembersOK == /\ FactoriesOK
             /\ \A f \in Factories : Shape(f) /\ Distinct(factory[f].gateways)

ConfigInv == MembersOK /\ LinesOK /\ AgreeOK

LEMMA ReplacedFactory ==
  ASSUME MembersOK, NEW f \in Factories, NEW r, Sets(f, r),
         \A e \in Factories \ {f} : IsLoaded(e)' => IsLoaded(e),
         IsMade(r), IsList(r.gateways), Distinct(r.gateways),
         f \in Drivers /\ IsLoaded(f)' => TextOK(f, r.text)
  PROVE  MembersOK'
  <1>1. FactoriesOK' /\ factory'[f] = r
    BY DEF MembersOK, FactoriesOK, Sets
  <1>2. ASSUME NEW e \in Factories \ {f} PROVE factory'[e] = factory[e]
    BY DEF MembersOK, FactoriesOK, Sets
  <1>3. Shape(f)' /\ Distinct(factory[f].gateways)'
    BY <1>1 DEF Shape
  <1>4. ASSUME NEW e \in Factories \ {f} PROVE Shape(e)' /\ Distinct(factory[e].gateways)'
    BY <1>2 DEF Shape, MembersOK
  <1> QED BY <1>1, <1>3, <1>4 DEF MembersOK

\* One member of a factory is given another value.
LEMMA ReplacedMember ==
  ASSUME MembersOK, UNCHANGED loaded, NEW f \in Factories, NEW x,
         \/ /\ Sets(f, [factory[f] EXCEPT !.text = x])
            /\ TextOK(f, factory[f].text) => TextOK(f, x)
         \/ Sets(f, [factory[f] EXCEPT !.number = x])
         \/ Sets(f, [factory[f] EXCEPT !.tokenId = x])
         \/ /\ Sets(f, [factory[f] EXCEPT !.gateways = x])
            /\ IsList(x) /\ Distinct(x)
  PROVE  MembersOK'
  <1> DEFINE o == factory[f]
  <1>1. /\ IsMade(o) /\ IsList(o.gateways) /\ Distinct(o.gateways)
        /\ f \in Drivers /\ IsLoaded(f) => TextOK(f, o.text)
    BY DEF MembersOK, Shape
  <1>2. \E r : /\ Sets(f, r) /\ IsMade(r)
               /\ r.gateways = o.gateways \/ (r.gateways = x /\ IsList(x) /\ Distinct(x))
               /\ r.text = o.text \/ (r.text = x /\ (TextOK(f, o.text) => TextOK(f, x)))
    <2> HIDE DEF o
    <2>1. /\ IsMade(Members(x, o.number, o.tokenId, o.gateways))
          /\ IsMade(Members(o.text, x, o.tokenId, o.gateways))
          /\ IsMade(Members(o.text, o.number, x, o.gateways))
          /\ IsMade(Members(o.text, o.number, o.tokenId, x))
      BY DEF IsMade, Members
    <2>2. \A a, b, c, d : /\ Members(a, b, c, d).text = a
                          /\ Members(a, b, c, d).gateways = d
      BY DEF Members
    <2>3. /\ [o EXCEPT !.text = x] = Members(x, o.number, o.tokenId, o.gateways)
          /\ [o EXCEPT !.number = x] = Members(o.text, x, o.tokenId, o.gateways)
          /\ [o EXCEPT !.tokenId = x] = Members(o.text, o.number, x, o.gateways)
          /\ [o EXCEPT !.gateways = x] = Members(o.text, o.number, o.tokenId, x)
      BY <1>1, MembersOf
    <2>4. CASE Sets(f, [o EXCEPT !.text = x]) /\ (TextOK(f, o.text) => TextOK(f, x))
      <3> DEFINE r == Members(x, o.number, o.tokenId, o.gateways)
      <3>1. Sets(f, r)
        BY <2>3, <2>4
      <3>2. IsMade(r) /\ r.text = x /\ r.gateways = o.gateways
        BY <2>1, <2>2
      <3> HIDE DEF r
      <3> QED BY <1>1, <2>4, <3>1, <3>2
    <2>5. CASE Sets(f, [o EXCEPT !.number = x])
      <3> DEFINE r == Members(o.text, x, o.tokenId, o.gateways)
      <3>1. Sets(f, r)
        BY <2>3, <2>5
      <3>2. IsMade(r) /\ r.text = o.text /\ r.gateways = o.gateways
        BY <2>1, <2>2
      <3> HIDE DEF r
      <3> QED BY <1>1, <2>5, <3>1, <3>2
    <2>6. CASE Sets(f, [o EXCEPT !.tokenId = x])
      <3> DEFINE r == Members(o.text, o.number, x, o.gateways)
      <3>1. Sets(f, r)
        BY <2>3, <2>6
      <3>2. IsMade(r) /\ r.text = o.text /\ r.gateways = o.gateways
        BY <2>1, <2>2
      <3> HIDE DEF r
      <3> QED BY <1>1, <2>6, <3>1, <3>2
    <2>7. CASE Sets(f, [o EXCEPT !.gateways = x]) /\ IsList(x) /\ Distinct(x)
      <3> DEFINE r == Members(o.text, o.number, o.tokenId, x)
      <3>1. Sets(f, r)
        BY <2>3, <2>7
      <3>2. IsMade(r) /\ r.text = o.text /\ r.gateways = x
        BY <2>1, <2>2
      <3> HIDE DEF r
      <3> QED BY <1>1, <2>7, <3>1, <3>2
    <2> QED BY <2>4, <2>5, <2>6, <2>7 DEF o
  <1> QED BY <1>1, <1>2, ReplacedFactory DEF IsLoaded

\* The members of a factory that is given an option, or made.
LEMMA MembersStep ==
  ASSUME MembersOK, LinesOK, ConfigNext
  PROVE  MembersOK'
  <1>1. CASE UNCHANGED <<factory, loaded>>
    BY <1>1 DEF MembersOK, FactoriesOK, Shape, IsLoaded
  <1>2. ASSUME NEW f \in Factories, LoadPlugin(f) PROVE MembersOK'
    <2>1. Sets(f, Defaults(f)) /\ \A e \in Factories \ {f} : IsLoaded(e)' => IsLoaded(e)
      BY <1>2 DEF LoadPlugin, Sets, IsLoaded, LinesOK
    <2>2. \E n, k : Defaults(f) = Members([t \in TextKeys \cap Knows(f) |-> Default], n, k, << >>)
      BY Zenon DEF Defaults, Members
    <2>3. /\ Defaults(f).gateways = << >> /\ IsMade(Defaults(f))
          /\ TextOK(f, Defaults(f).text)
      BY <2>2 DEF Members, IsMade, TextOK
    <2>4. Distinct(Defaults(f).gateways)
      BY <2>3 DEF Distinct
    <2> QED BY <2>1, <2>3, <2>4, EmptyList, ReplacedFactory
  <1>4. ASSUME NEW f \in Factories, SetText(f) PROVE MembersOK'
    <2> DEFINE t == [factory[f].text EXCEPT ![line[1]] = line[2]]
    <2>1. Sets(f, [factory[f] EXCEPT !.text = t]) /\ UNCHANGED loaded
      BY <1>4 DEF SetText, Configured, Sets
    <2>2. TextOK(f, factory[f].text) => TextOK(f, t)
      BY DEF TextOK
    <2> QED BY <2>1, <2>2, ReplacedMember
  <1>5. ASSUME NEW f \in Factories, SetNumber(f) PROVE MembersOK'
    <2> DEFINE n == [factory[f].number EXCEPT ![line[1]] = Number[line[2]]]
    <2>1. Sets(f, [factory[f] EXCEPT !.number = n]) /\ UNCHANGED loaded
      BY <1>5 DEF SetNumber, Configured, Sets
    <2> QED BY <2>1, ReplacedMember
  <1>6. ASSUME NEW f \in Factories, SetTokenId(f) PROVE MembersOK'
    <2>1. Sets(f, [factory[f] EXCEPT !.tokenId = KindOf(line[2])]) /\ UNCHANGED loaded
      BY <1>6 DEF SetTokenId, Configured, KindOf, Sets
    <2> QED BY <2>1, ReplacedMember
  <1>7. ASSUME NEW f \in Factories, NEW g, Appended(f, g), UNCHANGED loaded
        PROVE  MembersOK'
    <2> DEFINE gs == factory[f].gateways
               hs == Append(gs, g)
    <2>1. Sets(f, [factory[f] EXCEPT !.gateways = hs]) /\ \A i \in DOMAIN gs : gs[i] # g
      BY <1>7 DEF Appended
    <2>2. PICK S : gs \in Seq(S)
      BY DEF MembersOK, Shape, IsList
    <2>3. Distinct(gs)
      BY DEF MembersOK
    <2> HIDE DEF gs
    <2>4. gs \in Seq(S \cup {g})
      BY <2>2
    <2>5. hs \in Seq(S \cup {g})
      BY <2>4
    <2>6. IsList(hs) /\ Distinct(hs)
      <3>1. IsList(hs)
        BY <2>5 DEF IsList
      <3>2. Distinct(hs)
        BY <2>1, <2>3, <2>4 DEF Distinct
      <3> QED BY <3>1, <3>2
    <2> QED BY <1>7, <2>1, <2>6, ReplacedMember
  <1> QED BY <1>1, <1>2, <1>4, <1>5, <1>6, <1>7, FactoryChanges

LEMMA ConfigInitial == ConfigInit => ConfigInv
  <1> SUFFICES ASSUME ConfigInit PROVE ConfigInv
    OBVIOUS
  <1>1. /\ loaded = << >> /\ queue = << >> /\ line = << >> /\ early = FALSE
        /\ factory = [f \in Factories |-> NotLoaded]
    BY DEF ConfigInit
  <1>2. \A f \in Factories : ~ IsLoaded(f)
    BY <1>1 DEF IsLoaded
  <1>3. \A f \in Factories : Shape(f) /\ Distinct(factory[f].gateways)
    <2> SUFFICES ASSUME NEW f \in Factories PROVE Shape(f) /\ Distinct(factory[f].gateways)
      OBVIOUS
    <2>1. factory[f] = Members(<< >>, << >>, "unset", << >>)
      BY <1>1 DEF NotLoaded, Members
    <2>2. IsMade(factory[f]) /\ factory[f].gateways = << >>
      BY <2>1 DEF IsMade, Members
    <2> QED BY <1>2, <2>2, EmptyList DEF Shape, Distinct
  <1>4. LinesOK
    BY <1>1 DEF LinesOK
  <1>5. AgreeOK
    <2>1. ~ AllLoaded
      BY <1>2 DEF AllLoaded, Factories
    <2> QED BY <1>1, <1>2, <2>1 DEF AgreeOK
  <1> QED BY <1>1, <1>3, <1>4, <1>5 DEF ConfigInv, MembersOK, FactoriesOK

-----------------------------------------------------------------------------
(* What the drivers have in common.                                        *)

LEMMA MemberRead ==
  ASSUME MembersOK, NEW f \in Factories, NEW x
  PROVE  /\ Sets(f, [factory[f] EXCEPT !.text = x])
              => /\ factory'[f].text = x /\ factory'[f].tokenId = factory[f].tokenId
                 /\ factory'[f].number = factory[f].number
                 /\ factory'[f].gateways = factory[f].gateways
         /\ Sets(f, [factory[f] EXCEPT !.tokenId = x])
              => /\ factory'[f].tokenId = x /\ factory'[f].text = factory[f].text
                 /\ factory'[f].number = factory[f].number
                 /\ factory'[f].gateways = factory[f].gateways
         /\ Sets(f, [factory[f] EXCEPT !.number = x])
              => /\ factory'[f].tokenId = factory[f].tokenId /\ factory'[f].text = factory[f].text
                 /\ factory'[f].number = x /\ factory'[f].gateways = factory[f].gateways
         /\ Sets(f, [factory[f] EXCEPT !.gateways = x])
              => /\ factory'[f].tokenId = factory[f].tokenId /\ factory'[f].text = factory[f].text
                 /\ factory'[f].number = factory[f].number /\ factory'[f].gateways = x
  <1> DEFINE o == factory[f]
  <1>1. \A r : Sets(f, r) => factory'[f] = r
    BY DEF MembersOK, FactoriesOK, Sets
  <1>2. /\ [o EXCEPT !.text = x] = Members(x, o.number, o.tokenId, o.gateways)
        /\ [o EXCEPT !.number = x] = Members(o.text, x, o.tokenId, o.gateways)
        /\ [o EXCEPT !.tokenId = x] = Members(o.text, o.number, x, o.gateways)
        /\ [o EXCEPT !.gateways = x] = Members(o.text, o.number, o.tokenId, x)
    BY MembersOf DEF MembersOK, Shape
  <1>3. \A a, b, c, d : /\ Members(a, b, c, d).text = a /\ Members(a, b, c, d).number = b
                       /\ Members(a, b, c, d).tokenId = c /\ Members(a, b, c, d).gateways = d
    BY DEF Members
  <1> HIDE DEF o
  <1> QED BY <1>1, <1>2, <1>3 DEF o

\* What being given the option makes of a factory's password and kind of id.
Takes(f) ==
  f \in Drivers => /\ Password(f)' = IF line[1] = "TokenPassword" THEN line[2] ELSE Password(f)
                   /\ factory'[f].tokenId = IF line[1] = "TokenId" THEN KindOf(line[2])
                                            ELSE factory[f].tokenId

Keeps(f) == f \in Drivers /\ IsLoaded(f)
              => Password(f)' = Password(f) /\ factory'[f].tokenId = factory[f].tokenId

\* The factory that has the option is no longer waiting for it.
LEMMA QueueStep ==
  ASSUME LinesOK, NEW f \in Factories, queue # << >>, f = Head(queue), Configured
  PROVE  \A e : InQueue(e)' <=> InQueue(e) /\ e # f
  <1>1. queue \in Seq(Factories) /\ \A i, j \in DOMAIN queue : queue[i] = queue[j] => i = j
    BY DEF LinesOK
  <1> SUFFICES ASSUME NEW e PROVE InQueue(e)' <=> InQueue(e) /\ e # f
    OBVIOUS
  <1>2. ASSUME InQueue(e)' PROVE InQueue(e) /\ e # f
    <2>1. PICK i \in DOMAIN Tail(queue) : Tail(queue)[i] = e
      BY <1>2 DEF InQueue, Configured
    <2>2. i + 1 \in DOMAIN queue /\ queue[i + 1] = e /\ i + 1 # 1 /\ 1 \in DOMAIN queue
      BY <1>1, <2>1
    <2> QED BY <1>1, <2>2 DEF InQueue, Configured
  <1>3. ASSUME InQueue(e), e # f PROVE InQueue(e)'
    <2>1. PICK i \in DOMAIN queue : queue[i] = e
      BY <1>3 DEF InQueue, Configured
    <2>2. i - 1 \in DOMAIN Tail(queue) /\ Tail(queue)[i - 1] = e
      BY <1>1, <1>3, <2>1
    <2> QED BY <2>2 DEF InQueue, Configured
  <1> QED BY <1>2, <1>3

LEMMA GivenStep ==
  ASSUME AgreeOK, LinesOK, NEW f \in Factories, queue # << >>, f = Head(queue), Configured,
         Takes(f), \A e \in Factories \ {f} : Keeps(e)
  PROVE  AgreeOK'
  <1>1. /\ line # << >> /\ UNCHANGED <<line, loaded, early>> /\ queue' = Tail(queue)
        /\ (AllLoaded' <=> AllLoaded)
    BY DEF LinesOK, Configured, AllLoaded, IsLoaded
  <1>2. \A e : InQueue(e)' <=> InQueue(e) /\ e # f
    BY QueueStep
  <1>3. SUFFICES ASSUME ~ early PROVE AgreeOK'
    BY <1>1 DEF AgreeOK
  <1>4. AllLoaded /\ \A e \in Factories : IsLoaded(e)
    BY <1>1, <1>3 DEF AgreeOK, AllLoaded
  <1>5. {"io", "pooldriver"} = Drivers /\ Drivers \subseteq Factories
    BY DEF Drivers, Factories
  <1>6. \A e \in Drivers \ {f} : Keeps(e)
    BY <1>5
  <1>7. \A e \in Drivers : ~ InQueue(e)' =>
          /\ line[1] = "TokenPassword" => Password(e)' = line[2]
          /\ line[1] = "TokenId" => factory'[e].tokenId = KindOf(line[2])
    BY <1>1, <1>2, <1>3, <1>4, <1>5, <1>6 DEF AgreeOK, Takes, Keeps
  <1>8. line[1] # "TokenPassword" \/ (InQueue("io")' <=> InQueue("pooldriver")')
          => Password("io")' = Password("pooldriver")'
    BY <1>1, <1>2, <1>3, <1>4, <1>5, <1>6, <1>7 DEF AgreeOK, Takes, Keeps
  <1>9. line[1] # "TokenId" \/ (InQueue("io")' <=> InQueue("pooldriver")')
          => factory'["io"].tokenId = factory'["pooldriver"].tokenId
    BY <1>1, <1>2, <1>3, <1>4, <1>5, <1>6, <1>7 DEF AgreeOK, Takes, Keeps
  <1> QED BY <1>1, <1>4, <1>7, <1>8, <1>9 DEF AgreeOK

\* What each call of configure() makes of them.
LEMMA ConfiguredHow ==
  ASSUME MembersOK, NEW f \in Factories,
         NotMine(f) \/ SetText(f) \/ SetNumber(f) \/ SetTokenId(f)
           \/ (SetFolder(f) /\ Configured) \/ GatewaysAdded(f)
  PROVE  /\ queue # << >> /\ f = Head(queue) /\ Configured
         /\ IsLoaded(f) => Takes(f)
         /\ \A e \in Factories \ {f} : Keeps(e)
  <1> USE DEF Takes, Keeps, Password, Turn, FolderKeys, NumberKeys, TextKeys, SharedText,
              NSText, IOText, AllKeys, Knows, Drivers
  <1>1. CASE NotMine(f)
    BY <1>1 DEF NotMine
  <1>2. CASE SetText(f)
    <2> DEFINE t == [factory[f].text EXCEPT ![line[1]] = line[2]]
    <2>1. /\ Sets(f, [factory[f] EXCEPT !.text = t]) /\ Configured
          /\ queue # << >> /\ f = Head(queue) /\ line[1] \in TextKeys \cap Knows(f)
      BY <1>2 DEF SetText, Sets
    <2>2. factory'[f].text = t /\ factory'[f].tokenId = factory[f].tokenId
      BY <2>1, MemberRead
    <2>3. f \in Drivers /\ IsLoaded(f) =>
            t["TokenPassword"] = IF line[1] = "TokenPassword" THEN line[2] ELSE Password(f)
      <3> SUFFICES ASSUME f \in Drivers, IsLoaded(f)
                   PROVE  t["TokenPassword"] = IF line[1] = "TokenPassword" THEN line[2]
                                               ELSE factory[f].text["TokenPassword"]
        OBVIOUS
      <3> DEFINE D == TextKeys \cap Knows(f)
      <3>1. "TokenPassword" \in D
        OBVIOUS
      <3>2. factory[f].text = [k \in D |-> factory[f].text[k]]
        BY DEF MembersOK, Shape, TextOK
      <3> HIDE DEF D
      <3>3. DOMAIN factory[f].text = D
        BY <3>2
      <3> QED BY <3>1, <3>3
    <2>4. \A e \in Factories \ {f} : factory'[e] = factory[e]
      BY <2>1 DEF MembersOK, FactoriesOK, Sets
    <2> HIDE DEF t
    <2> QED BY <2>1, <2>2, <2>3, <2>4
  <1>3. CASE SetNumber(f)
    <2> DEFINE n == [factory[f].number EXCEPT ![line[1]] = Number[line[2]]]
    <2>1. /\ Sets(f, [factory[f] EXCEPT !.number = n]) /\ Configured
          /\ queue # << >> /\ f = Head(queue) /\ line[1] \in NumberKeys
      BY <1>3 DEF SetNumber, Sets
    <2>2. factory'[f].text = factory[f].text /\ factory'[f].tokenId = factory[f].tokenId
      BY <2>1, MemberRead
    <2>3. \A e \in Factories \ {f} : factory'[e] = factory[e]
      BY <2>1 DEF MembersOK, FactoriesOK, Sets
    <2> QED BY <2>1, <2>2, <2>3
  <1>4. CASE SetTokenId(f)
    <2>1. /\ Sets(f, [factory[f] EXCEPT !.tokenId = KindOf(line[2])]) /\ Configured
          /\ queue # << >> /\ f = Head(queue) /\ line[1] = "TokenId"
      BY <1>4 DEF SetTokenId, Sets, KindOf
    <2>2. factory'[f].text = factory[f].text /\ factory'[f].tokenId = KindOf(line[2])
      BY <2>1, MemberRead
    <2>3. \A e \in Factories \ {f} : factory'[e] = factory[e]
      BY <2>1 DEF MembersOK, FactoriesOK, Sets
    <2> QED BY <2>1, <2>2, <2>3
  <1>5. CASE SetFolder(f) /\ Configured
    BY <1>5 DEF SetFolder
  <1>6. CASE GatewaysAdded(f)
    BY <1>6 DEF GatewaysAdded
  <1> QED BY <1>1, <1>2, <1>3, <1>4, <1>5, <1>6

LEMMA AgreeStep ==
  ASSUME ConfigInv, ConfigNext
  PROVE  AgreeOK'
  <1> USE DEF ConfigInv
  <1>1. ASSUME NEW f \in Factories, LoadPlugin(f) PROVE AgreeOK'
    <2>1. /\ line = << >> /\ line' = << >> /\ early' = early /\ ~ AllLoaded
          /\ loaded' = Append(loaded, f)
      BY <1>1 DEF LoadPlugin, Ready, AllLoaded, lineVars
    <2>2. \A e \in Factories : IsLoaded(e)' => e = f \/ IsLoaded(e)
      BY <2>1 DEF IsLoaded, LinesOK
    <2>3. ~ early => \A e \in Factories : IsLoaded(e)' => factory'[e] = Defaults(e)
      BY <1>1, <2>1, <2>2 DEF LoadPlugin, AgreeOK, MembersOK, FactoriesOK
    <2>4. ~ early /\ AllLoaded' => /\ factory'["io"] = Defaults("io")
                                   /\ factory'["pooldriver"] = Defaults("pooldriver")
      BY <2>3 DEF AllLoaded, Factories
    <2>5. /\ Defaults("io").text["TokenPassword"] = Default
          /\ Defaults("pooldriver").text["TokenPassword"] = Default
      BY DEF Defaults, TextKeys, SharedText, NSText, IOText, Knows, AllKeys
    <2>6. Defaults("io").tokenId = "ip" /\ Defaults("pooldriver").tokenId = "ip"
      BY DEF Defaults
    <2> QED BY <2>1, <2>3, <2>4, <2>5, <2>6 DEF AgreeOK, Password
  <1>2. ASSUME NEW l \in Lines, Option(l) PROVE AgreeOK'
    <2>1. /\ line = << >> /\ line' = l /\ l # << >> /\ queue' = loaded
          /\ UNCHANGED <<loaded, factory>>
          /\ early' = (early \/ ~ AllLoaded)
      BY <1>2, LinesAssumption DEF Option, Ready, AllLoaded
    <2>2. AllLoaded => \A f \in Factories : InQueue(f)'
      BY <2>1 DEF AllLoaded, IsLoaded, InQueue
    <2>3. AllLoaded' <=> AllLoaded
      BY <2>1 DEF AllLoaded, IsLoaded
    <2> QED BY <2>1, <2>2, <2>3 DEF AgreeOK, Password, Drivers, Factories
  <1>3. CASE OptionGiven
    <2>1. /\ line' = << >> /\ ~ InQueue("io") /\ ~ InQueue("pooldriver") /\ line # << >>
          /\ UNCHANGED <<loaded, factory, early>>
      BY <1>3 DEF OptionGiven, InQueue
    <2>2. AllLoaded' <=> AllLoaded
      BY <2>1 DEF AllLoaded, IsLoaded
    <2> QED BY <2>1, <2>2 DEF AgreeOK, Password, Drivers
  <1>4. ASSUME NEW f \in Factories, queue # << >>, f = Head(queue), Configured,
               IsLoaded(f) => Takes(f), \A e \in Factories \ {f} : Keeps(e)
        PROVE  AgreeOK'
    <2>1. line # << >> /\ early' = early
      BY <1>4 DEF LinesOK, Configured
    <2>2. ~ early => IsLoaded(f)
      BY <2>1 DEF AgreeOK, AllLoaded
    <2>3. CASE early
      BY <2>1, <2>3 DEF AgreeOK
    <2> QED BY <1>4, <2>2, <2>3, GivenStep
  <1>5. ASSUME NEW f \in Factories, AddGateway(f) PROVE AgreeOK'
    <2>1. UNCHANGED <<loaded, line, queue, early>>
      BY <1>5 DEF AddGateway
    <2>2. UNCHANGED factory \/ \E g : Sets(f, [factory[f] EXCEPT !.gateways = g])
      BY <1>5 DEF AddGateway, Sets
    <2>3. \A e \in Factories : /\ factory'[e].text = factory[e].text
                               /\ factory'[e].tokenId = factory[e].tokenId
      <3>1. ASSUME NEW g, Sets(f, [factory[f] EXCEPT !.gateways = g])
            PROVE  \A e \in Factories : /\ factory'[e].text = factory[e].text
                                        /\ factory'[e].tokenId = factory[e].tokenId
        <4>1. factory'[f].text = factory[f].text /\ factory'[f].tokenId = factory[f].tokenId
          BY <3>1, MemberRead
        <4>2. \A e \in Factories \ {f} : factory'[e] = factory[e]
          BY <3>1 DEF MembersOK, FactoriesOK, Sets
        <4> QED BY <4>1, <4>2
      <3> QED BY <2>2, <3>1
    <2>4. line # << >>
      BY <1>5 DEF AddGateway, Turn, LinesOK
    <2>5. (AllLoaded' <=> AllLoaded) /\ \A e : InQueue(e)' <=> InQueue(e)
      BY <2>1 DEF AllLoaded, IsLoaded, InQueue
    <2> QED BY <2>1, <2>3, <2>4, <2>5 DEF AgreeOK, Password, Drivers, Factories
  <1>6. ASSUME UNCHANGED <<loaded, lineVars, early, factory>> PROVE AgreeOK'
    BY <1>6 DEF AgreeOK, lineVars, AllLoaded, IsLoaded, InQueue, Password
  <1>7. ASSUME NEW f \in Factories, SetFolder(f), ~ Configured PROVE AgreeOK'
    BY <1>6, <1>7 DEF SetFolder, Ends
  <1>8. CASE StartUp
    BY <1>6, <1>8 DEF StartUp
  <1>9. ASSUME NEW f \in Factories,
               NotMine(f) \/ SetText(f) \/ SetNumber(f) \/ SetTokenId(f)
                 \/ (SetFolder(f) /\ Configured) \/ GatewaysAdded(f)
        PROVE  AgreeOK'
    BY <1>4, <1>9, ConfiguredHow
  <1> QED BY <1>1, <1>2, <1>3, <1>5, <1>7, <1>8, <1>9 DEF ConfigNext

LEMMA ConfigStep ==
  ASSUME ConfigInv, ConfigNext
  PROVE  ConfigInv'
  BY MembersStep, LinesStep, AgreeStep DEF ConfigInv

-----------------------------------------------------------------------------
(* Lists: what splitting one at its commas and trimming its items gives.   *)
Text == Seq(STRING)

Comma(x) == x = ","

LEMMA CommasAre == \A s : Commas(s) = {i \in DOMAIN s : Comma(s[i])}
  BY Zenon DEF Commas, Comma

LessThan == {p \in Nat \X Nat : p[1] < p[2]}

\* Of natural numbers there is a first, and of those up to n a last.
LEMMA FirstOf ==
  ASSUME NEW S \in SUBSET Nat, S # {}
  PROVE  First(S) \in S /\ \A j \in S : First(S) <= j
  <1>1. IsWellFoundedOn(LessThan, Nat)
    BY NatLessThanWellFounded DEF OpToRel, LessThan
  <1>2. PICK i \in S : \A j \in S : <<j, i>> \notin LessThan
    BY <1>1, WFMin
  <1>3. ASSUME NEW j \in S PROVE i <= j
    <2>1. <<j, i>> \in Nat \X Nat /\ <<j, i>> \notin LessThan
      BY <1>2
    <2> QED BY <2>1 DEF LessThan
  <1> QED BY <1>3 DEF First

LEMMA LastOf ==
  ASSUME NEW n \in Nat, NEW S \in SUBSET (1 .. n), S # {}
  PROVE  Last(S) \in S /\ \A j \in S : j <= Last(S)
  <1> DEFINE T == {m \in 0 .. n : n - m \in S}
             m0 == First(T)
  <1>1. T \in SUBSET Nat
    OBVIOUS
  <1>2. T # {}
    <2>1. PICK i \in S : TRUE
      OBVIOUS
    <2>2. n - i \in 0 .. n /\ n - (n - i) = i
      OBVIOUS
    <2> QED BY <2>2
  <1>3. m0 \in T /\ \A m \in T : m0 <= m
    <2> HIDE DEF T
    <2> QED BY <1>1, <1>2, FirstOf
  <1>4. ASSUME NEW j \in S PROVE j <= n - m0
    <2>1. n - j \in T
      <3>1. n - j \in 0 .. n /\ n - (n - j) = j
        OBVIOUS
      <3> QED BY <3>1
    <2>2. m0 <= n - j /\ m0 \in 0 .. n
      BY <1>3, <2>1
    <2> HIDE DEF T
    <2> QED BY <2>2
  <1>5. n - m0 \in S
    BY <1>3
  <1> QED BY <1>4, <1>5 DEF Last

LEMMA PartOf ==
  ASSUME NEW s \in Text, NEW a \in 1 .. Len(s) + 1, NEW b \in 0 .. Len(s), a <= b + 1
  PROVE  /\ SubSeq(s, a, b) \in Text /\ Len(SubSeq(s, a, b)) = b - a + 1
         /\ \A i \in 1 .. b - a + 1 : SubSeq(s, a, b)[i] = s[a + i - 1]
  BY DEF Text

LEMMA SameText ==
  ASSUME NEW s \in Text, NEW t \in Text, Len(s) = Len(t), \A i \in 1 .. Len(s) : s[i] = t[i]
  PROVE  s = t
  BY DEF Text

\* Where the first item ends: at the first comma, or behind the list.
Cut(s) == IF Commas(s) = {} THEN Len(s) + 1 ELSE First(Commas(s))

LEMMA CutOf ==
  ASSUME NEW s \in Text
  PROVE  /\ Cut(s) \in 1 .. Len(s) + 1
         /\ \A k \in 1 .. Cut(s) - 1 : ~ Comma(s[k])
         /\ Cut(s) <= Len(s) => Comma(s[Cut(s)])
         /\ Line(s) \in Text /\ Len(Line(s)) = Cut(s) - 1
         /\ \A k \in 1 .. Cut(s) - 1 : Line(s)[k] = s[k]
         /\ s # << >> => /\ After(s) \in Text
                         /\ Len(After(s)) = IF Cut(s) <= Len(s) THEN Len(s) - Cut(s) ELSE 0
                         /\ \A k \in 1 .. Len(s) - Cut(s) : After(s)[k] = s[k + Cut(s)]
  <1>1. Len(s) \in Nat /\ Commas(s) = {i \in 1 .. Len(s) : Comma(s[i])}
    BY CommasAre DEF Text
  <1>2. CASE Commas(s) = {}
    <2>1. Cut(s) = Len(s) + 1 /\ Line(s) = s /\ After(s) = << >> /\ << >> \in Text
      BY <1>2 DEF Cut, Line, After, Text
    <2> QED BY <1>1, <1>2, <2>1
  <1>3. CASE Commas(s) # {}
    <2> DEFINE c == Cut(s)
    <2>1. c \in Commas(s) /\ \A j \in Commas(s) : c <= j
      <3>1. Commas(s) \in SUBSET Nat
        BY <1>1
      <3>2. First(Commas(s)) \in Commas(s) /\ \A j \in Commas(s) : First(Commas(s)) <= j
        BY <1>3, <3>1, FirstOf
      <3> QED BY <1>3, <3>2 DEF Cut
    <2>2. Line(s) = SubSeq(s, 1, c - 1) /\ After(s) = SubSeq(s, c + 1, Len(s))
      BY <1>3 DEF Line, After, Cut
    <2> HIDE DEF c
    <2>3. c \in 1 .. Len(s) /\ Comma(s[c])
      BY <1>1, <2>1
    <2>4. \A k \in 1 .. c - 1 : ~ Comma(s[k])
      BY <1>1, <2>1, <2>3
    <2>5. /\ Line(s) \in Text /\ Len(Line(s)) = c - 1
          /\ \A k \in 1 .. c - 1 : Line(s)[k] = s[k]
      BY <1>1, <2>2, <2>3, PartOf
    <2>6. /\ After(s) \in Text /\ Len(After(s)) = Len(s) - c
          /\ \A k \in 1 .. Len(s) - c : After(s)[k] = s[k + c]
      <3>1. c + 1 \in 1 .. Len(s) + 1 /\ Len(s) \in 0 .. Len(s) /\ c + 1 <= Len(s) + 1
        BY <1>1, <2>3
      <3>2. /\ SubSeq(s, c + 1, Len(s)) \in Text
            /\ Len(SubSeq(s, c + 1, Len(s))) = Len(s) - (c + 1) + 1
            /\ \A i \in 1 .. Len(s) - (c + 1) + 1 : SubSeq(s, c + 1, Len(s))[i] = s[c + 1 + i - 1]
        BY <3>1, PartOf
      <3>3. Len(s) - (c + 1) + 1 = Len(s) - c
        BY <1>1, <2>3
      <3>4. ASSUME NEW k \in 1 .. Len(s) - c PROVE After(s)[k] = s[k + c]
        <4>1. c + 1 + k - 1 = k + c
          BY <2>3
        <4> QED BY <2>2, <3>2, <3>3, <4>1
      <3> QED BY <2>2, <3>2, <3>3, <3>4
    <2> QED BY <1>1, <2>3, <2>4, <2>5, <2>6 DEF c
  <1> QED BY <1>2, <1>3

\* trim() finds the first and the last that is not blank.
LEMMA TrimOf ==
  ASSUME NEW t \in Text
  PROVE  /\ Trim(t) \in Text
         /\ \/ Trim(t) = << >> /\ \A k \in 1 .. Len(t) : t[k] \in Blanks
            \/ \E a, b \in 1 .. Len(t) :
                 /\ a <= b /\ t[a] \notin Blanks /\ t[b] \notin Blanks
                 /\ \A k \in 1 .. Len(t) : k < a \/ b < k => t[k] \in Blanks
                 /\ Trim(t) = SubSeq(t, a, b) /\ Trim(t) # << >>
  <1>1. Len(t) \in Nat /\ NonBlank(t) = {i \in 1 .. Len(t) : t[i] \notin Blanks}
    BY DEF Text, NonBlank
  <1>2. CASE NonBlank(t) = {}
    <2>1. Trim(t) = << >> /\ << >> \in Text
      BY <1>2 DEF Trim, Text
    <2>2. \A k \in 1 .. Len(t) : t[k] \in Blanks
      BY <1>1, <1>2
    <2> QED BY <2>1, <2>2
  <1>3. CASE NonBlank(t) # {}
    <2> DEFINE a == First(NonBlank(t))
               b == Last(NonBlank(t))
    <2>1. NonBlank(t) \in SUBSET (1 .. Len(t)) /\ NonBlank(t) \in SUBSET Nat
      BY <1>1
    <2>2. a \in NonBlank(t) /\ \A j \in NonBlank(t) : a <= j
      BY <1>3, <2>1, FirstOf
    <2>3. b \in NonBlank(t) /\ \A j \in NonBlank(t) : j <= b
      BY <1>1, <1>3, <2>1, LastOf
    <2>4. Trim(t) = SubSeq(t, a, b)
      BY <1>3 DEF Trim
    <2> HIDE DEF a, b
    <2>5. /\ a \in 1 .. Len(t) /\ b \in 1 .. Len(t) /\ a <= b
          /\ t[a] \notin Blanks /\ t[b] \notin Blanks
      BY <1>1, <2>2, <2>3
    <2>6. \A k \in 1 .. Len(t) : k < a \/ b < k => t[k] \in Blanks
      BY <1>1, <2>2, <2>3, <2>5
    <2>7. Trim(t) \in Text /\ Len(Trim(t)) = b - a + 1
      BY <1>1, <2>4, <2>5, PartOf
    <2>8. Trim(t) # << >>
      BY <1>1, <2>5, <2>7
    <2> QED BY <2>4, <2>5, <2>6, <2>7, <2>8
  <1> QED BY <1>2, <1>3

\* Trimming again changes nothing, and an item of a list has no comma.
LEMMA TrimAgain ==
  ASSUME NEW t \in Text, \A k \in 1 .. Len(t) : ~ Comma(t[k])
  PROVE  Trim(Trim(t)) = Trim(t) /\ Commas(Trim(t)) = {}
  <1> DEFINE x == Trim(t)
  <1>1. CASE x = << >>
    <2>1. NonBlank(x) = {} /\ Commas(x) = {}
      BY <1>1, CommasAre DEF NonBlank
    <2> QED BY <1>1, <2>1 DEF Trim
  <1>2. CASE x # << >>
    <2>1. PICK a \in 1 .. Len(t), b \in 1 .. Len(t) :
            /\ a <= b /\ t[a] \notin Blanks /\ t[b] \notin Blanks
            /\ x = SubSeq(t, a, b)
      BY <1>2, TrimOf
    <2>2. Len(t) \in Nat
      BY DEF Text
    <2> HIDE DEF x
    <2>3. /\ x \in Text /\ Len(x) = b - a + 1
          /\ \A i \in 1 .. b - a + 1 : x[i] = t[a + i - 1]
      <3>1. a \in 1 .. Len(t) + 1 /\ b \in 0 .. Len(t) /\ a <= b + 1
        BY <2>1, <2>2
      <3> QED BY <2>1, <3>1, PartOf
    <2>4. Commas(x) = {}
      <3>1. \A i \in 1 .. b - a + 1 : a + i - 1 \in 1 .. Len(t)
        BY <2>1, <2>2
      <3>2. \A i \in DOMAIN x : ~ Comma(x[i])
        BY <2>3, <3>1 DEF Text
      <3> QED BY <3>2, CommasAre
    <2>5. x[1] = t[a] /\ x[Len(x)] = t[b] /\ Len(x) \in Nat /\ Len(x) >= 1
      BY <2>1, <2>2, <2>3
    <2>6. Trim(x) = x
      <3>1. PICK c \in 1 .. Len(x), d \in 1 .. Len(x) :
              /\ \A k \in 1 .. Len(x) : k < c \/ d < k => x[k] \in Blanks
              /\ Trim(x) = SubSeq(x, c, d)
        <4>1. Trim(x) # << >>
          <5>1. 1 \in 1 .. Len(x) /\ x[1] \notin Blanks
            BY <2>1, <2>5
          <5>2. ~ \A k \in 1 .. Len(x) : x[k] \in Blanks
            BY <5>1
          <5> QED BY <2>3, <5>2, TrimOf
        <4> QED BY <2>3, <4>1, TrimOf
      <3>2. c = 1 /\ d = Len(x)
        <4>1. ~ 1 < c
          <5>1. x[1] \notin Blanks /\ 1 \in 1 .. Len(x)
            BY <2>1, <2>5
          <5> QED BY <3>1, <5>1
        <4>2. x[Len(x)] \notin Blanks /\ Len(x) \in 1 .. Len(x)
          BY <2>1, <2>5
        <4>3. ~ d < Len(x)
          BY <3>1, <4>2
        <4> QED BY <2>5, <4>1, <4>3
      <3>3. SubSeq(x, 1, Len(x)) = x
        BY <2>3 DEF Text
      <3> QED BY <3>1, <3>2, <3>3
    <2> QED BY <2>4, <2>6 DEF x
  <1> QED BY <1>1, <1>2

-----------------------------------------------------------------------------
(* The items of a list, as ItemsOf says them.                              *)
Edge(v, k) == v[k] \notin Blanks /\ ~ Comma(v[k])

IsItem(v, i, j) ==
  /\ i <= j /\ Edge(v, i) /\ Edge(v, j)
  /\ \A k \in i .. j : ~ Comma(v[k])
  /\ \A k \in 1 .. i - 1 : Edge(v, k) => \E c \in k .. i - 1 : Comma(v[c])
  /\ \A k \in j + 1 .. Len(v) : Edge(v, k) => \E c \in j + 1 .. k : Comma(v[c])

LEMMA ItemsAre ==
  ASSUME NEW v, NEW x
  PROVE  x \in ItemsOf(v) <=> \E i, j \in 1 .. Len(v) : IsItem(v, i, j) /\ x = SubSeq(v, i, j)
  <1>1. ItemsOf(v) = {SubSeq(v, p[1], p[2]) :
                        p \in {q \in (1 .. Len(v)) \X (1 .. Len(v)) : IsItem(v, q[1], q[2])}}
    BY Zenon DEF ItemsOf, IsItem, Edge, Comma
  <1>2. ASSUME x \in ItemsOf(v)
        PROVE  \E i, j \in 1 .. Len(v) : IsItem(v, i, j) /\ x = SubSeq(v, i, j)
    <2>1. PICK p \in (1 .. Len(v)) \X (1 .. Len(v)) :
            IsItem(v, p[1], p[2]) /\ x = SubSeq(v, p[1], p[2])
      BY <1>1, <1>2
    <2>2. p[1] \in 1 .. Len(v) /\ p[2] \in 1 .. Len(v)
      OBVIOUS
    <2> QED BY <2>1, <2>2
  <1>3. ASSUME NEW i \in 1 .. Len(v), NEW j \in 1 .. Len(v), IsItem(v, i, j), x = SubSeq(v, i, j)
        PROVE  x \in ItemsOf(v)
    <2>1. <<i, j>>[1] = i /\ <<i, j>>[2] = j /\ <<i, j>> \in (1 .. Len(v)) \X (1 .. Len(v))
      OBVIOUS
    <2> QED BY <1>1, <1>3, <2>1
  <1> QED BY <1>2, <1>3

\* What comes before the first comma is an item, unless it is blank.
LEMMA HeadItem ==
  ASSUME NEW s \in Text, s # << >>
  PROVE  /\ Trim(Line(s)) # << >> =>
              \E i, j \in 1 .. Len(s) : IsItem(s, i, j) /\ SubSeq(s, i, j) = Trim(Line(s))
         /\ \A i, j \in 1 .. Len(s) : i < Cut(s) /\ IsItem(s, i, j) =>
              Trim(Line(s)) # << >> /\ SubSeq(s, i, j) = Trim(Line(s))
  <1> DEFINE t == Line(s)
             c == Cut(s)
  <1>1. /\ c \in 1 .. Len(s) + 1 /\ Len(s) \in Nat /\ \A k \in 1 .. c - 1 : ~ Comma(s[k])
        /\ c <= Len(s) => Comma(s[c])
        /\ t \in Text /\ Len(t) = c - 1 /\ \A k \in 1 .. c - 1 : t[k] = s[k]
    <2>1. Len(s) \in Nat
      BY DEF Text
    <2> QED BY <2>1, CutOf
  <1> HIDE DEF t, c
  <1>2. CASE Trim(t) = << >>
    <2>1. \A k \in 1 .. c - 1 : s[k] \in Blanks
      BY <1>1, <1>2, TrimOf
    <2>2. \A i, j \in 1 .. Len(s) : i < c => ~ IsItem(s, i, j)
      BY <1>1, <2>1 DEF IsItem, Edge
    <2> QED BY <1>2, <2>2 DEF t, c
  <1>3. CASE Trim(t) # << >>
    <2>1. PICK a \in 1 .. Len(t), b \in 1 .. Len(t) :
            /\ a <= b /\ t[a] \notin Blanks /\ t[b] \notin Blanks
            /\ \A k \in 1 .. Len(t) : k < a \/ b < k => t[k] \in Blanks
            /\ Trim(t) = SubSeq(t, a, b)
      BY <1>1, <1>3, TrimOf
    <2>2. /\ a \in 1 .. c - 1 /\ b \in 1 .. c - 1 /\ a <= b /\ Edge(s, a) /\ Edge(s, b)
          /\ \A k \in 1 .. c - 1 : k < a \/ b < k => ~ Edge(s, k)
      BY <1>1, <2>1 DEF Edge
    <2>3. SubSeq(t, a, b) = SubSeq(s, a, b)
      <3>1. /\ a \in 1 .. Len(t) + 1 /\ b \in 0 .. Len(t) /\ a <= b + 1
            /\ a \in 1 .. Len(s) + 1 /\ b \in 0 .. Len(s)
        BY <1>1, <2>2
      <3>2. /\ SubSeq(t, a, b) \in Text /\ Len(SubSeq(t, a, b)) = b - a + 1
            /\ \A i \in 1 .. b - a + 1 : SubSeq(t, a, b)[i] = t[a + i - 1]
        BY <1>1, <3>1, PartOf
      <3>3. /\ SubSeq(s, a, b) \in Text /\ Len(SubSeq(s, a, b)) = b - a + 1
            /\ \A i \in 1 .. b - a + 1 : SubSeq(s, a, b)[i] = s[a + i - 1]
        BY <3>1, PartOf
      <3>4. ASSUME NEW i \in 1 .. b - a + 1 PROVE t[a + i - 1] = s[a + i - 1]
        <4>1. a + i - 1 \in 1 .. c - 1
          BY <1>1, <2>2
        <4> QED BY <1>1, <4>1
      <3> QED BY <3>2, <3>3, <3>4, SameText
    <2>4. IsItem(s, a, b)
      <3>1. ASSUME NEW k \in b + 1 .. Len(s), Edge(s, k)
            PROVE  \E d \in b + 1 .. k : Comma(s[d])
        <4>1. ~ k < c
          BY <1>1, <2>2, <3>1
        <4>2. c \in b + 1 .. k /\ Comma(s[c])
          BY <1>1, <2>2, <4>1
        <4> QED BY <4>2
      <3>2. \A k \in 1 .. a - 1 : ~ Edge(s, k)
        BY <1>1, <2>2
      <3>3. \A k \in a .. b : ~ Comma(s[k])
        BY <1>1, <2>2
      <3> QED BY <2>2, <3>1, <3>2, <3>3 DEF IsItem
    <2>5. ASSUME NEW i \in 1 .. Len(s), NEW j \in 1 .. Len(s), i < c, IsItem(s, i, j)
          PROVE  i = a /\ j = b
      <3>1. /\ i <= j /\ Edge(s, i) /\ Edge(s, j) /\ \A k \in i .. j : ~ Comma(s[k])
            /\ \A k \in 1 .. i - 1 : Edge(s, k) => \E d \in k .. i - 1 : Comma(s[d])
            /\ \A k \in j + 1 .. Len(s) : Edge(s, k) => \E d \in j + 1 .. k : Comma(s[d])
        BY <2>5 DEF IsItem
      <3>2. j < c
        <4> SUFFICES ASSUME c <= j PROVE FALSE
          BY <1>1
        <4>1. c \in i .. j /\ Comma(s[c])
          BY <1>1, <2>5
        <4> QED BY <3>1, <4>1
      <3>3. a <= i /\ j <= b
        BY <1>1, <2>2, <2>5, <3>1, <3>2
      <3>4. ~ a < i
        <4> SUFFICES ASSUME a < i PROVE FALSE
          OBVIOUS
        <4>1. PICK d \in a .. i - 1 : Comma(s[d])
          BY <2>2, <3>1
        <4>2. d \in 1 .. c - 1
          BY <1>1, <2>2, <2>5
        <4> QED BY <1>1, <4>1, <4>2
      <3>5. ~ j < b
        <4> SUFFICES ASSUME j < b PROVE FALSE
          OBVIOUS
        <4>1. b \in j + 1 .. Len(s)
          BY <1>1, <2>2
        <4>2. PICK d \in j + 1 .. b : Comma(s[d])
          BY <2>2, <3>1, <4>1
        <4>3. d \in 1 .. c - 1
          BY <1>1, <2>2
        <4> QED BY <1>1, <4>2, <4>3
      <3> QED BY <1>1, <2>2, <3>3, <3>4, <3>5
    <2>6. a \in 1 .. Len(s) /\ b \in 1 .. Len(s)
      BY <1>1, <2>2
    <2>7. \E i, j \in 1 .. Len(s) : IsItem(s, i, j) /\ SubSeq(s, i, j) = Trim(t)
      BY <2>1, <2>3, <2>4, <2>6
    <2>8. \A i, j \in 1 .. Len(s) : i < c /\ IsItem(s, i, j) => SubSeq(s, i, j) = Trim(t)
      BY <2>1, <2>3, <2>5
    <2> QED BY <1>3, <2>7, <2>8 DEF t, c
  <1> QED BY <1>2, <1>3

\* The items behind the first comma are those of what is left.
LEMMA TailItem ==
  ASSUME NEW s \in Text, NEW i \in 1 .. Len(s), NEW j \in 1 .. Len(s), Cut(s) < i, i <= j
  PROVE  /\ i - Cut(s) \in 1 .. Len(After(s)) /\ j - Cut(s) \in 1 .. Len(After(s))
         /\ IsItem(s, i, j) <=> IsItem(After(s), i - Cut(s), j - Cut(s))
         /\ SubSeq(s, i, j) = SubSeq(After(s), i - Cut(s), j - Cut(s))
  <1> DEFINE c == Cut(s)
             w == After(s)
             m == i - c
             n == j - c
  <1>1. s # << >> /\ Len(s) \in Nat
    BY DEF Text
  <1>2. /\ c \in 1 .. Len(s) /\ Comma(s[c])
        /\ w \in Text /\ Len(w) = Len(s) - c /\ \A k \in 1 .. Len(s) - c : w[k] = s[k + c]
    BY <1>1, CutOf
  <1> HIDE DEF c, w
  <1>3. c < i /\ i <= j /\ i <= Len(s) /\ j <= Len(s) /\ i \in Nat /\ j \in Nat /\ c \in Nat
    BY <1>1, <1>2 DEF c
  <1>4. m \in 1 .. Len(w) /\ n \in 1 .. Len(w) /\ m <= n /\ m + c = i /\ n + c = j
    BY <1>1, <1>2, <1>3
  <1> HIDE DEF m, n
  <1>5. \A k \in 1 .. Len(w) : Edge(w, k) <=> Edge(s, k + c)
    BY <1>2 DEF Edge
  <1>6. \A k \in c + 1 .. Len(s) : k - c \in 1 .. Len(w) /\ (k - c) + c = k
    BY <1>1, <1>2, <1>3
  <1>7. ASSUME IsItem(s, i, j) PROVE IsItem(w, m, n)
    <2>1. /\ Edge(s, i) /\ Edge(s, j) /\ \A k \in i .. j : ~ Comma(s[k])
          /\ \A k \in 1 .. i - 1 : Edge(s, k) => \E d \in k .. i - 1 : Comma(s[d])
          /\ \A k \in j + 1 .. Len(s) : Edge(s, k) => \E d \in j + 1 .. k : Comma(s[d])
      BY <1>7 DEF IsItem
    <2>2. Edge(w, m) /\ Edge(w, n)
      BY <1>4, <1>5, <2>1
    <2>3. ASSUME NEW k \in m .. n PROVE ~ Comma(w[k])
      <3>1. k + c \in i .. j /\ k \in 1 .. Len(s) - c
        BY <1>2, <1>3, <1>4
      <3> QED BY <1>2, <2>1, <3>1
    <2>4. ASSUME NEW k \in 1 .. m - 1, Edge(w, k) PROVE \E d \in k .. m - 1 : Comma(w[d])
      <3>1. k + c \in 1 .. i - 1 /\ Edge(s, k + c)
        BY <1>3, <1>4, <1>5, <2>4
      <3>2. PICK d \in k + c .. i - 1 : Comma(s[d])
        BY <2>1, <3>1
      <3>3. d - c \in k .. m - 1 /\ d - c \in 1 .. Len(s) - c /\ (d - c) + c = d
        BY <1>2, <1>3, <1>4
      <3>4. Comma(w[d - c])
        BY <1>2, <3>2, <3>3
      <3> QED BY <3>3, <3>4
    <2>5. ASSUME NEW k \in n + 1 .. Len(w), Edge(w, k) PROVE \E d \in n + 1 .. k : Comma(w[d])
      <3>1. k + c \in j + 1 .. Len(s) /\ Edge(s, k + c)
        BY <1>2, <1>3, <1>4, <1>5, <2>5
      <3>2. PICK d \in j + 1 .. k + c : Comma(s[d])
        BY <2>1, <3>1
      <3>3. d - c \in n + 1 .. k /\ d - c \in 1 .. Len(s) - c /\ (d - c) + c = d
        BY <1>2, <1>3, <1>4
      <3>4. Comma(w[d - c])
        BY <1>2, <3>2, <3>3
      <3> QED BY <3>3, <3>4
    <2> QED BY <1>4, <2>2, <2>3, <2>4, <2>5 DEF IsItem
  <1>8. ASSUME IsItem(w, m, n) PROVE IsItem(s, i, j)
    <2>1. /\ Edge(w, m) /\ Edge(w, n) /\ \A k \in m .. n : ~ Comma(w[k])
          /\ \A k \in 1 .. m - 1 : Edge(w, k) => \E d \in k .. m - 1 : Comma(w[d])
          /\ \A k \in n + 1 .. Len(w) : Edge(w, k) => \E d \in n + 1 .. k : Comma(w[d])
      BY <1>8 DEF IsItem
    <2>2. Edge(s, i) /\ Edge(s, j)
      BY <1>4, <1>5, <2>1
    <2>3. ASSUME NEW k \in i .. j PROVE ~ Comma(s[k])
      <3>1. k - c \in m .. n /\ k - c \in 1 .. Len(s) - c /\ (k - c) + c = k
        BY <1>2, <1>3, <1>4
      <3> QED BY <1>2, <2>1, <3>1
    <2>4. ASSUME NEW k \in 1 .. i - 1, Edge(s, k) PROVE \E d \in k .. i - 1 : Comma(s[d])
      <3>1. CASE k <= c
        <4>1. c \in k .. i - 1
          BY <1>3, <3>1
        <4> QED BY <1>2, <4>1
      <3>2. CASE c < k
        <4>1. k - c \in 1 .. m - 1 /\ k - c \in 1 .. Len(w) /\ (k - c) + c = k
          BY <1>2, <1>3, <1>4, <3>2
        <4>2. PICK d \in k - c .. m - 1 : Comma(w[d])
          BY <1>5, <2>1, <2>4, <4>1
        <4>3. d + c \in k .. i - 1 /\ d \in 1 .. Len(s) - c
          BY <1>2, <1>3, <1>4, <4>1
        <4>4. Comma(s[d + c])
          BY <1>2, <4>2, <4>3
        <4> QED BY <4>3, <4>4
      <3> QED BY <1>3, <3>1, <3>2
    <2>5. ASSUME NEW k \in j + 1 .. Len(s), Edge(s, k) PROVE \E d \in j + 1 .. k : Comma(s[d])
      <3>1. k - c \in n + 1 .. Len(w) /\ k - c \in 1 .. Len(w) /\ (k - c) + c = k
        BY <1>2, <1>3, <1>4
      <3>2. PICK d \in n + 1 .. k - c : Comma(w[d])
        BY <1>5, <2>1, <2>5, <3>1
      <3>3. d + c \in j + 1 .. k /\ d \in 1 .. Len(s) - c
        BY <1>2, <1>3, <1>4, <3>1
      <3>4. Comma(s[d + c])
        BY <1>2, <3>2, <3>3
      <3> QED BY <3>3, <3>4
    <2> QED BY <1>3, <2>2, <2>3, <2>4, <2>5 DEF IsItem
  <1>9. SubSeq(s, i, j) = SubSeq(w, m, n)
    <2>1. /\ i \in 1 .. Len(s) + 1 /\ j \in 0 .. Len(s) /\ i <= j + 1
          /\ m \in 1 .. Len(w) + 1 /\ n \in 0 .. Len(w) /\ m <= n + 1
          /\ j - i + 1 = n - m + 1 /\ j - i + 1 \in Nat
      BY <1>1, <1>2, <1>3, <1>4
    <2>2. /\ SubSeq(s, i, j) \in Text /\ Len(SubSeq(s, i, j)) = j - i + 1
          /\ \A k \in 1 .. j - i + 1 : SubSeq(s, i, j)[k] = s[i + k - 1]
      BY <2>1, PartOf
    <2>3. /\ SubSeq(w, m, n) \in Text /\ Len(SubSeq(w, m, n)) = n - m + 1
          /\ \A k \in 1 .. n - m + 1 : SubSeq(w, m, n)[k] = w[m + k - 1]
      BY <1>2, <2>1, PartOf
    <2>4. ASSUME NEW k \in 1 .. j - i + 1 PROVE s[i + k - 1] = w[m + k - 1]
      <3>1. m + k - 1 \in 1 .. Len(s) - c /\ (m + k - 1) + c = i + k - 1
        BY <1>2, <1>3, <1>4
      <3> QED BY <1>2, <3>1
    <2> DEFINE x == SubSeq(s, i, j)
               y == SubSeq(w, m, n)
    <2>5. x \in Text /\ y \in Text /\ Len(x) = j - i + 1 /\ Len(y) = j - i + 1
      BY <2>1, <2>2, <2>3
    <2>6. \A k \in 1 .. j - i + 1 : x[k] = y[k]
      BY <2>1, <2>2, <2>3, <2>4
    <2> HIDE DEF x, y
    <2>7. x = y
      BY <2>5, <2>6, SameText
    <2> QED BY <2>7 DEF x, y
  <1> QED BY <1>4, <1>7, <1>8, <1>9 DEF c, w, m, n

\* getline() and trim() take the items off a list one by one.
LEMMA ItemsSplit ==
  ASSUME NEW s \in Text, s # << >>
  PROVE  ItemsOf(s) = ItemsOf(After(s)) \cup
                      (IF Trim(Line(s)) = << >> THEN {} ELSE {Trim(Line(s))})
  <1> DEFINE c == Cut(s)
             w == After(s)
             x == Trim(Line(s))
             H == IF x = << >> THEN {} ELSE {x}
  <1>1. Len(s) \in Nat
    BY DEF Text
  <1>2. /\ c \in 1 .. Len(s) + 1 /\ c <= Len(s) => Comma(s[c])
        /\ w \in Text /\ Len(w) = IF c <= Len(s) THEN Len(s) - c ELSE 0
    BY CutOf
  <1>3. x # << >> => x \in ItemsOf(s)
    BY HeadItem, ItemsAre
  <1>4. \A i, j \in 1 .. Len(s) : i < c /\ IsItem(s, i, j) => x # << >> /\ SubSeq(s, i, j) = x
    BY HeadItem
  <1>5. \A i, j \in 1 .. Len(s) : c < i /\ i <= j =>
          /\ i - c \in 1 .. Len(w) /\ j - c \in 1 .. Len(w)
          /\ IsItem(s, i, j) <=> IsItem(w, i - c, j - c)
          /\ SubSeq(s, i, j) = SubSeq(w, i - c, j - c)
    BY TailItem
  <1>0. c \in 1 .. Len(s) + 1
    BY CutOf
  <1> HIDE DEF c, w, x
  <1>6. ASSUME NEW y \in ItemsOf(s) PROVE y \in ItemsOf(w) \cup H
    <2>1. PICK i \in 1 .. Len(s), j \in 1 .. Len(s) : IsItem(s, i, j) /\ y = SubSeq(s, i, j)
      BY ItemsAre
    <2>2. i <= j /\ i # c
      BY <1>2, <2>1 DEF IsItem, Edge
    <2>3. CASE i < c
      BY <1>4, <2>1, <2>3
    <2>4. CASE c < i
      <3>1. /\ i - c \in 1 .. Len(w) /\ j - c \in 1 .. Len(w)
            /\ IsItem(w, i - c, j - c) /\ y = SubSeq(w, i - c, j - c)
        BY <1>5, <2>1, <2>2, <2>4
      <3> QED BY <3>1, ItemsAre
    <2>5. i < c \/ i = c \/ c < i
      <3>1. c \in Int /\ i \in Int
        BY <1>1, <1>0
      <3> QED BY <3>1
    <2> QED BY <2>2, <2>3, <2>4, <2>5
  <1>7. ASSUME NEW y \in ItemsOf(w) PROVE y \in ItemsOf(s)
    <2>1. PICK m \in 1 .. Len(w), n \in 1 .. Len(w) : IsItem(w, m, n) /\ y = SubSeq(w, m, n)
      BY ItemsAre
    <2>2. m <= n
      BY <2>1 DEF IsItem
    <2>3. /\ m + c \in 1 .. Len(s) /\ n + c \in 1 .. Len(s) /\ c < m + c /\ m + c <= n + c
          /\ (m + c) - c = m /\ (n + c) - c = n
      <3>1. m \in 1 .. Len(w) /\ n \in 1 .. Len(w) /\ c \in 1 .. Len(s) + 1
        BY <1>0
      <3>2. c <= Len(s) /\ Len(w) = Len(s) - c
        BY <1>1, <1>2, <3>1
      <3> QED BY <1>1, <2>2, <3>1, <3>2
    <2>4. /\ IsItem(s, m + c, n + c) <=> IsItem(w, (m + c) - c, (n + c) - c)
          /\ SubSeq(s, m + c, n + c) = SubSeq(w, (m + c) - c, (n + c) - c)
      BY <1>5, <2>3
    <2>5. IsItem(s, m + c, n + c) /\ y = SubSeq(s, m + c, n + c)
      BY <2>1, <2>3, <2>4
    <2> QED BY <2>3, <2>5, ItemsAre
  <1>8. ItemsOf(s) = ItemsOf(w) \cup H
    BY <1>3, <1>6, <1>7
  <1> QED BY <1>8 DEF w, x

LEMMA NoItems == ItemsOf(<< >>) = {}
  <1>1. Len(<< >>) = 0 /\ 1 .. Len(<< >>) = {}
    OBVIOUS
  <1> QED BY <1>1, ItemsAre

-----------------------------------------------------------------------------
(* What is left of a list while getline() goes through it.                 *)

\* Nothing, or what comes behind its first k characters, up to a comma.
LeftAt(v, r, k) ==
  /\ k \in Nat /\ k < Len(v) /\ (k = 0 \/ Comma(v[k]))
  /\ Len(r) = Len(v) - k /\ \A i \in 1 .. Len(v) - k : r[i] = v[k + i]
LeftOf(v, r) == r = << >> \/ \E k \in Nat : LeftAt(v, r, k)

LEMMA LeftWhole ==
  ASSUME NEW v \in Text
  PROVE  LeftOf(v, v)
  <1>1. Len(v) \in Nat
    BY DEF Text
  <1>2. CASE Len(v) = 0
    BY <1>2 DEF LeftOf, Text
  <1>3. CASE Len(v) # 0
    <2>1. LeftAt(v, v, 0)
      BY <1>1, <1>3 DEF LeftAt
    <2> QED BY <2>1 DEF LeftOf
  <1> QED BY <1>2, <1>3

LEMMA LeftAfter ==
  ASSUME NEW v \in Text, NEW r \in Text, r # << >>, LeftOf(v, r)
  PROVE  LeftOf(v, After(r))
  <1> DEFINE c == Cut(r)
             w == After(r)
  <1>1. PICK k \in Nat : LeftAt(v, r, k)
    BY DEF LeftOf
  <1>2. Len(v) \in Nat /\ Len(r) \in Nat
    BY DEF Text
  <1>3. /\ c \in 1 .. Len(r) + 1 /\ c <= Len(r) => Comma(r[c])
        /\ w \in Text /\ Len(w) = IF c <= Len(r) THEN Len(r) - c ELSE 0
        /\ \A i \in 1 .. Len(r) - c : w[i] = r[i + c]
    BY CutOf
  <1>4. k < Len(v) /\ Len(r) = Len(v) - k
    BY <1>1 DEF LeftAt
  <1>0. c \in 1 .. Len(r) + 1
    BY CutOf
  <1> HIDE DEF c, w
  <1>5. c \in Nat /\ 1 <= c
    BY <1>2, <1>0
  <1>6. CASE c < Len(r)
    <2>1. Comma(r[c]) /\ c \in 1 .. Len(v) - k /\ k + c \in Nat /\ k + c < Len(v)
          /\ Len(w) = Len(v) - (k + c)
      <3>1. c <= Len(r) /\ Comma(r[c]) /\ Len(w) = Len(r) - c
        BY <1>2, <1>3, <1>5, <1>6
      <3> QED BY <1>2, <1>4, <1>5, <1>6, <3>1
    <2>2. Comma(v[k + c])
      BY <1>1, <2>1 DEF LeftAt
    <2>3. ASSUME NEW i \in 1 .. Len(v) - (k + c) PROVE w[i] = v[k + c + i]
      <3>1. /\ i \in 1 .. Len(r) - c /\ i + c \in 1 .. Len(v) - k
            /\ k + (i + c) = k + c + i
        BY <1>2, <1>4, <1>5, <2>1
      <3>2. w[i] = r[i + c] /\ r[i + c] = v[k + (i + c)]
        BY <1>1, <1>3, <3>1 DEF LeftAt
      <3> QED BY <3>1, <3>2
    <2>4. LeftAt(v, w, k + c)
      BY <2>1, <2>2, <2>3 DEF LeftAt
    <2> QED BY <2>1, <2>4 DEF LeftOf, w
  <1>7. CASE ~ c < Len(r)
    <2>1. Len(w) = 0
      <3>1. c <= Len(r) => c = Len(r)
        BY <1>2, <1>5, <1>7
      <3>2. Len(w) = IF c <= Len(r) THEN Len(r) - c ELSE 0
        BY <1>3
      <3> QED BY <1>2, <3>1, <3>2
    <2>2. w = << >>
      BY <1>3, <2>1 DEF Text
    <2> QED BY <2>2 DEF LeftOf, w
  <1> QED BY <1>6, <1>7

\* When trim() finds nothing, there is a blank item in the list.
LEMMA BlankFound ==
  ASSUME NEW v \in Text, NEW r \in Text, r # << >>, LeftOf(v, r), Trim(Line(r)) = << >>
  PROVE  HasBlank(v)
  <1> DEFINE c == Cut(r)
  <1>1. PICK k \in Nat : LeftAt(v, r, k)
    BY DEF LeftOf
  <1>2. Len(v) \in Nat /\ Len(r) \in Nat
    BY DEF Text
  <1>3. /\ c \in 1 .. Len(r) + 1 /\ c <= Len(r) => Comma(r[c])
        /\ Line(r) \in Text /\ Len(Line(r)) = c - 1 /\ \A i \in 1 .. c - 1 : Line(r)[i] = r[i]
    BY CutOf
  <1>4. \A i \in 1 .. c - 1 : r[i] \in Blanks
    BY <1>3, TrimOf
  <1>0. c \in 1 .. Len(r) + 1
    BY CutOf
  <1> HIDE DEF c
  <1>5. k < Len(v) /\ Len(r) = Len(v) - k /\ (k = 0 \/ Comma(v[k]))
        /\ \A i \in 1 .. Len(v) - k : r[i] = v[k + i]
    BY <1>1 DEF LeftAt
  <1>6. c \in Nat /\ 1 <= c /\ c <= Len(r) + 1
    BY <1>2, <1>0
  <1> DEFINE e == k + c
  <1>7. /\ k \in 0 .. Len(v) + 1 /\ e \in 0 .. Len(v) + 1 /\ k < e /\ k < Len(v)
    <2>1. k < Len(v) /\ Len(r) = Len(v) - k
      BY <1>5
    <2> QED BY <1>2, <1>6, <2>1
  <1>8. e = Len(v) + 1 \/ Comma(v[e])
    <2>1. Len(r) = Len(v) - k
      BY <1>5
    <2>2. CASE c <= Len(r)
      <3>1. c \in 1 .. Len(v) - k
        BY <1>2, <1>6, <2>1, <2>2
      <3>2. Comma(r[c]) /\ r[c] = v[k + c]
        BY <1>3, <1>5, <2>2, <3>1
      <3> QED BY <3>2
    <2>3. CASE ~ c <= Len(r)
      BY <1>2, <1>6, <2>1, <2>3
    <2> QED BY <2>2, <2>3
  <1>9. ASSUME NEW i \in k + 1 .. e - 1 PROVE v[i] \in Blanks
    <2>1. Len(r) = Len(v) - k
      BY <1>5
    <2>2. i - k \in 1 .. c - 1 /\ i - k \in 1 .. Len(v) - k /\ k + (i - k) = i
      BY <1>2, <1>6, <2>1
    <2>3. r[i - k] \in Blanks /\ r[i - k] = v[k + (i - k)]
      BY <1>4, <1>5, <2>2
    <2> QED BY <2>2, <2>3
  <1> HIDE DEF e
  <1>10. \E i, j \in 0 .. Len(v) + 1 :
           /\ i < j /\ (i = 0 \/ Comma(v[i])) /\ (j = Len(v) + 1 \/ Comma(v[j]))
           /\ i < Len(v)
           /\ \A m \in i + 1 .. j - 1 : v[m] \in Blanks
    <2>1. /\ k < e /\ (k = 0 \/ Comma(v[k])) /\ (e = Len(v) + 1 \/ Comma(v[e]))
          /\ k < Len(v)
          /\ \A m \in k + 1 .. e - 1 : v[m] \in Blanks
      BY <1>5, <1>7, <1>8, <1>9
    <2> QED BY <1>7, <2>1
  <1> QED BY <1>10, Zenon DEF HasBlank, Comma

-----------------------------------------------------------------------------
(* The clients of a stack.                                                 *)

\* Who may be served: only they are ever given a token.
Admitted == Mapped \cup {Root}

ServedOK ==
  /\ client # Nobody => /\ client \in Admitted
                        /\ \A d \in Drivers : userId[d] = Identity(d, client)
  /\ client # Nobody \/ token # NoToken => proc \in {"up", "dead"} /\ AllLoaded /\ line = << >>

TokenOK ==
  token # NoToken => /\ token.for \in Admitted
                     /\ token.id = Identity("pooldriver", token.for)
                     /\ token.passwd = Password("pooldriver")

OpenedOK ==
  opened # "none" =>
    /\ client # Nobody /\ token # NoToken
    /\ opened = "accepted" <=> /\ token.id = Identity("io", client)
                               /\ token.passwd = Password("io")

StackInv == /\ ConfigInv /\ (proc = "up" => line = << >>)
            /\ ServedOK /\ TokenOK /\ OpenedOK /\ OwnerFromAnswer

LEMMA StackInitial == Init => StackInv
  BY ConfigInitial
     DEF Init, ConfigInit, StackInv, ServedOK, TokenOK, OpenedOK, OwnerFromAnswer

\* A step that leaves the members of the factories alone.
LEMMA ConfigKept ==
  ASSUME ConfigInv, UNCHANGED <<loaded, factory, lineVars, early>>
  PROVE  ConfigInv'
  <1>1. MembersOK'
    BY DEF ConfigInv, MembersOK, FactoriesOK, Shape, IsLoaded
  <1>2. LinesOK'
    BY DEF ConfigInv, LinesOK, lineVars
  <1>3. AgreeOK'
    BY DEF ConfigInv, AgreeOK, AllLoaded, IsLoaded, InQueue, Password, lineVars
  <1> QED BY <1>1, <1>2, <1>3 DEF ConfigInv

\* Only while it starts is a process configured.
LEMMA ConfigNotUp ==
  ASSUME ConfigNext
  PROVE  proc = "starting" /\ (proc' = "up" => line' = << >>)
  BY DEF ConfigNext, LoadPlugin, NotMine, SetText, SetNumber, SetTokenId, SetFolder,
         AddGateway, GatewaysAdded, Option, OptionGiven, StartUp, Ready, Turn, Configured,
         Ends, lineVars

StackNext == \/ CreateStack \/ DestroyStack
             \/ \E c \in Clients \cup {Root} : Login(c)
             \/ Logout \/ WhereToWrite \/ CreateIOHandler \/ AskSpace
             \/ \E p \in Paths : ChangeDir(p)
             \/ GetWorkingDir \/ SetAttribute
             \/ \E u, g \in Ids : SetOwner(u, g)

StackKept == UNCHANGED <<loaded, factory, lineVars, early, count, given>> /\ proc' \in {proc, "dead"}

\* What the calls on a stack leave alone of the configuration.
LEMMA StackKeeps ==
  ASSUME StackNext \/ UNCHANGED vars
  PROVE  StackKept
  BY DEF StackNext, vars, configVars, StackKept, CreateStack, DestroyStack, Login, Logout,
         WhereToWrite, CreateIOHandler, AskSpace, ChangeDir, GetWorkingDir, SetAttribute,
         SetOwner, Dies

LEMMA StackStep == StackInv /\ [Next]_vars => StackInv'
  <1> SUFFICES ASSUME StackInv, [Next]_vars PROVE StackInv'
    OBVIOUS
  <1> USE DEF StackInv
  <1>1. CASE ConfigNext /\ UNCHANGED stackVars
    <2>1. ConfigInv' /\ client = Nobody /\ token = NoToken /\ (proc' = "up" => line' = << >>)
      BY <1>1, ConfigStep, ConfigNotUp DEF ServedOK
    <2> QED BY <1>1, <2>1 DEF stackVars, ServedOK, TokenOK, OpenedOK, OwnerFromAnswer
  <1>2. CASE StackNext \/ UNCHANGED vars
    <2>1. StackKept
      BY <1>2, StackKeeps
    <2>2. ConfigInv' /\ (AllLoaded' <=> AllLoaded) /\ line' = line
          /\ (proc' = "up" => line' = << >>)
      BY <2>1, ConfigKept DEF StackKept, AllLoaded, IsLoaded, lineVars
    <2>3. \A d, c : Identity(d, c)' = Identity(d, c) /\ Password(d)' = Password(d)
      BY <2>1 DEF StackKept, Identity, Password
    <2>5. CASE UNCHANGED vars
      BY <2>1, <2>2, <2>3, <2>5
         DEF vars, stackVars, ServedOK, TokenOK, OpenedOK, OwnerFromAnswer, StackKept
    <2>6. CASE CreateStack \/ DestroyStack
      BY <2>1, <2>2, <2>3, <2>6
         DEF CreateStack, DestroyStack, configVars, ServedOK, TokenOK, OpenedOK,
             OwnerFromAnswer, StackKept
    <2>7. ASSUME NEW c \in Clients \cup {Root}, Login(c) PROVE StackInv'
      <3>1. /\ c \in Admitted /\ \A d \in Drivers : userId'[d] = Identity(d, c)
            /\ client' = c /\ proc = "up" /\ AllLoaded /\ line = << >>
            /\ opened = "none" /\ client = Nobody
            /\ UNCHANGED <<dirVars, token, opened, owned>>
        BY <2>7 DEF Login, Authenticated, Context, Admitted, Up, AllLoaded, OpenedOK
      <3> QED BY <2>1, <2>2, <2>3, <3>1
              DEF ServedOK, TokenOK, OpenedOK, OwnerFromAnswer, StackKept
    <2>8. CASE Logout
      BY <2>1, <2>2, <2>3, <2>8
         DEF Logout, configVars, ServedOK, TokenOK, OpenedOK, OwnerFromAnswer,
             StackKept
    <2>9. CASE WhereToWrite
      <3>1. /\ client # Nobody /\ UNCHANGED <<userId, client, dirVars, owned>>
            /\ \/ UNCHANGED <<token, opened>>
               \/ /\ token' = [id |-> userId["pooldriver"], for |-> client,
                               passwd |-> Password("pooldriver")]
                  /\ opened' = "none"
        BY <2>9 DEF WhereToWrite, Serving, Password
      <3> QED BY <2>1, <2>2, <2>3, <3>1
              DEF ServedOK, TokenOK, OpenedOK, OwnerFromAnswer, StackKept, Drivers
    <2>10. CASE CreateIOHandler
      <3>1. /\ client # Nobody /\ token # NoToken
            /\ UNCHANGED <<userId, client, dirVars, owned, token>>
            /\ opened' = IF token.id = userId["io"] /\ token.passwd = Password("io")
                         THEN "accepted" ELSE "refused"
        BY <2>10 DEF CreateIOHandler, Serving, Password
      <3> QED BY <2>1, <2>2, <2>3, <3>1
              DEF ServedOK, TokenOK, OpenedOK, OwnerFromAnswer, StackKept, Drivers
    <2>11. CASE AskSpace \/ SetAttribute \/ GetWorkingDir \/ \E p \in Paths : ChangeDir(p)
      BY <2>1, <2>2, <2>3, <2>11
         DEF AskSpace, SetAttribute, GetWorkingDir, ChangeDir, KeptOnError, ServedOK, TokenOK,
             OpenedOK, OwnerFromAnswer, StackKept
    <2>12. ASSUME NEW u \in Ids, NEW g \in Ids, SetOwner(u, g) PROVE StackInv'
      <3>1. UNCHANGED <<userId, client, dirVars, token, opened>>
        BY <2>12 DEF SetOwner
      <3>2. OwnerFromAnswer'
        <4> DEFINE found == u \in Known /\ g \in Known
        <4>1. \/ ~ found /\ owned' = <<found, "threw">>
              \/ found /\ owned' = <<found, "asked">>
              \/ ~ found /\ owned' = <<found, "died">>
          BY <2>12 DEF SetOwner, WrapCallThrows
        <4>2. owned'[1] = found
          BY <4>1
        <4> HIDE DEF found
        <4> QED BY <4>1, <4>2 DEF OwnerFromAnswer
      <3> QED BY <2>1, <2>2, <2>3, <3>1, <3>2
              DEF ServedOK, TokenOK, OpenedOK, StackKept
    <2> QED BY <1>2, <2>5, <2>6, <2>7, <2>8, <2>9, <2>10, <2>11, <2>12 DEF StackNext
  <1> QED BY <1>1, <1>2 DEF Next, StackNext

-----------------------------------------------------------------------------
(* What a process has been configured with, and whom its stack serves.     *)
THEOREM StackInvariance == Spec => []StackInv
  BY StackInitial, StackStep, PTL DEF Spec

(* However often a gateway is named, in whatever lists, and with whatever  *)
(* blanks, a factory lists it once.                                        *)
THEOREM GatewaysAreListedOnce == Spec => []NoGatewayTwice
  <1>1. StackInv => NoGatewayTwice
    BY DEF StackInv, ConfigInv, MembersOK, Distinct, NoGatewayTwice
  <1> QED BY <1>1, StackInvariance, PTL

(* A process all of whose plugins were given each option takes a token     *)
(* exactly from who looks like the client it was given to.                 *)
THEOREM TokensAreAccepted == Spec => []TokensAccepted
  <1>1. ASSUME StackInv, opened # "none", ~ early
        PROVE  opened = "accepted" <=> Identity("io", token.for) = Identity("io", client)
    <2>1. /\ client # Nobody /\ token # NoToken /\ AllLoaded /\ line = << >>
          /\ opened = "accepted" <=> /\ token.id = Identity("io", client)
                                     /\ token.passwd = Password("io")
      BY <1>1 DEF StackInv, OpenedOK, ServedOK
    <2>2. token.id = Identity("pooldriver", token.for) /\ token.passwd = Password("pooldriver")
      BY <1>1, <2>1 DEF StackInv, TokenOK
    <2>3. /\ Password("io") = Password("pooldriver")
          /\ factory["io"].tokenId = factory["pooldriver"].tokenId
      BY <1>1, <2>1 DEF StackInv, ConfigInv, AgreeOK
    <2> QED BY <2>1, <2>2, <2>3 DEF Identity
  <1>2. StackInv => TokensAccepted
    BY <1>1 DEF TokensAccepted
  <1> QED BY <1>2, StackInvariance, PTL

(* A token is made for a client in the map file, or for root, and for the  *)
(* one being served, whoever the stack has served before.                  *)
THEOREM ServedAreMapped == Spec => []ServedIsMapped
  <1>1. StackInv => ServedIsMapped
    BY DEF StackInv, TokenOK, Admitted, ServedIsMapped
  <1> QED BY <1>1, StackInvariance, PTL

(* No error of an earlier call decides a setOwner.                         *)
THEOREM OwnersAreAnswered == Spec => []OwnerFromAnswer
  BY StackInvariance, PTL DEF StackInv

(* The path kept leads to the connection's directory, or is not known.     *)
THEOREM CwdsLeadThere == Spec => []CwdLeadsThere
  <1>1. Init => CwdLeadsThere
    BY DEF Init, CwdLeadsThere, Resolve, At
  <1>2. ASSUME CwdLeadsThere, Next PROVE CwdLeadsThere'
    <2>1. CASE UNCHANGED dirVars
      BY <1>2, <2>1 DEF dirVars, CwdLeadsThere, Resolve
    <2>2. CASE CreateStack \/ DestroyStack \/ GetWorkingDir
      <3>1. CASE UNCHANGED dirVars
        BY <3>1, <2>1
      <3>2. CASE cwd' \in {At(workdir'), Garbage}
        BY <3>2 DEF CwdLeadsThere, Resolve, At
      <3> QED BY <2>2, <3>1, <3>2 DEF CreateStack, DestroyStack, GetWorkingDir
    <2>3. ASSUME NEW p \in Paths, ChangeDir(p) PROVE CwdLeadsThere'
      <3>1. CASE workdir' = Resolve(workdir, p) /\ cwd' = p
                 /\ from' = IF p.rooted THEN << >> ELSE workdir
        BY <3>1 DEF CwdLeadsThere, Resolve
      <3>2. CASE cwd' = KeptOnError(p) /\ UNCHANGED <<workdir, from>>
        BY <3>2, <2>1 DEF KeptOnError, dirVars
      <3> QED BY <2>3, <3>1, <3>2 DEF ChangeDir
    <2>4. UNCHANGED dirVars \/ CreateStack \/ DestroyStack \/ GetWorkingDir
          \/ \E p \in Paths : ChangeDir(p)
      <3>1. CASE ConfigNext /\ UNCHANGED stackVars
        BY <3>1 DEF stackVars
      <3>2. CASE \E c \in Clients \cup {Root} : Login(c)
        BY <3>2 DEF Login
      <3>3. CASE Logout \/ WhereToWrite \/ CreateIOHandler \/ AskSpace \/ SetAttribute
        BY <3>3 DEF Logout, WhereToWrite, CreateIOHandler, AskSpace, SetAttribute
      <3>4. CASE \E u, g \in Ids : SetOwner(u, g)
        BY <3>4 DEF SetOwner
      <3> QED BY <1>2, <3>1, <3>2, <3>3, <3>4 DEF Next
    <2> QED BY <2>1, <2>2, <2>3, <2>4
  <1>3. ASSUME CwdLeadsThere, UNCHANGED vars PROVE CwdLeadsThere'
    BY <1>3 DEF vars, stackVars, dirVars, CwdLeadsThere, Resolve
  <1> QED BY <1>1, <1>2, <1>3, PTL DEF Spec

-----------------------------------------------------------------------------
(* What the factories are made of, and the gateways they list.             *)

\* What trim() leaves of an item.
GoodName(g) == g \in Text /\ g # << >> /\ Commas(g) = {} /\ Trim(g) = g

FactoryOK(f) ==
  IF IsLoaded(f) THEN /\ DOMAIN factory[f].text = TextKeys \cap Knows(f)
                      /\ factory[f].number \in [NumberKeys \cap Knows(f) -> Nat]
                      /\ factory[f].tokenId \in {"ip", "dn", "unset"}
                      /\ \A i \in DOMAIN factory[f].gateways : GoodName(factory[f].gateways[i])
                 ELSE given[f] = {} /\ factory[f].gateways = << >>

QueueOK == /\ \A f \in Factories : InQueue(f) => IsLoaded(f)
           /\ rest \in Text /\ (line # << >> => LeftOf(line[2], rest))

\* While it is configured, a factory's gateways and the items it has still to
\* go through are those of what it has been given.
Pending(f) == IF line # << >> /\ line[1] = "HdfsGateway" /\ InQueue(f)
              THEN ItemsOf(IF f = Head(queue) THEN rest ELSE line[2]) ELSE {}
Items(V)   == UNION {ItemsOf(v) : v \in V}
ListsOK    == \A f \in Factories : Gateways(f) \cup Pending(f) = Items(given[f])

-----------------------------------------------------------------------------
LEMMA LineTyped ==
  ASSUME LinesOK, line # << >>
  PROVE  line[1] \in AllKeys /\ line[2] \in Text /\ line[2] \in Values
  BY LinesAssumption DEF LinesOK, Values, Text

LEMMA HeadLoaded ==
  ASSUME LinesOK, QueueOK, queue # << >>
  PROVE  /\ Head(queue) \in Factories /\ InQueue(Head(queue)) /\ IsLoaded(Head(queue))
         /\ line # << >>
  BY DEF LinesOK, QueueOK, InQueue

LEMMA QueueKept ==
  ASSUME LinesOK, QueueOK, ConfigNext
  PROVE  QueueOK'
  <1>1. ASSUME NEW f \in Factories, LoadPlugin(f) PROVE QueueOK'
    <2>1. line' = line /\ queue' = queue /\ rest' = rest /\ queue = << >>
      BY <1>1 DEF LoadPlugin, lineVars, LinesOK, Ready
    <2> QED BY <2>1 DEF QueueOK, InQueue
  <1>2. ASSUME NEW l \in Lines, Option(l) PROVE QueueOK'
    <2>1. line' = l /\ queue' = loaded /\ rest' = l[2] /\ loaded' = loaded /\ l[2] \in Text
      BY <1>2, LinesAssumption DEF Option, Text
    <2>2. LeftOf(l[2], rest')
      BY <2>1, LeftWhole
    <2> QED BY <2>1, <2>2 DEF QueueOK, InQueue, IsLoaded
  <1>3. CASE OptionGiven
    <2>1. line' = << >> /\ queue' = << >> /\ rest' = << >> /\ rest' \in Text
      BY <1>3 DEF OptionGiven, Text
    <2> QED BY <2>1 DEF QueueOK, InQueue
  <1>4. ASSUME NEW f \in Factories, queue # << >>, f = Head(queue), Configured PROVE QueueOK'
    <2>1. \A e : InQueue(e)' => InQueue(e)
      BY <1>4, QueueStep
    <2>2. loaded' = loaded /\ line' = line /\ rest' = line[2] /\ line # << >>
      BY <1>4, HeadLoaded DEF Configured
    <2>3. line[2] \in Text /\ LeftOf(line[2], line[2])
      BY <2>2, LineTyped, LeftWhole
    <2> QED BY <2>1, <2>2, <2>3 DEF QueueOK, IsLoaded
  <1>5. ASSUME NEW f \in Factories, AddGateway(f) PROVE QueueOK'
    <2>1. /\ UNCHANGED <<loaded, line, queue>> /\ rest # << >> /\ queue # << >>
          /\ rest' = rest \/ rest' = After(rest)
      BY <1>5 DEF AddGateway, Turn
    <2>2. line # << >> /\ line[2] \in Text
      BY <2>1, HeadLoaded, LineTyped
    <2>3. LeftOf(line[2], rest) /\ rest \in Text
      BY <2>2 DEF QueueOK
    <2>4. After(rest) \in Text /\ LeftOf(line[2], After(rest))
      BY <2>1, <2>2, <2>3, CutOf, LeftAfter
    <2>5. rest' \in Text /\ LeftOf(line[2], rest')
      BY <2>1, <2>3, <2>4
    <2> QED BY <2>1, <2>5 DEF QueueOK, InQueue, IsLoaded
  <1>6. ASSUME UNCHANGED <<loaded, lineVars>> PROVE QueueOK'
    BY <1>6 DEF QueueOK, InQueue, IsLoaded, lineVars
  <1>7. ASSUME NEW f \in Factories, NotMine(f) \/ SetText(f) \/ SetNumber(f) \/ SetTokenId(f)
                                    \/ SetFolder(f) \/ GatewaysAdded(f)
        PROVE  QueueOK'
    <2>1. queue # << >> /\ f = Head(queue) /\ (Configured \/ UNCHANGED <<loaded, lineVars>>)
      BY <1>7 DEF NotMine, SetText, SetNumber, SetTokenId, SetFolder, GatewaysAdded, Turn, Ends
    <2> QED BY <1>4, <1>6, <2>1
  <1>8. CASE StartUp
    BY <1>6, <1>8 DEF StartUp
  <1> QED BY <1>1, <1>2, <1>3, <1>5, <1>7, <1>8 DEF ConfigNext

\* How the history of the gateways given grows.
LEMMA GivenGrows ==
  ASSUME ConfigNext
  PROVE  \/ given' = given
         \/ \E l \in Lines : Option(l)
  BY DEF ConfigNext, LoadPlugin, NotMine, SetText, SetNumber, SetTokenId, SetFolder, AddGateway,
         GatewaysAdded, OptionGiven, StartUp, Configured, Ends

\* A list of one more item.
LEMMA OneMore ==
  ASSUME NEW g, IsList(g), NEW x
  PROVE  /\ Len(g) \in Nat /\ DOMAIN Append(g, x) = 1 .. Len(g) + 1 /\ DOMAIN g = 1 .. Len(g)
         /\ \A i \in DOMAIN g : Append(g, x)[i] = g[i]
         /\ Append(g, x)[Len(g) + 1] = x
  <1>1. PICK S : g \in Seq(S)
    BY DEF IsList
  <1>2. g \in Seq(S \cup {x})
    BY <1>1
  <1> QED BY <1>2

\* The item that comes next, when it is not blank, is a good name.
LEMMA NextItem ==
  ASSUME rest \in Text, Trim(Line(rest)) # << >>
  PROVE  GoodName(Trim(Line(rest)))
  <1>1. Line(rest) \in Text /\ \A k \in 1 .. Len(Line(rest)) : ~ Comma(Line(rest)[k])
    BY CutOf
  <1>2. Trim(Line(rest)) \in Text
    BY <1>1, TrimOf
  <1> QED BY <1>1, <1>2, TrimAgain DEF GoodName

LEMMA FactoriesKept ==
  ASSUME MembersOK, LinesOK, QueueOK, \A f \in Factories : FactoryOK(f), ConfigNext
  PROVE  \A f \in Factories : FactoryOK(f)'
  <1>1. ASSUME UNCHANGED <<factory, loaded>> PROVE \A f \in Factories : FactoryOK(f)'
    <2>1. \A f \in Factories : IsLoaded(f)' <=> IsLoaded(f)
      BY <1>1 DEF IsLoaded
    <2>2. \A f \in Factories : ~ IsLoaded(f) => given'[f] = given[f]
      BY GivenGrows DEF Option
    <2> QED BY <1>1, <2>1, <2>2 DEF FactoryOK
  <1>2. ASSUME NEW f \in Factories, UNCHANGED loaded, IsLoaded(f), given' = given,
               \A e \in Factories \ {f} : factory'[e] = factory[e], FactoryOK(f)'
        PROVE  \A e \in Factories : FactoryOK(e)'
    <2>1. \A e \in Factories : IsLoaded(e)' <=> IsLoaded(e)
      BY <1>2 DEF IsLoaded
    <2> QED BY <1>2, <2>1 DEF FactoryOK
  <1>3. ASSUME NEW f \in Factories, NEW r, Sets(f, r)
        PROVE  \A e \in Factories \ {f} : factory'[e] = factory[e]
    BY <1>3 DEF MembersOK, FactoriesOK, Sets
  <1>4. ASSUME NEW f \in Factories, SetText(f) \/ SetNumber(f) \/ SetTokenId(f) \/ AddGateway(f)
        PROVE  IsLoaded(f) /\ UNCHANGED <<loaded, given>> /\ (IsLoaded(f))' /\ FactoryOK(f)
               /\ line # << >> /\ f = Head(queue)
    <2>1. queue # << >> /\ f = Head(queue) /\ UNCHANGED <<loaded, given>>
      BY <1>4 DEF SetText, SetNumber, SetTokenId, AddGateway, Turn, Configured
    <2> QED BY <2>1, HeadLoaded DEF IsLoaded
  <1>5. ASSUME NEW f \in Factories, LoadPlugin(f) PROVE \A e \in Factories : FactoryOK(e)'
    <2>1. /\ Sets(f, Defaults(f)) /\ factory'[f] = Defaults(f)
          /\ given' = given /\ loaded' = Append(loaded, f)
      BY <1>5 DEF LoadPlugin, Sets, MembersOK, FactoriesOK
    <2>2. \A e \in Factories : (IsLoaded(e)' <=> IsLoaded(e) \/ e = f)
      BY <2>1 DEF IsLoaded, LinesOK
    <2>3. FactoryOK(f)'
      <3>1. /\ DOMAIN Defaults(f).text = TextKeys \cap Knows(f)
            /\ Defaults(f).tokenId \in {"ip", "dn", "unset"}
            /\ Defaults(f).gateways = << >>
        BY DEF Defaults
      <3>2. Defaults(f).number \in [NumberKeys \cap Knows(f) -> Nat]
        BY DEF Defaults, NumberKeys
      <3> QED BY <2>1, <2>2, <3>1, <3>2 DEF FactoryOK
    <2> QED BY <1>3, <2>1, <2>2, <2>3 DEF FactoryOK
  <1>6. ASSUME NEW f \in Factories, SetText(f) PROVE \A e \in Factories : FactoryOK(e)'
    <2> DEFINE t == [factory[f].text EXCEPT ![line[1]] = line[2]]
    <2>1. Sets(f, [factory[f] EXCEPT !.text = t])
      BY <1>6 DEF SetText, Sets
    <2>2. /\ factory'[f].text = t /\ factory'[f].tokenId = factory[f].tokenId
          /\ factory'[f].number = factory[f].number /\ factory'[f].gateways = factory[f].gateways
      BY <2>1, MemberRead
    <2>3. DOMAIN t = DOMAIN factory[f].text
      OBVIOUS
    <2> HIDE DEF t
    <2>4. FactoryOK(f)'
      BY <1>4, <1>6, <2>2, <2>3 DEF FactoryOK
    <2> QED BY <1>2, <1>3, <1>4, <1>6, <2>1, <2>4
  <1>7. ASSUME NEW f \in Factories, SetNumber(f) PROVE \A e \in Factories : FactoryOK(e)'
    <2> DEFINE n == [factory[f].number EXCEPT ![line[1]] = Number[line[2]]]
    <2>1. Sets(f, [factory[f] EXCEPT !.number = n])
      BY <1>7 DEF SetNumber, Sets
    <2>2. /\ factory'[f].number = n /\ factory'[f].tokenId = factory[f].tokenId
          /\ factory'[f].text = factory[f].text /\ factory'[f].gateways = factory[f].gateways
      BY <2>1, MemberRead
    <2>3. Number[line[2]] \in Nat
      BY <1>4, <1>7, LineTyped, NumberAssumption
    <2>4. factory[f].number \in [NumberKeys \cap Knows(f) -> Nat]
          => n \in [NumberKeys \cap Knows(f) -> Nat]
      BY <2>3
    <2> HIDE DEF n
    <2>5. FactoryOK(f)'
      BY <1>4, <1>7, <2>2, <2>4 DEF FactoryOK
    <2> QED BY <1>2, <1>3, <1>4, <1>7, <2>1, <2>5
  <1>8. ASSUME NEW f \in Factories, SetTokenId(f) PROVE \A e \in Factories : FactoryOK(e)'
    <2>1. Sets(f, [factory[f] EXCEPT !.tokenId = KindOf(line[2])])
      BY <1>8 DEF SetTokenId, Sets, KindOf
    <2>2. /\ factory'[f].tokenId = KindOf(line[2]) /\ factory'[f].text = factory[f].text
          /\ factory'[f].number = factory[f].number /\ factory'[f].gateways = factory[f].gateways
      BY <2>1, MemberRead
    <2>3. KindOf(line[2]) \in {"ip", "dn"}
      BY DEF KindOf
    <2>4. FactoryOK(f)'
      BY <1>4, <1>8, <2>2, <2>3 DEF FactoryOK
    <2> QED BY <1>2, <1>3, <1>4, <1>8, <2>1, <2>4
  <1>9. ASSUME NEW f \in Factories, AddGateway(f) PROVE \A e \in Factories : FactoryOK(e)'
    <2> DEFINE gs == factory[f].gateways
               x  == Trim(Line(rest))
    <2>1. CASE UNCHANGED factory
      BY <1>1, <1>4, <1>9, <2>1
    <2>2. CASE x # << >> /\ Sets(f, [factory[f] EXCEPT !.gateways = Append(gs, x)])
      <3>1. /\ factory'[f].gateways = Append(gs, x) /\ factory'[f].text = factory[f].text
            /\ factory'[f].number = factory[f].number /\ factory'[f].tokenId = factory[f].tokenId
        BY <2>2, MemberRead
      <3>2. GoodName(x)
        BY <2>2, NextItem DEF QueueOK
      <3>3. \A i \in DOMAIN gs : GoodName(gs[i])
        BY <1>4, <1>9 DEF FactoryOK
      <3>4. IsList(gs)
        BY DEF MembersOK, Shape
      <3> HIDE DEF gs, x
      <3>5. \A i \in DOMAIN Append(gs, x) : GoodName(Append(gs, x)[i])
        BY <3>2, <3>3, <3>4, OneMore
      <3>6. FactoryOK(f)'
        BY <1>4, <1>9, <3>1, <3>5 DEF FactoryOK
      <3> QED BY <1>2, <1>3, <1>4, <1>9, <2>2, <3>6
    <2> QED BY <1>9, <2>1, <2>2 DEF AddGateway, Sets
  <1> QED BY <1>1, <1>5, <1>6, <1>7, <1>8, <1>9, FactoryChanges

LEMMA GatewaysEmpty ==
  ASSUME NEW f, factory[f].gateways = << >>
  PROVE  Gateways(f) = {}
  BY DEF Gateways

LEMMA ItemsMore ==
  ASSUME NEW V, NEW v
  PROVE  Items(V \cup {v}) = Items(V) \cup ItemsOf(v)
  BY DEF Items

\* When an option has been given to a factory that lists no other gateway.
LEMMA ListsConfigured ==
  ASSUME LinesOK, ListsOK, NEW f \in Factories, queue # << >>, f = Head(queue), Configured,
         \A e \in Factories : factory'[e].gateways = factory[e].gateways, Pending(f) = {}
  PROVE  ListsOK'
  <1>1. \A e : InQueue(e)' <=> InQueue(e) /\ e # f
    BY QueueStep
  <1>2. line' = line /\ rest' = line[2] /\ given' = given
    BY DEF Configured
  <1>3. ASSUME NEW e \in Factories PROVE Gateways(e)' = Gateways(e)
    BY DEF Gateways
  <1>4. ASSUME NEW e \in Factories, e # f PROVE Pending(e)' = Pending(e)
    BY <1>1, <1>2, <1>4 DEF Pending
  <1>5. Pending(f)' = {}
    BY <1>1 DEF Pending
  <1>6. \A e \in Factories : Pending(e)' = Pending(e)
    BY <1>4, <1>5
  <1> QED BY <1>2, <1>3, <1>6 DEF ListsOK

LEMMA ListsKept ==
  ASSUME MembersOK, LinesOK, QueueOK, \A f \in Factories : FactoryOK(f), ListsOK, ConfigNext,
         proc' \in {"starting", "up"}
  PROVE  ListsOK'
  <1>1. ASSUME NEW f \in Factories, LoadPlugin(f) PROVE ListsOK'
    <2>1. /\ line = << >> /\ line' = << >> /\ given' = given /\ ~ IsLoaded(f)
          /\ factory' = [factory EXCEPT ![f] = Defaults(f)]
      BY <1>1 DEF LoadPlugin, Ready, lineVars
    <2>2. \A e \in Factories : Pending(e) = {} /\ Pending(e)' = {}
      BY <2>1 DEF Pending
    <2>3. ASSUME NEW e \in Factories PROVE Gateways(e)' = Gateways(e)
      <3>1. CASE e = f
        <4>1. factory[f].gateways = << >>
          BY <2>1 DEF FactoryOK
        <4>2. factory'[f] = Defaults(f)
          BY <2>1 DEF MembersOK, FactoriesOK
        <4>3. Defaults(f).gateways = << >>
          BY DEF Defaults
        <4> QED BY <3>1, <4>1, <4>2, <4>3 DEF Gateways
      <3>2. CASE e # f
        BY <2>1, <3>2 DEF MembersOK, FactoriesOK, Gateways
      <3> QED BY <3>1, <3>2
    <2> QED BY <2>1, <2>2, <2>3 DEF ListsOK
  <1>2. ASSUME NEW l \in Lines, Option(l) PROVE ListsOK'
    <2>1. /\ line = << >> /\ line' = l /\ queue' = loaded /\ rest' = l[2] /\ l # << >>
          /\ factory' = factory /\ loaded' = loaded
          /\ given' = [f \in Factories |-> IF l[1] = "HdfsGateway" /\ IsLoaded(f)
                                           THEN given[f] \cup {l[2]} ELSE given[f]]
      BY <1>2, LinesAssumption DEF Option, Ready
    <2>2. ASSUME NEW e \in Factories PROVE Gateways(e)' \cup Pending(e)' = Items(given'[e])
      <3>1. Pending(e) = {} /\ Gateways(e)' = Gateways(e) /\ (InQueue(e)' <=> IsLoaded(e))
        BY <2>1 DEF Pending, Gateways, InQueue, IsLoaded
      <3>2. Gateways(e) = Items(given[e])
        BY <3>1 DEF ListsOK
      <3>3. CASE l[1] = "HdfsGateway" /\ IsLoaded(e)
        <4>1. Pending(e)' = ItemsOf(l[2])
          BY <2>1, <3>1, <3>3 DEF Pending
        <4>2. given'[e] = given[e] \cup {l[2]}
          BY <2>1, <3>3
        <4> QED BY <3>1, <3>2, <4>1, <4>2, ItemsMore
      <3>4. CASE ~ (l[1] = "HdfsGateway" /\ IsLoaded(e))
        <4>1. Pending(e)' = {} /\ given'[e] = given[e]
          BY <2>1, <3>1, <3>4 DEF Pending
        <4> QED BY <3>1, <3>2, <4>1
      <3> QED BY <3>3, <3>4
    <2> QED BY <2>2 DEF ListsOK
  <1>3. CASE OptionGiven
    <2>1. line' = << >> /\ queue = << >> /\ UNCHANGED <<factory, given>>
      BY <1>3 DEF OptionGiven
    <2>2. \A e \in Factories : Pending(e) = {} /\ Pending(e)' = {} /\ Gateways(e)' = Gateways(e)
      BY <2>1 DEF Pending, InQueue, Gateways
    <2> QED BY <2>1, <2>2 DEF ListsOK
  <1>4. ASSUME NEW f \in Factories, NotMine(f) \/ SetText(f) \/ SetNumber(f) \/ SetTokenId(f)
                                    \/ SetFolder(f)
        PROVE  ListsOK'
    <2>1. queue # << >> /\ f = Head(queue) /\ line[1] # "HdfsGateway"
      BY <1>4 DEF NotMine, SetText, SetNumber, SetTokenId, SetFolder, Turn, Knows, AllKeys,
                  TextKeys, SharedText, NSText, IOText, NumberKeys, FolderKeys
    <2>2. Configured
      BY <1>4 DEF NotMine, SetText, SetNumber, SetTokenId, SetFolder, Ends
    <2>3. \A e \in Factories : factory'[e].gateways = factory[e].gateways
      <3>1. ASSUME NEW r, Sets(f, r), r.gateways = factory[f].gateways
            PROVE  \A e \in Factories : factory'[e].gateways = factory[e].gateways
        BY <3>1 DEF Sets, MembersOK, FactoriesOK
      <3>2. \A x : /\ [factory[f] EXCEPT !.text = x].gateways = factory[f].gateways
                   /\ [factory[f] EXCEPT !.number = x].gateways = factory[f].gateways
                   /\ [factory[f] EXCEPT !.tokenId = x].gateways = factory[f].gateways
        BY MembersOf DEF MembersOK, Shape, Members
      <3>3. CASE SetText(f)
        <4>1. Sets(f, [factory[f] EXCEPT !.text = [factory[f].text EXCEPT ![line[1]] = line[2]]])
          BY <3>3 DEF SetText, Sets
        <4> QED BY <3>1, <3>2, <4>1
      <3>4. CASE SetNumber(f)
        <4>1. Sets(f, [factory[f] EXCEPT !.number =
                         [factory[f].number EXCEPT ![line[1]] = Number[line[2]]]])
          BY <3>4 DEF SetNumber, Sets
        <4> QED BY <3>1, <3>2, <4>1
      <3>5. CASE SetTokenId(f)
        <4>1. Sets(f, [factory[f] EXCEPT !.tokenId = KindOf(line[2])])
          BY <3>5 DEF SetTokenId, Sets, KindOf
        <4> QED BY <3>1, <3>2, <4>1
      <3>6. CASE NotMine(f) \/ SetFolder(f)
        BY <3>6 DEF NotMine, SetFolder
      <3> QED BY <1>4, <3>3, <3>4, <3>5, <3>6
    <2>4. Pending(f) = {}
      BY <2>1 DEF Pending
    <2> QED BY <2>1, <2>2, <2>3, <2>4, ListsConfigured
  <1>5. ASSUME NEW f \in Factories, GatewaysAdded(f) PROVE ListsOK'
    <2>1. queue # << >> /\ f = Head(queue) /\ Configured /\ UNCHANGED factory /\ rest = << >>
      BY <1>5 DEF GatewaysAdded, Turn
    <2>2. Pending(f) = {}
      BY <2>1, NoItems DEF Pending
    <2> QED BY <2>1, <2>2, ListsConfigured
  <1>6. ASSUME NEW f \in Factories, AddGateway(f) PROVE ListsOK'
    <2> DEFINE gs == factory[f].gateways
               x  == Trim(Line(rest))
    <2>1. /\ UNCHANGED <<line, queue, given>> /\ queue # << >> /\ f = Head(queue)
          /\ line[1] = "HdfsGateway" /\ rest # << >>
      BY <1>6 DEF AddGateway, Turn
    <2>2. line # << >> /\ InQueue(f) /\ IsLoaded(f)
      BY <2>1, HeadLoaded
    <2>3. /\ rest' = After(rest)
          /\ \/ x \in Gateways(f) /\ UNCHANGED factory
             \/ x # << >> /\ Sets(f, [factory[f] EXCEPT !.gateways = Append(gs, x)])
      BY <1>6 DEF AddGateway, Listed, Gateways, Sets
    <2>4. x # << >>
      <3>1. \A g \in Gateways(f) : g # << >>
        BY <2>2 DEF FactoryOK, GoodName, Gateways
      <3> QED BY <2>3, <3>1
    <2>5. Gateways(f)' = Gateways(f) \cup {x}
      <3>1. CASE x \in Gateways(f) /\ UNCHANGED factory
        BY <3>1 DEF Gateways
      <3>2. CASE Sets(f, [factory[f] EXCEPT !.gateways = Append(gs, x)])
        <4>1. factory'[f].gateways = Append(gs, x)
          BY <3>2, MemberRead
        <4>2. IsList(gs)
          BY DEF MembersOK, Shape
        <4> DEFINE hs == Append(gs, x)
        <4>3. /\ Len(gs) \in Nat /\ DOMAIN hs = 1 .. Len(gs) + 1 /\ DOMAIN gs = 1 .. Len(gs)
              /\ \A i \in DOMAIN gs : hs[i] = gs[i]
              /\ hs[Len(gs) + 1] = x
          BY <4>2, OneMore
        <4>4. Gateways(f)' = {hs[i] : i \in DOMAIN hs} /\ Gateways(f) = {gs[i] : i \in DOMAIN gs}
          BY <4>1 DEF Gateways
        <4> HIDE DEF gs, hs, x
        <4> QED BY <4>3, <4>4
      <3> QED BY <2>3, <3>1, <3>2
    <2>6. Pending(f) = ItemsOf(rest) /\ Pending(f)' = ItemsOf(After(rest))
      BY <2>1, <2>2, <2>3 DEF Pending, InQueue
    <2>7. ItemsOf(rest) = ItemsOf(After(rest)) \cup {x}
      BY <2>1, <2>4, ItemsSplit DEF QueueOK
    <2>8. Gateways(f)' \cup Pending(f)' = Items(given'[f])
      BY <2>1, <2>5, <2>6, <2>7 DEF ListsOK
    <2>9. ASSUME NEW e \in Factories \ {f} PROVE Gateways(e)' \cup Pending(e)' = Items(given'[e])
      <3>1. factory'[e] = factory[e]
        BY <2>3 DEF Sets, MembersOK, FactoriesOK
      <3>2. Gateways(e)' = Gateways(e) /\ Pending(e)' = Pending(e)
        BY <2>1, <3>1 DEF Gateways, Pending, InQueue
      <3> QED BY <2>1, <3>2 DEF ListsOK
    <2> QED BY <2>8, <2>9 DEF ListsOK
  <1>7. CASE StartUp
    <2>1. UNCHANGED <<factory, lineVars, given>>
      BY <1>7 DEF StartUp
    <2> QED BY <2>1 DEF ListsOK, Pending, Gateways, InQueue, lineVars
  <1> QED BY <1>1, <1>2, <1>3, <1>4, <1>5, <1>6, <1>7 DEF ConfigNext

-----------------------------------------------------------------------------
(* What a process dies of.                                                 *)

\* While it is configured: of the option it is being given.
LEMMA DeathConfigured ==
  ASSUME LinesOK, QueueOK, ConfigNext, proc' = "dead"
  PROVE  /\ line' # << >>
         /\ \/ line'[1] = "HdfsGateway" /\ HasBlank(line'[2])
            \/ line'[1] \in FolderKeys /\ {line'[2], LibraryOf(line'[2])} \ Folders # {}
  <1>1. \E f \in Factories : SetFolder(f) \/ AddGateway(f)
    BY DEF ConfigNext, LoadPlugin, NotMine, SetText, SetNumber, SetTokenId, GatewaysAdded, Option,
           OptionGiven, StartUp, Ready, Turn, Configured
  <1>2. ASSUME NEW f \in Factories, SetFolder(f)
        PROVE  /\ line' # << >> /\ line'[1] \in FolderKeys
               /\ {line'[2], LibraryOf(line'[2])} \ Folders # {}
    <2> DEFINE wanted == IF line[1] = "JavaHome" THEN {} ELSE {line[2], LibraryOf(line[2])}
    <2>1. queue # << >> /\ proc = "starting" /\ line[1] \in FolderKeys
      BY <1>2 DEF SetFolder, Turn
    <2>2. ~ wanted \subseteq Folders /\ line' = line
      BY <1>2, <2>1 DEF SetFolder, Ends, Configured, lineVars
    <2>3. line # << >> /\ line[1] # "JavaHome"
      BY <2>1, <2>2, HeadLoaded
    <2> QED BY <2>1, <2>2, <2>3
  <1>3. ASSUME NEW f \in Factories, AddGateway(f)
        PROVE  line' # << >> /\ line'[1] = "HdfsGateway" /\ HasBlank(line'[2])
    <2>1. /\ queue # << >> /\ proc = "starting" /\ line[1] = "HdfsGateway"
          /\ rest # << >> /\ line' = line /\ Trim(Line(rest)) = << >>
      BY <1>3 DEF AddGateway, Turn
    <2>2. line # << >> /\ line[2] \in Text /\ rest \in Text /\ LeftOf(line[2], rest)
      BY <2>1, HeadLoaded, LineTyped DEF QueueOK
    <2> QED BY <2>1, <2>2, BlankFound
  <1> QED BY <1>1, <1>2, <1>3

Cause == \/ factory["pooldriver"].gateways = << >>
         \/ factory["pooldriver"].number["HdfsReplication"] = 0
         \/ owned = <<FALSE, "died">>

\* Once it is up: of a call.
LEMMA DeathServing ==
  ASSUME StackNext
  PROVE  /\ proc = "up"
         /\ proc' = proc \/ Cause'
  <1>1. proc = "up"
    BY DEF StackNext, CreateStack, DestroyStack, Login, Logout, WhereToWrite, CreateIOHandler,
           AskSpace, ChangeDir, GetWorkingDir, SetAttribute, SetOwner, Serving, Up
  <1>2. ASSUME \/ CreateStack \/ DestroyStack \/ (\E c \in Clients \cup {Root} : Login(c)) \/ Logout
               \/ CreateIOHandler \/ (\E p \in Paths : ChangeDir(p)) \/ GetWorkingDir \/ SetAttribute
        PROVE  proc' = proc
    BY <1>2 DEF CreateStack, DestroyStack, Login, Logout, CreateIOHandler, ChangeDir,
                GetWorkingDir, SetAttribute, configVars
  <1>3. ASSUME WhereToWrite PROVE proc' = proc \/ Cause'
    <2>1. CASE UNCHANGED configVars
      BY <2>1 DEF configVars
    <2>2. CASE factory["pooldriver"].gateways = << >> /\ Dies
      BY <2>2 DEF Dies, Cause
    <2> QED BY <1>3, <2>1, <2>2 DEF WhereToWrite
  <1>4. ASSUME AskSpace PROVE proc' = proc \/ Cause'
    <2>1. CASE UNCHANGED configVars
      BY <2>1 DEF configVars
    <2>2. CASE factory["pooldriver"].number["HdfsReplication"] = 0 /\ Dies
      BY <2>2 DEF Dies, Cause
    <2> QED BY <1>4, <2>1, <2>2 DEF AskSpace
  <1>5. ASSUME NEW u \in Ids, NEW g \in Ids, SetOwner(u, g) PROVE proc' = proc \/ Cause'
    <2> DEFINE found == u \in Known /\ g \in Known
    <2>1. proc' = proc \/ (found = FALSE /\ owned' = <<found, "died">>)
      BY <1>5 DEF SetOwner, configVars
    <2> HIDE DEF found
    <2> QED BY <2>1 DEF Cause
  <1> QED BY <1>1, <1>2, <1>3, <1>4, <1>5 DEF StackNext

-----------------------------------------------------------------------------
Scalars ==
  /\ proc \in {"starting", "failed", "dead", "up"} /\ count \in 0 .. MaxLines
  /\ stack \in {"none", "live"} /\ client \in Clients \cup {Root, Nobody}
  /\ errno \in {0, 1} /\ opened \in {"none", "accepted", "refused"}

ProcessInv == /\ StackInv /\ Scalars /\ QueueOK
              /\ \A f \in Factories : FactoryOK(f)
              /\ proc \in {"starting", "up"} => ListsOK
              /\ DeathHasACause

LEMMA ProcessInitial == Init => ProcessInv
  <1> SUFFICES ASSUME Init PROVE ProcessInv
    OBVIOUS
  <1>1. /\ loaded = << >> /\ line = << >> /\ queue = << >> /\ rest = << >> /\ proc = "starting"
        /\ factory = [f \in Factories |-> NotLoaded] /\ given = [f \in Factories |-> {}]
    BY DEF Init, ConfigInit
  <1>2. StackInv
    BY StackInitial
  <1>3. Scalars
    BY MaxLinesAssumption DEF Init, ConfigInit, Scalars
  <1>4. QueueOK
    BY <1>1 DEF QueueOK, InQueue, Text
  <1>5. \A f \in Factories : FactoryOK(f)
    BY <1>1 DEF FactoryOK, IsLoaded, NotLoaded
  <1>6. ListsOK
    <2>1. \A f \in Factories : factory[f].gateways = << >> /\ Pending(f) = {} /\ given[f] = {}
      BY <1>1 DEF NotLoaded, Pending
    <2>2. Items({}) = {}
      BY DEF Items
    <2> QED BY <2>1, <2>2, GatewaysEmpty DEF ListsOK
  <1>7. DeathHasACause
    BY <1>1 DEF DeathHasACause
  <1> QED BY <1>2, <1>3, <1>4, <1>5, <1>6, <1>7 DEF ProcessInv

LEMMA ScalarsStep ==
  ASSUME Scalars, [Next]_vars
  PROVE  Scalars'
  <1>1. ASSUME ConfigNext, UNCHANGED stackVars PROVE Scalars'
    <2>1. UNCHANGED <<stack, client, errno, opened>>
      BY <1>1 DEF stackVars
    <2>2. proc' \in {proc, "dead", "failed", "up"}
      BY <1>1 DEF ConfigNext, LoadPlugin, NotMine, SetText, SetNumber, SetTokenId, SetFolder,
                  AddGateway, GatewaysAdded, Option, OptionGiven, StartUp, Configured, Ends
    <2>3. count' \in 0 .. MaxLines
      <3>1. count' = count \/ (count < MaxLines /\ count' = count + 1)
        BY <1>1 DEF ConfigNext, LoadPlugin, NotMine, SetText, SetNumber, SetTokenId, SetFolder,
                    AddGateway, GatewaysAdded, Option, OptionGiven, StartUp, Configured, Ends
      <3> QED BY <3>1, MaxLinesAssumption DEF Scalars
    <2> QED BY <2>1, <2>2, <2>3 DEF Scalars
  <1>2. ASSUME StackNext PROVE Scalars'
    <2>1. StackKept
      BY <1>2, StackKeeps
    <2>2. /\ stack' \in {stack, "none", "live"} /\ client' \in {client, Nobody} \cup Clients \cup {Root}
          /\ errno' \in {errno, 1} /\ opened' \in {opened, "none", "accepted", "refused"}
      BY <1>2 DEF StackNext, CreateStack, DestroyStack, Login, Logout, WhereToWrite,
                  CreateIOHandler, AskSpace, ChangeDir, GetWorkingDir, SetAttribute, SetOwner
    <2> QED BY <2>1, <2>2 DEF StackKept, Scalars
  <1>3. CASE UNCHANGED vars
    BY <1>3 DEF vars, configVars, stackVars, Scalars
  <1> QED BY <1>1, <1>2, <1>3 DEF Next, StackNext

LEMMA DeathStep ==
  ASSUME ProcessInv, [Next]_vars
  PROVE  DeathHasACause'
  <1> SUFFICES ASSUME proc' = "dead" PROVE DeathHasACause'
    BY DEF DeathHasACause
  <1>1. CASE ConfigNext
    BY <1>1, DeathConfigured DEF ProcessInv, StackInv, ConfigInv, DeathHasACause
  <1>2. CASE StackNext
    <2>1. StackKept /\ proc = "up" /\ Cause'
      BY <1>2, StackKeeps, DeathServing
    <2>2. line = << >> /\ UNCHANGED <<factory, lineVars, given>> /\ ListsOK
      BY <2>1 DEF ProcessInv, StackInv, StackKept
    <2>3. CASE factory["pooldriver"].gateways = << >>
      <3>1. Gateways("pooldriver") = {} /\ "pooldriver" \in Factories
        BY <2>3, GatewaysEmpty DEF Factories
      <3>2. Items(given["pooldriver"]) = {}
        BY <2>2, <3>1 DEF ListsOK, Pending
      <3>3. \A v \in given'["pooldriver"] : ItemsOf(v) = {}
        BY <2>2, <3>2 DEF Items
      <3> QED BY <2>2, <3>3 DEF DeathHasACause, lineVars
    <2>4. CASE factory'["pooldriver"].number["HdfsReplication"] = 0 \/ owned' = <<FALSE, "died">>
      BY <2>2, <2>4 DEF DeathHasACause, lineVars
    <2> QED BY <2>1, <2>2, <2>3, <2>4 DEF Cause
  <1>3. CASE UNCHANGED vars
    BY <1>3 DEF ProcessInv, vars, configVars, lineVars, stackVars, DeathHasACause
  <1> QED BY <1>1, <1>2, <1>3 DEF Next, StackNext

LEMMA ProcessStep == ProcessInv /\ [Next]_vars => ProcessInv'
  <1> SUFFICES ASSUME ProcessInv, [Next]_vars PROVE ProcessInv'
    OBVIOUS
  <1>1. StackInv' /\ Scalars' /\ DeathHasACause'
    BY StackStep, ScalarsStep, DeathStep DEF ProcessInv
  <1>2. MembersOK /\ LinesOK /\ QueueOK /\ \A f \in Factories : FactoryOK(f)
    BY DEF ProcessInv, StackInv, ConfigInv
  <1>3. CASE ConfigNext
    <2>1. ListsOK
      BY <1>3, ConfigNotUp DEF ProcessInv
    <2>2. proc' \in {"starting", "up"} => ListsOK'
      BY <1>2, <1>3, <2>1, ListsKept
    <2>3. QueueOK' /\ \A f \in Factories : FactoryOK(f)'
      BY <1>2, <1>3, QueueKept, FactoriesKept
    <2> QED BY <1>1, <2>2, <2>3 DEF ProcessInv
  <1>4. CASE StackNext \/ UNCHANGED vars
    <2>1. UNCHANGED <<loaded, factory, line, queue, rest, given>> /\ proc' \in {proc, "dead"}
      BY <1>4, StackKeeps DEF StackKept, lineVars
    <2>2. QueueOK'
      BY <1>2, <2>1 DEF QueueOK, InQueue, IsLoaded
    <2>3. \A f \in Factories : FactoryOK(f)'
      BY <1>2, <2>1 DEF FactoryOK, IsLoaded
    <2>4. ListsOK => ListsOK'
      BY <2>1 DEF ListsOK, Gateways, Pending, InQueue
    <2> QED BY <1>1, <2>1, <2>2, <2>3, <2>4 DEF ProcessInv
  <1> QED BY <1>3, <1>4 DEF Next, StackNext

THEOREM ProcessInvariance == Spec => []ProcessInv
  BY ProcessInitial, ProcessStep, PTL DEF Spec

(* The members of a factory stay well formed, whatever it is given: a      *)
(* gateway is a name, with no comma in it and no blanks around it.         *)
THEOREM StackTypeCorrect == Spec => []StackTypeOK
  <1>1. ASSUME ProcessInv PROVE StackTypeOK
    <2>1. \A f \in Factories : IsLoaded(f) => \A g \in Gateways(f) : GoodName(g)
      BY <1>1 DEF ProcessInv, FactoryOK, Gateways
    <2>2. \A f \in Factories :
            IsLoaded(f) => /\ DOMAIN factory[f].text = TextKeys \cap Knows(f)
                           /\ factory[f].number \in [NumberKeys \cap Knows(f) -> Nat]
                           /\ factory[f].tokenId \in {"ip", "dn", "unset"}
      BY <1>1 DEF ProcessInv, FactoryOK
    <2>3. /\ loaded \in Seq(Factories) /\ queue \in Seq(Factories)
          /\ line \in Lines \cup {<< >>} /\ rest \in Seq(STRING)
      BY <1>1 DEF ProcessInv, StackInv, ConfigInv, LinesOK, QueueOK, Text
    <2>4. Scalars
      BY <1>1 DEF ProcessInv
    <2> QED BY <2>1, <2>2, <2>3, <2>4, Zenon DEF StackTypeOK, Scalars, GoodName
  <1> QED BY <1>1, ProcessInvariance, PTL

(* Between two options a factory lists the items of the lists it has been  *)
(* given, and nothing else: no item is lost, split or made up on the way.  *)
THEOREM GatewaysAreAsGiven == Spec => []GatewaysAsGiven
  <1>1. ASSUME ProcessInv, Ready \/ proc = "up", NEW f \in Factories
        PROVE  Gateways(f) = UNION {ItemsOf(v) : v \in given[f]}
    <2>1. line = << >> /\ ListsOK
      BY <1>1 DEF ProcessInv, StackInv, Ready
    <2>2. Pending(f) = {} /\ Gateways(f) \cup Pending(f) = Items(given[f])
      BY <2>1 DEF Pending, ListsOK
    <2> QED BY <2>2 DEF Items
  <1>2. ProcessInv => GatewaysAsGiven
    BY <1>1 DEF GatewaysAsGiven
  <1> QED BY <1>2, ProcessInvariance, PTL

(* A process that starts dies only of a list with a blank item in it or of *)
(* a folder that is not there, and one that serves only of a driver with   *)
(* no gateways, of a replication of 0 or of an id without a name.          *)
THEOREM DeathsHaveCauses == Spec => []DeathHasACause
  BY ProcessInvariance, PTL DEF ProcessInv
=============================================================================
