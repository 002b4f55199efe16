--------------------------- MODULE DashboardProofs ---------------------------
(***************************************************************************)
(* Theorems of the dashboard's topology, risk, tables and map.             *)
(*                                                                         *)
(* Topology, for any browsers, environment, stored topologies and plans:   *)
(* what is served, shown and edited has bots, each once; the server        *)
(* refuses only for fields; places survive; no bot is dropped unseen.      *)
(* Risk, for any figures: the two breaches on top are the worst, and what  *)
(* is alerted is in the report.  Tables, for any pages: sorting shows each *)
(* row once and in order.  Map, for any topologies and places: markers are *)
(* where their services are, and none hides another as long as there are   *)
(* few enough at one place.                                                *)
(***************************************************************************)
EXTENDS Topology, Risk, TableSort, GeoMap, FiniteLemmas, SequenceTheorems,
        FunctionTheorems, FiniteSetTheorems, TLAPS

-----------------------------------------------------------------------------
(* Topologies *)

\* No two bots share an id, said of the places in the list.
Uniq(t) == \A i, j \in DOMAIN t.bots : t.bots[i].id = t.bots[j].id => i = j

OneOfEach(t) == t.bots # <<>> /\ Uniq(t)

LEMMA TopologyParts ==
    ASSUME NEW t \in Topologies
    PROVE  /\ t.exchange \in Hosts /\ t.exchangePlace \in BOOLEAN
           /\ t.dashboardPlace \in BOOLEAN /\ t.bots \in Seq(Bot)
           /\ Len(t.bots) \in Nat /\ DOMAIN t.bots = 1 .. Len(t.bots)
           /\ t.bots \in [1 .. Len(t.bots) -> Bot]
           /\ \A i \in DOMAIN t.bots :
                 /\ t.bots[i] \in Bot /\ t.bots[i].id \in Nat \ {0}
                 /\ t.bots[i].name \in {"given", "blank", "empty"}
                 /\ t.bots[i].host \in Hosts /\ t.bots[i].place \in BOOLEAN
           /\ IdsOf(t) \subseteq Nat \ {0}
           /\ t.bots # <<>> <=> Len(t.bots) > 0
<1>1. /\ t.exchange \in Hosts /\ t.exchangePlace \in BOOLEAN
      /\ t.dashboardPlace \in BOOLEAN /\ t.bots \in Seq(Bot)
  BY DEF Topologies
<1>2. /\ Len(t.bots) \in Nat /\ DOMAIN t.bots = 1 .. Len(t.bots)
      /\ t.bots \in [1 .. Len(t.bots) -> Bot]
  BY <1>1, LenProperties
<1>3. t.bots # <<>> <=> Len(t.bots) > 0
  BY <1>1, <1>2, EmptySeq
<1>4. ASSUME NEW i \in DOMAIN t.bots
      PROVE  /\ t.bots[i] \in Bot /\ t.bots[i].id \in Nat \ {0}
             /\ t.bots[i].name \in {"given", "blank", "empty"}
             /\ t.bots[i].host \in Hosts /\ t.bots[i].place \in BOOLEAN
  <2>1. t.bots[i] \in Bot
    BY <1>2
  <2> QED
    BY <2>1 DEF Bot
<1> QED
  BY <1>1, <1>2, <1>3, <1>4 DEF IdsOf

\* As many ids as bots: no two are the same.
LEMMA UniqIsCounted ==
    ASSUME NEW t \in Topologies
    PROVE  Cardinality(IdsOf(t)) = Len(t.bots) <=> Uniq(t)
<1> DEFINE n == Len(t.bots)
           S == 1 .. n
           T == IdsOf(t)
           f == [i \in S |-> t.bots[i].id]
<1>1. n \in Nat /\ DOMAIN t.bots = S
  BY TopologyParts
<1>2. f \in [S -> T] /\ \A id \in T : \E i \in S : f[i] = id
  BY <1>1 DEF IdsOf
<1>3. IsFiniteSet(S) /\ Cardinality(S) = n
  <2> HIDE DEF n
  <2>1. n \in Int /\ 1 \in Int /\ (IF 1 > n THEN 0 ELSE n - 1 + 1) = n
    BY <1>1
  <2> QED
    BY <2>1, FS_Interval
<1>4. Uniq(t) <=> \A i, j \in S : f[i] = f[j] => i = j
  BY <1>1 DEF Uniq
<1> HIDE DEF n, S, T, f
<1>5. f \in Surjection(S, T)
  BY <1>2 DEF Surjection
<1>6. Cardinality(T) = Cardinality(S) <=> f \in Injection(S, T)
  BY <1>3, <1>5, FS_Surjection
<1>7. f \in Injection(S, T) <=> \A i, j \in S : f[i] = f[j] => i = j
  BY <1>2 DEF Injection, IsInjective
<1> QED
  BY <1>3, <1>4, <1>6, <1>7 DEF n, T

LEMMA AcceptableIs ==
    ASSUME NEW t \in Topologies
    PROVE  Acceptable(t) <=>
              /\ OneOfEach(t) /\ t.exchange # NoHost
              /\ \A i \in DOMAIN t.bots :
                    t.bots[i].name # "empty" /\ t.bots[i].host # NoHost
BY UniqIsCounted DEF Acceptable, OneOfEach

\* Changes that leave the ids alone.
LEMMA SameIds ==
    ASSUME NEW t \in Topologies, NEW u \in Topologies,
           DOMAIN u.bots = DOMAIN t.bots,
           \A i \in DOMAIN t.bots : u.bots[i].id = t.bots[i].id
    PROVE  IdsOf(u) = IdsOf(t) /\ (OneOfEach(u) <=> OneOfEach(t))
<1>1. Len(u.bots) = Len(t.bots)
  BY TopologyParts, LenProperties
<1> QED
  BY SMTT(20), <1>1, TopologyParts DEF IdsOf, OneOfEach, Uniq

\* A list of bots of the same length is that of a topology.
LEMMA WithBots ==
    ASSUME NEW t \in Topologies, NEW Changed \in [DOMAIN t.bots -> Bot]
    PROVE  Changed \in Seq(Bot) /\ DOMAIN Changed = DOMAIN t.bots
<1>1. DOMAIN t.bots = 1 .. Len(t.bots) /\ Len(t.bots) \in Nat
  BY TopologyParts
<1> QED
  BY <1>1, SeqDef

LEMMA UrlsAreHosts == ASSUME NEW h \in Hosts PROVE UrlsFromDomain(h) \in Hosts
BY DEF UrlsFromDomain, Hosts, Local

LEMMA FormCopyType ==
    ASSUME NEW t \in Topologies
    PROVE  /\ FormCopy(t) \in Topologies /\ IdsOf(FormCopy(t)) = IdsOf(t)
           /\ OneOfEach(FormCopy(t)) <=> OneOfEach(t)
<1> DEFINE u == FormCopy(t)
           Changed == [i \in DOMAIN t.bots |->
                          [t.bots[i] EXCEPT !.host = UrlsFromDomain(@)]]
<1>1. u = [t EXCEPT !.exchange = UrlsFromDomain(@), !.exchangePlace = FALSE,
                    !.dashboardPlace = FALSE, !.bots = Changed]
  BY DEF FormCopy, OnBots, Topologies
<1>2. ASSUME NEW i \in DOMAIN t.bots
      PROVE  Changed[i] \in Bot /\ Changed[i].id = t.bots[i].id
  <2>1. t.bots[i] \in Bot /\ UrlsFromDomain(t.bots[i].host) \in Hosts
    BY TopologyParts, UrlsAreHosts
  <2> QED
    BY <2>1 DEF Bot
<1>3. Changed \in Seq(Bot) /\ DOMAIN Changed = DOMAIN t.bots
  <2>1. Changed \in [DOMAIN t.bots -> Bot]
    BY <1>2
  <2> HIDE DEF Changed
  <2> QED
    BY <2>1, WithBots
<1>4. UrlsFromDomain(t.exchange) \in Hosts
  BY TopologyParts, UrlsAreHosts
<1>5. u \in Topologies /\ u.bots = Changed
  <2> HIDE DEF Changed, u
  <2> QED
    BY <1>1, <1>3, <1>4 DEF Topologies
<1> HIDE DEF Changed, u
<1>6. IdsOf(u) = IdsOf(t) /\ (OneOfEach(u) <=> OneOfEach(t))
  BY <1>2, <1>3, <1>5, SameIds
<1> QED
  BY <1>5, <1>6 DEF u

LEMMA ChangedBots ==
    ASSUME NEW t \in Topologies, NEW Changed,
           DOMAIN Changed = DOMAIN t.bots, Changed = [i \in DOMAIN t.bots |-> Changed[i]],
           \A i \in DOMAIN t.bots : Changed[i] \in Bot /\ Changed[i].id = t.bots[i].id
    PROVE  LET u == [t EXCEPT !.bots = Changed] IN
           /\ u \in Topologies /\ IdsOf(u) = IdsOf(t)
           /\ OneOfEach(u) <=> OneOfEach(t)
<1> DEFINE u == [t EXCEPT !.bots = Changed]
<1>1. Changed \in [DOMAIN t.bots -> Bot]
  OBVIOUS
<1>2. Changed \in Seq(Bot)
  BY <1>1, WithBots
<1>3. u \in Topologies /\ u.bots = Changed
  BY <1>2 DEF Topologies
<1> HIDE DEF u
<1>4. IdsOf(u) = IdsOf(t) /\ (OneOfEach(u) <=> OneOfEach(t))
  BY <1>3, SameIds
<1> QED
  BY <1>3, <1>4 DEF u

\* A form with the name or the domain of a bot changed.
NamedBots(t, b, name) ==
    [i \in DOMAIN t.bots |->
        IF t.bots[i].id = b THEN [t.bots[i] EXCEPT !.name = name] ELSE t.bots[i]]

LEMMA SetNameType ==
    ASSUME NEW t \in Topologies, NEW b, NEW name \in {"given", "blank", "empty"}
    PROVE  LET u == [t EXCEPT !.bots = NamedBots(t, b, name)] IN
           /\ u \in Topologies /\ IdsOf(u) = IdsOf(t)
           /\ OneOfEach(u) <=> OneOfEach(t)
<1>1. ASSUME NEW i \in DOMAIN t.bots
      PROVE  NamedBots(t, b, name)[i] \in Bot
             /\ NamedBots(t, b, name)[i].id = t.bots[i].id
  <2>1. t.bots[i] \in Bot
    BY TopologyParts
  <2> QED
    BY <2>1 DEF Bot, NamedBots
<1>2. /\ DOMAIN NamedBots(t, b, name) = DOMAIN t.bots
      /\ NamedBots(t, b, name) = [i \in DOMAIN t.bots |-> NamedBots(t, b, name)[i]]
  BY DEF NamedBots
<1> QED
  BY <1>1, <1>2, ChangedBots

HostedBots(t, b, h) ==
    [i \in DOMAIN t.bots |->
        IF t.bots[i].id = b THEN [t.bots[i] EXCEPT !.host = UrlsFromDomain(h)] ELSE t.bots[i]]

LEMMA SetHostType ==
    ASSUME NEW t \in Topologies, NEW b, NEW h \in Hosts
    PROVE  LET u == [t EXCEPT !.bots = HostedBots(t, b, h)] IN
           /\ u \in Topologies /\ IdsOf(u) = IdsOf(t)
           /\ OneOfEach(u) <=> OneOfEach(t)
<1>1. ASSUME NEW i \in DOMAIN t.bots
      PROVE  HostedBots(t, b, h)[i] \in Bot
             /\ HostedBots(t, b, h)[i].id = t.bots[i].id
  <2>1. t.bots[i] \in Bot /\ UrlsFromDomain(h) \in Hosts
    BY TopologyParts, UrlsAreHosts
  <2> QED
    BY <2>1 DEF Bot, HostedBots
<1>2. /\ DOMAIN HostedBots(t, b, h) = DOMAIN t.bots
      /\ HostedBots(t, b, h) = [i \in DOMAIN t.bots |-> HostedBots(t, b, h)[i]]
  BY DEF HostedBots
<1> QED
  BY <1>1, <1>2, ChangedBots

\* What the server makes of a body: the same bots, where they are or were.
UpdatedBots(t) ==
    [i \in DOMAIN t.bots |->
        [t.bots[i] EXCEPT !.name = "given",
                          !.place = @ \/ \E old \in Range(serving.bots) :
                                             old.id = t.bots[i].id /\ old.place]]

LEMMA UpdateType ==
    ASSUME NEW t \in Topologies, serving \in Topologies
    PROVE  LET u == UpdateRuntimeTopology(t) IN
           /\ u \in Topologies /\ IdsOf(u) = IdsOf(t)
           /\ OneOfEach(u) <=> OneOfEach(t)
           /\ Acceptable(t) => Acceptable(u)
           /\ serving.exchangePlace => u.exchangePlace
           /\ serving.dashboardPlace => u.dashboardPlace
           /\ DOMAIN u.bots = DOMAIN t.bots
           /\ \A i \in DOMAIN u.bots, j \in DOMAIN serving.bots :
                 serving.bots[j].id = u.bots[i].id /\ serving.bots[j].place =>
                     u.bots[i].place
<1> DEFINE u == UpdateRuntimeTopology(t)
<1>1. u = [t EXCEPT !.exchangePlace = @ \/ serving.exchangePlace,
                    !.dashboardPlace = @ \/ serving.dashboardPlace,
                    !.bots = UpdatedBots(t)]
  BY DEF UpdateRuntimeTopology, OnBots, UpdatedBots, Topologies
<1>2. ASSUME NEW i \in DOMAIN t.bots
      PROVE  /\ UpdatedBots(t)[i] \in Bot /\ UpdatedBots(t)[i].id = t.bots[i].id
             /\ UpdatedBots(t)[i].name = "given"
             /\ UpdatedBots(t)[i].host = t.bots[i].host
             /\ \A j \in DOMAIN serving.bots :
                   serving.bots[j].id = t.bots[i].id /\ serving.bots[j].place =>
                       UpdatedBots(t)[i].place
  <2> DEFINE found == \E old \in Range(serving.bots) :
                          old.id = t.bots[i].id /\ old.place
  <2>1. t.bots[i] \in Bot
    BY TopologyParts
  <2>2. UpdatedBots(t)[i] = [t.bots[i] EXCEPT !.name = "given", !.place = @ \/ found]
    BY DEF UpdatedBots
  <2>3. \A j \in DOMAIN serving.bots :
           serving.bots[j].id = t.bots[i].id /\ serving.bots[j].place => found
    BY DEF Range
  <2>4. found \in BOOLEAN
    OBVIOUS
  <2> HIDE DEF found
  <2> QED
    BY <2>1, <2>2, <2>3, <2>4 DEF Bot
<1>3. UpdatedBots(t) \in Seq(Bot) /\ DOMAIN UpdatedBots(t) = DOMAIN t.bots
  <2>1. UpdatedBots(t) \in [DOMAIN t.bots -> Bot]
    <3>1. UpdatedBots(t) = [i \in DOMAIN t.bots |-> UpdatedBots(t)[i]]
      BY DEF UpdatedBots
    <3> QED
      BY <1>2, <3>1
  <2> QED
    BY <2>1, WithBots
<1>4. /\ u \in Topologies /\ u.bots = UpdatedBots(t) /\ u.exchange = t.exchange
      /\ serving.exchangePlace => u.exchangePlace
      /\ serving.dashboardPlace => u.dashboardPlace
  <2> HIDE DEF u
  <2> QED
    BY <1>1, <1>3 DEF Topologies
<1> HIDE DEF u
<1>5. IdsOf(u) = IdsOf(t) /\ (OneOfEach(u) <=> OneOfEach(t))
  BY <1>2, <1>3, <1>4, SameIds
<1>6. Acceptable(t) => Acceptable(u)
  BY <1>2, <1>3, <1>4, <1>5, AcceptableIs
<1> QED
  BY <1>2, <1>3, <1>4, <1>5, <1>6 DEF u

\* The bots that are not removed: one at least, the others as they were.
LEMMA RemovedType ==
    ASSUME NEW t \in Topologies, OneOfEach(t), NEW b, Len(t.bots) > 1
    PROVE  LET u == [t EXCEPT !.bots = ElementsAt(@, {i \in DOMAIN @ : @[i].id # b})] IN
           u \in Topologies /\ OneOfEach(u) /\ IdsOf(u) = IdsOf(t) \ {b}
<1> DEFINE s == t.bots
           A == {i \in DOMAIN s : s[i].id # b}
           r == ElementsAt(s, A)
           u == [t EXCEPT !.bots = r]
<1>1. s \in Seq(Bot) /\ DOMAIN s = 1 .. Len(s) /\ Len(s) \in Nat
  BY TopologyParts
<1>2. A \in SUBSET DOMAIN s
  OBVIOUS
<1>3. /\ IsFiniteSet(A) /\ Cardinality(A) \in Nat
      /\ r \in Seq(Bot) /\ Len(r) = Cardinality(A)
      /\ \A n \in 1 .. Cardinality(A) : Nth(A, n) \in A /\ r[n] = s[Nth(A, n)]
      /\ \A m, n \in 1 .. Cardinality(A) : Nth(A, m) = Nth(A, n) => m = n
      /\ \A i \in A : \E n \in 1 .. Cardinality(A) : Nth(A, n) = i
  <2> HIDE DEF A, s
  <2> QED
    BY <1>1, <1>2, ElementsAtProperties
<1>4. DOMAIN r = 1 .. Cardinality(A)
  BY <1>3, LenProperties
<1>5. A # {}
  <2>1. 1 \in DOMAIN s /\ 2 \in DOMAIN s
    BY <1>1
  <2>2. s[1].id # s[2].id
    BY <2>1 DEF OneOfEach, Uniq
  <2> QED
    BY <2>1, <2>2
<1>6. u \in Topologies /\ u.bots = r
  <2> HIDE DEF r
  <2> QED
    BY <1>3 DEF Topologies
<1>7. \A i \in A : i \in DOMAIN t.bots /\ t.bots[i].id # b
  OBVIOUS
<1>8. \A i \in DOMAIN t.bots : t.bots[i].id # b => i \in A
  OBVIOUS
<1> HIDE DEF u, r, A
<1>9. OneOfEach(u)
  <2>1. Cardinality(A) # 0
    BY <1>3, <1>5, FS_EmptySet
  <2>2. r # <<>>
    BY <1>3, <2>1, EmptySeq
  <2>3. Uniq(u)
    <3> SUFFICES ASSUME NEW i \in DOMAIN r, NEW j \in DOMAIN r, r[i].id = r[j].id
                 PROVE  i = j
      BY <1>6 DEF Uniq
    <3>1. Nth(A, i) = Nth(A, j)
      BY <1>3, <1>4, <1>7 DEF OneOfEach, Uniq
    <3> QED
      BY <1>3, <1>4, <3>1
  <2> QED
    BY <1>6, <2>2, <2>3 DEF OneOfEach
<1>10. IdsOf(u) = IdsOf(t) \ {b}
  <2>1. ASSUME NEW n \in DOMAIN r PROVE r[n].id \in IdsOf(t) \ {b}
    BY <1>3, <1>4, <1>7, <2>1 DEF IdsOf
  <2>2. ASSUME NEW i \in DOMAIN t.bots, t.bots[i].id # b
        PROVE  \E n \in DOMAIN r : r[n].id = t.bots[i].id
    BY <1>3, <1>4, <1>8, <2>2
  <2> QED
    BY <1>6, <2>1, <2>2 DEF IdsOf
<1> QED
  BY <1>6, <1>9, <1>10 DEF u, r, A

\* The number of a bot that is added is that of no other.
LEMMA NextIsFree ==
    ASSUME NEW bots \in Seq(Bot)
    PROVE  /\ NextBotId(bots) \in Nat \ {0}
           /\ \A i \in DOMAIN bots : bots[i].id # NextBotId(bots)
<1> DEFINE n == Len(bots)
           S == n + 1 .. 2 * n + 1
           Free == {m \in S : \A i \in DOMAIN bots : bots[i].id # m}
<1>1. n \in Nat /\ DOMAIN bots = 1 .. n
  BY LenProperties
<1>2. S \subseteq Nat \ {0} /\ IsFiniteSet(S) /\ Cardinality(S) = n + 1
  <2> HIDE DEF n
  <2>1. n + 1 \in Int /\ 2 * n + 1 \in Int
        /\ (IF n + 1 > 2 * n + 1 THEN 0 ELSE (2 * n + 1) - (n + 1) + 1) = n + 1
    BY <1>1
  <2>2. IsFiniteSet(S) /\ Cardinality(S) = n + 1
    BY <2>1, FS_Interval
  <2> QED
    BY <1>1, <2>2
<1>3. Free # {}
  <2> SUFFICES ASSUME Free = {} PROVE FALSE
    OBVIOUS
  <2> DEFINE g == [m \in S |-> CHOOSE i \in DOMAIN bots : bots[i].id = m]
  <2>1. \A m \in S : \E i \in DOMAIN bots : bots[i].id = m
    OBVIOUS
  <2>2. \A m \in S : g[m] \in DOMAIN bots /\ bots[g[m]].id = m
    BY <2>1
  <2>3. g \in [S -> DOMAIN bots]
    BY <2>2
  <2>4. IsFiniteSet(DOMAIN bots) /\ Cardinality(DOMAIN bots) = n
    <3> HIDE DEF n
    <3>1. n \in Int /\ 1 \in Int /\ (IF 1 > n THEN 0 ELSE n - 1 + 1) = n
      BY <1>1
    <3>2. IsFiniteSet(1 .. n) /\ Cardinality(1 .. n) = n
      BY <3>1, FS_Interval
    <3> QED
      BY <1>1, <3>2
  <2> HIDE DEF g, S, n, Free
  <2>5. Cardinality(DOMAIN bots) < Cardinality(S)
    BY <1>1, <1>2, <2>4
  <2>6. \E x, y \in S : x # y /\ g[x] = g[y]
    BY <1>2, <2>3, <2>4, <2>5, FS_PigeonHole
  <2> QED
    BY <2>2, <2>6
<1>4. Free \in SUBSET Nat /\ IsFiniteSet(Free) /\ Cardinality(Free) \in Nat
      /\ Cardinality(Free) > 0
  <2>1. Free \in SUBSET S
    OBVIOUS
  <2> HIDE DEF Free, S
  <2>2. IsFiniteSet(Free)
    BY <1>2, <2>1, FS_Subset
  <2>3. Cardinality(Free) \in Nat /\ Cardinality(Free) # 0
    BY <1>3, <2>2, FS_CardinalityType, FS_EmptySet
  <2> QED
    BY <1>2, <2>1, <2>2, <2>3
<1> DEFINE least == Nth(Free, 1)
<1>5. least \in Free /\ Rank(Free, least) = 1
  <2> HIDE DEF Free
  <2>1. 1 \in 1 .. Cardinality(Free)
    BY <1>4
  <2> QED
    BY <1>4, <2>1, NthProperties
<1>6. \A m \in Free : m >= least
  <2> HIDE DEF Free, least
  <2> SUFFICES ASSUME NEW m \in Free, m < least PROVE FALSE
    BY <1>4, <1>5
  <2>1. Rank(Free, m) < 1 /\ Rank(Free, m) \in Nat \ {0}
    BY <1>4, <1>5, RankGrows, RankType
  <2> QED
    BY <2>1
<1>7. ASSUME NEW m \in n + 1 .. least - 1
      PROVE  \E i \in DOMAIN bots : bots[i].id = m
  <2> HIDE DEF least
  <2>1. least \in S /\ m \in S /\ ~ (m >= least)
    <3> HIDE DEF n
    <3> QED
      BY <1>1, <1>5, <1>7
  <2>2. m \notin Free
    BY <1>6, <2>1
  <2> QED
    BY <2>1, <2>2
<1>8. \E m \in S : /\ \A i \in DOMAIN bots : bots[i].id # m
                   /\ \A k \in n + 1 .. m - 1 : \E i \in DOMAIN bots : bots[i].id = k
  <2>1. least \in S /\ \A i \in DOMAIN bots : bots[i].id # least
    <3> HIDE DEF least
    <3> QED
      BY <1>5
  <2> HIDE DEF least, S, Free
  <2> QED
    BY <1>7, <2>1
<1>9. NextBotId(bots) \in S /\ \A i \in DOMAIN bots : bots[i].id # NextBotId(bots)
  BY <1>8 DEF NextBotId
<1> HIDE DEF S
<1> QED
  BY <1>2, <1>9

LEMMA AddedType ==
    ASSUME NEW t \in Topologies, OneOfEach(t), NEW h \in Hosts
    PROVE  LET u == [t EXCEPT !.bots =
                        Append(@, [id |-> NextBotId(@), name |-> "given", host |-> h,
                                   place |-> FALSE])]
           IN u \in Topologies /\ OneOfEach(u) /\ IdsOf(t) \subseteq IdsOf(u)
<1> DEFINE s == t.bots
           new == [id |-> NextBotId(s), name |-> "given", host |-> h, place |-> FALSE]
           r == Append(s, new)
           u == [t EXCEPT !.bots = r]
<1>1. s \in Seq(Bot) /\ DOMAIN s = 1 .. Len(s) /\ Len(s) \in Nat
  BY TopologyParts
<1>2. new \in Bot /\ new.id = NextBotId(s)
  BY <1>1, NextIsFree DEF Bot
<1>3. \A i \in DOMAIN s : s[i].id # new.id
  BY <1>1, <1>2, NextIsFree
<1> HIDE DEF new
<1>4. /\ r \in Seq(Bot) /\ DOMAIN r = 1 .. Len(s) + 1 /\ r[Len(s) + 1] = new
      /\ \A i \in 1 .. Len(s) : r[i] = s[i]
      /\ Len(r) = Len(s) + 1
  <2> HIDE DEF s
  <2>1. r \in Seq(Bot) /\ Len(r) = Len(s) + 1
        /\ r[Len(s) + 1] = new /\ \A i \in 1 .. Len(s) : r[i] = s[i]
    BY <1>1, <1>2, AppendProperties
  <2> QED
    BY <2>1, LenProperties
<1> HIDE DEF r
<1>5. u \in Topologies /\ u.bots = r
  BY <1>4 DEF Topologies
<1> HIDE DEF u
<1>6. OneOfEach(u)
  <2>1. r # <<>>
    BY <1>1, <1>4, EmptySeq
  <2>2. Uniq(u)
    <3> SUFFICES ASSUME NEW i \in 1 .. Len(s) + 1, NEW j \in 1 .. Len(s) + 1,
                        r[i].id = r[j].id
                 PROVE  i = j
      BY <1>4, <1>5 DEF Uniq
    <3>1. CASE i \in 1 .. Len(s) /\ j \in 1 .. Len(s)
      BY <1>1, <1>4, <3>1 DEF OneOfEach, Uniq
    <3>2. CASE i = Len(s) + 1 /\ j = Len(s) + 1
      BY <3>2
    <3>3. CASE i = Len(s) + 1 /\ j \in 1 .. Len(s)
      BY <1>1, <1>3, <1>4, <3>3
    <3>4. CASE i \in 1 .. Len(s) /\ j = Len(s) + 1
      BY <1>1, <1>3, <1>4, <3>4
    <3> HIDE DEF s
    <3> QED
      BY <1>1, <3>1, <3>2, <3>3, <3>4
  <2> QED
    BY <1>5, <2>1, <2>2 DEF OneOfEach
<1>7. IdsOf(t) \subseteq IdsOf(u)
  BY <1>1, <1>4, <1>5 DEF IdsOf
<1> QED
  BY <1>5, <1>6, <1>7 DEF u, r, new

-----------------------------------------------------------------------------
(* What is served, shown, edited and posted *)

Shown == {t \in Topologies : Acceptable(t)}
Drafts == {t \in Topologies : OneOfEach(t)}

Fetches ==
    {f \in [status : {"none", "sent", "answered"}, answer : Shown \cup {None}] :
        f.status = "answered" => f.answer # None}

\* A form lists every bot of the topology it was made from that was not removed.
Pages ==
    {p \in [open : BOOLEAN, cache : Shown \cup {None}, draft : Drafts \cup {None},
            selected : Nat \cup {None}, removed : SUBSET Nat, fetch : Fetches] :
        /\ p.open /\ p.cache # None => p.draft # None
        /\ p.draft # None =>
              p.open /\ p.cache # None
              /\ IdsOf(p.cache) \ p.removed \subseteq IdsOf(p.draft)}

\* A post brings every bot its dashboard had seen and not removed.
Requests ==
    {q \in [by : Browsers, body : Drafts, status : {"sent", "served", "refused", "done"},
            answer : Shown \cup {None}, mount : {"open", "left", "reloaded"},
            seen : SUBSET Nat, dropped : SUBSET Nat] :
        /\ q.status = "served" => q.answer # None
        /\ q.status = "refused" => ~Acceptable(q.body)
        /\ q.seen \ q.dropped \subseteq IdsOf(q.body)}

Budgets == [edits : Nat, mounts : Nat, leaves : Nat, tabs : Nat, faults : Nat,
            restarts : Nat]

TopologyInv ==
    /\ serving \in Shown
    /\ saved \in [Browsers -> Topologies \cup {None}]
    /\ page \in [Browsers -> Pages]
    /\ posts \in Seq(Requests)
    /\ budget \in Budgets

TopologySpec == TopologyInit /\ [][TopologyNext]_topologyVars

LEMMA ShownIs ==
    /\ Shown \subseteq Drafts /\ Drafts \subseteq Topologies
    /\ None \notin Topologies /\ None \notin Nat
    /\ \A t \in Shown : Acceptable(t)
    /\ \A t \in Topologies : Acceptable(t) => t \in Shown
    /\ Start \in Shown
<1>1. Shown \subseteq Drafts
  <2> SUFFICES ASSUME NEW t \in Topologies, Acceptable(t) PROVE OneOfEach(t)
    BY DEF Shown, Drafts
  <2> QED
    BY AcceptableIs
<1> QED
  BY <1>1, TopologyAssumption DEF Shown, Drafts

LEMMA ShownIds == ASSUME NEW t \in Drafts PROVE t \in Topologies /\ IdsOf(t) \subseteq Nat
BY ShownIs, TopologyParts

LEMMA FormOfShown ==
    ASSUME NEW t \in Shown
    PROVE  FormCopy(t) \in Drafts /\ IdsOf(FormCopy(t)) = IdsOf(t)
BY ShownIs, FormCopyType DEF Drafts

LEMMA FetchesAre ==
    /\ NoFetch \in Fetches /\ SentFetch \in Fetches
    /\ \A t \in Shown : [status |-> "answered", answer |-> t] \in Fetches
    /\ \A f \in Fetches : f.status = "answered" => f.answer \in Shown
BY ShownIs DEF NoFetch, SentFetch, Fetches, Shown

\* A page by its parts.
PageParts(p) ==
    /\ p.open \in BOOLEAN /\ p.cache \in Shown \cup {None}
    /\ p.draft \in Drafts \cup {None} /\ p.selected \in Nat \cup {None}
    /\ p.removed \in SUBSET Nat /\ p.fetch \in Fetches

LEMMA PagesAre ==
    \A p \in Pages :
        /\ PageParts(p)
        /\ p.open /\ p.cache # None => p.draft # None
        /\ p.draft # None => p.open /\ p.cache # None
        /\ p.draft # None => IdsOf(p.cache) \ p.removed \subseteq IdsOf(p.draft)
BY DEF Pages, PageParts

\* A page as it is, with another value of a part.
LEMMA PageChanges ==
    ASSUME NEW p \in Pages
    PROVE  /\ \A f \in Fetches : [p EXCEPT !.fetch = f] \in Pages
           /\ \A b \in Nat \cup {None} : [p EXCEPT !.selected = b] \in Pages
           /\ \A t \in Shown : ~p.open => [p EXCEPT !.cache = t] \in Pages
           /\ \A t \in Drafts : p.draft # None /\ IdsOf(p.draft) \subseteq IdsOf(t) =>
                 [p EXCEPT !.draft = t] \in Pages
           /\ [p EXCEPT !.open = FALSE, !.draft = None, !.selected = None,
                        !.removed = {}] \in Pages
<1>1. ASSUME NEW f \in Fetches PROVE [p EXCEPT !.fetch = f] \in Pages
  BY DEF Pages
<1>2. ASSUME NEW b \in Nat \cup {None} PROVE [p EXCEPT !.selected = b] \in Pages
  BY DEF Pages
<1>3. ASSUME NEW t \in Shown, ~p.open PROVE [p EXCEPT !.cache = t] \in Pages
  BY <1>3 DEF Pages
<1>4. ASSUME NEW t \in Drafts, p.draft # None, IdsOf(p.draft) \subseteq IdsOf(t)
      PROVE  [p EXCEPT !.draft = t] \in Pages
  <2>1. t # None
    BY ShownIs
  <2> QED
    BY <1>4, <2>1 DEF Pages
<1>5. [p EXCEPT !.open = FALSE, !.draft = None, !.selected = None, !.removed = {}]
      \in Pages
  BY DEF Pages
<1> QED
  BY <1>1, <1>2, <1>3, <1>4, <1>5

LEMMA WithCacheType ==
    ASSUME NEW p \in Pages, NEW t \in Shown
    PROVE  WithCache(p, t) \in Pages
<1>1. CASE p.cache = t
  BY <1>1 DEF WithCache
<1>2. CASE p.cache # t /\ ~p.open
  BY <1>2, PageChanges DEF WithCache
<1>3. CASE p.cache # t /\ p.open
  <2> DEFINE f == FormCopy(t)
  <2>1. f \in Drafts /\ IdsOf(f) = IdsOf(t) /\ f # None /\ t # None
    BY FormOfShown, ShownIs
  <2>2. WithCache(p, t) = [p EXCEPT !.cache = t, !.draft = f, !.removed = {}]
    BY <1>3 DEF WithCache
  <2> HIDE DEF f
  <2> QED
    BY <1>3, <2>1, <2>2 DEF Pages
<1> QED
  BY <1>1, <1>2, <1>3

LEMMA PageGoes ==
    ASSUME page \in [Browsers -> Pages], NEW d \in Browsers, NEW p \in Pages,
           page' = [page EXCEPT ![d] = p]
    PROVE  page' \in [Browsers -> Pages]
OBVIOUS

\* The requests of a dashboard that is left.
LEMMA AbandonedType ==
    ASSUME posts \in Seq(Requests), NEW d, NEW mount \in {"left", "reloaded"}
    PROVE  /\ Abandoned(d, mount) \in Seq(Requests)
           /\ DOMAIN Abandoned(d, mount) = DOMAIN posts
           /\ \A i \in DOMAIN posts :
                 Abandoned(d, mount)[i].status = posts[i].status
<1>1. DOMAIN posts = 1 .. Len(posts) /\ Len(posts) \in Nat
      /\ \A i \in DOMAIN posts : posts[i] \in Requests
  BY LenProperties, ElementOfSeq
<1>2. ASSUME NEW i \in DOMAIN posts
      PROVE  /\ Abandoned(d, mount)[i] \in Requests
             /\ Abandoned(d, mount)[i].status = posts[i].status
  <2>1. [posts[i] EXCEPT !.mount = mount] \in Requests
        /\ [posts[i] EXCEPT !.mount = mount].status = posts[i].status
    BY <1>1 DEF Requests
  <2> QED
    BY <1>1, <2>1 DEF Abandoned
<1>3. DOMAIN Abandoned(d, mount) = 1 .. Len(posts)
  BY <1>1 DEF Abandoned
<1>4. Abandoned(d, mount) \in [1 .. Len(posts) -> Requests]
  <2>1. Abandoned(d, mount) = [i \in 1 .. Len(posts) |-> Abandoned(d, mount)[i]]
    BY <1>1 DEF Abandoned
  <2> QED
    BY <1>1, <1>2, <2>1
<1> QED
  BY <1>1, <1>2, <1>3, <1>4, SeqDef

LEMMA PostType ==
    ASSUME NEW d \in Browsers, NEW t \in Drafts, NEW seen \in SUBSET Nat,
           NEW dropped \in SUBSET Nat, seen \ dropped \subseteq IdsOf(t)
    PROVE  Post(d, t, seen, dropped) \in Requests
BY DEF Post, Requests

\* What a step spends.
LEMMA SpendType ==
    ASSUME budget \in Budgets, NEW what \in {"edits", "mounts", "leaves", "tabs",
                                             "faults", "restarts"},
           Spend(what)
    PROVE  /\ budget' \in Budgets
           /\ what = "restarts" => budget'.restarts # budget.restarts
BY DEF Spend, Budgets

-----------------------------------------------------------------------------
(* Every step keeps them *)

LEMMA PostsAre ==
    ASSUME posts \in Seq(Requests)
    PROVE  /\ DOMAIN posts = 1 .. Len(posts) /\ Len(posts) \in Nat
           /\ \A i \in DOMAIN posts :
                 /\ posts[i] \in Requests /\ posts[i].by \in Browsers
                 /\ posts[i].body \in Drafts
                 /\ posts[i].seen \ posts[i].dropped \subseteq IdsOf(posts[i].body)
                 /\ posts[i].status = "served" => posts[i].answer \in Shown
                 /\ posts[i].status = "refused" => ~Acceptable(posts[i].body)
<1>1. DOMAIN posts = 1 .. Len(posts) /\ Len(posts) \in Nat
      /\ \A i \in DOMAIN posts : posts[i] \in Requests
  BY LenProperties, ElementOfSeq
<1>2. \A q \in Requests :
         /\ q.by \in Browsers /\ q.body \in Drafts
         /\ q.seen \ q.dropped \subseteq IdsOf(q.body)
         /\ q.status = "served" => q.answer \in Shown
         /\ q.status = "refused" => ~Acceptable(q.body)
  BY DEF Requests
<1> QED
  BY <1>1, <1>2

LEMMA PostChanges ==
    ASSUME posts \in Seq(Requests), NEW i \in DOMAIN posts, NEW q \in Requests,
           posts' = [posts EXCEPT ![i] = q]
    PROVE  posts' \in Seq(Requests)
BY ExceptSeq

LEMMA MountKeeps ==
    ASSUME TopologyInv, NEW d \in Browsers, NEW reload \in BOOLEAN, Mount(d, reload)
    PROVE  TopologyInv'
<1> DEFINE p == page[d]
           t == LoadTopologyFromStorage(d)
           before == Abandoned(d, IF reload THEN "reloaded" ELSE "left")
           cache == IF reload THEN None ELSE p.cache
           draft == IF reload \/ p.cache = None THEN None ELSE FormCopy(p.cache)
           fetch == IF reload \/ p.fetch = NoFetch THEN SentFetch ELSE p.fetch
           new == [Closed EXCEPT !.open = TRUE, !.cache = cache, !.draft = draft,
                                 !.fetch = fetch]
<1>1. p \in Pages /\ PageParts(p)
  BY PagesAre DEF TopologyInv
<1>2. new \in Pages
  <2>1. fetch \in Fetches
    BY <1>1, FetchesAre DEF PageParts
  <2>2. CASE cache = None
    <3>1. draft = None
      BY <2>2
    <3> HIDE DEF cache, draft, fetch
    <3> QED
      BY <2>1, <2>2, <3>1, FetchesAre DEF Closed, Pages
  <2>3. CASE cache # None
    <3>1. cache \in Shown /\ draft = FormCopy(cache)
      BY <1>1, <2>3 DEF PageParts
    <3>2. draft \in Drafts /\ IdsOf(draft) = IdsOf(cache) /\ draft # None
      <4> HIDE DEF cache, draft
      <4> QED
        BY <3>1, FormOfShown, ShownIs
    <3> HIDE DEF cache, draft, fetch
    <3> QED
      BY <2>1, <2>3, <3>1, <3>2 DEF Closed, Pages
  <2> QED
    BY <2>2, <2>3
<1>3. page' = [page EXCEPT ![d] = new]
  BY DEF Mount
<1>4. page' \in [Browsers -> Pages]
  <2> HIDE DEF new
  <2> QED
    BY <1>2, <1>3, PageGoes DEF TopologyInv
<1>5. before \in Seq(Requests)
  BY AbandonedType DEF TopologyInv
<1>6. t # None => t \in Shown
  BY ShownIs DEF LoadTopologyFromStorage, TopologyInv
<1>7. posts' \in Seq(Requests)
  <2>1. CASE t = None
    BY <1>5, <2>1 DEF Mount
  <2>2. CASE t # None
    <3>1. posts' = Append(before, Post(d, t, IdsOf(t), {}))
      BY <2>2 DEF Mount
    <3> HIDE DEF t, before
    <3>2. t \in Drafts /\ IdsOf(t) \in SUBSET Nat
      BY <1>6, <2>2, ShownIs, ShownIds
    <3>3. Post(d, t, IdsOf(t), {}) \in Requests
      BY <3>2, PostType
    <3> QED
      BY <1>5, <3>1, <3>3, AppendProperties
  <2> QED
    BY <2>1, <2>2
<1>8. budget' \in Budgets /\ UNCHANGED <<serving, saved>>
  <2>1. Spend("mounts") /\ UNCHANGED <<serving, saved>>
    BY DEF Mount
  <2> QED
    BY <2>1, SpendType DEF TopologyInv
<1> QED
  BY <1>4, <1>7, <1>8 DEF TopologyInv

LEMMA LeaveKeeps ==
    ASSUME TopologyInv, NEW d \in Browsers, Leave(d)
    PROVE  TopologyInv'
<1> DEFINE new == [page[d] EXCEPT !.open = FALSE, !.draft = None, !.selected = None,
                                  !.removed = {}]
<1>1. page[d] \in Pages
  BY DEF TopologyInv
<1>2. new \in Pages
  BY <1>1, PageChanges
<1>3. page' = [page EXCEPT ![d] = new]
  BY DEF Leave, TopologyInv
<1>4. page' \in [Browsers -> Pages]
  <2> HIDE DEF new
  <2> QED
    BY <1>2, <1>3, PageGoes DEF TopologyInv
<1>5. posts' \in Seq(Requests)
  BY AbandonedType DEF TopologyInv, Leave
<1>6. budget' \in Budgets
  BY SpendType DEF TopologyInv, Leave
<1> QED
  BY <1>4, <1>5, <1>6 DEF TopologyInv, Leave

LEMMA FetchKeeps ==
    ASSUME TopologyInv, NEW d \in Browsers,
           Refetch(d) \/ ServeFetch(d) \/ EndFetch(d) \/ FailFetch(d)
    PROVE  TopologyInv'
<1>1. page[d] \in Pages /\ PageParts(page[d])
  BY PagesAre DEF TopologyInv
<1>2. CASE Refetch(d) \/ FailFetch(d)
  <2>1. PICK f \in {SentFetch, NoFetch} : page' = [page EXCEPT ![d].fetch = f]
    BY <1>2 DEF Refetch, FailFetch
  <2> DEFINE new == [page[d] EXCEPT !.fetch = f]
  <2>2. new \in Pages
    BY <1>1, PageChanges, FetchesAre
  <2>3. page' = [page EXCEPT ![d] = new]
    BY <2>1 DEF TopologyInv
  <2>4. page' \in [Browsers -> Pages]
    <3> HIDE DEF new
    <3> QED
      BY <2>2, <2>3, PageGoes DEF TopologyInv
  <2>5. (Spend("mounts") \/ Spend("faults")) /\ UNCHANGED <<serving, saved, posts>>
    BY <1>2 DEF Refetch, FailFetch
  <2>6. budget' \in Budgets
    BY <2>5, SpendType DEF TopologyInv
  <2> QED
    BY <2>4, <2>5, <2>6 DEF TopologyInv
<1>3. CASE ServeFetch(d)
  <2> DEFINE f == [status |-> "answered", answer |-> serving]
             new == [page[d] EXCEPT !.fetch = f]
  <2>1. f \in Fetches
    BY FetchesAre DEF TopologyInv
  <2> HIDE DEF f
  <2>2. new \in Pages
    BY <1>1, <2>1, PageChanges
  <2>3. page' = [page EXCEPT ![d] = new]
    BY <1>3 DEF TopologyInv, ServeFetch, f
  <2>4. page' \in [Browsers -> Pages]
    <3> HIDE DEF new
    <3> QED
      BY <2>2, <2>3, PageGoes DEF TopologyInv
  <2> QED
    BY <1>3, <2>4 DEF TopologyInv, ServeFetch
<1>4. CASE EndFetch(d)
  <2> DEFINE q == [page[d] EXCEPT !.fetch = NoFetch]
             new == WithCache(q, page[d].fetch.answer)
  <2>1. page[d].fetch.answer \in Shown
    BY <1>1, <1>4, FetchesAre DEF EndFetch, PageParts
  <2>2. q \in Pages
    BY <1>1, PageChanges, FetchesAre
  <2>3. page' = [page EXCEPT ![d] = new]
    BY <1>4 DEF TopologyInv, EndFetch
  <2>4. new \in Pages
    <3> HIDE DEF q
    <3> QED
      BY <2>1, <2>2, WithCacheType
  <2>5. page' \in [Browsers -> Pages]
    <3> HIDE DEF new
    <3> QED
      BY <2>3, <2>4, PageGoes DEF TopologyInv
  <2> QED
    BY <1>4, <2>5 DEF TopologyInv, EndFetch
<1> QED
  BY <1>2, <1>3, <1>4

\* A form is changed to one that lists the same bots or more.
LEMMA EditKeeps ==
    ASSUME TopologyInv, NEW d \in Browsers, NEW t, Edit(d, t), t \in Drafts,
           IdsOf(page[d].draft) \subseteq IdsOf(t)
    PROVE  TopologyInv'
<1> DEFINE new == [page[d] EXCEPT !.draft = t]
<1>1. new \in Pages
  BY PageChanges DEF TopologyInv, Edit
<1>2. page' = [page EXCEPT ![d] = new]
  BY DEF TopologyInv, Edit
<1>3. page' \in [Browsers -> Pages]
  <2> HIDE DEF new
  <2> QED
    BY <1>1, <1>2, PageGoes DEF TopologyInv
<1>4. budget' \in Budgets
  BY SpendType DEF TopologyInv, Edit
<1> QED
  BY <1>3, <1>4 DEF TopologyInv, Edit

LEMMA DraftIs ==
    ASSUME TopologyInv, NEW d \in Browsers, page[d].draft # None
    PROVE  /\ page[d].draft \in Drafts /\ page[d].draft \in Topologies
           /\ OneOfEach(page[d].draft)
           /\ page[d].cache \in Shown
           /\ IdsOf(page[d].cache) \ page[d].removed \subseteq IdsOf(page[d].draft)
           /\ page[d].removed \in SUBSET Nat /\ page[d] \in Pages
BY PagesAre DEF TopologyInv, PageParts, Drafts

LEMMA RemoveBotKeeps ==
    ASSUME TopologyInv, NEW d \in Browsers, NEW b, RemoveBot(d, b)
    PROVE  TopologyInv'
<1> DEFINE p == page[d]
           t == p.draft
           u == [t EXCEPT !.bots = ElementsAt(@, {i \in DOMAIN @ : @[i].id # b})]
           new == [p EXCEPT !.draft = u, !.removed = @ \cup {b}]
<1>1. /\ t \in Topologies /\ OneOfEach(t) /\ Len(t.bots) > 1 /\ b \in IdsOf(t)
      /\ p \in Pages /\ p.cache \in Shown /\ p.removed \in SUBSET Nat /\ t # None
      /\ IdsOf(p.cache) \ p.removed \subseteq IdsOf(t)
  BY DraftIs DEF RemoveBot
<1>2. u \in Topologies /\ OneOfEach(u) /\ IdsOf(u) = IdsOf(t) \ {b}
  <2> HIDE DEF t
  <2> QED
    BY <1>1, RemovedType
<1>3. b \in Nat
  BY <1>1, TopologyParts
<1>4. page' = [page EXCEPT ![d] = new]
  BY DEF RemoveBot, TopologyInv
<1>5. new \in Pages
  <2>1. u \in Drafts /\ u # None
    <3> HIDE DEF u
    <3> QED
      BY <1>2, ShownIs DEF Drafts
  <2>2. p.removed \cup {b} \in SUBSET Nat
    BY <1>1, <1>3
  <2>3. IdsOf(p.cache) \ (p.removed \cup {b}) \subseteq IdsOf(u)
    <3> HIDE DEF u, p
    <3> QED
      BY <1>1, <1>2
  <2>4. p.open /\ p.cache # None
    BY <1>1, PagesAre
  <2> HIDE DEF u, p
  <2> QED
    BY <1>1, <2>1, <2>2, <2>3, <2>4 DEF Pages
<1>6. page' \in [Browsers -> Pages]
  <2> HIDE DEF new
  <2> QED
    BY <1>4, <1>5, PageGoes DEF TopologyInv
<1>7. budget' \in Budgets /\ UNCHANGED <<serving, saved, posts>>
  BY SpendType DEF TopologyInv, RemoveBot
<1> QED
  BY <1>6, <1>7 DEF TopologyInv

LEMMA EditFormKeeps ==
    ASSUME TopologyInv, NEW d \in Browsers, EditForm(d)
    PROVE  TopologyInv'
<1> DEFINE t == page[d].draft
<1>1. t # None
  BY DEF EditForm, SetExchangeDomain, AddBot, Edit
<1>2. t \in Topologies /\ OneOfEach(t)
  BY <1>1, DraftIs
<1>3. ASSUME NEW h \in Hosts, SetExchangeDomain(d, h)
      PROVE  TopologyInv'
  <2> DEFINE u == [t EXCEPT !.exchange = UrlsFromDomain(h)]
  <2>1. u \in Topologies /\ u.bots = t.bots
    BY <1>2, UrlsAreHosts DEF Topologies
  <2>2. u \in Drafts /\ IdsOf(u) = IdsOf(t)
    <3> HIDE DEF u, t
    <3> QED
      BY <1>2, <2>1 DEF Drafts, OneOfEach, Uniq, IdsOf
  <2>3. Edit(d, u)
    BY <1>3 DEF SetExchangeDomain
  <2> HIDE DEF u
  <2> QED
    BY <2>2, <2>3, EditKeeps
<1>4. CASE AddBot(d)
  <2>1. PICK h \in Remote :
           Edit(d, [page[d].draft EXCEPT !.bots =
              Append(@, [id |-> NextBotId(@), name |-> "given", host |-> h,
                         place |-> FALSE])])
    BY <1>4 DEF AddBot
  <2> DEFINE u == [t EXCEPT !.bots =
                      Append(@, [id |-> NextBotId(@), name |-> "given", host |-> h,
                                 place |-> FALSE])]
  <2>2. u \in Topologies /\ OneOfEach(u) /\ IdsOf(t) \subseteq IdsOf(u)
    <3>1. h \in Hosts
      BY DEF Hosts
    <3> HIDE DEF t
    <3> QED
      BY <1>2, <3>1, AddedType
  <2>3. Edit(d, u)
    BY <2>1
  <2> HIDE DEF u
  <2>4. u \in Drafts
    BY <2>2 DEF Drafts
  <2> QED
    BY <2>2, <2>3, <2>4, EditKeeps
<1>5. ASSUME NEW b, NEW name \in {"given", "blank", "empty"}, SetBotName(d, b, name)
      PROVE  TopologyInv'
  <2> DEFINE u == [t EXCEPT !.bots = NamedBots(t, b, name)]
  <2>1. u \in Topologies /\ IdsOf(u) = IdsOf(t) /\ (OneOfEach(u) <=> OneOfEach(t))
    <3> HIDE DEF t
    <3> QED
      BY <1>2, SetNameType
  <2>2. Edit(d, u)
    BY <1>5 DEF SetBotName, OnBots, NamedBots
  <2> HIDE DEF u
  <2>3. u \in Drafts
    BY <1>2, <2>1 DEF Drafts
  <2> QED
    BY <2>1, <2>2, <2>3, EditKeeps
<1>6. ASSUME NEW b, NEW h \in Hosts, SetBotDomain(d, b, h)
      PROVE  TopologyInv'
  <2> DEFINE u == [t EXCEPT !.bots = HostedBots(t, b, h)]
  <2>1. u \in Topologies /\ IdsOf(u) = IdsOf(t) /\ (OneOfEach(u) <=> OneOfEach(t))
    <3> HIDE DEF t
    <3> QED
      BY <1>2, SetHostType
  <2>2. Edit(d, u)
    BY <1>6 DEF SetBotDomain, OnBots, HostedBots
  <2> HIDE DEF u
  <2>3. u \in Drafts
    BY <1>2, <2>1 DEF Drafts
  <2> QED
    BY <2>1, <2>2, <2>3, EditKeeps
<1> QED
  BY <1>3, <1>4, <1>5, <1>6, RemoveBotKeeps DEF EditForm

LEMMA SaveKeeps ==
    ASSUME TopologyInv, NEW d \in Browsers, SaveTopology(d)
    PROVE  TopologyInv'
<1> DEFINE new == Post(d, page[d].draft, IdsOf(page[d].cache), page[d].removed)
<1>1. page[d].draft # None
  BY DEF SaveTopology
<1>2. IdsOf(page[d].cache) \in SUBSET Nat
  BY <1>1, DraftIs, ShownIs, ShownIds
<1>3. new \in Requests
  BY <1>1, <1>2, DraftIs, PostType
<1>4. posts' = Append(posts, new)
  BY DEF SaveTopology
<1>5. posts' \in Seq(Requests)
  <2> HIDE DEF new
  <2> QED
    BY <1>3, <1>4, AppendProperties DEF TopologyInv
<1> QED
  BY <1>5 DEF TopologyInv, SaveTopology

LEMMA SelectKeeps ==
    ASSUME TopologyInv, NEW d \in Browsers, NEW b, SelectBotTab(d, b)
    PROVE  TopologyInv'
<1> DEFINE new == [page[d] EXCEPT !.selected = b]
<1>1. page[d] \in Pages /\ page[d].cache \in Shown
  BY PagesAre DEF TopologyInv, SelectBotTab, PageParts
<1>2. b \in Nat
  BY <1>1, ShownIs, ShownIds DEF SelectBotTab
<1>3. new \in Pages
  BY <1>1, <1>2, PageChanges
<1>4. page' = [page EXCEPT ![d] = new]
  BY DEF SelectBotTab, TopologyInv
<1>5. page' \in [Browsers -> Pages]
  <2> HIDE DEF new
  <2> QED
    BY <1>3, <1>4, PageGoes DEF TopologyInv
<1>6. budget' \in Budgets /\ UNCHANGED <<serving, saved, posts>>
  BY SpendType DEF TopologyInv, SelectBotTab
<1> QED
  BY <1>5, <1>6 DEF TopologyInv

LEMMA ServeKeeps ==
    ASSUME TopologyInv, NEW i \in DOMAIN posts, ServePost(i)
    PROVE  TopologyInv'
<1> DEFINE body == posts[i].body
           t == UpdateRuntimeTopology(body)
<1>1. posts \in Seq(Requests) /\ posts[i] \in Requests /\ body \in Drafts
  BY PostsAre DEF TopologyInv
<1>2. CASE Acceptable(body)
  <2>1. t \in Shown
    BY <1>1, <1>2, ShownIs, UpdateType DEF TopologyInv
  <2> DEFINE q == [posts[i] EXCEPT !.status = "served", !.answer = t]
  <2>2. serving' = t /\ posts' = [posts EXCEPT ![i] = q]
    BY <1>1, <1>2 DEF ServePost
  <2> HIDE DEF t
  <2>3. q \in Requests
    BY <1>1, <2>1, ShownIs DEF Requests
  <2> HIDE DEF q
  <2>4. posts' \in Seq(Requests)
    BY <1>1, <2>2, <2>3, PostChanges
  <2> QED
    BY <2>1, <2>2, <2>4 DEF TopologyInv, ServePost
<1>3. CASE ~Acceptable(body)
  <2> DEFINE q == [posts[i] EXCEPT !.status = "refused"]
  <2>1. UNCHANGED serving /\ posts' = [posts EXCEPT ![i] = q]
    BY <1>1, <1>3 DEF ServePost
  <2>2. q \in Requests
    BY <1>1, <1>3 DEF Requests
  <2> HIDE DEF q
  <2>3. posts' \in Seq(Requests)
    BY <1>1, <2>1, <2>2, PostChanges
  <2> QED
    BY <2>1, <2>3 DEF TopologyInv, ServePost
<1> QED
  BY <1>2, <1>3

LEMMA DonePost ==
    ASSUME posts \in Seq(Requests), NEW i \in DOMAIN posts,
           posts' = [posts EXCEPT ![i].status = "done", ![i].answer = None]
    PROVE  posts' \in Seq(Requests)
<1> DEFINE q == [posts[i] EXCEPT !.status = "done", !.answer = None]
<1>1. posts[i] \in Requests
  BY PostsAre
<1>2. posts' = [posts EXCEPT ![i] = q]
  BY <1>1
<1>3. q \in Requests
  BY <1>1 DEF Requests
<1> HIDE DEF q
<1> QED
  BY <1>2, <1>3, PostChanges

LEMMA SelectedType ==
    ASSUME NEW p \in Pages, NEW t \in Shown
    PROVE  SelectedAfter(p, t) \in Nat
<1>1. /\ t.bots \in Seq(Bot) /\ Len(t.bots) \in Nat /\ Len(t.bots) > 0
      /\ \A i \in 1 .. Len(t.bots) : t.bots[i].id \in Nat
      /\ IdsOf(t) \subseteq Nat
  BY ShownIs, TopologyParts DEF Drafts, OneOfEach
<1>2. Last(t.bots).id \in Nat
  <2>1. Len(t.bots) \in 1 .. Len(t.bots)
    BY <1>1
  <2> QED
    BY <1>1, <2>1 DEF Last
<1>3. Head(t.bots).id \in Nat
  <2>1. t.bots # <<>>
    BY <1>1, EmptySeq
  <2>2. Head(t.bots) = t.bots[1]
    BY <1>1, <2>1
  <2> QED
    BY <1>1, <2>2
<1> QED
  BY <1>1, <1>2, <1>3 DEF SelectedAfter

LEMMA EndPostKeeps ==
    ASSUME TopologyInv, NEW i \in DOMAIN posts, EndPost(i)
    PROVE  TopologyInv'
<1> DEFINE d == posts[i].by
           t == posts[i].answer
           q == WithCache(page[d], t)
           new == IF posts[i].mount = "left" THEN q
                  ELSE [q EXCEPT !.selected = SelectedAfter(page[d], t)]
<1>1. d \in Browsers /\ t \in Shown
  BY PostsAre DEF TopologyInv, EndPost
<1>2. page[d] \in Pages
  BY <1>1 DEF TopologyInv
<1>3. posts' \in Seq(Requests)
  BY DonePost DEF TopologyInv, EndPost
<1>4. CASE posts[i].mount = "reloaded"
  BY <1>3, <1>4 DEF TopologyInv, EndPost
<1>5. CASE posts[i].mount # "reloaded"
  <2>1. new \in Pages
    <3>1. q \in Pages /\ SelectedAfter(page[d], t) \in Nat
      <4> HIDE DEF d, t
      <4> QED
        BY <1>1, <1>2, WithCacheType, SelectedType
    <3> HIDE DEF q
    <3> QED
      BY <3>1, PageChanges
  <2>2. page' = [page EXCEPT ![d] = new] /\ saved' = [saved EXCEPT ![d] = t]
    BY <1>1, <1>5 DEF TopologyInv, EndPost
  <2> HIDE DEF new, d, t
  <2>3. page' \in [Browsers -> Pages]
    BY <1>1, <2>1, <2>2, PageGoes DEF TopologyInv
  <2>4. saved' \in [Browsers -> Topologies \cup {None}]
    BY <1>1, <2>2, ShownIs DEF TopologyInv
  <2> QED
    BY <1>3, <2>3, <2>4 DEF TopologyInv, EndPost
<1> QED
  BY <1>4, <1>5

LEMMA TopologyInvInit == TopologyInit => TopologyInv
<1> SUFFICES ASSUME TopologyInit PROVE TopologyInv
  OBVIOUS
<1>1. Closed \in Pages
  BY FetchesAre DEF Closed, Pages
<1>2. page \in [Browsers -> Pages]
  BY <1>1 DEF TopologyInit
<1>3. saved \in [Browsers -> Topologies \cup {None}]
  BY TopologyAssumption DEF TopologyInit
<1>4. budget \in Budgets
  BY TopologyAssumption DEF TopologyInit, Budgets
<1>5. posts \in Seq(Requests)
  BY DEF TopologyInit
<1> QED
  BY <1>2, <1>3, <1>4, <1>5, ShownIs DEF TopologyInit, TopologyInv

LEMMA TopologyInvStep == TopologyInv /\ [TopologyNext]_topologyVars => TopologyInv'
<1> SUFFICES ASSUME TopologyInv, [TopologyNext]_topologyVars PROVE TopologyInv'
  OBVIOUS
<1>1. CASE UNCHANGED topologyVars
  BY <1>1 DEF TopologyInv, topologyVars
<1>2. ASSUME NEW d \in Browsers, NEW reload \in BOOLEAN, Mount(d, reload)
      PROVE  TopologyInv'
  BY <1>2, MountKeeps
<1>3. ASSUME NEW d \in Browsers, Leave(d)
      PROVE  TopologyInv'
  BY <1>3, LeaveKeeps
<1>4. ASSUME NEW d \in Browsers, Refetch(d) \/ ServeFetch(d) \/ EndFetch(d) \/ FailFetch(d)
      PROVE  TopologyInv'
  BY <1>4, FetchKeeps
<1>5. ASSUME NEW d \in Browsers, EditForm(d)
      PROVE  TopologyInv'
  BY <1>5, EditFormKeeps
<1>6. ASSUME NEW d \in Browsers, SaveTopology(d)
      PROVE  TopologyInv'
  BY <1>6, SaveKeeps
<1>7. ASSUME NEW d \in Browsers, NEW b \in 1 .. 2 * MaxBots, SelectBotTab(d, b)
      PROVE  TopologyInv'
  BY <1>7, SelectKeeps
<1>8. ASSUME NEW i \in DOMAIN posts, ServePost(i) \/ EndPost(i) \/ FailPost(i)
      PROVE  TopologyInv'
  <2>1. CASE FailPost(i)
    BY <2>1, DonePost, SpendType DEF TopologyInv, FailPost
  <2> QED
    BY <1>8, <2>1, ServeKeeps, EndPostKeeps
<1>9. CASE RestartWeb
  BY <1>9, ShownIs, SpendType DEF TopologyInv, RestartWeb
<1> QED
  BY <1>1, <1>2, <1>3, <1>4, <1>5, <1>6, <1>7, <1>8, <1>9 DEF TopologyNext

LEMMA TopologyInvHolds == TopologySpec => []TopologyInv
<1> QED
  BY TopologyInvInit, TopologyInvStep, PTL DEF TopologySpec

-----------------------------------------------------------------------------
(* The theorems of the topology *)

\* TopologiesWellFormed: whatever is saved, restored, answered late or lost,
\* no topology in use lacks bots or lists one twice.
THEOREM TopologiesStayWellFormed == TopologySpec => []TopologiesWellFormed
<1>1. TopologyInv => TopologiesWellFormed
  <2> SUFFICES ASSUME TopologyInv PROVE TopologiesWellFormed
    OBVIOUS
  <2>1. Acceptable(serving) /\ \A i \in DOMAIN serving.bots : serving.bots[i] \in Bot
    BY ShownIs, TopologyParts DEF TopologyInv
  <2>2. ASSUME NEW d \in Browsers
        PROVE  /\ page[d].cache # None => Acceptable(page[d].cache)
               /\ page[d].draft # None =>
                     /\ page[d].draft.bots # <<>>
                     /\ Cardinality(IdsOf(page[d].draft)) = Len(page[d].draft.bots)
               /\ page[d].open /\ page[d].cache # None => page[d].draft # None
    <3>1. page[d] \in Pages /\ PageParts(page[d])
      BY PagesAre DEF TopologyInv
    <3>2. page[d].cache # None => Acceptable(page[d].cache)
      BY <3>1, ShownIs DEF PageParts
    <3>3. ASSUME NEW t \in Drafts
          PROVE  t.bots # <<>> /\ Cardinality(IdsOf(t)) = Len(t.bots)
      BY UniqIsCounted DEF Drafts, OneOfEach
    <3>4. page[d].draft # None =>
             /\ page[d].draft.bots # <<>>
             /\ Cardinality(IdsOf(page[d].draft)) = Len(page[d].draft.bots)
      BY <3>1, <3>3 DEF PageParts
    <3> QED
      BY <3>1, <3>2, <3>4, PagesAre
  <2> QED
    BY <2>1, <2>2 DEF TopologiesWellFormed
<1> QED
  BY <1>1, TopologyInvHolds, PTL

\* RefusedForFields: what a dashboard assembles itself, ids of added bots and
\* restored topologies included, is never what a topology is refused for.
THEOREM OnlyFieldsAreRefused == TopologySpec => []RefusedForFields
<1>1. TopologyInv => RefusedForFields
  <2> SUFFICES ASSUME TopologyInv, NEW i \in DOMAIN posts, posts[i].status = "refused"
               PROVE  \/ posts[i].body.exchange = NoHost
                      \/ \E bot \in Range(posts[i].body.bots) :
                            bot.name = "empty" \/ bot.host = NoHost
    BY DEF RefusedForFields
  <2> DEFINE t == posts[i].body
  <2>1. t \in Drafts /\ ~Acceptable(t)
    BY PostsAre DEF TopologyInv
  <2> HIDE DEF t
  <2>2. t \in Topologies /\ OneOfEach(t)
    BY <2>1 DEF Drafts
  <2>3. \/ t.exchange = NoHost
        \/ \E j \in DOMAIN t.bots : t.bots[j].name = "empty" \/ t.bots[j].host = NoHost
    BY <2>1, <2>2, AcceptableIs
  <2>4. \/ t.exchange = NoHost
        \/ \E bot \in Range(t.bots) : bot.name = "empty" \/ bot.host = NoHost
    BY <2>3 DEF Range
  <2> QED
    BY <2>4 DEF t
<1> QED
  BY <1>1, TopologyInvHolds, PTL

\* The steps that change what is served: a restart or a post that is accepted.
LEMMA ServingChanges ==
    ASSUME TopologyInv, TopologyNext
    PROVE  \/ UNCHANGED serving
           \/ budget'.restarts # budget.restarts
           \/ \E i \in DOMAIN posts :
                 /\ ServePost(i) /\ Acceptable(posts[i].body)
                 /\ serving' = UpdateRuntimeTopology(posts[i].body)
<1>1. CASE RestartWeb
  BY <1>1, SpendType DEF RestartWeb, TopologyInv
<1>2. ASSUME NEW i \in DOMAIN posts, ServePost(i)
      PROVE  \/ UNCHANGED serving
             \/ ServePost(i) /\ Acceptable(posts[i].body)
                /\ serving' = UpdateRuntimeTopology(posts[i].body)
  BY <1>2 DEF ServePost
<1>3. ASSUME NEW i \in DOMAIN posts, EndPost(i) \/ FailPost(i)
      PROVE  UNCHANGED serving
  BY <1>3 DEF EndPost, FailPost
<1>4. ASSUME NEW d \in Browsers,
             \/ \E reload \in BOOLEAN : Mount(d, reload)
             \/ Leave(d) \/ Refetch(d) \/ ServeFetch(d) \/ EndFetch(d) \/ FailFetch(d)
             \/ EditForm(d)
             \/ SaveTopology(d)
             \/ \E b \in 1 .. 2 * MaxBots : SelectBotTab(d, b)
      PROVE  UNCHANGED serving
  BY <1>4 DEF Mount, Leave, Refetch, ServeFetch, EndFetch, FailFetch, EditForm,
              SaveTopology, SelectBotTab, SetExchangeDomain, AddBot, SetBotName,
              SetBotDomain, RemoveBot, Edit
<1> QED
  BY <1>1, <1>2, <1>3, <1>4 DEF TopologyNext

LEMMA BotIsAt ==
    ASSUME NEW t \in Topologies, OneOfEach(t), NEW b \in IdsOf(t)
    PROVE  \E i \in DOMAIN t.bots : t.bots[i].id = b /\ BotOf(t, b) = t.bots[i]
<1>1. PICK i \in DOMAIN t.bots : t.bots[i].id = b
  BY DEF IdsOf
<1>2. BotOf(t, b) \in Range(t.bots) /\ BotOf(t, b).id = b
  <2>1. t.bots[i] \in Range(t.bots)
    BY DEF Range
  <2> QED
    BY <1>1, <2>1 DEF BotOf
<1>3. PICK j \in DOMAIN t.bots : BotOf(t, b) = t.bots[j]
  BY <1>2 DEF Range
<1> QED
  BY <1>2, <1>3

\* PlacesSurvive: no save of a form, which has no places to send, and no
\* restored topology loses a place the server knows.
THEOREM PlacesAreKept == TopologySpec => PlacesSurvive
<1>1. TopologyInv /\ [TopologyNext]_topologyVars =>
         [budget.restarts' = budget.restarts =>
             /\ serving.exchangePlace => serving'.exchangePlace
             /\ serving.dashboardPlace => serving'.dashboardPlace
             /\ \A b \in IdsOf(serving) \cap IdsOf(serving') :
                   BotOf(serving, b).place => BotOf(serving', b).place]_topologyVars
  <2> SUFFICES ASSUME TopologyInv, TopologyNext, budget.restarts' = budget.restarts
               PROVE  /\ serving.exchangePlace => serving'.exchangePlace
                      /\ serving.dashboardPlace => serving'.dashboardPlace
                      /\ \A b \in IdsOf(serving) \cap IdsOf(serving') :
                            BotOf(serving, b).place => BotOf(serving', b).place
    OBVIOUS
  <2>1. CASE UNCHANGED serving
    BY <2>1
  <2>2. ASSUME NEW i \in DOMAIN posts, serving' = UpdateRuntimeTopology(posts[i].body),
               Acceptable(posts[i].body)
        PROVE  /\ serving.exchangePlace => serving'.exchangePlace
               /\ serving.dashboardPlace => serving'.dashboardPlace
               /\ \A b \in IdsOf(serving) \cap IdsOf(serving') :
                     BotOf(serving, b).place => BotOf(serving', b).place
    <3> DEFINE t == posts[i].body
               u == UpdateRuntimeTopology(t)
    <3>1. t \in Topologies /\ OneOfEach(t) /\ serving \in Topologies
          /\ OneOfEach(serving)
      BY PostsAre, ShownIs DEF TopologyInv, Drafts
    <3>2. /\ u \in Topologies /\ OneOfEach(u)
          /\ serving.exchangePlace => u.exchangePlace
          /\ serving.dashboardPlace => u.dashboardPlace
          /\ \A m \in DOMAIN u.bots, j \in DOMAIN serving.bots :
                 serving.bots[j].id = u.bots[m].id /\ serving.bots[j].place =>
                     u.bots[m].place
      <4> HIDE DEF t
      <4> QED
        BY <3>1, UpdateType
    <3> HIDE DEF u
    <3>3. ASSUME NEW b \in IdsOf(serving) \cap IdsOf(u), BotOf(serving, b).place
          PROVE  BotOf(u, b).place
      <4>1. PICK j \in DOMAIN serving.bots :
               serving.bots[j].id = b /\ BotOf(serving, b) = serving.bots[j]
        BY <3>1, BotIsAt
      <4>2. PICK m \in DOMAIN u.bots : u.bots[m].id = b /\ BotOf(u, b) = u.bots[m]
        BY <3>2, BotIsAt
      <4> QED
        BY <3>2, <3>3, <4>1, <4>2
    <3>4. serving' = u
      BY <2>2 DEF u
    <3> QED
      BY <3>2, <3>3, <3>4
  <2> QED
    BY <2>1, <2>2, ServingChanges
<1> QED
  BY <1>1, TopologyInvHolds, PTL DEF TopologySpec, PlacesSurvive

\* DropsExplained: no order of saves, restored topologies and late answers drops
\* a bot that the dashboard had seen and its operator had not removed.
THEOREM DropsHaveReasons == TopologySpec => DropsExplained
<1>1. TopologyInv /\ [TopologyNext]_topologyVars =>
         [budget.restarts' = budget.restarts =>
             \A b \in IdsOf(serving) \ IdsOf(serving') :
                 \E i \in DOMAIN posts :
                     /\ posts[i].status = "sent" /\ posts'[i].status = "served"
                     /\ b \in posts[i].dropped \/ b \notin posts[i].seen]_topologyVars
  <2> SUFFICES ASSUME TopologyInv, TopologyNext, budget.restarts' = budget.restarts,
                      NEW b \in IdsOf(serving) \ IdsOf(serving')
               PROVE  \E i \in DOMAIN posts :
                          /\ posts[i].status = "sent" /\ posts'[i].status = "served"
                          /\ b \in posts[i].dropped \/ b \notin posts[i].seen
    OBVIOUS
  <2>1. PICK i \in DOMAIN posts :
           /\ ServePost(i) /\ Acceptable(posts[i].body)
           /\ serving' = UpdateRuntimeTopology(posts[i].body)
    BY ServingChanges
  <2>2. /\ posts[i] \in Requests /\ posts[i].body \in Topologies
        /\ posts[i].seen \ posts[i].dropped \subseteq IdsOf(posts[i].body)
    BY PostsAre, ShownIs DEF TopologyInv
  <2>3. IdsOf(serving') = IdsOf(posts[i].body)
    BY <2>1, <2>2, UpdateType, ShownIs DEF TopologyInv
  <2>4. posts[i].status = "sent" /\ posts'[i].status = "served"
    <3>1. posts[i].status = "sent"
          /\ posts' = [posts EXCEPT ![i].status = "served",
                                    ![i].answer = UpdateRuntimeTopology(posts[i].body)]
      BY <2>1 DEF ServePost
    <3> QED
      BY <2>2, <3>1 DEF Requests
  <2> QED
    BY <2>2, <2>3, <2>4
<1> QED
  BY <1>1, TopologyInvHolds, PTL DEF TopologySpec, DropsExplained

-----------------------------------------------------------------------------
(* The metrics of the risk report *)

Colors == {"red", "yellow", "green"}

MetricNames ==
    {"inventory_skew_pct", "position_pct_of_limit", "total_notional_usd",
     "avg_realized_spread", "adverse_selection_rate", "fill_rate", "hedging_costs",
     "feed_staleness_ms", "realized_volatility", "tick_latency_ms",
     "bot_connected", "exchange_disconnects", "paused_pairs", "kill_switch"}

Metrics == [metric : MetricNames, status : Colors]

NamesIn(list) == {list[i].metric : i \in DOMAIN list}

\* Metrics of different names.
IsReport(list) ==
    /\ list \in Seq(Metrics)
    /\ \A i, j \in DOMAIN list : list[i].metric = list[j].metric => i = j

Holds(list, m) == \E i \in DOMAIN list : list[i] = m

LEMMA StatusIsColor ==
    ASSUME NEW value, NEW warn, NEW critical
    PROVE  Above(value, warn, critical) \in Colors /\ Below(value, warn, critical) \in Colors
<1>1. \A v, w, c : Above(v, w, c) \in Colors
  BY DEF Above, Colors
<1> QED
  BY <1>1 DEF Below

LEMMA MetricIs ==
    ASSUME NEW name \in MetricNames, NEW status \in Colors
    PROVE  /\ Metric(name, status) \in Metrics
           /\ Metric(name, status).metric = name /\ Metric(name, status).status = status
BY DEF Metric, Metrics

LEMMA ReportsJoin ==
    ASSUME NEW s, NEW t, IsReport(s), IsReport(t), NamesIn(s) \cap NamesIn(t) = {}
    PROVE  /\ IsReport(s \o t) /\ NamesIn(s \o t) = NamesIn(s) \cup NamesIn(t)
           /\ \A m : Holds(s \o t, m) <=> Holds(s, m) \/ Holds(t, m)
<1> DEFINE u == s \o t
<1>1. /\ s \in Seq(Metrics) /\ Len(s) \in Nat /\ DOMAIN s = 1 .. Len(s)
      /\ t \in Seq(Metrics) /\ Len(t) \in Nat /\ DOMAIN t = 1 .. Len(t)
  BY LenProperties DEF IsReport
<1>2. /\ u \in Seq(Metrics) /\ DOMAIN u = 1 .. Len(s) + Len(t)
      /\ \A i \in DOMAIN s : i \in DOMAIN u /\ u[i] = s[i]
      /\ \A i \in DOMAIN t : Len(s) + i \in DOMAIN u /\ u[Len(s) + i] = t[i]
  <2>1. u \in Seq(Metrics) /\ Len(u) = Len(s) + Len(t)
        /\ \A i \in 1 .. Len(s) + Len(t) :
              u[i] = IF i <= Len(s) THEN s[i] ELSE t[i - Len(s)]
    BY <1>1, ConcatProperties
  <2>2. DOMAIN u = 1 .. Len(s) + Len(t)
    BY <2>1, LenProperties
  <2> HIDE DEF u
  <2>3. ASSUME NEW i \in DOMAIN s PROVE i \in DOMAIN u /\ u[i] = s[i]
    BY <1>1, <2>1, <2>2
  <2>4. ASSUME NEW i \in DOMAIN t
        PROVE  Len(s) + i \in DOMAIN u /\ u[Len(s) + i] = t[i]
    <3>1. Len(s) + i \in 1 .. Len(s) + Len(t) /\ ~ (Len(s) + i <= Len(s))
          /\ Len(s) + i - Len(s) = i
      BY <1>1
    <3> QED
      BY <2>1, <2>2, <3>1
  <2> QED
    BY <2>1, <2>2, <2>3, <2>4
<1> HIDE DEF u
<1>3. \A k \in DOMAIN u : k \in DOMAIN s \/ \E i \in DOMAIN t : k = Len(s) + i
  <2> SUFFICES ASSUME NEW k \in DOMAIN u, k \notin DOMAIN s
               PROVE  \E i \in DOMAIN t : k = Len(s) + i
    OBVIOUS
  <2>1. k - Len(s) \in DOMAIN t /\ k = Len(s) + (k - Len(s))
    BY <1>1, <1>2
  <2> QED
    BY <2>1
<1>4. NamesIn(u) = NamesIn(s) \cup NamesIn(t)
  BY <1>2, <1>3 DEF NamesIn
<1>5. \A m : Holds(u, m) <=> Holds(s, m) \/ Holds(t, m)
  BY <1>2, <1>3 DEF Holds
<1>6. \A i \in DOMAIN s, j \in DOMAIN t : s[i].metric # t[j].metric
  BY DEF NamesIn
<1>7. \A i, j \in DOMAIN u : u[i].metric = u[j].metric => i = j
  <2> SUFFICES ASSUME NEW i \in DOMAIN u, NEW j \in DOMAIN u, u[i].metric = u[j].metric
               PROVE  i = j
    OBVIOUS
  <2>1. CASE i \in DOMAIN s /\ j \in DOMAIN s
    BY <1>2, <2>1 DEF IsReport
  <2>2. CASE i \in DOMAIN s /\ j \notin DOMAIN s
    BY <1>2, <1>3, <1>6, <2>2
  <2>3. CASE i \notin DOMAIN s /\ j \in DOMAIN s
    BY <1>2, <1>3, <1>6, <2>3
  <2>4. CASE i \notin DOMAIN s /\ j \notin DOMAIN s
    <3>1. PICK a \in DOMAIN t, b \in DOMAIN t : i = Len(s) + a /\ j = Len(s) + b
      BY <1>3, <2>4
    <3>2. t[a].metric = t[b].metric
      BY <1>2, <3>1
    <3> QED
      BY <3>1, <3>2 DEF IsReport
  <2> QED
    BY <2>1, <2>2, <2>3, <2>4
<1> QED
  BY <1>2, <1>4, <1>5, <1>7 DEF u, IsReport

LEMMA NoMetrics == IsReport(<<>>) /\ NamesIn(<<>>) = {} /\ \A m : ~Holds(<<>>, m)
BY DEF IsReport, NamesIn, Holds

LEMMA OneMetric ==
    ASSUME NEW a \in Metrics
    PROVE  /\ IsReport(<<a>>) /\ NamesIn(<<a>>) = {a.metric}
           /\ \A m : Holds(<<a>>, m) <=> m = a
<1>1. <<a>> \in Seq(Metrics) /\ DOMAIN <<a>> = {1} /\ <<a>>[1] = a
  OBVIOUS
<1> QED
  BY <1>1 DEF IsReport, NamesIn, Holds

LEMMA ThreeMetrics ==
    ASSUME NEW a \in Metrics, NEW b \in Metrics, NEW c \in Metrics,
           a.metric # b.metric, a.metric # c.metric, b.metric # c.metric
    PROVE  /\ IsReport(<<a, b, c>>)
           /\ NamesIn(<<a, b, c>>) = {a.metric, b.metric, c.metric}
           /\ \A m : Holds(<<a, b, c>>, m) <=> m \in {a, b, c}
<1> DEFINE s == <<a, b, c>>
<1>1. s \in Seq(Metrics) /\ DOMAIN s = {1, 2, 3} /\ s[1] = a /\ s[2] = b /\ s[3] = c
  OBVIOUS
<1> HIDE DEF s
<1>2. IsReport(s) /\ NamesIn(s) = {a.metric, b.metric, c.metric}
      /\ \A m : Holds(s, m) <=> m \in {a, b, c}
  BY <1>1 DEF IsReport, NamesIn, Holds
<1> QED
  BY <1>2 DEF s

LEMMA FourMetrics ==
    ASSUME NEW a \in Metrics, NEW b \in Metrics, NEW c \in Metrics, NEW d \in Metrics,
           a.metric # b.metric, a.metric # c.metric, a.metric # d.metric,
           b.metric # c.metric, b.metric # d.metric, c.metric # d.metric
    PROVE  /\ IsReport(<<a, b, c, d>>)
           /\ NamesIn(<<a, b, c, d>>) = {a.metric, b.metric, c.metric, d.metric}
           /\ \A m : Holds(<<a, b, c, d>>, m) <=> m \in {a, b, c, d}
<1> DEFINE s == <<a, b, c, d>>
<1>1. s \in Seq(Metrics) /\ DOMAIN s = {1, 2, 3, 4}
      /\ s[1] = a /\ s[2] = b /\ s[3] = c /\ s[4] = d
  OBVIOUS
<1> HIDE DEF s
<1>2. IsReport(s) /\ NamesIn(s) = {a.metric, b.metric, c.metric, d.metric}
      /\ \A m : Holds(s, m) <=> m \in {a, b, c, d}
  BY <1>1 DEF IsReport, NamesIn, Holds
<1> QED
  BY <1>2 DEF s

LEMMA ExposureReport ==
    LET held == DOMAIN sheet.inventory IN
    /\ IsReport(ExposureMetrics)
    /\ NamesIn(ExposureMetrics) =
          {"inventory_skew_pct", "position_pct_of_limit", "total_notional_usd"}
    /\ Holds(ExposureMetrics,
             Metric("position_pct_of_limit",
                    Above(Highest({PctOfLimit(p) : p \in held}), 70, 90)))
<1> DEFINE held == DOMAIN sheet.inventory
           skew == Above(Highest({AbsOf(sheet.inventory[p].skew) : p \in held}), 25, 40)
           pct == Above(Highest({PctOfLimit(p) : p \in held}), 70, 90)
           notional == Above(SumFunctionOnSet([p \in held |-> Notional(p)], held),
                             1000000, 2500000)
           a == Metric("inventory_skew_pct", skew)
           b == Metric("position_pct_of_limit", pct)
           c == Metric("total_notional_usd", notional)
<1>1. ExposureMetrics = <<a, b, c>>
  BY DEF ExposureMetrics
<1>2. skew \in Colors /\ pct \in Colors /\ notional \in Colors
  BY StatusIsColor
<1> HIDE DEF skew, pct, notional
<1>3. /\ a \in Metrics /\ a.metric = "inventory_skew_pct"
      /\ b \in Metrics /\ b.metric = "position_pct_of_limit"
      /\ c \in Metrics /\ c.metric = "total_notional_usd"
  BY <1>2, MetricIs DEF MetricNames
<1> HIDE DEF a, b, c
<1>4. /\ IsReport(ExposureMetrics) /\ Holds(ExposureMetrics, b)
      /\ NamesIn(ExposureMetrics) =
            {"inventory_skew_pct", "position_pct_of_limit", "total_notional_usd"}
  BY <1>1, <1>3, ThreeMetrics
<1> QED
  BY <1>4 DEF b, pct

LEMMA PnlReport ==
    /\ IsReport(PnlMetrics)
    /\ NamesIn(PnlMetrics) \subseteq
          {"avg_realized_spread", "adverse_selection_rate", "fill_rate", "hedging_costs"}
    /\ sheet.pnl # NoFigure =>
          /\ Holds(PnlMetrics, Metric("adverse_selection_rate",
                                      Above(sheet.pnl.adverse, 300, 500)))
          /\ Holds(PnlMetrics, Metric("fill_rate", Below(sheet.pnl.fillRate, 50, 10)))
<1> DEFINE a == Metric("avg_realized_spread", Below(sheet.spread, 0, -10))
           b == Metric("adverse_selection_rate", Above(sheet.pnl.adverse, 300, 500))
           c == Metric("fill_rate", Below(sheet.pnl.fillRate, 50, 10))
           d == Metric("hedging_costs", Above(sheet.pnl.hedging, 10, 50))
           one == IF sheet.spread = NoFigure THEN <<>> ELSE <<a>>
           three == IF sheet.pnl = NoFigure THEN <<>> ELSE <<b, c, d>>
<1>1. PnlMetrics = one \o three
  BY DEF PnlMetrics
<1>2. /\ a \in Metrics /\ a.metric = "avg_realized_spread"
      /\ b \in Metrics /\ b.metric = "adverse_selection_rate"
      /\ c \in Metrics /\ c.metric = "fill_rate"
      /\ d \in Metrics /\ d.metric = "hedging_costs"
  BY StatusIsColor, MetricIs DEF MetricNames
<1> HIDE DEF a, b, c, d
<1>3. IsReport(one) /\ NamesIn(one) \subseteq {"avg_realized_spread"}
  BY <1>2, NoMetrics, OneMetric
<1>4. /\ IsReport(three)
      /\ NamesIn(three) \subseteq {"adverse_selection_rate", "fill_rate", "hedging_costs"}
      /\ sheet.pnl # NoFigure => Holds(three, b) /\ Holds(three, c)
  <2>1. CASE sheet.pnl = NoFigure
    BY <2>1, NoMetrics
  <2>2. CASE sheet.pnl # NoFigure
    <3>1. three = <<b, c, d>>
      BY <2>2
    <3> QED
      BY <1>2, <3>1, ThreeMetrics
  <2> QED
    BY <2>1, <2>2
<1> HIDE DEF one, three
<1>5. NamesIn(one) \cap NamesIn(three) = {}
  BY <1>3, <1>4
<1>6. /\ IsReport(PnlMetrics) /\ NamesIn(PnlMetrics) = NamesIn(one) \cup NamesIn(three)
      /\ sheet.pnl # NoFigure => Holds(PnlMetrics, b) /\ Holds(PnlMetrics, c)
  BY <1>1, <1>3, <1>4, <1>5, ReportsJoin
<1> QED
  BY <1>3, <1>4, <1>6 DEF b, c

LEMMA MarketReport ==
    LET feeds == DOMAIN sheet.feeds IN
    /\ IsReport(MarketMetrics)
    /\ NamesIn(MarketMetrics) =
          {"feed_staleness_ms", "realized_volatility", "tick_latency_ms"}
    /\ Holds(MarketMetrics,
             Metric("feed_staleness_ms",
                    Above(Highest({sheet.feeds[f].staleness : f \in feeds}), 1000, 2000)))
<1> DEFINE feeds == DOMAIN sheet.feeds
           a == Metric("feed_staleness_ms",
                    Above(Highest({sheet.feeds[f].staleness : f \in feeds}), 1000, 2000))
           b == Metric("realized_volatility",
                    Above(Highest({sheet.quotes[p].volatility : p \in DOMAIN sheet.quotes}),
                          2, 5))
           c == Metric("tick_latency_ms",
                    Above(Highest({sheet.feeds[f].latency : f \in feeds}), 100, 500))
<1>1. MarketMetrics = <<a, b, c>>
  BY DEF MarketMetrics
<1>2. /\ a \in Metrics /\ a.metric = "feed_staleness_ms"
      /\ b \in Metrics /\ b.metric = "realized_volatility"
      /\ c \in Metrics /\ c.metric = "tick_latency_ms"
  BY StatusIsColor, MetricIs DEF MetricNames
<1> HIDE DEF a, b, c
<1>3. /\ IsReport(MarketMetrics) /\ Holds(MarketMetrics, a)
      /\ NamesIn(MarketMetrics) =
            {"feed_staleness_ms", "realized_volatility", "tick_latency_ms"}
  BY <1>1, <1>2, ThreeMetrics
<1> QED
  BY <1>3 DEF a

LEMMA ExecReport ==
    /\ IsReport(ExecMetrics)
    /\ NamesIn(ExecMetrics) =
          {"bot_connected", "exchange_disconnects", "paused_pairs", "kill_switch"}
    /\ Holds(ExecMetrics, Metric("exchange_disconnects",
                                 SomeOrAll(Disconnected, DOMAIN sheet.feeds)))
    /\ Holds(ExecMetrics, Metric("paused_pairs", SomeOrAll(Paused, DOMAIN sheet.quotes)))
    /\ Holds(ExecMetrics, Metric("kill_switch", IF sheet.kill THEN "red" ELSE "green"))
<1> DEFINE a == Metric("bot_connected", IF sheet.connected THEN "green" ELSE "red")
           b == Metric("exchange_disconnects", SomeOrAll(Disconnected, DOMAIN sheet.feeds))
           c == Metric("paused_pairs", SomeOrAll(Paused, DOMAIN sheet.quotes))
           d == Metric("kill_switch", IF sheet.kill THEN "red" ELSE "green")
<1>1. ExecMetrics = <<a, b, c, d>>
  BY DEF ExecMetrics
<1>2. /\ a \in Metrics /\ a.metric = "bot_connected"
      /\ b \in Metrics /\ b.metric = "exchange_disconnects"
      /\ c \in Metrics /\ c.metric = "paused_pairs"
      /\ d \in Metrics /\ d.metric = "kill_switch"
  <2>1. \A some, all : SomeOrAll(some, all) \in Colors
    BY StatusIsColor DEF SomeOrAll
  <2>2. /\ (IF sheet.connected THEN "green" ELSE "red") \in Colors
        /\ (IF sheet.kill THEN "red" ELSE "green") \in Colors
    BY DEF Colors
  <2> QED
    BY <2>1, <2>2, MetricIs DEF MetricNames
<1> HIDE DEF a, b, c, d
<1>3. /\ IsReport(ExecMetrics)
      /\ Holds(ExecMetrics, b) /\ Holds(ExecMetrics, c) /\ Holds(ExecMetrics, d)
      /\ NamesIn(ExecMetrics) =
            {"bot_connected", "exchange_disconnects", "paused_pairs", "kill_switch"}
  BY <1>1, <1>2, FourMetrics
<1> QED
  BY <1>3 DEF b, c, d

\* The report as a whole judges every figure once.
LEMMA FullReport ==
    /\ IsReport(AllMetrics)
    /\ \A m : Holds(AllMetrics, m) <=>
                 \/ Holds(ExposureMetrics, m) \/ Holds(PnlMetrics, m)
                 \/ Holds(MarketMetrics, m) \/ Holds(ExecMetrics, m)
<1> DEFINE a == ExposureMetrics
           b == PnlMetrics
           c == MarketMetrics
           d == ExecMetrics
<1>1. /\ IsReport(a) /\ IsReport(b) /\ IsReport(c) /\ IsReport(d)
      /\ NamesIn(a) = {"inventory_skew_pct", "position_pct_of_limit", "total_notional_usd"}
      /\ NamesIn(b) \subseteq
           {"avg_realized_spread", "adverse_selection_rate", "fill_rate", "hedging_costs"}
      /\ NamesIn(c) = {"feed_staleness_ms", "realized_volatility", "tick_latency_ms"}
      /\ NamesIn(d) = {"bot_connected", "exchange_disconnects", "paused_pairs",
                       "kill_switch"}
  BY ExposureReport, PnlReport, MarketReport, ExecReport
<1>2. AllMetrics = ((a \o b) \o c) \o d
  BY DEF AllMetrics
<1> HIDE DEF a, b, c, d
<1>3. NamesIn(a) \cap NamesIn(b) = {}
  BY <1>1
<1>4. /\ IsReport(a \o b) /\ NamesIn(a \o b) = NamesIn(a) \cup NamesIn(b)
      /\ \A m : Holds(a \o b, m) <=> Holds(a, m) \/ Holds(b, m)
  BY <1>1, <1>3, ReportsJoin
<1> DEFINE ab == a \o b
<1> HIDE DEF ab
<1>5. IsReport(ab) /\ NamesIn(ab) \cap NamesIn(c) = {}
  BY <1>1, <1>4 DEF ab
<1>6. /\ IsReport(ab \o c) /\ NamesIn(ab \o c) = NamesIn(ab) \cup NamesIn(c)
      /\ \A m : Holds(ab \o c, m) <=> Holds(ab, m) \/ Holds(c, m)
  BY <1>1, <1>5, ReportsJoin
<1> DEFINE abc == ab \o c
<1> HIDE DEF abc
<1>7. IsReport(abc) /\ NamesIn(abc) \cap NamesIn(d) = {}
  BY <1>1, <1>4, <1>6 DEF abc, ab
<1>8. /\ IsReport(abc \o d)
      /\ \A m : Holds(abc \o d, m) <=> Holds(abc, m) \/ Holds(d, m)
  BY <1>1, <1>7, ReportsJoin
<1>9. AllMetrics = abc \o d
  BY <1>2 DEF abc, ab
<1> QED
  BY <1>4, <1>6, <1>8, <1>9 DEF abc, ab, a, b, c, d

-----------------------------------------------------------------------------
(* The breaches *)

Picked(list, status) ==
    ElementsAt(list, {i \in DOMAIN list : list[i].status = status})

LEMMA PickedProperties ==
    ASSUME NEW list, IsReport(list), NEW status
    PROVE  LET s == Picked(list, status) IN
           /\ IsReport(s) /\ DOMAIN s = 1 .. Len(s) /\ Len(s) \in Nat
           /\ \A m : Holds(s, m) <=> Holds(list, m) /\ m.status = status
<1> DEFINE A == {i \in DOMAIN list : list[i].status = status}
           s == ElementsAt(list, A)
<1>1. \A i : i \in A <=> i \in DOMAIN list /\ list[i].status = status
  OBVIOUS
<1>2. A \in SUBSET DOMAIN list /\ list \in Seq(Metrics)
  BY DEF IsReport
<1> HIDE DEF A
<1>3. /\ Cardinality(A) \in Nat /\ s \in Seq(Metrics) /\ Len(s) = Cardinality(A)
      /\ \A n \in 1 .. Cardinality(A) : Nth(A, n) \in A /\ s[n] = list[Nth(A, n)]
      /\ \A m, n \in 1 .. Cardinality(A) : Nth(A, m) = Nth(A, n) => m = n
      /\ \A i \in A : \E n \in 1 .. Cardinality(A) : Nth(A, n) = i
  BY <1>2, ElementsAtProperties
<1> HIDE DEF s
<1>4. DOMAIN s = 1 .. Cardinality(A)
  BY <1>3, LenProperties
<1>5. ASSUME NEW i \in DOMAIN s, NEW j \in DOMAIN s, s[i].metric = s[j].metric
      PROVE  i = j
  <2>1. Nth(A, i) = Nth(A, j)
    BY <1>2, <1>3, <1>4, <1>5 DEF IsReport
  <2> QED
    BY <1>3, <1>4, <2>1
<1>6. \A m : Holds(s, m) <=> Holds(list, m) /\ m.status = status
  <2>1. ASSUME NEW m, Holds(s, m) PROVE Holds(list, m) /\ m.status = status
    BY <1>1, <1>3, <1>4, <2>1 DEF Holds
  <2>2. ASSUME NEW m, Holds(list, m), m.status = status PROVE Holds(s, m)
    <3>1. PICK i \in A : list[i] = m
      BY <1>1, <2>2 DEF Holds
    <3> QED
      BY <1>3, <1>4, <3>1 DEF Holds
  <2> QED
    BY <2>1, <2>2
<1> QED
  BY <1>3, <1>4, <1>5, <1>6 DEF IsReport, s, A, Picked

LEMMA BreachesJoin ==
    ASSUME NEW list, IsReport(list)
    PROVE  LET reds == Picked(list, "red")
               yellows == Picked(list, "yellow")
               b == Breaches(list)
           IN /\ b = reds \o yellows /\ b \in Seq(Metrics)
              /\ Len(b) = Len(reds) + Len(yellows) /\ Len(reds) \in Nat
              /\ Len(yellows) \in Nat
              /\ DOMAIN b = 1 .. Len(b)
              /\ \A i \in 1 .. Len(reds) : b[i] = reds[i]
              /\ \A m : Holds(b, m) <=> Holds(list, m) /\ m.status \in {"red", "yellow"}
<1> DEFINE reds == Picked(list, "red")
           yellows == Picked(list, "yellow")
           b == Breaches(list)
<1>1. b = reds \o yellows
  BY DEF Breaches, Picked
<1>2. /\ IsReport(reds) /\ IsReport(yellows)
      /\ DOMAIN reds = 1 .. Len(reds) /\ Len(reds) \in Nat
      /\ DOMAIN yellows = 1 .. Len(yellows) /\ Len(yellows) \in Nat
      /\ \A m : Holds(reds, m) <=> Holds(list, m) /\ m.status = "red"
      /\ \A m : Holds(yellows, m) <=> Holds(list, m) /\ m.status = "yellow"
  BY PickedProperties
<1> HIDE DEF reds, yellows, b
<1>3. NamesIn(reds) \cap NamesIn(yellows) = {}
  <2> SUFFICES ASSUME NEW i \in DOMAIN reds, NEW j \in DOMAIN yellows,
                      reds[i].metric = yellows[j].metric
               PROVE  FALSE
    BY DEF NamesIn
  <2>1. /\ Holds(list, reds[i]) /\ reds[i].status = "red"
        /\ Holds(list, yellows[j]) /\ yellows[j].status = "yellow"
    BY <1>2 DEF Holds
  <2> QED
    BY <2>1 DEF Holds, IsReport
<1>4. \A m : Holds(reds \o yellows, m) <=> Holds(reds, m) \/ Holds(yellows, m)
  BY <1>2, <1>3, ReportsJoin
<1>5. /\ b \in Seq(Metrics) /\ Len(b) = Len(reds) + Len(yellows)
      /\ \A i \in 1 .. Len(reds) + Len(yellows) :
            b[i] = IF i <= Len(reds) THEN reds[i] ELSE yellows[i - Len(reds)]
  BY <1>1, <1>2, ConcatProperties DEF IsReport
<1>6. \A i \in 1 .. Len(reds) : b[i] = reds[i]
  BY <1>2, <1>5
<1>7. DOMAIN b = 1 .. Len(b)
  BY <1>5, LenProperties
<1> QED
  BY <1>1, <1>2, <1>4, <1>5, <1>6, <1>7 DEF reds, yellows, b

LEMMA MinOfTwo ==
    ASSUME NEW a \in Int, NEW b \in Int
    PROVE  Min({a, b}) = IF a <= b THEN a ELSE b
<1> DEFINE m == IF a <= b THEN a ELSE b
<1>1. m \in {a, b} /\ \A y \in {a, b} : m =< y
  OBVIOUS
<1>2. ASSUME NEW x \in {a, b}, \A y \in {a, b} : x =< y
      PROVE  x = m
  <2>1. x \in Int /\ x =< a /\ x =< b
    BY <1>2
  <2> QED
    BY <1>2, <2>1
<1> HIDE DEF m
<1>3. Min({a, b}) = m
  BY <1>1, <1>2 DEF Min
<1> QED
  BY <1>3 DEF m

RiskSpec == RiskInit /\ [][RiskNext]_riskVars

\* TopBreachesAreTheWorst: red breaches come first, so cutting the list at five
\* hides one only if the five are red; and the badge agrees with the whole table.
THEOREM TopBreachesAreWorst == RiskSpec => []TopBreachesAreTheWorst
<1>1. TopBreachesAreTheWorst
  <2> DEFINE list == AllMetrics
             b == Breaches(list)
             r == Picked(list, "red")
             k == IF 5 <= Len(b) THEN 5 ELSE Len(b)
             shown == Range(TopBreaches(b))
             reds == {m \in Range(list) : m.status = "red"}
  <2>1. IsReport(list)
    BY FullReport
  <2> HIDE DEF list
  <2>2. /\ b \in Seq(Metrics) /\ DOMAIN b = 1 .. Len(b)
        /\ Len(r) \in Nat /\ Len(b) \in Nat /\ Len(r) <= Len(b)
        /\ \A i \in 1 .. Len(r) : b[i] = r[i]
        /\ \A m : Holds(b, m) <=> Holds(list, m) /\ m.status \in {"red", "yellow"}
    <3> DEFINE y == Picked(list, "yellow")
    <3> HIDE DEF b, r, y
    <3>1. /\ b \in Seq(Metrics) /\ DOMAIN b = 1 .. Len(b)
          /\ Len(b) = Len(r) + Len(y) /\ Len(r) \in Nat /\ Len(y) \in Nat
          /\ \A i \in 1 .. Len(r) : b[i] = r[i]
          /\ \A m : Holds(b, m) <=> Holds(list, m) /\ m.status \in {"red", "yellow"}
      BY <2>1, BreachesJoin DEF b, r, y
    <3>2. Len(b) \in Nat /\ Len(r) <= Len(b)
      BY <3>1
    <3> QED
      BY <3>1, <3>2
  <2>3. /\ IsReport(r) /\ DOMAIN r = 1 .. Len(r)
        /\ \A m : Holds(r, m) <=> Holds(list, m) /\ m.status = "red"
    BY <2>1, PickedProperties
  <2>4. reds = {r[i] : i \in 1 .. Len(r)}
    <3>1. \A m : m \in reds <=> Holds(list, m) /\ m.status = "red"
      BY DEF Range, Holds
    <3> HIDE DEF reds, r
    <3> QED
      BY <2>3, <3>1 DEF Holds
  <2>5. shown = {b[i] : i \in 1 .. k} /\ k \in Nat
    <3> HIDE DEF b
    <3>1. Min({5, Len(b)}) = k
      BY <2>2, MinOfTwo
    <3>2. k \in Nat /\ k <= Len(b)
      BY <2>2
    <3>3. TopBreaches(b) = SubSeq(b, 1, k)
      BY <3>1 DEF TopBreaches
    <3> HIDE DEF k
    <3>4. /\ SubSeq(b, 1, k) \in Seq(Metrics)
          /\ Len(SubSeq(b, 1, k)) = k
          /\ \A i \in 1 .. k : SubSeq(b, 1, k)[i] = b[i]
      <4>1. /\ SubSeq(b, 1, k) \in Seq(Metrics)
            /\ Len(SubSeq(b, 1, k)) = IF 1 <= k THEN k - 1 + 1 ELSE 0
            /\ \A i \in 1 .. k - 1 + 1 : SubSeq(b, 1, k)[i] = b[1 + i - 1]
        BY <2>2, <3>2, SubSeqProperties
      <4>2. k - 1 + 1 = k /\ (IF 1 <= k THEN k - 1 + 1 ELSE 0) = k
            /\ \A i \in 1 .. k : 1 + i - 1 = i
        BY <3>2
      <4> QED
        BY <4>1, <4>2
    <3>5. DOMAIN SubSeq(b, 1, k) = 1 .. k
      BY <3>4, LenProperties
    <3> QED
      BY <3>2, <3>3, <3>4, <3>5 DEF Range
  <2>6. \/ reds \subseteq shown
        \/ Cardinality(shown) = 5 /\ shown \subseteq reds
    <3> HIDE DEF b, r, reds, shown
    <3>1. CASE Len(r) <= 5
      <4>1. Len(r) <= k
        BY <2>2, <3>1
      <4>2. \A i \in 1 .. Len(r) : i \in 1 .. k
        BY <2>2, <2>5, <4>1
      <4> HIDE DEF k
      <4> QED
        BY <2>2, <2>4, <2>5, <4>2
    <3>2. CASE Len(r) > 5
      <4>1. k = 5
        BY <2>2, <3>2
      <4>2. \A i \in 1 .. 5 : i \in 1 .. Len(r)
        BY <2>2, <3>2
      <4> HIDE DEF k
      <4>3. shown = {r[i] : i \in 1 .. 5}
        BY <2>2, <2>5, <4>1, <4>2
      <4>4. shown \subseteq reds
        BY <2>4, <4>2, <4>3
      <4> DEFINE f == [i \in 1 .. 5 |-> r[i]]
      <4>5. f \in Bijection(1 .. 5, shown)
        <5>1. \A i, j \in 1 .. 5 : r[i] = r[j] => i = j
          BY <2>3, <4>2 DEF IsReport
        <5> QED
          BY <4>3, <5>1 DEF Bijection, Injection, Surjection, IsInjective
      <4>6. ExistsBijection(1 .. 5, shown)
        BY <4>5 DEF ExistsBijection
      <4>7. IsFiniteSet(1 .. 5) /\ Cardinality(1 .. 5) = 5
        <5>1. 1 \in Int /\ 5 \in Int /\ (IF 1 > 5 THEN 0 ELSE 5 - 1 + 1) = 5
          OBVIOUS
        <5> QED
          BY <5>1, FS_Interval
      <4>8. Cardinality(shown) = 5
        BY <4>6, <4>7, FS_Bijection
      <4> QED
        BY <4>4, <4>8
    <3> QED
      BY <2>2, <3>1, <3>2
  <2>7. \A m : m \in Range(list) <=> Holds(list, m)
    BY DEF Range, Holds
  <2>8. \A m \in Range(list) : m.status \in Colors
    <3>1. \A i \in DOMAIN list : list[i] \in Metrics
      BY <2>1, ElementOfSeq, LenProperties DEF IsReport
    <3> QED
      BY <3>1 DEF Range, Metrics
  <2>9. \A status : (\E i \in DOMAIN b : b[i].status = status) <=>
                    \E m : Holds(b, m) /\ m.status = status
    BY DEF Holds
  <2>10. OverallStatus(b) = "red" <=> reds # {}
    <3> HIDE DEF b
    <3>1. (\E i \in DOMAIN b : b[i].status = "red") <=> reds # {}
      BY <2>2, <2>7, <2>9
    <3> QED
      BY <3>1 DEF OverallStatus
  <2>11. OverallStatus(b) = "green" <=> \A m \in Range(list) : m.status = "green"
    <3> HIDE DEF b
    <3>1. (\E i \in DOMAIN b : b[i].status \in {"red", "yellow"}) <=>
             \E m \in Range(list) : m.status \in {"red", "yellow"}
      BY <2>2, <2>7 DEF Holds
    <3> QED
      BY <2>8, <3>1 DEF OverallStatus, Colors
  <2> HIDE DEF b, r, k
  <2> QED
    BY <2>6, <2>10, <2>11 DEF TopBreachesAreTheWorst, b, list
<1> QED
  BY <1>1, PTL DEF RiskSpec

-----------------------------------------------------------------------------
(* Figures above their thresholds *)

LEMMA ImageIsFinite ==
    ASSUME NEW S, IsFiniteSet(S), NEW f
    PROVE  IsFiniteSet({f[x] : x \in S})
<1> DEFINE T == {f[x] : x \in S}
           g == [x \in S |-> f[x]]
<1>1. g \in Surjection(S, T)
  BY DEF Surjection
<1> HIDE DEF g, T
<1>2. IsFiniteSet(T)
  BY <1>1, FS_Surjection
<1> QED
  BY <1>2 DEF T

LEMMA HighestIs ==
    ASSUME NEW S, IsFiniteSet(S), NEW f, \A x \in S : f[x] \in Int
    PROVE  LET h == Highest({f[x] : x \in S}) IN
           h \in Int /\ \A x \in S : h >= f[x]
<1> DEFINE T == {f[x] : x \in S}
           U == T \cup {0}
<1>1. IsFiniteSet(U)
  <2>1. IsFiniteSet(T)
    BY ImageIsFinite
  <2> HIDE DEF T
  <2> QED
    BY <2>1, FS_AddElement
<1>2. U \in SUBSET Int /\ U # {} /\ \A x \in S : f[x] \in U
  OBVIOUS
<1>3. Highest(T) = Max(U)
  BY DEF Highest
<1> HIDE DEF U
<1>4. \E m \in U : \A n \in U : m >= n
  BY <1>1, <1>2, LargestExists
<1>5. Max(U) \in U /\ \A n \in U : Max(U) >= n
  BY <1>4 DEF Max
<1> QED
  BY <1>2, <1>3, <1>5

LEMMA ShareOfLimit ==
    ASSUME NEW n \in Nat, NEW limit \in Nat, limit > 0, NEW share \in Nat,
           n > share * limit
    PROVE  n \div limit \in Int /\ n \div limit >= share
<1> DEFINE q == n \div limit
           r == n % limit
<1>1. q \in Int /\ r \in 0 .. limit - 1 /\ n = limit * q + r
  OBVIOUS
<1> HIDE DEF q, r
<1>2. ASSUME q < share PROVE FALSE
  <2>1. q + 1 <= share
    BY <1>1, <1>2
  <2>2. limit * (q + 1) <= limit * share
    BY <1>1, <2>1
  <2>3. limit * (q + 1) = limit * q + limit
    BY <1>1
  <2>4. limit * q \in Int /\ limit * share = share * limit /\ share * limit \in Int
    BY <1>1
  <2> QED
    BY <1>1, <2>2, <2>3, <2>4
<1>3. q >= share
  BY <1>1, <1>2
<1> QED
  BY <1>1, <1>3 DEF q

LEMMA AboveIs ==
    ASSUME NEW value \in Int, NEW warn \in Int, NEW critical \in Int, warn <= critical
    PROVE  /\ value >= critical => Above(value, warn, critical) = "red"
           /\ value >= warn => Above(value, warn, critical) \in {"red", "yellow"}
BY DEF Above

LEMMA SomeIs ==
    ASSUME NEW some, NEW all, some # {}, some \subseteq all, IsFiniteSet(all)
    PROVE  SomeOrAll(some, all) \in {"red", "yellow"}
<1>1. IsFiniteSet(some) /\ Cardinality(some) \in Nat /\ Cardinality(some) # 0
  BY FS_Subset, FS_CardinalityType, FS_EmptySet
<1>2. IsFiniteSet(all) /\ Cardinality(all) \in Nat /\ Cardinality(all) # 0
  BY FS_CardinalityType, FS_EmptySet
<1> DEFINE critical == IF all = {} THEN 1 ELSE Cardinality(all)
<1>3. critical \in Int /\ 1 <= critical
  BY <1>2
<1> HIDE DEF critical
<1>4. Above(Cardinality(some), 1, critical) \in {"red", "yellow"}
  BY <1>1, <1>3, AboveIs
<1> QED
  BY <1>4 DEF SomeOrAll, critical

-----------------------------------------------------------------------------
(* Alerts and breaches *)

RiskType ==
    DOMAIN sheet = Figures /\ \A figure \in Figures : IsFigure(figure, sheet[figure])

LEMMA RiskTypeHolds == RiskSpec => []RiskType
<1>1. RiskInit => RiskType
  BY RiskAssumption DEF RiskInit, RiskType
<1>2. RiskType /\ [RiskNext]_riskVars => RiskType'
  <2> SUFFICES ASSUME RiskType, [RiskNext]_riskVars PROVE RiskType'
    OBVIOUS
  <2>1. CASE UNCHANGED riskVars
    BY <2>1 DEF RiskType, riskVars
  <2>2. CASE RiskNext
    <3>1. PICK figure \in DOMAIN Readings : Read(figure)
      BY <2>2 DEF RiskNext
    <3>2. PICK value \in Readings[figure] : sheet' = [sheet EXCEPT ![figure] = value]
      BY <3>1 DEF Read
    <3>3. figure \in Figures /\ IsFigure(figure, value)
      BY RiskAssumption
    <3>4. DOMAIN sheet' = Figures
      BY <3>2 DEF RiskType
    <3>5. ASSUME NEW other \in Figures PROVE IsFigure(other, sheet'[other])
      <4>1. sheet'[other] = IF other = figure THEN value ELSE sheet[other]
        BY <3>2 DEF RiskType
      <4> QED
        BY <3>3, <4>1 DEF RiskType
    <3> QED
      BY <3>4, <3>5 DEF RiskType
  <2> QED
    BY <2>1, <2>2
<1> QED
  BY <1>1, <1>2, PTL DEF RiskSpec

LEMMA SheetIs ==
    ASSUME RiskType
    PROVE  /\ sheet.kill \in BOOLEAN
           /\ IsFiniteSet(DOMAIN sheet.inventory)
           /\ \A p \in DOMAIN sheet.inventory : sheet.inventory[p] \in [size : Int, skew : Int]
           /\ sheet.limits # NoFigure =>
                 \A p \in DOMAIN sheet.limits : sheet.limits[p] \in Nat
           /\ IsFiniteSet(DOMAIN sheet.quotes)
           /\ IsFiniteSet(DOMAIN sheet.feeds)
           /\ \A f \in DOMAIN sheet.feeds :
                 sheet.feeds[f] \in [connected : BOOLEAN, staleness : Int, latency : Int]
           /\ sheet.pnl # NoFigure =>
                 sheet.pnl \in [adverse : Int, fillRate : Int, hedging : Int]
<1>1. /\ IsFigure("kill", sheet.kill) /\ IsFigure("inventory", sheet.inventory)
      /\ IsFigure("limits", sheet.limits) /\ IsFigure("quotes", sheet.quotes)
      /\ IsFigure("feeds", sheet.feeds) /\ IsFigure("pnl", sheet.pnl)
  BY DEF RiskType, Figures
<1> QED
  BY <1>1 DEF IsFigure

\* A pair beyond a share of its limit is so in the report.
LEMMA BeyondIsHigh ==
    ASSUME RiskType, NEW share \in Nat, Beyond(share) # {}
    PROVE  LET h == Highest({PctOfLimit(p) : p \in DOMAIN sheet.inventory}) IN
           h \in Int /\ h >= share
<1> DEFINE held == DOMAIN sheet.inventory
           f == [p \in held |-> PctOfLimit(p)]
<1>1. \A p \in held : AbsOf(sheet.inventory[p].size) \in Nat
  <2> SUFFICES ASSUME NEW p \in held PROVE AbsOf(sheet.inventory[p].size) \in Nat
    OBVIOUS
  <2>1. sheet.inventory[p].size \in Int
    BY SheetIs
  <2> QED
    BY <2>1 DEF AbsOf
<1>2. ASSUME NEW p \in held PROVE f[p] \in Int
  <2> DEFINE limit == IF sheet.limits # NoFigure /\ p \in DOMAIN sheet.limits
                      THEN sheet.limits[p] ELSE 100
             n == AbsOf(sheet.inventory[p].size) * 100
  <2>1. limit \in Nat /\ n \in Nat
    BY <1>1, SheetIs
  <2>2. f[p] = IF limit > 0 THEN n \div limit ELSE 0
    BY DEF PctOfLimit
  <2> HIDE DEF limit, n, f
  <2>3. limit > 0 => n \div limit \in Int
    BY <2>1
  <2> QED
    BY <2>2, <2>3
<1>3. PICK p \in Beyond(share) : TRUE
  OBVIOUS
<1>4. f[p] >= share /\ p \in held
  <2> DEFINE limit == sheet.limits[p]
             n == AbsOf(sheet.inventory[p].size) * 100
  <2>1. /\ sheet.limits # NoFigure /\ p \in held /\ p \in DOMAIN sheet.limits
        /\ limit # 0 /\ n > share * limit
    BY <1>3 DEF Beyond
  <2>2. limit \in Nat /\ n \in Nat
    BY <1>1, <2>1, SheetIs
  <2>3. f[p] = IF limit > 0 THEN n \div limit ELSE 0
    BY <2>1 DEF PctOfLimit
  <2> HIDE DEF limit, n, f
  <2>4. limit > 0
    BY <2>1, <2>2
  <2> QED
    BY <2>1, <2>2, <2>3, <2>4, ShareOfLimit
<1>5. IsFiniteSet(held)
  BY SheetIs
<1>6. {PctOfLimit(q) : q \in held} = {f[q] : q \in held}
  OBVIOUS
<1> HIDE DEF f, held
<1> DEFINE h == Highest({f[q] : q \in held})
<1>7. h \in Int /\ \A q \in held : h >= f[q]
  BY <1>2, <1>5, HighestIs
<1> HIDE DEF h
<1>8. h >= share
  BY <1>2, <1>4, <1>7
<1> QED
  BY <1>6, <1>7, <1>8 DEF h, held

LEMMA IsBreach ==
    ASSUME NEW name \in MetricNames, NEW status \in {"red", "yellow"},
           Holds(AllMetrics, Metric(name, status))
    PROVE  \E m \in Range(Breaches(AllMetrics)) : m.metric = name /\ m.status = status
<1> DEFINE b == Breaches(AllMetrics)
<1>1. Metric(name, status).metric = name /\ Metric(name, status).status = status
  BY DEF Metric
<1>2. Holds(b, Metric(name, status))
  BY <1>1, FullReport, BreachesJoin
<1> HIDE DEF b
<1>3. Metric(name, status) \in Range(b)
  BY <1>2 DEF Holds, Range
<1> QED
  BY <1>1, <1>3 DEF b

\* AlertsAreBreaches: the two sets of thresholds, kept in two files, never
\* disagree about what is wrong.
THEOREM AlertsAreInTheReport == RiskSpec => []AlertsAreBreaches
<1>1. RiskType => AlertsAreBreaches
  <2> SUFFICES ASSUME RiskType, NEW alert \in DeriveAlerts
               PROVE  \E m \in Range(Breaches(AllMetrics)) :
                         /\ m.metric = MetricOf(alert)
                         /\ alert.severity = "critical" /\ alert.id # "exchange-disconnect"
                               => m.status = "red"
    BY DEF AlertsAreBreaches
  <2> DEFINE Found(name, status) ==
                 \E m \in Range(Breaches(AllMetrics)) : m.metric = name /\ m.status = status
             Breach(name) == Found(name, "red") \/ Found(name, "yellow")
  <2>1. ASSUME sheet.kill, alert = Alert("kill-switch", "critical")
        PROVE  MetricOf(alert) = "kill_switch" /\ Found("kill_switch", "red")
    <3>1. Holds(AllMetrics, Metric("kill_switch", "red"))
      BY <2>1, ExecReport, FullReport
    <3> QED
      BY <2>1, <3>1, IsBreach DEF MetricOf, Alert, MetricNames
  <2>2. ASSUME Disconnected # {}, alert = Alert("exchange-disconnect", "critical")
        PROVE  MetricOf(alert) = "exchange_disconnects" /\ Breach("exchange_disconnects")
    <3> DEFINE s == SomeOrAll(Disconnected, DOMAIN sheet.feeds)
    <3>1. s \in {"red", "yellow"}
      BY <2>2, SomeIs, SheetIs DEF Disconnected
    <3>2. Holds(AllMetrics, Metric("exchange_disconnects", s))
      BY ExecReport, FullReport
    <3> HIDE DEF s
    <3>3. Breach("exchange_disconnects")
      BY <3>1, <3>2, IsBreach DEF MetricNames
    <3>4. MetricOf(alert) = "exchange_disconnects"
      BY <2>2 DEF MetricOf, Alert
    <3> QED
      BY <3>3, <3>4
  <2>3. ASSUME NEW f \in DOMAIN sheet.feeds, sheet.feeds[f].staleness > 2000,
               alert = Alert("feed-stale", "warning")
        PROVE  MetricOf(alert) = "feed_staleness_ms" /\ Breach("feed_staleness_ms")
    <3> DEFINE feeds == DOMAIN sheet.feeds
               g == [x \in feeds |-> sheet.feeds[x].staleness]
               h == Highest({sheet.feeds[x].staleness : x \in feeds})
    <3>1. IsFiniteSet(feeds) /\ \A x \in feeds : g[x] \in Int
      BY SheetIs
    <3>2. h = Highest({g[x] : x \in feeds})
      OBVIOUS
    <3>3. g[f] > 2000 /\ g[f] \in Int /\ f \in feeds
      BY <2>3, <3>1
    <3>4. Holds(AllMetrics, Metric("feed_staleness_ms", Above(h, 1000, 2000)))
      BY MarketReport, FullReport
    <3> HIDE DEF g, h, feeds
    <3>5. h \in Int /\ h >= g[f]
      BY <3>1, <3>2, <3>3, HighestIs
    <3>6. h >= 2000
      BY <3>3, <3>5
    <3>7. Above(h, 1000, 2000) = "red"
      BY <3>5, <3>6, AboveIs
    <3>8. Breach("feed_staleness_ms")
      BY <3>4, <3>7, IsBreach DEF MetricNames
    <3>9. MetricOf(alert) = "feed_staleness_ms"
      BY <2>3 DEF MetricOf, Alert
    <3> QED
      BY <3>8, <3>9
  <2>4. ASSUME Beyond(90) # {}, alert = Alert("inv-crit", "critical")
        PROVE  MetricOf(alert) = "position_pct_of_limit"
               /\ Found("position_pct_of_limit", "red")
    <3> DEFINE h == Highest({PctOfLimit(p) : p \in DOMAIN sheet.inventory})
    <3>1. h \in Int /\ h >= 90
      BY <2>4, BeyondIsHigh
    <3>2. Holds(AllMetrics, Metric("position_pct_of_limit", Above(h, 70, 90)))
      BY ExposureReport, FullReport
    <3> HIDE DEF h
    <3>3. Above(h, 70, 90) = "red"
      BY <3>1, AboveIs
    <3>4. Found("position_pct_of_limit", "red")
      BY <3>2, <3>3, IsBreach DEF MetricNames
    <3>5. MetricOf(alert) = "position_pct_of_limit"
      BY <2>4 DEF MetricOf, Alert
    <3> QED
      BY <3>4, <3>5
  <2>5. ASSUME Beyond(75) # {}, alert = Alert("inv-warn", "warning")
        PROVE  MetricOf(alert) = "position_pct_of_limit" /\ Breach("position_pct_of_limit")
    <3> DEFINE h == Highest({PctOfLimit(p) : p \in DOMAIN sheet.inventory})
    <3>1. h \in Int /\ h >= 75
      BY <2>5, BeyondIsHigh
    <3>2. Holds(AllMetrics, Metric("position_pct_of_limit", Above(h, 70, 90)))
      BY ExposureReport, FullReport
    <3> HIDE DEF h
    <3>3. Above(h, 70, 90) \in {"red", "yellow"}
      BY <3>1, AboveIs
    <3>4. Breach("position_pct_of_limit")
      BY <3>2, <3>3, IsBreach DEF MetricNames
    <3>5. MetricOf(alert) = "position_pct_of_limit"
      BY <2>5 DEF MetricOf, Alert
    <3> QED
      BY <3>4, <3>5
  <2>6. ASSUME sheet.pnl # NoFigure, sheet.pnl.adverse > 400,
               alert = Alert("adverse-high", "warning")
        PROVE  MetricOf(alert) = "adverse_selection_rate" /\ Breach("adverse_selection_rate")
    <3> DEFINE s == Above(sheet.pnl.adverse, 300, 500)
    <3>1. sheet.pnl.adverse \in Int
      BY <2>6, SheetIs
    <3>2. s \in {"red", "yellow"}
      BY <2>6, <3>1, AboveIs
    <3>3. Holds(AllMetrics, Metric("adverse_selection_rate", s))
      BY <2>6, PnlReport, FullReport
    <3> HIDE DEF s
    <3>4. Breach("adverse_selection_rate")
      BY <3>2, <3>3, IsBreach DEF MetricNames
    <3>5. MetricOf(alert) = "adverse_selection_rate"
      BY <2>6 DEF MetricOf, Alert
    <3> QED
      BY <3>4, <3>5
  <2>7. ASSUME sheet.pnl # NoFigure, sheet.pnl.fillRate \in 1 .. 19,
               alert = Alert("fill-low", "warning")
        PROVE  MetricOf(alert) = "fill_rate" /\ Breach("fill_rate")
    <3> DEFINE s == Below(sheet.pnl.fillRate, 50, 10)
    <3>1. -sheet.pnl.fillRate \in Int /\ -sheet.pnl.fillRate >= -50
      BY <2>7
    <3>2. s \in {"red", "yellow"}
      BY <3>1, AboveIs DEF Below
    <3>3. Holds(AllMetrics, Metric("fill_rate", s))
      BY <2>7, PnlReport, FullReport
    <3> HIDE DEF s
    <3>4. Breach("fill_rate")
      BY <3>2, <3>3, IsBreach DEF MetricNames
    <3>5. MetricOf(alert) = "fill_rate"
      BY <2>7 DEF MetricOf, Alert
    <3> QED
      BY <3>4, <3>5
  <2>8. ASSUME Paused # {}, alert = Alert("all-paused", "warning")
        PROVE  MetricOf(alert) = "paused_pairs" /\ Breach("paused_pairs")
    <3> DEFINE s == SomeOrAll(Paused, DOMAIN sheet.quotes)
    <3>1. s \in {"red", "yellow"}
      BY <2>8, SomeIs, SheetIs DEF Paused
    <3>2. Holds(AllMetrics, Metric("paused_pairs", s))
      BY ExecReport, FullReport
    <3> HIDE DEF s
    <3>3. Breach("paused_pairs")
      BY <3>1, <3>2, IsBreach DEF MetricNames
    <3>4. MetricOf(alert) = "paused_pairs"
      BY <2>8 DEF MetricOf, Alert
    <3> QED
      BY <3>3, <3>4
  <2>9. \/ sheet.kill /\ alert = Alert("kill-switch", "critical")
        \/ Disconnected # {} /\ alert = Alert("exchange-disconnect", "critical")
        \/ /\ \E f \in DOMAIN sheet.feeds : sheet.feeds[f].staleness > 2000
           /\ alert = Alert("feed-stale", "warning")
        \/ Beyond(90) # {} /\ alert = Alert("inv-crit", "critical")
        \/ Beyond(75) # {} /\ alert = Alert("inv-warn", "warning")
        \/ /\ sheet.pnl # NoFigure /\ sheet.pnl.adverse > 400
           /\ alert = Alert("adverse-high", "warning")
        \/ /\ sheet.pnl # NoFigure /\ sheet.pnl.fillRate \in 1 .. 19
           /\ alert = Alert("fill-low", "warning")
        \/ Paused # {} /\ alert = Alert("all-paused", "warning")
    BY DEF DeriveAlerts
  <2>10. /\ Alert("feed-stale", "warning").severity # "critical"
         /\ Alert("exchange-disconnect", "critical").id = "exchange-disconnect"
         /\ \A id : Alert(id, "warning").severity # "critical"
    BY DEF Alert
  <2> QED
    BY <2>1, <2>2, <2>3, <2>4, <2>5, <2>6, <2>7, <2>8, <2>9, <2>10
<1> QED
  BY <1>1, RiskTypeHolds, PTL

-----------------------------------------------------------------------------
(* Tables *)

TableSpec == TableInit /\ [][TableNext]_tableVars

TableInv ==
    /\ tableRows \in TablePages
    /\ sort \in [col : {"createdAt", "value"}, dir : {"asc", "desc"}]

LEMMA TableInvHolds == TableSpec => []TableInv
<1>1. TableInit => TableInv
  BY DEF TableInit, TableInv
<1>2. TableInv /\ [TableNext]_tableVars => TableInv'
  BY DEF TableInv, TableNext, Toggle, ReplaceRows, tableVars
<1> QED
  BY <1>1, <1>2, PTL DEF TableSpec

\* The elements of 1 .. n by how many come before them in a strict total order.
LEMMA TotalOrderRanks ==
    ASSUME NEW n \in Nat, NEW Before \in [1 .. n -> SUBSET (1 .. n)],
           \A i \in 1 .. n : i \notin Before[i],
           \A i, j \in 1 .. n : i # j => i \in Before[j] \/ j \in Before[i],
           \A i, j, k \in 1 .. n : i \in Before[j] /\ j \in Before[k] => i \in Before[k]
    PROVE  /\ \A i \in 1 .. n : Cardinality(Before[i]) \in Nat
           /\ \A i, j \in 1 .. n :
                 i \in Before[j] => Cardinality(Before[i]) < Cardinality(Before[j])
           /\ \A k \in 1 .. n : \E i \in 1 .. n : Cardinality(Before[i]) = k - 1
<1> DEFINE D == 1 .. n
           C(i) == Cardinality(Before[i])
           f == [i \in D |-> C(i) + 1]
<1>1. IsFiniteSet(D) /\ Cardinality(D) = n
  BY FS_Interval, FS_CardinalityType
<1>2. \A i \in D : Before[i] \in SUBSET D
  OBVIOUS
<1> HIDE DEF D
<1>3. ASSUME NEW i \in D PROVE IsFiniteSet(Before[i]) /\ C(i) \in Nat /\ C(i) < n
  <2>1. /\ IsFiniteSet(Before[i]) /\ C(i) \in Nat /\ C(i) <= n
        /\ Cardinality(D) = C(i) => D = Before[i]
    BY <1>1, <1>2, FS_Subset, FS_CardinalityType
  <2>2. D # Before[i]
    BY DEF D
  <2> QED
    BY <1>1, <2>1, <2>2
<1>4. ASSUME NEW i \in D, NEW j \in D, i \in Before[j] PROVE C(i) < C(j)
  <2>1. Before[i] \in SUBSET Before[j] /\ Before[i] # Before[j]
    BY <1>2, <1>4 DEF D
  <2>2. C(i) <= C(j) /\ C(i) # C(j)
    BY <1>3, <2>1, FS_Subset
  <2> QED
    BY <1>3, <2>2
<1>5. f \in Injection(D, D)
  <2>1. f \in [D -> D]
    BY <1>3 DEF D
  <2>2. ASSUME NEW i \in D, NEW j \in D, i # j PROVE f[i] # f[j]
    <3>1. C(i) \in Nat /\ C(j) \in Nat
      BY <1>3
    <3>2. C(i) < C(j) \/ C(j) < C(i)
      BY <1>4, <2>2 DEF D
    <3> HIDE DEF C
    <3> QED
      BY <3>1, <3>2
  <2> HIDE DEF f
  <2> QED
    BY <2>1, <2>2 DEF Injection, IsInjective
<1>6. f \in Surjection(D, D)
  <2> HIDE DEF f
  <2> QED
    BY <1>1, <1>5, FS_Injection
<1>7. ASSUME NEW k \in D PROVE \E i \in D : C(i) = k - 1
  <2>1. PICK i \in D : f[i] = k
    BY <1>6 DEF Surjection
  <2>2. C(i) + 1 = k /\ C(i) \in Nat
    BY <1>3, <2>1
  <2> HIDE DEF C
  <2> QED
    BY <2>2
<1> QED
  BY <1>3, <1>4, <1>7 DEF D

\* Which places of a page come before which, in the order selected.
OrderedBefore(v, i, j) ==
    \/ v[i] # NoValue /\ v[j] = NoValue
    \/ /\ v[i] # NoValue /\ v[j] # NoValue
       /\ IF sort.dir = "asc" THEN v[i] < v[j] ELSE v[i] > v[j]
    \/ v[i] = v[j] /\ i < j

\* A table shows the rows of its page, each once, in the order selected.
THEOREM TablesShowTheirPages == TableSpec => []TableShowsPage
<1>1. TableInv => TableShowsPage
  <2> SUFFICES ASSUME TableInv PROVE TableShowsPage
    OBVIOUS
  <2> DEFINE n == Len(tableRows)
             D == 1 .. n
             v == [i \in D |-> tableRows[i][sort.col]]
             B(i) == {j \in D : \/ Precedes(tableRows[j], tableRows[i])
                                \/ ~Precedes(tableRows[i], tableRows[j]) /\ j < i}
             Before == [i \in D |-> B(i)]
             at == [k \in D |-> CHOOSE i \in D : Cardinality(B(i)) = k - 1]
             shown == Sorted(tableRows)
  <2>1. /\ n \in Nat /\ DOMAIN tableRows = D
        /\ \A i \in D : tableRows[i] \in Rows
    <3>1. tableRows \in Seq(Rows)
      BY TableAssumption DEF TableInv
    <3> QED
      BY <3>1, LenProperties, ElementOfSeq
  <2>2. \A i \in D : v[i] \in Int \cup {NoValue}
    <3>1. sort.col = "createdAt" \/ sort.col = "value"
      BY DEF TableInv
    <3> QED
      BY <2>1, <3>1 DEF Rows
  <2>3. NoValue \notin Int /\ \A i \in D : i \in Int
    BY <2>1, TableAssumption
  <2>4. \A i, j \in D : Precedes(tableRows[i], tableRows[j]) <=>
            \/ v[i] # NoValue /\ v[j] = NoValue
            \/ /\ v[i] # NoValue /\ v[j] # NoValue
               /\ IF sort.dir = "asc" THEN v[i] < v[j] ELSE v[i] > v[j]
    BY DEF Precedes
  <2>5. \A i, j \in D : j \in B(i) <=> OrderedBefore(v, j, i)
    <3> SUFFICES ASSUME NEW i \in D, NEW j \in D
                 PROVE  \/ Precedes(tableRows[j], tableRows[i])
                        \/ ~Precedes(tableRows[i], tableRows[j]) /\ j < i
                        <=> OrderedBefore(v, j, i)
      OBVIOUS
    <3> HIDE DEF v, D
    <3>1. /\ v[i] \in Int \cup {NoValue} /\ v[j] \in Int \cup {NoValue}
          /\ i \in Int /\ j \in Int
      BY <2>2, <2>3
    <3>2. CASE sort.dir = "asc"
      BY <2>3, <2>4, <3>1, <3>2 DEF OrderedBefore
    <3>3. CASE sort.dir # "asc"
      BY <2>3, <2>4, <3>1, <3>3 DEF OrderedBefore
    <3> QED
      BY <3>2, <3>3
  <2>6. \A i \in D : B(i) = Before[i] /\ B(i) \in SUBSET D
    OBVIOUS
  <2>7. Before \in [D -> SUBSET D]
    OBVIOUS
  <2>8. shown = [k \in D |-> tableRows[at[k]]] /\ DOMAIN shown = D
    BY <2>1 DEF Sorted
  <2> HIDE DEF v, B, Before, shown
  <2>9. /\ \A i \in D : i \notin Before[i]
        /\ \A i, j \in D : i # j => i \in Before[j] \/ j \in Before[i]
        /\ \A i, j, k \in D : i \in Before[j] /\ j \in Before[k] => i \in Before[k]
    <3> HIDE DEF D
    <3>1. \A i, j \in D : j \in Before[i] <=> OrderedBefore(v, j, i)
      BY <2>5, <2>6
    <3>2. CASE sort.dir = "asc"
      <4>1. \A i, j \in D : OrderedBefore(v, j, i) <=>
               \/ v[j] # NoValue /\ v[i] = NoValue
               \/ v[j] # NoValue /\ v[i] # NoValue /\ v[j] < v[i]
               \/ v[j] = v[i] /\ j < i
        BY <3>2 DEF OrderedBefore
      <4> QED
        BY <2>2, <2>3, <3>1, <4>1
    <3>3. CASE sort.dir # "asc"
      <4>1. \A i, j \in D : OrderedBefore(v, j, i) <=>
               \/ v[j] # NoValue /\ v[i] = NoValue
               \/ v[j] # NoValue /\ v[i] # NoValue /\ v[j] > v[i]
               \/ v[j] = v[i] /\ j < i
        BY <3>3 DEF OrderedBefore
      <4> QED
        BY <2>2, <2>3, <3>1, <4>1
    <3> QED
      BY <3>2, <3>3
  <2>10. /\ \A i \in D : Cardinality(Before[i]) \in Nat
         /\ \A i, j \in D :
               i \in Before[j] => Cardinality(Before[i]) < Cardinality(Before[j])
         /\ \A k \in D : \E i \in D : Cardinality(Before[i]) = k - 1
    BY <2>1, <2>7, <2>9, TotalOrderRanks
  <2>11. ASSUME NEW k \in D
         PROVE  at[k] \in D /\ Cardinality(Before[at[k]]) = k - 1
    <3>1. \E i \in D : Cardinality(B(i)) = k - 1
      BY <2>6, <2>10
    <3>2. at[k] \in D /\ Cardinality(B(at[k])) = k - 1
      <4> HIDE DEF D
      <4> QED
        BY <3>1
    <3> QED
      BY <2>6, <3>2
  <2>12. at \in [D -> D] /\ DOMAIN at = D
    <3> HIDE DEF D
    <3> QED
      BY <2>11
  <2> HIDE DEF at
  <2>13. ASSUME NEW k \in D, NEW l \in D, k < l
         PROVE  at[k] # at[l] /\ OrderedBefore(v, at[k], at[l])
    <3>1. k \in Int /\ l \in Int
      BY <2>3
    <3>2. /\ at[k] \in D /\ Cardinality(Before[at[k]]) = k - 1
          /\ at[l] \in D /\ Cardinality(Before[at[l]]) = l - 1
      BY <2>11
    <3>3. at[k] # at[l]
      BY <2>13, <3>1, <3>2
    <3>4. at[l] \notin Before[at[k]]
      <4>1. ~ (Cardinality(Before[at[l]]) < Cardinality(Before[at[k]]))
        BY <2>13, <3>1, <3>2
      <4> QED
        BY <2>10, <3>2, <4>1
    <3> HIDE DEF D
    <3>5. at[k] \in Before[at[l]]
      BY <2>9, <3>2, <3>3, <3>4
    <3> QED
      BY <2>5, <2>6, <3>2, <3>3, <3>5
  <2>14. IsInjective(at)
    <3> SUFFICES ASSUME NEW k \in D, NEW l \in D, k # l PROVE at[k] # at[l]
      BY <2>12 DEF IsInjective
    <3>1. k < l \/ l < k
      BY <2>3
    <3> QED
      BY <2>13, <3>1
  <2>15. \A k \in D : shown[k] = tableRows[at[k]] /\ shown[k][sort.col] = v[at[k]]
    <3>1. \A k \in D : shown[k] = tableRows[at[k]]
      BY <2>8
    <3>2. \A i \in D : v[i] = tableRows[i][sort.col]
      BY DEF v
    <3> QED
      BY <2>11, <3>1, <3>2
  <2>16. ASSUME NEW k \in D, NEW l \in D, k < l
         PROVE  LET a == shown[k][sort.col]
                    b == shown[l][sort.col]
                IN \/ a = b /\ at[k] < at[l]
                   \/ a # NoValue /\ b = NoValue
                   \/ /\ NoValue \notin {a, b}
                      /\ IF sort.dir = "asc" THEN a < b ELSE a > b
    BY <2>13, <2>15, <2>16 DEF OrderedBefore
  <2> HIDE DEF D
  <2> QED
    BY <2>1, <2>8, <2>12, <2>14, <2>15, <2>16 DEF TableShowsPage, shown
<1> QED
  BY <1>1, TableInvHolds, PTL

-----------------------------------------------------------------------------
(* The lookups *)

FoundPlaces == UNION {LookupOf[key] : key \in Keys}

Lookups == [busy : BOOLEAN, fresh : BOOLEAN, url : Keys \cup {NoPlace},
            data : FoundPlaces \cup {NoPlace}]

\* An answer that is kept under an address was found for that address.
GeoInv ==
    /\ network \in Maps
    /\ lookups \in [Keys -> Lookups]
    /\ \A key \in Keys :
          /\ lookups[key].busy => lookups[key].url = key
          /\ lookups[key].data # NoPlace => lookups[key].data \in LookupOf[key]

GeoSpec == GeoInit /\ [][GeoNext]_geoVars

LEMMA UrlsAreKeys ==
    ASSUME network \in Maps
    PROVE  /\ Dashboard.url \in Keys
           /\ \A service \in Range(Services(network)) : service.url \in Keys
<1> DEFINE All == (UNION {Range(Services(t)) : t \in Maps}) \cup {Dashboard}
<1>1. Dashboard \in All /\ \A service \in Range(Services(network)) : service \in All
  OBVIOUS
<1>2. \A service \in All : service.url \in {service.id, service.url}
  OBVIOUS
<1>3. Keys = UNION {{service.id, service.url} : service \in All}
  BY DEF Keys
<1> HIDE DEF All
<1>4. \A service \in All : service.url \in Keys
  BY <1>2, <1>3
<1> QED
  BY <1>1, <1>4

LEMMA GeoInvHolds == GeoSpec => []GeoInv
<1>1. GeoInit => GeoInv
  BY DEF GeoInit, GeoInv, NoLookup, Lookups
<1>2. GeoInv /\ [GeoNext]_geoVars => GeoInv'
  <2> SUFFICES ASSUME GeoInv, [GeoNext]_geoVars PROVE GeoInv'
    OBVIOUS
  <2>1. CASE UNCHANGED geoVars
    BY <2>1 DEF GeoInv, geoVars
  <2>2. CASE ShowTopology
    BY <2>2 DEF GeoInv, ShowTopology
  \* One lookup changes.
  <2>3. ASSUME NEW key \in Keys, NEW new \in Lookups, UNCHANGED network,
               lookups' = [lookups EXCEPT ![key] = new],
               new.busy => new.url = key,
               new.data # NoPlace => new.data \in LookupOf[key]
        PROVE  GeoInv'
    <3>1. lookups' \in [Keys -> Lookups]
      BY <2>3 DEF GeoInv
    <3>2. \A k \in Keys : lookups'[k] = IF k = key THEN new ELSE lookups[k]
      BY <2>3 DEF GeoInv
    <3> QED
      BY <2>3, <3>1, <3>2 DEF GeoInv
  <2>4. ASSUME NEW service \in Wanted, Ask(service) PROVE GeoInv'
    <3> DEFINE key == service.url
               new == [lookups[key] EXCEPT !.busy = TRUE, !.url = key]
    <3>1. key \in Keys
      BY UrlsAreKeys DEF GeoInv, Wanted
    <3>2. lookups[key] \in Lookups
          /\ (lookups[key].data # NoPlace => lookups[key].data \in LookupOf[key])
      BY <3>1 DEF GeoInv
    <3>3. lookups' = [lookups EXCEPT ![key] = new] /\ UNCHANGED network
      BY <2>4, <3>1, <3>2 DEF GeoInv, Ask, KeyOf
    <3>4. new \in Lookups /\ new.url = key /\ new.data = lookups[key].data
      BY <3>1, <3>2 DEF Lookups
    <3> HIDE DEF new, key
    <3> QED
      BY <2>3, <3>1, <3>2, <3>3, <3>4
  <2>5. ASSUME NEW key \in Keys, Answer(key) PROVE GeoInv'
    <3>1. PICK place \in LookupOf[lookups[key].url] \cup {NoPlace} :
             lookups' = [lookups EXCEPT
                            ![key] = [NoLookup EXCEPT !.fresh = TRUE, !.data = place]]
      BY <2>5 DEF Answer
    <3> DEFINE new == [NoLookup EXCEPT !.fresh = TRUE, !.data = place]
    <3>2. lookups[key].url = key
      BY <2>5 DEF GeoInv, Answer
    <3>3. new \in Lookups /\ ~new.busy /\ new.data = place
      BY <3>1, <3>2 DEF NoLookup, Lookups, FoundPlaces
    <3>4. lookups' = [lookups EXCEPT ![key] = new]
      BY <3>1
    <3>5. UNCHANGED network
      BY <2>5 DEF Answer
    <3>6. new.data # NoPlace => new.data \in LookupOf[key]
      BY <3>1, <3>2, <3>3
    <3> HIDE DEF new
    <3> QED
      BY <2>3, <3>3, <3>4, <3>5, <3>6
  <2>6. ASSUME NEW key \in Keys, Outdate(key) PROVE GeoInv'
    <3>1. PICK data \in {lookups[key].data, NoPlace} :
             lookups' = [lookups EXCEPT ![key] = [NoLookup EXCEPT !.data = data]]
      BY <2>6 DEF Outdate
    <3> DEFINE new == [NoLookup EXCEPT !.data = data]
    <3>2. data # NoPlace => data \in LookupOf[key]
      BY <3>1 DEF GeoInv
    <3>3. new \in Lookups /\ ~new.busy /\ new.data = data
      BY <3>1, <3>2 DEF NoLookup, Lookups, FoundPlaces
    <3> HIDE DEF new
    <3> QED
      BY <2>3, <2>6, <3>1, <3>2, <3>3 DEF Outdate, new
  <2> QED
    BY <2>1, <2>2, <2>4, <2>5, <2>6 DEF GeoNext
<1> QED
  BY <1>1, <1>2, PTL DEF GeoSpec

-----------------------------------------------------------------------------
(* The markers *)

\* One list behind another.
LEMMA Joined ==
    ASSUME NEW S, NEW s \in Seq(S), NEW t \in Seq(S)
    PROVE  LET both == s \o t IN
           /\ both \in Seq(S) /\ Len(both) = Len(s) + Len(t)
           /\ Len(s) \in Nat /\ Len(t) \in Nat
           /\ \A i \in 1 .. Len(s) : both[i] = s[i]
           /\ \A i \in 1 .. Len(t) : both[Len(s) + i] = t[i]
<1> DEFINE both == s \o t
<1>1. /\ both \in Seq(S) /\ Len(both) = Len(s) + Len(t)
      /\ \A i \in 1 .. Len(s) + Len(t) :
            both[i] = IF i <= Len(s) THEN s[i] ELSE t[i - Len(s)]
  BY ConcatProperties
<1> HIDE DEF both
<1>2. Len(s) \in Nat /\ Len(t) \in Nat
  BY LenProperties
<1>3. ASSUME NEW i \in 1 .. Len(s) PROVE both[i] = s[i]
  <2>1. i \in 1 .. Len(s) + Len(t) /\ i <= Len(s)
    BY <1>2
  <2> QED
    BY <1>1, <2>1
<1>4. ASSUME NEW i \in 1 .. Len(t) PROVE both[Len(s) + i] = t[i]
  <2>1. /\ Len(s) + i \in 1 .. Len(s) + Len(t) /\ ~ (Len(s) + i <= Len(s))
        /\ Len(s) + i - Len(s) = i
    BY <1>2
  <2> QED
    BY <1>1, <2>1
<1> QED
  BY <1>1, <1>2, <1>3, <1>4 DEF both

\* Two lists with an element between them and one behind.
LEMMA FourLists ==
    ASSUME NEW S, NEW K \in Seq(S), NEW e \in S, NEW B \in Seq(S), NEW d \in S
    PROVE  LET u == K \o <<e>> \o B \o <<d>> IN
           /\ u \in Seq(S) /\ DOMAIN u = 1 .. Len(K) + Len(B) + 2
           /\ Len(K) \in Nat /\ Len(B) \in Nat
           /\ \A i \in 1 .. Len(K) : u[i] = K[i]
           /\ u[Len(K) + 1] = e
           /\ \A i \in 1 .. Len(B) : u[Len(K) + 1 + i] = B[i]
           /\ u[Len(K) + Len(B) + 2] = d
<1> DEFINE one == <<e>>
           two == <<d>>
           Ke == K \o one
           KeB == Ke \o B
           u == KeB \o two
<1>1. one \in Seq(S) /\ two \in Seq(S)
  OBVIOUS
<1>2. Len(one) = 1 /\ one[1] = e /\ Len(two) = 1 /\ two[1] = d
  OBVIOUS
<1> HIDE DEF one, two
<1>3. /\ Ke \in Seq(S) /\ Len(Ke) = Len(K) + Len(one) /\ Len(K) \in Nat
      /\ \A i \in 1 .. Len(K) : Ke[i] = K[i]
      /\ \A i \in 1 .. Len(one) : Ke[Len(K) + i] = one[i]
  BY <1>1, Joined
<1>4. Ke \in Seq(S)
  BY <1>3
<1> HIDE DEF Ke
<1>5. /\ KeB \in Seq(S) /\ Len(KeB) = Len(Ke) + Len(B) /\ Len(B) \in Nat
      /\ \A i \in 1 .. Len(Ke) : KeB[i] = Ke[i]
      /\ \A i \in 1 .. Len(B) : KeB[Len(Ke) + i] = B[i]
  BY <1>4, Joined
<1>6. KeB \in Seq(S)
  BY <1>5
<1> HIDE DEF KeB
<1>7. /\ u \in Seq(S) /\ Len(u) = Len(KeB) + Len(two)
      /\ \A i \in 1 .. Len(KeB) : u[i] = KeB[i]
      /\ \A i \in 1 .. Len(two) : u[Len(KeB) + i] = two[i]
  BY <1>1, <1>6, Joined
<1> HIDE DEF u
<1>8. /\ Len(K) \in Nat /\ Len(B) \in Nat
      /\ Len(Ke) = Len(K) + 1 /\ Len(KeB) = Len(K) + 1 + Len(B)
      /\ Len(u) = Len(K) + Len(B) + 2
  BY <1>2, <1>3, <1>5, <1>7
<1>9. DOMAIN u = 1 .. Len(K) + Len(B) + 2
  BY <1>7, <1>8, LenProperties
<1>10. ASSUME NEW i \in 1 .. Len(K) PROVE u[i] = K[i]
  <2>1. i \in 1 .. Len(Ke) /\ i \in 1 .. Len(KeB)
    BY <1>8
  <2> QED
    BY <1>3, <1>5, <1>7, <2>1
<1>11. u[Len(K) + 1] = e
  <2>1. /\ Len(K) + 1 \in 1 .. Len(Ke) /\ Len(K) + 1 \in 1 .. Len(KeB)
        /\ 1 \in 1 .. Len(one)
    BY <1>2, <1>8
  <2> QED
    BY <1>2, <1>3, <1>5, <1>7, <2>1
<1>12. ASSUME NEW i \in 1 .. Len(B) PROVE u[Len(K) + 1 + i] = B[i]
  <2>1. Len(Ke) + i \in 1 .. Len(KeB) /\ Len(Ke) + i = Len(K) + 1 + i
    BY <1>8
  <2>2. KeB[Len(Ke) + i] = B[i]
    BY <1>5
  <2>3. u[Len(Ke) + i] = KeB[Len(Ke) + i]
    BY <1>7, <2>1
  <2> QED
    BY <2>1, <2>2, <2>3
<1>13. u[Len(K) + Len(B) + 2] = d
  <2>1. Len(KeB) + 1 = Len(K) + Len(B) + 2 /\ 1 \in 1 .. Len(two)
    BY <1>2, <1>8
  <2> QED
    BY <1>2, <1>7, <2>1
<1> QED
  BY <1>7, <1>8, <1>9, <1>10, <1>11, <1>12, <1>13 DEF u, KeB, Ke, one, two

At(kind, service) == Marker(kind, service.id, PlaceOf(service))

DashboardMarker ==
    Marker("dashboard", "dashboard", Or(ExplicitDashboard, InferredDashboard))

\* The exchanges that are known, as markers; the bots, as markers.
KnownMarkers ==
    LET known == SetToSeq(KnownExchanges)
    IN [i \in DOMAIN known |-> Marker("exchange", known[i], known[i])]

BotMarkers == [i \in DOMAIN network.bots |-> At("bot", network.bots[i])]

\* All markers, those without a place included, and the positions of the others.
Listed ==
    KnownMarkers \o <<At("simulated-exchange", network.exchange)>> \o BotMarkers
    \o <<DashboardMarker>>

Placed == {i \in DOMAIN Listed : Listed[i].place # NoPlace}

NumKnown == Cardinality(KnownExchanges)
NumBots == Len(network.bots)

\* The exchanges are listed by some enumeration of them.
LEMMA KnownAreListed ==
    /\ NumKnown \in Nat /\ DOMAIN KnownMarkers = 1 .. NumKnown
    /\ \A i \in 1 .. NumKnown :
          \E place \in KnownExchanges :
             KnownMarkers[i] = Marker("exchange", place, place)
<1> DEFINE known == SetToSeq(KnownExchanges)
           Named == [1 .. NumKnown -> KnownExchanges]
<1>1. NumKnown \in Nat /\ ExistsBijection(1 .. NumKnown, KnownExchanges)
  BY GeoAssumption, FS_CardinalityType DEF NumKnown
<1>2. \E f \in Named : IsInjective(f)
  <2>1. Bijection(1 .. NumKnown, KnownExchanges) # {}
    BY <1>1, Fun_ExistsBij
  <2>2. PICK f \in Bijection(1 .. NumKnown, KnownExchanges) : TRUE
    BY <2>1
  <2>3. f \in Injection(1 .. NumKnown, KnownExchanges)
    BY <2>2 DEF Bijection
  <2> QED
    BY <2>3 DEF Injection
<1>3. known = CHOOSE f \in Named : IsInjective(f)
  BY DEF SetToSeq, NumKnown
<1>4. known \in Named
  <2> HIDE DEF Named
  <2> QED
    BY <1>2, <1>3
<1>5. KnownMarkers = [i \in DOMAIN known |-> Marker("exchange", known[i], known[i])]
  BY DEF KnownMarkers
<1> HIDE DEF known
<1> QED
  BY <1>1, <1>4, <1>5

\* What is listed at each position.
LEMMA WhatIsListed ==
    ASSUME network \in Maps
    PROVE  /\ NumKnown \in Nat /\ NumBots \in Nat
           /\ DOMAIN network.bots = 1 .. NumBots
           /\ Listed \in Seq(Range(Listed))
           /\ DOMAIN Listed = 1 .. NumKnown + NumBots + 2
           /\ \A i \in 1 .. NumKnown :
                 \E place \in KnownExchanges :
                    Listed[i] = Marker("exchange", place, place)
           /\ Listed[NumKnown + 1] = At("simulated-exchange", network.exchange)
           /\ \A i \in 1 .. NumBots :
                 Listed[NumKnown + 1 + i] = At("bot", network.bots[i])
           /\ Listed[NumKnown + NumBots + 2] = DashboardMarker
<1> DEFINE e == At("simulated-exchange", network.exchange)
           S == {KnownMarkers[i] : i \in 1 .. NumKnown} \cup {e, DashboardMarker}
                \cup {BotMarkers[i] : i \in 1 .. NumBots}
<1>1. /\ NumBots \in Nat /\ DOMAIN network.bots = 1 .. NumBots
  <2>1. network.bots \in Seq(Range(network.bots))
    BY GeoAssumption
  <2> QED
    BY <2>1, LenProperties DEF NumBots
<1>2. KnownMarkers \in Seq(S) /\ Len(KnownMarkers) = NumKnown
  <2>1. KnownMarkers \in [1 .. NumKnown -> S]
    <3>1. KnownMarkers = [i \in DOMAIN KnownMarkers |-> KnownMarkers[i]]
      BY DEF KnownMarkers
    <3>2. \A i \in 1 .. NumKnown : KnownMarkers[i] \in S
      OBVIOUS
    <3> HIDE DEF S
    <3> QED
      BY <3>1, <3>2, KnownAreListed
  <2>2. NumKnown \in Nat
    BY KnownAreListed
  <2> HIDE DEF S
  <2>3. KnownMarkers \in Seq(S)
    BY <2>1, <2>2, SeqDef
  <2> QED
    BY <2>1, <2>2, <2>3, LenProperties
<1>3. BotMarkers \in Seq(S) /\ Len(BotMarkers) = NumBots
  <2>1. BotMarkers \in [1 .. NumBots -> S]
    <3>1. BotMarkers = [i \in 1 .. NumBots |-> BotMarkers[i]]
      BY <1>1 DEF BotMarkers
    <3>2. \A i \in 1 .. NumBots : BotMarkers[i] \in S
      OBVIOUS
    <3> HIDE DEF S
    <3> QED
      BY <3>1, <3>2
  <2> HIDE DEF S
  <2>2. BotMarkers \in Seq(S)
    BY <1>1, <2>1, SeqDef
  <2> QED
    BY <1>1, <2>1, <2>2, LenProperties
<1>4. e \in S /\ DashboardMarker \in S
  OBVIOUS
<1>5. Listed = KnownMarkers \o <<e>> \o BotMarkers \o <<DashboardMarker>>
  BY DEF Listed
<1> HIDE DEF S, e
<1>6. /\ Listed \in Seq(S) /\ DOMAIN Listed = 1 .. NumKnown + NumBots + 2
      /\ \A i \in 1 .. NumKnown : Listed[i] = KnownMarkers[i]
      /\ Listed[NumKnown + 1] = e
      /\ \A i \in 1 .. NumBots : Listed[NumKnown + 1 + i] = BotMarkers[i]
      /\ Listed[NumKnown + NumBots + 2] = DashboardMarker
  <2>1. KnownMarkers \in Seq(S) /\ BotMarkers \in Seq(S) /\ e \in S /\ DashboardMarker \in S
    BY <1>2, <1>3, <1>4
  <2> DEFINE all == KnownMarkers \o <<e>> \o BotMarkers \o <<DashboardMarker>>
  <2>2. /\ all \in Seq(S)
        /\ DOMAIN all = 1 .. Len(KnownMarkers) + Len(BotMarkers) + 2
        /\ \A i \in 1 .. Len(KnownMarkers) : all[i] = KnownMarkers[i]
        /\ all[Len(KnownMarkers) + 1] = e
        /\ \A i \in 1 .. Len(BotMarkers) : all[Len(KnownMarkers) + 1 + i] = BotMarkers[i]
        /\ all[Len(KnownMarkers) + Len(BotMarkers) + 2] = DashboardMarker
    BY <2>1, FourLists
  <2>3. all = Listed
    BY <1>5
  <2> HIDE DEF all
  <2> QED
    BY <1>2, <1>3, <2>2, <2>3
<1>7. Listed \in Seq(Range(Listed))
  <2>1. Len(Listed) \in Nat /\ DOMAIN Listed = 1 .. Len(Listed)
        /\ Listed \in [1 .. Len(Listed) -> S]
    BY <1>6, LenProperties
  <2>2. Listed \in [1 .. Len(Listed) -> Range(Listed)]
    BY <2>1 DEF Range
  <2> QED
    BY <2>1, <2>2, SeqDef
<1>8. \A i \in 1 .. NumBots : BotMarkers[i] = At("bot", network.bots[i])
  BY <1>1 DEF BotMarkers
<1> QED
  BY <1>1, <1>6, <1>7, <1>8, KnownAreListed DEF e

\* The markers are what is listed at the positions with a place.
LEMMA MarkersArePlaced ==
    ASSUME network \in Maps
    PROVE  /\ IsFiniteSet(DOMAIN Markers)
           /\ DOMAIN Markers \subseteq Nat
           /\ \A i \in DOMAIN Markers :
                 Nth(Placed, i) \in Placed /\ Markers[i] = Listed[Nth(Placed, i)]
           /\ \A i, j \in DOMAIN Markers : Nth(Placed, i) = Nth(Placed, j) => i = j
           /\ \A p \in Placed : \E i \in DOMAIN Markers : Nth(Placed, i) = p
<1>1. Markers = ElementsAt(Listed, Placed)
  BY DEF Markers, Listed, Placed, At, KnownMarkers, BotMarkers, DashboardMarker
<1>2. Placed \in SUBSET DOMAIN Listed
  BY DEF Placed
<1>3. Listed \in Seq(Range(Listed))
  BY WhatIsListed
<1>4. /\ Cardinality(Placed) \in Nat
      /\ Markers \in Seq(Range(Listed)) /\ Len(Markers) = Cardinality(Placed)
      /\ \A n \in 1 .. Cardinality(Placed) :
            Nth(Placed, n) \in Placed /\ Markers[n] = Listed[Nth(Placed, n)]
      /\ \A m, n \in 1 .. Cardinality(Placed) : Nth(Placed, m) = Nth(Placed, n) => m = n
      /\ \A i \in Placed : \E n \in 1 .. Cardinality(Placed) : Nth(Placed, n) = i
  BY <1>1, <1>2, <1>3, ElementsAtProperties
<1>5. DOMAIN Markers = 1 .. Cardinality(Placed)
  BY <1>4, LenProperties
<1>6. IsFiniteSet(1 .. Cardinality(Placed))
  BY <1>4, FS_Interval
<1> QED
  BY <1>4, <1>5, <1>6

\* A position is that of a known exchange, of the simulated one, of a bot or of
\* the dashboard.
LEMMA PlacedPositions ==
    ASSUME network \in Maps, NEW p \in Placed
    PROVE  /\ Listed[p].place # NoPlace
           /\ \/ \E place \in KnownExchanges : Listed[p] = Marker("exchange", place, place)
              \/ /\ p = NumKnown + 1
                 /\ Listed[p] = At("simulated-exchange", network.exchange)
              \/ \E i \in 1 .. NumBots :
                    /\ p = NumKnown + 1 + i
                    /\ Listed[p] = At("bot", network.bots[i])
              \/ p = NumKnown + NumBots + 2 /\ Listed[p] = DashboardMarker
<1>1. p \in 1 .. NumKnown + NumBots + 2 /\ Listed[p].place # NoPlace
  BY WhatIsListed DEF Placed
<1>2. NumKnown \in Nat /\ NumBots \in Nat
  BY WhatIsListed
<1>3. \/ p \in 1 .. NumKnown
      \/ p = NumKnown + 1
      \/ p - NumKnown - 1 \in 1 .. NumBots /\ p = NumKnown + 1 + (p - NumKnown - 1)
      \/ p = NumKnown + NumBots + 2
  BY <1>1, <1>2
<1>4. CASE p \in 1 .. NumKnown
  BY <1>1, <1>4, WhatIsListed
<1>5. CASE p = NumKnown + 1
  BY <1>1, <1>5, WhatIsListed
<1>6. CASE p - NumKnown - 1 \in 1 .. NumBots /\ p = NumKnown + 1 + (p - NumKnown - 1)
  <2> DEFINE i == p - NumKnown - 1
  <2>1. i \in 1 .. NumBots /\ p = NumKnown + 1 + i
    BY <1>6
  <2> HIDE DEF i
  <2>2. Listed[p] = At("bot", network.bots[i])
    BY <2>1, WhatIsListed
  <2> QED
    BY <1>1, <2>1, <2>2
<1>7. CASE p = NumKnown + NumBots + 2
  BY <1>1, <1>7, WhatIsListed
<1> QED
  BY <1>3, <1>4, <1>5, <1>6, <1>7

\* The services by their positions in the topology.
LEMMA ServicesByPosition ==
    ASSUME network \in Maps
    PROVE  LET all == Services(network) IN
           /\ DOMAIN all = 1 .. NumBots + 1
           /\ \A i \in 1 .. NumBots : all[i] = network.bots[i]
           /\ all[NumBots + 1] = network.exchange
           /\ \A i, j \in 1 .. NumBots + 1 : all[i].id = all[j].id => i = j
           /\ \A i \in 1 .. NumBots + 1 :
                 all[i].id \notin KnownExchanges \cup {"dashboard"}
<1> DEFINE S == Range(network.bots) \cup {network.exchange}
           all == Services(network)
<1>1. network.bots \in Seq(Range(network.bots))
  BY GeoAssumption
<1>2. NumBots \in Nat /\ DOMAIN network.bots = 1 .. NumBots
  BY WhatIsListed
<1>3. network.bots \in Seq(S)
  <2>1. /\ Len(network.bots) = NumBots
        /\ network.bots \in [1 .. NumBots -> Range(network.bots)]
    BY <1>1, <1>2, LenProperties DEF NumBots
  <2>2. network.bots \in [1 .. NumBots -> S]
    BY <2>1
  <2> HIDE DEF S
  <2> QED
    BY <1>2, <2>2, SeqDef
<1>4. network.exchange \in S
  OBVIOUS
<1> HIDE DEF S
<1>5. /\ all \in Seq(S) /\ Len(all) = NumBots + 1
      /\ \A i \in 1 .. NumBots : all[i] = network.bots[i]
      /\ all[NumBots + 1] = network.exchange
  BY <1>3, <1>4, AppendProperties DEF Services, NumBots
<1>6. DOMAIN all = 1 .. NumBots + 1
  BY <1>2, <1>5, LenProperties
<1>7. \A i \in DOMAIN all :
         /\ all[i].id \notin KnownExchanges \cup {"dashboard"}
         /\ \A j \in DOMAIN all : all[i].id = all[j].id => i = j
  BY GeoAssumption
<1> HIDE DEF all
<1> QED
  BY <1>5, <1>6, <1>7 DEF all

\* A place that a service has no say in was found for its address.
LEMMA PlacesAreFound ==
    ASSUME GeoInv, NEW service \in Range(Services(network)), PlaceOf(service) # NoPlace
    PROVE  \/ PlaceOf(service) = service.place
           \/ service.place = NoPlace /\ PlaceOf(service) \in LookupOf[service.url]
<1>1. service.url \in Keys
  BY UrlsAreKeys DEF GeoInv
<1> QED
  BY <1>1 DEF GeoInv, PlaceOf, Or, KeyOf

\* Every marker is where its service is, also when the answer to a lookup is late.
THEOREM MarkersAreWhereServicesAre == GeoSpec => []MarkersFollowTopology
<1>1. GeoInv => MarkersFollowTopology
  <2> SUFFICES ASSUME GeoInv PROVE MarkersFollowTopology
    OBVIOUS
  <2>1. network \in Maps
    BY DEF GeoInv
  <2>2. ASSUME NEW service \in Range(Services(network)), NEW n \in DOMAIN Markers,
               Markers[n].id = service.id
        PROVE  \/ Markers[n].place = service.place
               \/ service.place = NoPlace /\ Markers[n].place \in LookupOf[service.url]
    <3> DEFINE p == Nth(Placed, n)
               all == Services(network)
    <3>1. p \in Placed /\ Markers[n] = Listed[p]
      BY <2>1, MarkersArePlaced
    <3>2. PICK s \in 1 .. NumBots + 1 : service = all[s]
      BY <2>1, ServicesByPosition DEF Range
    <3> HIDE DEF p
    <3>3. /\ Listed[p].place # NoPlace
          /\ \/ \E place \in KnownExchanges :
                   Listed[p] = Marker("exchange", place, place)
             \/ Listed[p] = At("simulated-exchange", network.exchange)
             \/ \E i \in 1 .. NumBots : Listed[p] = At("bot", network.bots[i])
             \/ Listed[p] = DashboardMarker
      BY <2>1, <3>1, PlacedPositions
    <3>4. service.id \notin KnownExchanges \cup {"dashboard"}
      BY <2>1, <3>2, ServicesByPosition
    <3>5. NumBots \in Nat
      BY <2>1, WhatIsListed
    <3>6. /\ \A i \in 1 .. NumBots : all[i] = network.bots[i]
          /\ all[NumBots + 1] = network.exchange
          /\ \A i, j \in 1 .. NumBots + 1 : all[i].id = all[j].id => i = j
      BY <2>1, ServicesByPosition
    <3> HIDE DEF all
    <3>7. Listed[p].id = service.id
      BY <2>2, <3>1
    <3>8. Listed[p].place = PlaceOf(service)
      <4>1. CASE \E place \in KnownExchanges :
                    Listed[p] = Marker("exchange", place, place)
        BY <3>4, <3>7, <4>1 DEF Marker
      <4>2. CASE Listed[p] = At("simulated-exchange", network.exchange)
        <5>1. all[NumBots + 1].id = all[s].id /\ NumBots + 1 \in 1 .. NumBots + 1
          BY <3>2, <3>5, <3>6, <3>7, <4>2 DEF At, Marker
        <5>2. service = network.exchange
          BY <3>2, <3>6, <5>1
        <5> QED
          BY <4>2, <5>2 DEF At, Marker
      <4>3. ASSUME NEW i \in 1 .. NumBots, Listed[p] = At("bot", network.bots[i])
            PROVE  Listed[p].place = PlaceOf(service)
        <5>1. i \in 1 .. NumBots + 1
          BY <3>5
        <5>2. all[i].id = all[s].id
          BY <3>2, <3>6, <3>7, <4>3 DEF At, Marker
        <5>3. service = network.bots[i]
          BY <3>2, <3>6, <5>1, <5>2
        <5> QED
          BY <4>3, <5>3 DEF At, Marker
      <4>4. CASE Listed[p] = DashboardMarker
        BY <3>4, <3>7, <4>4 DEF DashboardMarker, Marker
      <4> QED
        BY <3>3, <4>1, <4>2, <4>3, <4>4
    <3>9. PlaceOf(service) # NoPlace
      BY <3>3, <3>8
    <3> QED
      BY <3>1, <3>8, <3>9, PlacesAreFound
  <2>3. ASSUME NEW n \in DOMAIN Markers, Markers[n].kind = "dashboard",
               ExplicitDashboard = NoPlace
        PROVE  \E m \in DOMAIN Markers \ {n} : Markers[m].place = Markers[n].place
    <3> DEFINE p == Nth(Placed, n)
    <3>1. p \in Placed /\ Markers[n] = Listed[p]
      BY <2>1, MarkersArePlaced
    <3>2. NumKnown \in Nat /\ NumBots \in Nat
      BY <2>1, WhatIsListed
    <3>3. /\ Listed[p].place # NoPlace
          /\ p = NumKnown + NumBots + 2 /\ Listed[p] = DashboardMarker
      <4>1. Listed[p].kind = "dashboard"
        BY <2>3, <3>1
      <4> HIDE DEF p
      <4>2. /\ Listed[p].place # NoPlace
            /\ \/ \E place \in KnownExchanges :
                     Listed[p] = Marker("exchange", place, place)
               \/ Listed[p] = At("simulated-exchange", network.exchange)
               \/ \E i \in 1 .. NumBots : Listed[p] = At("bot", network.bots[i])
               \/ p = NumKnown + NumBots + 2 /\ Listed[p] = DashboardMarker
        BY <2>1, <3>1, PlacedPositions
      <4>3. \A kind, id, place : Marker(kind, id, place).kind = kind
        BY DEF Marker
      <4> QED
        BY <4>1, <4>2, <4>3 DEF At
    <3>4. Listed[p].place = InferredDashboard /\ InferredDashboard # NoPlace
      <4>1. DashboardMarker.place = Or(ExplicitDashboard, InferredDashboard)
        BY DEF DashboardMarker, Marker
      <4>2. Or(ExplicitDashboard, InferredDashboard) = InferredDashboard
        BY <2>3 DEF Or
      <4> QED
        BY <3>3, <4>1, <4>2
    \* The position of the marker it shares the place with.
    <3>5. \E q \in DOMAIN Listed : Listed[q].place = InferredDashboard /\ q # p
      <4>1. CASE PlaceOf(network.exchange) # NoPlace
        <5>1. InferredDashboard = PlaceOf(network.exchange)
          BY <4>1 DEF InferredDashboard, Or
        <5>2. NumKnown + 1 \in DOMAIN Listed /\ NumKnown + 1 # p
          BY <2>1, <3>2, <3>3, WhatIsListed
        <5>3. Listed[NumKnown + 1].place = PlaceOf(network.exchange)
          BY <2>1, WhatIsListed DEF At, Marker
        <5> QED
          BY <5>1, <5>2, <5>3
      <4>2. CASE PlaceOf(network.exchange) = NoPlace
        <5> DEFINE located == {i \in DOMAIN network.bots :
                                  PlaceOf(network.bots[i]) # NoPlace}
        <5>1. InferredDashboard =
                IF located = {} THEN NoPlace ELSE PlaceOf(network.bots[Nth(located, 1)])
          BY <4>2 DEF InferredDashboard, Or
        <5>2. located # {}
          BY <3>4, <5>1
        <5>3. located \subseteq 1 .. NumBots /\ IsFiniteSet(1 .. NumBots)
          <6>1. DOMAIN network.bots = 1 .. NumBots
            BY <2>1, WhatIsListed
          <6>2. located \subseteq 1 .. NumBots
            BY <6>1
          <6> HIDE DEF located
          <6> QED
            BY <3>2, <6>2, FS_Interval
        <5> HIDE DEF located
        <5>4. /\ IsFiniteSet(located) /\ Cardinality(located) \in Nat
              /\ Cardinality(located) # 0 /\ located \in SUBSET Nat
          <6>1. located \in SUBSET (1 .. NumBots)
            BY <5>3
          <6>2. IsFiniteSet(located)
            BY <5>3, <6>1, FS_Subset
          <6>3. Cardinality(located) \in Nat /\ Cardinality(located) # 0
            BY <5>2, <6>2, FS_CardinalityType, FS_EmptySet
          <6> QED
            BY <5>3, <6>2, <6>3
        <5>5. 1 \in 1 .. Cardinality(located)
          BY <5>4
        <5>6. Nth(located, 1) \in located
          BY <5>4, <5>5, NthProperties
        <5> DEFINE i == Nth(located, 1)
        <5>7. i \in 1 .. NumBots /\ InferredDashboard = PlaceOf(network.bots[i])
          BY <5>1, <5>2, <5>3, <5>6
        <5> HIDE DEF i
        <5>8. Listed[NumKnown + 1 + i].place = PlaceOf(network.bots[i])
          <6>1. Listed[NumKnown + 1 + i] = At("bot", network.bots[i])
            BY <2>1, <5>7, WhatIsListed
          <6> QED
            BY <6>1 DEF At, Marker
        <5>9. NumKnown + 1 + i \in DOMAIN Listed /\ NumKnown + 1 + i # p
          BY <2>1, <3>2, <3>3, <5>7, WhatIsListed
        <5> QED
          BY <5>7, <5>8, <5>9
      <4> QED
        BY <4>1, <4>2
    <3>6. PICK q \in Placed : Listed[q].place = Listed[p].place /\ q # p
      BY <3>4, <3>5 DEF Placed
    <3>7. PICK m \in DOMAIN Markers : Nth(Placed, m) = q
      BY <2>1, MarkersArePlaced
    <3>8. Markers[m] = Listed[q] /\ m # n
      BY <2>1, <3>6, <3>7, MarkersArePlaced
    <3> QED
      BY <3>1, <3>6, <3>8
  <2> QED
    BY <2>2, <2>3 DEF MarkersFollowTopology
<1> QED
  BY <1>1, GeoInvHolds, PTL

\* There is one marker of the dashboard.
LEMMA OneDashboard ==
    ASSUME network \in Maps, NEW i \in DOMAIN Markers, NEW j \in DOMAIN Markers,
           Markers[i].kind = "dashboard", Markers[j].kind = "dashboard"
    PROVE  i = j
<1>1. ASSUME NEW n \in DOMAIN Markers, Markers[n].kind = "dashboard"
      PROVE  Nth(Placed, n) = NumKnown + NumBots + 2
  <2> DEFINE p == Nth(Placed, n)
  <2>1. p \in Placed /\ Listed[p].kind = "dashboard"
    BY <1>1, MarkersArePlaced
  <2> HIDE DEF p
  <2>2. \/ \E place \in KnownExchanges : Listed[p] = Marker("exchange", place, place)
        \/ Listed[p] = At("simulated-exchange", network.exchange)
        \/ \E k \in 1 .. NumBots : Listed[p] = At("bot", network.bots[k])
        \/ p = NumKnown + NumBots + 2
    BY <2>1, PlacedPositions
  <2>3. \A kind, id, place : Marker(kind, id, place).kind = kind
    BY DEF Marker
  <2> QED
    BY <2>1, <2>2, <2>3 DEF At, p
<1>2. Nth(Placed, i) = Nth(Placed, j)
  BY <1>1
<1> QED
  BY <1>2, MarkersArePlaced

\* How many come before differs from one element of a set to the next.
LEMMA BeforeDiffers ==
    ASSUME NEW A \in SUBSET Nat, IsFiniteSet(A), NEW i \in A, NEW j \in A, i # j
    PROVE  Cardinality({k \in A : k < i}) # Cardinality({k \in A : k < j})
<1>1. ASSUME NEW x \in A, NEW y \in A, x < y
      PROVE  Cardinality({k \in A : k < x}) # Cardinality({k \in A : k < y})
  <2> DEFINE X == {k \in A : k < x}
             Y == {k \in A : k < y}
  <2>1. X \subseteq Y /\ x \in Y /\ x \notin X /\ Y \subseteq A
    <3>1. x \in Nat /\ y \in Nat /\ \A k \in A : k \in Nat
      OBVIOUS
    <3>2. \A k \in Nat : k < x => k < y
      BY <1>1, <3>1
    <3>3. ~ (x < x)
      BY <3>1
    <3> QED
      BY <1>1, <3>1, <3>2, <3>3
  <2> HIDE DEF X, Y
  <2>2. IsFiniteSet(Y)
    BY <2>1, FS_Subset
  <2>3. Cardinality(Y) # Cardinality(X)
    BY <2>1, <2>2, FS_Subset
  <2> QED
    BY <2>3 DEF X, Y
<1>2. i < j \/ j < i
  OBVIOUS
<1> QED
  BY <1>1, <1>2

\* How many the first places are.
LEMMA FirstPlaces ==
    ASSUME NEW n \in Nat
    PROVE  IsFiniteSet(1 .. n) /\ (n > 0 => Cardinality(1 .. n) = n)
BY FS_Interval

\* What a rounded cosine counts.
Passed(num, den) ==
    {k \in 1 .. 24 : PixelSteps[k] * den <= Apart(num, den) * 1000000}

LEMMA CosCounts ==
    ASSUME NEW num \in Int, NEW den \in Nat
    PROVE  /\ RoundedCos(num, den) = 12 - Cardinality(Passed(num, den))
           /\ IsFiniteSet(Passed(num, den)) /\ Cardinality(Passed(num, den)) \in Nat
<1>1. DOMAIN PixelSteps = 1 .. 24
  BY DEF PixelSteps
<1>2. RoundedCos(num, den) = 12 - Cardinality(Passed(num, den))
  BY <1>1 DEF RoundedCos, Passed
<1>3. IsFiniteSet(1 .. 24)
  <2>1. PICK n \in Nat : n = 24
    OBVIOUS
  <2> QED
    BY <2>1, FirstPlaces
<1>4. Passed(num, den) \in SUBSET (1 .. 24)
  BY DEF Passed
<1> QED
  BY <1>2, <1>3, <1>4, FS_Subset, FS_CardinalityType

LEMMA StepValues ==
    /\ \A k \in 1 .. 24 : PixelSteps[k] \in Nat
    /\ \A k \in 1 .. 13 : PixelSteps[k] <= 256633
    /\ \A k \in 12 .. 24 : PixelSteps[k] >= 243367
BY DEF PixelSteps

LEMMA ApartType ==
    ASSUME NEW num \in Int, NEW den \in Nat, num <= den, -num <= den
    PROVE  Apart(num, den) \in Nat
BY DEF Apart

\* Equal cosines have passed the same steps.
LEMMA SameCos ==
    ASSUME NEW p \in Int, NEW q \in Int, NEW den \in Nat,
           p <= den, -p <= den, q <= den, -q <= den,
           RoundedCos(p, den) = RoundedCos(q, den)
    PROVE  \A k \in 1 .. 24 : PixelSteps[k] * den <= Apart(p, den) * 1000000
                              <=> PixelSteps[k] * den <= Apart(q, den) * 1000000
<1>1. /\ Cardinality(Passed(p, den)) = Cardinality(Passed(q, den))
      /\ IsFiniteSet(Passed(p, den)) /\ IsFiniteSet(Passed(q, den))
  <2>1. /\ RoundedCos(p, den) = 12 - Cardinality(Passed(p, den))
        /\ IsFiniteSet(Passed(p, den)) /\ Cardinality(Passed(p, den)) \in Nat
    BY CosCounts
  <2>2. /\ RoundedCos(q, den) = 12 - Cardinality(Passed(q, den))
        /\ IsFiniteSet(Passed(q, den)) /\ Cardinality(Passed(q, den)) \in Nat
    BY CosCounts
  <2>3. \A a, b \in Nat : 12 - a = 12 - b => a = b
    OBVIOUS
  <2> QED
    BY <2>1, <2>2, <2>3
<1>2. Apart(p, den) \in Nat /\ Apart(q, den) \in Nat
  BY ApartType
<1>3. ASSUME NEW x \in Nat, NEW y \in Nat, x <= y
      PROVE  {k \in 1 .. 24 : PixelSteps[k] * den <= x * 1000000}
             \subseteq {k \in 1 .. 24 : PixelSteps[k] * den <= y * 1000000}
  <2>1. ASSUME NEW z \in Int PROVE z <= x * 1000000 => z <= y * 1000000
    BY <1>3
  <2>2. \A k \in 1 .. 24 : PixelSteps[k] * den \in Int
    BY StepValues
  <2> QED
    BY <2>1, <2>2
<1>4. \/ Passed(p, den) \subseteq Passed(q, den)
      \/ Passed(q, den) \subseteq Passed(p, den)
  BY <1>2, <1>3 DEF Passed
<1>5. Passed(p, den) = Passed(q, den)
  <2> HIDE DEF Passed
  <2> QED
    BY <1>1, <1>4, FS_Subset
<1> QED
  BY <1>5 DEF Passed

\* A cosine rounded to none is that of nearly a quarter of a turn.
LEMMA NoCos ==
    ASSUME NEW p \in Int, NEW den \in Nat, p <= den, -p <= den, RoundedCos(p, den) = 0
    PROVE  /\ 243367 * den <= Apart(p, den) * 1000000
           /\ Apart(p, den) * 1000000 < 256633 * den
<1>1. Cardinality(Passed(p, den)) = 12 /\ IsFiniteSet(Passed(p, den))
  BY CosCounts
<1>2. Apart(p, den) \in Nat
  BY ApartType
<1> DEFINE way == Apart(p, den) * 1000000
<1>3. way \in Nat
  BY <1>2
<1>4. ASSUME way < 243367 * den PROVE FALSE
  <2>1. ASSUME NEW k \in 12 .. 24 PROVE ~ (PixelSteps[k] * den <= way)
    <3>1. PixelSteps[k] \in Nat /\ PixelSteps[k] >= 243367
      BY StepValues
    <3>2. PixelSteps[k] * den >= 243367 * den
      <4>1. \A z \in Nat : z >= 243367 => z * den >= 243367 * den
        OBVIOUS
      <4> QED
        BY <3>1, <4>1
    <3>3. PixelSteps[k] * den \in Nat
      BY <3>1
    <3> HIDE DEF way
    <3> QED
      BY <1>3, <1>4, <3>2, <3>3
  <2>2. Passed(p, den) \subseteq 1 .. 11
    BY <2>1 DEF Passed
  <2>3. IsFiniteSet(1 .. 11) /\ Cardinality(1 .. 11) = 11
    <3>1. PICK n \in Nat : n = 11
      OBVIOUS
    <3>2. n > 0
      BY <3>1
    <3>3. IsFiniteSet(1 .. n) /\ Cardinality(1 .. n) = n
      BY <3>2, FirstPlaces
    <3> QED
      BY <3>1, <3>3
  <2> QED
    BY <1>1, <2>2, <2>3, FS_Subset
<1>5. ASSUME 256633 * den <= way PROVE FALSE
  <2>1. ASSUME NEW k \in 1 .. 13 PROVE PixelSteps[k] * den <= way
    <3>1. PixelSteps[k] \in Nat /\ PixelSteps[k] <= 256633
      BY StepValues
    <3>2. PixelSteps[k] * den <= 256633 * den
      <4>1. \A z \in Nat : z <= 256633 => z * den <= 256633 * den
        OBVIOUS
      <4> QED
        BY <3>1, <4>1
    <3>3. PixelSteps[k] * den \in Nat
      BY <3>1
    <3> HIDE DEF way
    <3> QED
      BY <1>3, <1>5, <3>2, <3>3
  <2>2. 1 .. 13 \subseteq Passed(p, den)
    BY <2>1 DEF Passed
  <2>3. Cardinality(1 .. 13) = 13
    <3>1. PICK n \in Nat : n = 13
      OBVIOUS
    <3>2. n > 0
      BY <3>1
    <3>3. Cardinality(1 .. n) = n
      BY <3>2, FirstPlaces
    <3> QED
      BY <3>1, <3>3
  <2> QED
    BY <1>1, <2>2, <2>3, FS_Subset
<1> HIDE DEF way
<1>6. 243367 * den <= way /\ way < 256633 * den
  BY <1>3, <1>4, <1>5
<1> QED
  BY <1>6 DEF way

\* A marker in orbit is not in the middle.
LEMMA NotInTheMiddle ==
    ASSUME NEW total \in Nat, NEW index \in Nat, index < total
    PROVE  RadialOffset(index, total) # <<0, 0>>
<1> SUFFICES ASSUME RoundedCos(index, total) = 0,
                    RoundedCos(4 * index - total, 4 * total) = 0
             PROVE  FALSE
  BY DEF RadialOffset
<1>1. /\ 243367 * total <= Apart(index, total) * 1000000
      /\ Apart(index, total) * 1000000 < 256633 * total
  BY NoCos
<1>2. /\ 243367 * (4 * total) <= Apart(4 * index - total, 4 * total) * 1000000
      /\ Apart(4 * index - total, 4 * total) * 1000000 < 256633 * (4 * total)
  <2>1. 4 * index - total \in Int /\ 4 * total \in Nat
    OBVIOUS
  <2>2. 4 * index - total <= 4 * total /\ -(4 * index - total) <= 4 * total
    OBVIOUS
  <2> QED
    BY <2>1, <2>2, NoCos
<1> QED
  BY <1>1, <1>2 DEF Apart

\* Whole pixels keep so many markers apart: any two are separated by a step of the
\* cosine or of the sine.
LEMMA OffsetsDiffer ==
    ASSUME NEW n \in Nat, n <= MaxOrbiting, NEW i \in Nat, NEW j \in Nat, i < j, j < n
    PROVE  RadialOffset(i, n) # RadialOffset(j, n)
<1> SUFFICES ASSUME RoundedCos(i, n) = RoundedCos(j, n),
                    RoundedCos(4 * i - n, 4 * n) = RoundedCos(4 * j - n, 4 * n)
             PROVE  FALSE
  BY DEF RadialOffset
<1>1. \A k \in 1 .. 24 : PixelSteps[k] * n <= Apart(i, n) * 1000000
                         <=> PixelSteps[k] * n <= Apart(j, n) * 1000000
  BY SameCos
<1>2. \A k \in 1 .. 24 : PixelSteps[k] * (4 * n) <= Apart(4 * i - n, 4 * n) * 1000000
                         <=> PixelSteps[k] * (4 * n) <= Apart(4 * j - n, 4 * n) * 1000000
  <2>1. 4 * i - n \in Int /\ 4 * j - n \in Int /\ 4 * n \in Nat
    OBVIOUS
  <2>2. /\ 4 * i - n <= 4 * n /\ -(4 * i - n) <= 4 * n
        /\ 4 * j - n <= 4 * n /\ -(4 * j - n) <= 4 * n
    OBVIOUS
  <2> QED
    BY <2>1, <2>2, SameCos
<1> DEFINE xi == Apart(i, n)
           xj == Apart(j, n)
           yi == Apart(4 * i - n, 4 * n)
           yj == Apart(4 * j - n, 4 * n)
<1>3. /\ xi = IF i <= n - i THEN i ELSE n - i
      /\ xj = IF j <= n - j THEN j ELSE n - j
      /\ yi = IF 4 * i - n < 0 THEN n - 4 * i
              ELSE IF 4 * i - n <= 5 * n - 4 * i THEN 4 * i - n ELSE 5 * n - 4 * i
      /\ yj = IF 4 * j - n < 0 THEN n - 4 * j
              ELSE IF 4 * j - n <= 5 * n - 4 * j THEN 4 * j - n ELSE 5 * n - 4 * j
  BY DEF Apart
<1>4. xi \in Nat /\ xj \in Nat /\ yi \in Nat /\ yj \in Nat
  BY <1>3
<1> DEFINE Same(step) ==
               /\ step * n <= xi * 1000000 <=> step * n <= xj * 1000000
               /\ step * (4 * n) <= yi * 1000000 <=> step * (4 * n) <= yj * 1000000
<1>5. \A k \in 1 .. 24 : Same(PixelSteps[k])
  BY <1>1, <1>2
<1> HIDE DEF xi, xj, yi, yj, Same
<1>6. /\ Same(46105) /\ Same(80431) /\ Same(104607) /\ Same(124724)
      /\ Same(142549) /\ Same(158897) /\ Same(174223) /\ Same(188821)
      /\ Same(202895) /\ Same(216598) /\ Same(230053) /\ Same(243367)
      /\ Same(256633) /\ Same(269947) /\ Same(283402) /\ Same(297105)
      /\ Same(311179) /\ Same(325777) /\ Same(341103) /\ Same(357451)
      /\ Same(375276) /\ Same(395393) /\ Same(419569) /\ Same(453895)
  BY <1>5 DEF PixelSteps
<1> QED
  BY <1>3, <1>4, <1>6, SMTT(120) DEF MaxOrbiting, Same

\* With one more they are not.
LEMMA BoundIsSharp == RadialOffset(7, MaxOrbiting + 1) = RadialOffset(8, MaxOrbiting + 1)
<1>1. Passed(7, 65) = Passed(8, 65)
  <2>1. Apart(7, 65) = 7 /\ Apart(8, 65) = 8
    BY DEF Apart
  <2>2. \A k \in 1 .. 24 : PixelSteps[k] * 65 <= 7 * 1000000
                           <=> PixelSteps[k] * 65 <= 8 * 1000000
    BY DEF PixelSteps
  <2> QED
    BY <2>1, <2>2 DEF Passed
<1>2. Passed(4 * 7 - 65, 4 * 65) = Passed(4 * 8 - 65, 4 * 65)
  <2>1. Apart(4 * 7 - 65, 4 * 65) = 37 /\ Apart(4 * 8 - 65, 4 * 65) = 33
    <3>1. \A x \in Int : x < 0 /\ -x <= 260 + x => Apart(x, 260) = -x
      BY DEF Apart
    <3>2. \A x \in Int : x = 0 - 37 \/ x = 0 - 33 => x < 0 /\ -x <= 260 + x
      OBVIOUS
    <3>3. 4 * 7 - 65 = 0 - 37 /\ 4 * 8 - 65 = 0 - 33 /\ 4 * 65 = 260
      OBVIOUS
    <3> QED
      BY <3>1, <3>2, <3>3
  <2>2. \A k \in 1 .. 24 : PixelSteps[k] * (4 * 65) <= 37 * 1000000
                           <=> PixelSteps[k] * (4 * 65) <= 33 * 1000000
    BY DEF PixelSteps
  <2> QED
    BY <2>1, <2>2 DEF Passed
<1>3. /\ RoundedCos(7, 65) = RoundedCos(8, 65)
      /\ RoundedCos(4 * 7 - 65, 4 * 65) = RoundedCos(4 * 8 - 65, 4 * 65)
  <2>1. \A p \in Int, d \in Nat : RoundedCos(p, d) = 12 - Cardinality(Passed(p, d))
    BY CosCounts
  <2>2. /\ 4 * 7 - 65 \in Int /\ 4 * 8 - 65 \in Int /\ 4 * 65 \in Nat
        /\ 7 \in Int /\ 8 \in Int /\ 65 \in Nat
    OBVIOUS
  <2> QED
    BY <1>1, <1>2, <2>1, <2>2
<1>4. MaxOrbiting + 1 = 65
  BY DEF MaxOrbiting
<1> QED
  BY <1>3, <1>4 DEF RadialOffset

\* Markers of one place are never drawn over each other, up to the number of them
\* that whole pixels keep apart, which BoundIsSharp shows to be the largest.
THEOREM MarkersAreApart == GeoSpec => []NoMarkerHidden
<1>1. GeoInv => NoMarkerHidden
  <2> SUFFICES ASSUME GeoInv PROVE NoMarkerHidden
    OBVIOUS
  <2>1. network \in Maps
    BY DEF GeoInv
  <2>2. ASSUME NEW i \in DOMAIN Markers, NEW j \in DOMAIN Markers, i # j,
               Markers[i].place = Markers[j].place,
               Cardinality(Orbiting(Markers, Markers[i].place)) <= MaxOrbiting
        PROVE  OffsetOf(Markers, i) # OffsetOf(Markers, j)
    <3> DEFINE group == {n \in DOMAIN Markers : Markers[n].place = Markers[i].place}
               orbiting == Orbiting(Markers, Markers[i].place)
               Before(x) == Cardinality({n \in orbiting : n < x})
               turn == Cardinality(orbiting)
    <3>1. /\ i \in group /\ j \in group /\ orbiting \subseteq group
          /\ group \subseteq DOMAIN Markers
      BY <2>2 DEF Orbiting
    <3>2. IsFiniteSet(group) /\ IsFiniteSet(orbiting) /\ orbiting \in SUBSET Nat
      <4> HIDE DEF group, orbiting
      <4>1. IsFiniteSet(DOMAIN Markers) /\ DOMAIN Markers \subseteq Nat
        BY <2>1, MarkersArePlaced
      <4>2. IsFiniteSet(group)
        BY <3>1, <4>1, FS_Subset
      <4>3. IsFiniteSet(orbiting)
        BY <3>1, <4>2, FS_Subset
      <4> QED
        BY <3>1, <4>1, <4>2, <4>3
    <3>3. Cardinality(group) # 1
      <4> HIDE DEF group
      <4>1. \A x : group # {x}
        BY <2>2, <3>1
      <4> QED
        BY <3>2, <4>1, FS_Singleton
    <3>4. {n \in DOMAIN Markers : Markers[n].place = Markers[j].place} = group
      BY <2>2
    <3>5. /\ OffsetOf(Markers, i)
               = IF i \notin orbiting THEN <<0, 0>> ELSE RadialOffset(Before(i), turn)
          /\ OffsetOf(Markers, j)
               = IF j \notin orbiting THEN <<0, 0>> ELSE RadialOffset(Before(j), turn)
      <4>1. \A x \in {i, j} : OffsetOf(Markers, x)
               = IF Cardinality(group) = 1 \/ x \notin orbiting THEN <<0, 0>>
                 ELSE RadialOffset(Before(x), turn)
        BY <2>2, <3>4 DEF OffsetOf
      <4> HIDE DEF group, orbiting, Before, turn
      <4> QED
        BY <3>3, <4>1
    <3>6. i \in orbiting \/ j \in orbiting
      <4>1. CASE Markers[i].kind = "dashboard" /\ Markers[j].kind = "dashboard"
        BY <2>1, <2>2, <4>1, OneDashboard
      <4>2. CASE Markers[i].kind # "dashboard"
        BY <4>2 DEF Orbiting
      <4>3. CASE Markers[j].kind # "dashboard"
        BY <2>2, <4>3 DEF Orbiting
      <4> QED
        BY <4>1, <4>2, <4>3
    <3>7. turn \in Nat /\ turn <= MaxOrbiting
      <4> HIDE DEF orbiting
      <4>1. turn \in Nat
        BY <3>2, FS_CardinalityType
      <4> QED
        BY <2>2, <4>1 DEF orbiting
    <3>8. \A x \in orbiting : Before(x) \in Nat /\ Before(x) < turn
      <4> HIDE DEF orbiting
      <4>1. ASSUME NEW x \in orbiting PROVE Before(x) \in Nat /\ Before(x) < turn
        <5> DEFINE earlier == {n \in orbiting : n < x}
        <5>1. earlier \in SUBSET orbiting /\ x \notin earlier
          BY <3>2
        <5> HIDE DEF earlier
        <5>2. earlier # orbiting
          BY <5>1
        <5>3. /\ IsFiniteSet(earlier) /\ Cardinality(earlier) <= turn
              /\ Cardinality(earlier) # turn
          BY <3>2, <5>1, <5>2, FS_Subset
        <5>4. Cardinality(earlier) \in Nat
          BY <5>3, FS_CardinalityType
        <5> HIDE DEF turn
        <5>5. Cardinality(earlier) < turn
          BY <3>7, <5>3, <5>4
        <5> QED
          BY <5>4, <5>5 DEF earlier
      <4> QED
        BY <4>1
    <3>9. i \in orbiting /\ j \in orbiting => Before(i) # Before(j)
      <4> HIDE DEF orbiting
      <4> QED
        BY <2>2, <3>2, BeforeDiffers
    <3> HIDE DEF group, orbiting, Before, turn
    <3>10. ASSUME NEW x \in orbiting PROVE RadialOffset(Before(x), turn) # <<0, 0>>
      BY <3>7, <3>8, NotInTheMiddle
    <3>11. ASSUME i \in orbiting, j \in orbiting
           PROVE  RadialOffset(Before(i), turn) # RadialOffset(Before(j), turn)
      <4>1. /\ Before(i) \in Nat /\ Before(i) < turn
            /\ Before(j) \in Nat /\ Before(j) < turn
        BY <3>8, <3>11
      <4>2. Before(i) < Before(j) \/ Before(j) < Before(i)
        BY <3>9, <3>11, <4>1
      <4> QED
        BY <3>7, <4>1, <4>2, OffsetsDiffer
    <3> QED
      BY <3>5, <3>6, <3>10, <3>11
  <2> QED
    BY <2>2 DEF NoMarkerHidden
<1> QED
  BY <1>1, GeoInvHolds, PTL

=============================================================================
