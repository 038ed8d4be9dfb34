------------------------- MODULE QueryGatewayProofs -------------------------
(***************************************************************************)
(* Safety of QueryGateway for any tables, names and number of queries.     *)
(* IInv relates what loadAccess resolved, which knows names only, to the   *)
(* series that the rows stood for when they were read: entry by entry, and *)
(* in the other direction too once the whole of the rows was read.         *)
(***************************************************************************)
EXTENDS QueryGateway, TLAPS

USE GatewayAssumption

Stage == {"idle", "loaded", "partial", "answered", "cut_short", "refused"}

TableTyped ==
    /\ owner \in [Ids -> Tenant \cup {NoTenant}]
    /\ nsCluster \in [Namespace -> Cluster \cup {NoCluster}]
    /\ live \subseteq Ids \cup Namespace
    /\ access \subseteq Grant

\* Every grant names live rows of one tenant, and a row that is there has one.
GrantsSound ==
    /\ \A x \in live \cap Ids : owner[x] # NoTenant
    /\ \A g \in access : Sound(g)

QueriesTyped ==
    /\ stage \in [Query -> Stage]
    /\ query \in [Query -> Request \cup {{}}]
    /\ held \in [Query -> SUBSET Series]
    /\ answer \in [Query -> SUBSET Series]
    /\ DOMAIN resolved = Query
    /\ \A q \in Query : stage[q] # "idle" =>
          query[q] \in Request /\ owner[query[q].user] # NoTenant

\* What an access map lets user u's queries see of one series.
Lets(a, u, s) ==
    /\ s.tenant = owner[u] /\ s.cluster \in DOMAIN a
    /\ a[s.cluster].fullAccess \/ s.ns \in a[s.cluster].namespaces

\* An access map has no entry that stands for nothing: such an entry would
\* be a query without a namespace matcher.
WellFormed(a) ==
    /\ DOMAIN a \subseteq ClusterName
    /\ \A c \in DOMAIN a :
          /\ a[c] \in ClusterGrant
          /\ a[c].fullAccess \/ a[c].namespaces # {}

MapsWellFormed == \A q \in Query : WellFormed(resolved[q])

\* A map lets through only what the rows stood for; all of it, if they were
\* all read.
MapsStandForRows ==
    \A q \in Query :
        /\ stage[q] \in {"loaded", "partial"} =>
              \A s \in Series : Lets(resolved[q], query[q].user, s) => s \in held[q]
        /\ stage[q] = "loaded" =>
              \A s \in held[q] : Lets(resolved[q], query[q].user, s)

IInv == /\ TableTyped
        /\ GrantsSound
        /\ QueriesTyped
        /\ MapsWellFormed
        /\ MapsStandForRows
        /\ SelectedIsExact
        /\ OnlyHeldClusters
        /\ NothingHeldIsHidden

-----------------------------------------------------------------------------
(* The tables *)

LEMMA InitIInv == Init => IInv
<1> SUFFICES ASSUME Init PROVE IInv
    OBVIOUS
<1>1. TableTyped /\ GrantsSound
    BY DEF Init, TableInit, TableTyped, GrantsSound
<1>2. QueriesTyped
    BY DEF Init, QueriesTyped, Stage
<1>3. MapsWellFormed
    BY DEF Init, MapsWellFormed, WellFormed, NoAccess
<1>4. MapsStandForRows
    BY DEF Init, MapsStandForRows
<1>5. SelectedIsExact /\ OnlyHeldClusters /\ NothingHeldIsHidden
    BY DEF Init, SelectedIsExact, OnlyHeldClusters, NothingHeldIsHidden, Scoped, Served
<1> QED BY <1>1, <1>2, <1>3, <1>4, <1>5 DEF IInv

LEMMA AddRowSound ==
    ASSUME TableTyped, GrantsSound, NEW x \in Ids, NEW t \in Tenant, AddRow(x, t)
    PROVE  TableTyped' /\ GrantsSound' /\ \A u \in Ids \ {x} : owner'[u] = owner[u]
<1>1. /\ owner'[x] = t /\ \A y \in Ids \ {x} : owner'[y] = owner[y]
      /\ live' = live \cup {x} /\ x \notin live
      /\ nsCluster' = nsCluster /\ access' = access
    BY DEF AddRow, TableTyped, GrantsSound
<1>2. TableTyped'
    BY <1>1 DEF TableTyped, AddRow
<1>3. \A y \in live' \cap Ids : owner'[y] # NoTenant
    BY <1>1 DEF GrantsSound
<1>4. ASSUME NEW g \in access' PROVE Sound(g)'
  <2>1. g \in access /\ Sound(g) /\ g.user \in Ids /\ g.cluster \in Ids
      BY <1>1, <1>4 DEF GrantsSound, TableTyped, Grant, Ids
  <2>2. g.user # x /\ g.cluster # x
      BY <1>1, <2>1 DEF Sound
  <2> QED BY <1>1, <2>1, <2>2 DEF Sound
<1> QED BY <1>1, <1>2, <1>3, <1>4 DEF GrantsSound

LEMMA AddNamespacesSound ==
    ASSUME TableTyped, GrantsSound, NEW c \in Cluster, NEW N \in SUBSET Namespace,
           AddNamespaces(c, N)
    PROVE  TableTyped' /\ GrantsSound' /\ owner' = owner
<1>1. /\ \A n \in Namespace : nsCluster'[n] = IF n \in N THEN c ELSE nsCluster[n]
      /\ live' = live \cup N /\ owner' = owner /\ access' = access
    BY DEF AddNamespaces
<1>2. TableTyped'
    BY <1>1 DEF TableTyped, AddNamespaces, Ids
<1>3. \A y \in live' \cap Ids : owner'[y] # NoTenant
    BY <1>1 DEF GrantsSound, Ids
<1>4. ASSUME NEW g \in access' PROVE Sound(g)'
  <2>1. g \in Grant /\ Sound(g)
      BY <1>1, <1>4 DEF GrantsSound, TableTyped
  <2>2. g.ns # AllNamespaces => g.ns \in Namespace /\ g.ns \notin N
      BY <2>1 DEF Sound, Grant, AddNamespaces
  <2> QED BY <1>1, <2>1, <2>2 DEF Sound
<1> QED BY <1>1, <1>2, <1>3, <1>4 DEF GrantsSound

\* The cascade takes the grants of the row, and of its namespaces.
LEMMA RemoveSound ==
    ASSUME TableTyped, GrantsSound, NEW x \in Ids, Remove(x)
    PROVE  TableTyped' /\ GrantsSound' /\ owner' = owner
<1>1. /\ live' = live \ ({x} \cup {n \in Namespace : nsCluster[n] = x})
      /\ access' = {g \in access : x \notin {g.user, g.cluster}}
      /\ owner' = owner /\ nsCluster' = nsCluster
    BY DEF Remove
<1>2. TableTyped'
    BY <1>1 DEF TableTyped
<1>3. \A y \in live' \cap Ids : owner'[y] # NoTenant
    BY <1>1 DEF GrantsSound
<1>4. ASSUME NEW g \in access' PROVE Sound(g)'
  <2>1. g \in Grant /\ Sound(g) /\ x # g.user /\ x # g.cluster
      BY <1>1, <1>4 DEF GrantsSound, TableTyped
  <2>2. g.user \in live' /\ g.cluster \in live'
      BY <1>1, <2>1 DEF Sound, Grant
  <2>3. g.ns # AllNamespaces => g.ns \in live'
      BY <1>1, <2>1 DEF Sound, Grant, Ids
  <2> QED BY <1>1, <2>1, <2>2, <2>3 DEF Sound
<1> QED BY <1>1, <1>2, <1>3, <1>4 DEF GrantsSound

LEMMA ReplaceSound ==
    ASSUME TableTyped, GrantsSound, NEW u \in User, NEW A \in SUBSET SoundGrants(u),
           Replace(u, A)
    PROVE  TableTyped' /\ GrantsSound' /\ owner' = owner
<1>1. /\ access' = {g \in access : g.user # u} \cup A
      /\ owner' = owner /\ nsCluster' = nsCluster /\ live' = live
    BY DEF Replace
<1>2. \A g \in A : g \in Grant /\ Sound(g)
    BY DEF SoundGrants
<1> QED BY <1>1, <1>2 DEF TableTyped, GrantsSound, Sound

LEMMA TableStepSound ==
    ASSUME TableTyped, GrantsSound, TableNext
    PROVE  /\ TableTyped' /\ GrantsSound'
           /\ \A u \in User : owner[u] # NoTenant => owner'[u] = owner[u]
<1>1. ASSUME NEW x \in Ids, NEW t \in Tenant, AddRow(x, t)
      PROVE  \A u \in User : owner[u] # NoTenant => owner'[u] = owner[u]
    BY <1>1, AddRowSound DEF AddRow, Ids
<1> QED BY <1>1, AddRowSound, AddNamespacesSound, RemoveSound, ReplaceSound DEF TableNext

\* Queries stand still when the tables change: an owner is never another's.
LEMMA TableStepKeepsIInv ==
    ASSUME IInv, TableNext, UNCHANGED queryVars
    PROVE  IInv'
<1>1. /\ TableTyped' /\ GrantsSound'
      /\ \A u \in User : owner[u] # NoTenant => owner'[u] = owner[u]
    BY TableStepSound DEF IInv
<1>2. /\ stage' = stage /\ query' = query /\ held' = held
      /\ resolved' = resolved /\ answer' = answer
    BY DEF queryVars
<1>3. \A q \in Query : stage[q] # "idle" =>
         query[q].user \in User /\ owner'[query[q].user] = owner[query[q].user]
    BY <1>1 DEF IInv, QueriesTyped, Request
<1>4. QueriesTyped'
    BY <1>2, <1>3 DEF IInv, QueriesTyped
<1>5. MapsWellFormed' /\ SelectedIsExact' /\ NothingHeldIsHidden'
    BY <1>2 DEF IInv, MapsWellFormed, SelectedIsExact, NothingHeldIsHidden, Scoped, Served
<1>6. MapsStandForRows' /\ OnlyHeldClusters'
    BY <1>2, <1>3 DEF IInv, MapsStandForRows, Lets, OnlyHeldClusters, Scoped, Served
<1> QED BY <1>1, <1>4, <1>5, <1>6 DEF IInv

-----------------------------------------------------------------------------
(* What loadAccess makes of the rows *)

Row == [cluster: ClusterName, ns: Namespace \cup {AllNamespaces}]

LEMMA RowsTyped ==
    ASSUME TableTyped, NEW u \in User
    PROVE  RowsFor(u) \subseteq Row
<1>1. \A c \in Cluster : [cluster |-> NameOf[c], ns |-> AllNamespaces] \in Row
    BY DEF Row
<1>2. \A g \in Grant : [cluster |-> NameOf[g.cluster],
                       ns |-> IF g.ns \in live THEN g.ns ELSE AllNamespaces] \in Row
    BY DEF Row, Grant
<1> QED BY <1>1, <1>2 DEF RowsFor, TenantClusters, TableTyped

\* No join loses or widens a grant: the rows it names are there.
LEMMA JoinsFind ==
    ASSUME TableTyped, GrantsSound, NEW g \in access
    PROVE  /\ g.cluster \in live \cap Cluster /\ owner[g.cluster] = owner[g.user]
           /\ (IF g.ns \in live THEN g.ns ELSE AllNamespaces) = g.ns
BY DEF TableTyped, GrantsSound, Sound, Grant

\* Resolve, entry by entry.
LEMMA ResolveDomain ==
    ASSUME NEW R, NEW c
    PROVE  c \in DOMAIN Resolve(R) <=> \E r \in R : r.cluster = c
BY DEF Resolve

LEMMA ResolveFull ==
    ASSUME NEW R \in SUBSET Row, NEW c \in DOMAIN Resolve(R)
    PROVE  /\ Resolve(R)[c].fullAccess \in BOOLEAN
           /\ Resolve(R)[c].fullAccess <=>
                 \E r \in R : r.cluster = c /\ r.ns = AllNamespaces
<1> DEFINE full == [cluster |-> c, ns |-> AllNamespaces] \in R
<1>1. \A r \in R : r = [cluster |-> r.cluster, ns |-> r.ns]
    BY DEF Row
<1>2. full <=> \E r \in R : r.cluster = c /\ r.ns = AllNamespaces
    BY <1>1
<1>3. CASE full
  <2>1. Resolve(R)[c].fullAccess = TRUE
      BY <1>3 DEF Resolve
  <2> QED BY <1>2, <1>3, <2>1
<1>4. CASE ~full
  <2>1. Resolve(R)[c].fullAccess = full
      BY DEF Resolve
  <2>2. full = FALSE
      BY <1>4
  <2> HIDE DEF full
  <2>3. Resolve(R)[c].fullAccess = FALSE
      BY <2>1, <2>2
  <2> QED BY <1>2, <1>4, <2>3
<1> QED BY <1>3, <1>4

LEMMA ResolveNames ==
    ASSUME NEW R \in SUBSET Row, NEW c \in DOMAIN Resolve(R)
    PROVE  /\ Resolve(R)[c].namespaces \in SUBSET NsName
           /\ \A n : n \in Resolve(R)[c].namespaces <=>
                 \E r \in R : r.cluster = c /\ r.ns # AllNamespaces /\ NsNameOf[r.ns] = n
<1>1. \A n : n \in Resolve(R)[c].namespaces <=>
         \E r \in R : r.cluster = c /\ r.ns # AllNamespaces /\ NsNameOf[r.ns] = n
    BY DEF Resolve
<1>2. \A r \in R : r.ns # AllNamespaces => NsNameOf[r.ns] \in NsName
    BY DEF Row
<1> QED BY <1>1, <1>2

\* Whatever part of the rows was read, no entry of the map is empty.
LEMMA ResolveWellFormed ==
    ASSUME NEW R \in SUBSET Row
    PROVE  WellFormed(Resolve(R))
<1>1. ASSUME NEW c \in DOMAIN Resolve(R) PROVE c \in ClusterName
    BY <1>1, ResolveDomain DEF Row
<1>2. ASSUME NEW c \in DOMAIN Resolve(R)
      PROVE  /\ Resolve(R)[c] \in ClusterGrant
             /\ Resolve(R)[c].fullAccess \/ Resolve(R)[c].namespaces # {}
  <2>1. Resolve(R)[c].fullAccess \in BOOLEAN /\ Resolve(R)[c].namespaces \in SUBSET NsName
      BY <1>2, ResolveFull, ResolveNames
  <2>2. Resolve(R)[c] \in ClusterGrant
    <3>1. Resolve(R)[c] = [fullAccess |-> Resolve(R)[c].fullAccess,
                           namespaces |-> Resolve(R)[c].namespaces]
        BY DEF Resolve
    <3> QED BY <2>1, <3>1 DEF ClusterGrant
  <2>3. PICK r \in R : r.cluster = c
      BY <1>2, ResolveDomain
  <2>4. CASE r.ns = AllNamespaces
      BY <1>2, <2>2, <2>3, <2>4, ResolveFull
  <2>5. CASE r.ns # AllNamespaces
    <3>1. NsNameOf[r.ns] \in Resolve(R)[c].namespaces
        BY <1>2, <2>3, <2>5, ResolveNames
    <3> QED BY <2>2, <3>1
  <2> QED BY <2>4, <2>5
<1> QED BY <1>1, <1>2 DEF WellFormed

\* One series: the rows that let it through.
LEMMA LetsRows ==
    ASSUME NEW R \in SUBSET Row, NEW u \in User, NEW s \in Series
    PROVE  Lets(Resolve(R), u, s) <=>
              /\ s.tenant = owner[u]
              /\ \E r \in R : /\ r.cluster = s.cluster
                              /\ r.ns = AllNamespaces \/ NsNameOf[r.ns] = s.ns
<1>1. CASE s.cluster \notin DOMAIN Resolve(R)
    BY <1>1, ResolveDomain DEF Lets
<1>2. CASE s.cluster \in DOMAIN Resolve(R)
  <2>1. Resolve(R)[s.cluster].fullAccess <=>
           \E r \in R : r.cluster = s.cluster /\ r.ns = AllNamespaces
      BY <1>2, ResolveFull
  <2>2. s.ns \in Resolve(R)[s.cluster].namespaces <=>
           \E r \in R : r.cluster = s.cluster /\ r.ns # AllNamespaces /\ NsNameOf[r.ns] = s.ns
      BY <1>2, ResolveNames
  <2> QED BY <1>2, <2>1, <2>2 DEF Lets
<1> QED BY <1>1, <1>2

\* The rows stand for exactly the series the user's grants cover.
LEMMA RowsStandForHeld ==
    ASSUME TableTyped, GrantsSound, NEW u \in User, NEW s \in Series
    PROVE  Lets(Resolve(RowsFor(u)), u, s) <=> s \in Held(u)
<1> DEFINE Covers(r) == /\ r.cluster = s.cluster
                        /\ r.ns = AllNamespaces \/ NsNameOf[r.ns] = s.ns
<1>1. RowsFor(u) \in SUBSET Row
    BY RowsTyped
<1>2. Lets(Resolve(RowsFor(u)), u, s) <=>
        s.tenant = owner[u] /\ \E r \in RowsFor(u) : Covers(r)
    BY <1>1, LetsRows
<1>3. CASE u \in Admin
  <2> DEFINE row(c) == [cluster |-> NameOf[c], ns |-> AllNamespaces]
  <2>1. RowsFor(u) = {row(c) : c \in TenantClusters(owner[u])}
      BY <1>3 DEF RowsFor
  <2>2. \A c : Covers(row(c)) <=> NameOf[c] = s.cluster
      OBVIOUS
  <2> HIDE DEF row, Covers
  <2>3. (\E r \in RowsFor(u) : Covers(r)) <=>
           \E c \in live \cap Cluster : owner[c] = owner[u] /\ NameOf[c] = s.cluster
      BY <2>1, <2>2 DEF TenantClusters
  <2> QED BY <1>2, <1>3, <2>3 DEF Held
<1>4. CASE u \notin Admin
  <2> DEFINE row(g) == [cluster |-> NameOf[g.cluster],
                        ns |-> IF g.ns \in live THEN g.ns ELSE AllNamespaces]
  <2>1. RowsFor(u) = {row(g) : g \in {h \in access : h.user = u /\ h.cluster \in live}}
      BY <1>4 DEF RowsFor
  <2>2. \A g \in access : Covers(row(g)) <=>
           /\ NameOf[g.cluster] = s.cluster
           /\ g.ns = AllNamespaces \/ NsNameOf[g.ns] = s.ns
      BY JoinsFind
  <2> HIDE DEF row, Covers
  <2>3. (\E r \in RowsFor(u) : Covers(r)) <=>
           \E g \in access : /\ g.user = u /\ NameOf[g.cluster] = s.cluster
                             /\ g.ns = AllNamespaces \/ NsNameOf[g.ns] = s.ns
      BY <2>1, <2>2, JoinsFind
  <2>4. \A g \in access : g.user = u =>
           g.cluster \in live \cap Cluster /\ owner[g.cluster] = owner[u]
      BY JoinsFind
  <2> QED BY <1>2, <1>4, <2>3, <2>4 DEF Held
<1> QED BY <1>3, <1>4

\* A part of the rows lets through no more than all of them.
LEMMA PartLetsLess ==
    ASSUME NEW R \in SUBSET Row, NEW S \in SUBSET R, NEW u \in User, NEW s \in Series,
           Lets(Resolve(S), u, s)
    PROVE  Lets(Resolve(R), u, s)
BY LetsRows

-----------------------------------------------------------------------------
(* The handlers *)

LEMMA LoadKeepsIInv ==
    ASSUME IInv, NEW q \in Query, NEW r \in Request, r.route = "scoped", Load(q, r)
    PROVE  IInv'
<1>1. PICK R \in SUBSET RowsFor(r.user) :
         /\ resolved' = [resolved EXCEPT ![q] = Resolve(R)]
         /\ stage' = [stage EXCEPT ![q] = IF R = RowsFor(r.user) THEN "loaded" ELSE "partial"]
    BY DEF Load
<1>2. r.user \in User /\ RowsFor(r.user) \in SUBSET Row /\ R \in SUBSET Row
    BY RowsTyped DEF Request, IInv
<1>3. /\ owner' = owner /\ nsCluster' = nsCluster /\ live' = live /\ access' = access
      /\ answer' = answer /\ owner[r.user] # NoTenant
      /\ query' = [query EXCEPT ![q] = r] /\ held' = [held EXCEPT ![q] = Held(r.user)]
    BY DEF Load
<1>4. /\ stage'[q] \in {"loaded", "partial"}
      /\ stage'[q] = "loaded" => R = RowsFor(r.user)
      /\ query'[q] = r /\ held'[q] = Held(r.user) /\ resolved'[q] = Resolve(R)
    BY <1>1, <1>3 DEF IInv, QueriesTyped
<1>5. \A o \in Query \ {q} : /\ stage'[o] = stage[o] /\ query'[o] = query[o]
                             /\ held'[o] = held[o] /\ resolved'[o] = resolved[o]
    BY <1>1, <1>3 DEF IInv, QueriesTyped
<1>6. TableTyped' /\ GrantsSound'
    BY <1>3 DEF IInv, TableTyped, GrantsSound, Sound
<1>7. QueriesTyped'
  <2>1. Held(r.user) \in SUBSET Series
      BY DEF Held
  <2>2. /\ stage' \in [Query -> Stage] /\ query' \in [Query -> Request \cup {{}}]
        /\ held' \in [Query -> SUBSET Series] /\ answer' \in [Query -> SUBSET Series]
        /\ DOMAIN resolved' = Query
      BY <1>1, <1>3, <2>1 DEF IInv, QueriesTyped, Stage
  <2> QED BY <2>2, <1>3, <1>4, <1>5 DEF IInv, QueriesTyped
<1>8. MapsWellFormed'
    BY <1>2, <1>4, <1>5, ResolveWellFormed DEF IInv, MapsWellFormed
<1>9. MapsStandForRows'
  <2>1. \A s \in Series : Lets(Resolve(RowsFor(r.user)), r.user, s) <=> s \in Held(r.user)
      BY <1>2, RowsStandForHeld DEF IInv
  <2>2. \A s \in Series : Lets(Resolve(R), r.user, s) => s \in Held(r.user)
      BY <1>2, <2>1, PartLetsLess
  <2>3. Held(r.user) \subseteq Series
      BY DEF Held
  <2>4. \A a, s : Lets(a, r.user, s)' <=> Lets(a, r.user, s)
      BY <1>3 DEF Lets
  <2> SUFFICES ASSUME NEW o \in Query
               PROVE  /\ stage'[o] \in {"loaded", "partial"} =>
                            \A s \in Series :
                               Lets(resolved[o], query[o].user, s)' => s \in held'[o]
                      /\ stage'[o] = "loaded" =>
                            \A s \in held'[o] : Lets(resolved[o], query[o].user, s)'
      BY DEF MapsStandForRows
  <2>5. CASE o = q
      BY <2>5, <1>3, <1>4, <2>1, <2>2, <2>3 DEF Lets
  <2>6. CASE o # q
      BY <2>6, <1>3, <1>5 DEF IInv, MapsStandForRows, Lets
  <2> QED BY <2>5, <2>6
<1>10. SelectedIsExact' /\ OnlyHeldClusters' /\ NothingHeldIsHidden'
    BY <1>3, <1>4, <1>5 DEF IInv, SelectedIsExact, OnlyHeldClusters, NothingHeldIsHidden,
       Scoped, Served
<1> QED BY <1>6, <1>7, <1>8, <1>9, <1>10 DEF IInv

\* What is left of query q when it answers: its matchers, and why they let
\* through no series but those of clusters that were held.
ScopeOf(q) == WithOrgID(owner[query[q].user], Scope(resolved[q], query[q].selected))

LEMMA ScopeConfined ==
    ASSUME IInv, NEW q \in Query, stage[q] \in {"loaded", "partial"},
           ~Refused(resolved[q], query[q].selected), NEW s \in ScopeOf(q)
    PROVE  /\ s \in Series /\ s.tenant = owner[query[q].user]
           /\ \E h \in held[q] : h.cluster = s.cluster
<1> DEFINE a == resolved[q]
           u == query[q].user
           names == a[s.cluster].namespaces
<1>1. /\ s \in Series /\ s.tenant = owner[u] /\ s.cluster \in DOMAIN a
    BY DEF ScopeOf, WithOrgID, Scope, ScopeUnion, ScopeSelected, Matching, Refused
<1>2. a[s.cluster].fullAccess \/ names # {}
    BY <1>1 DEF IInv, MapsWellFormed, WellFormed
<1>3. \A h \in Series : Lets(a, u, h) => h \in held[q]
    BY DEF IInv, MapsStandForRows
<1>4. CASE a[s.cluster].fullAccess
    BY <1>1, <1>3, <1>4 DEF Lets
<1>5. CASE names # {}
  <2>1. PICK n \in names : n \in NsName
      BY <1>1, <1>5 DEF IInv, MapsWellFormed, WellFormed, ClusterGrant
  <2> DEFINE h == [tenant |-> s.tenant, cluster |-> s.cluster, ns |-> n]
  <2>2. h \in Series /\ h.tenant = s.tenant /\ h.cluster = s.cluster /\ h.ns = n
      BY <1>1, <2>1 DEF Series
  <2> HIDE DEF h
  <2>3. Lets(a, u, h)
      BY <1>1, <2>1, <2>2 DEF Lets
  <2> QED BY <1>1, <1>3, <2>2, <2>3
<1> QED BY <1>1, <1>2, <1>4, <1>5

\* With a cluster selected, the matchers are those of its entry.
LEMMA SelectedScope ==
    ASSUME IInv, NEW q \in Query, stage[q] = "loaded", query[q].selected # NoSelection,
           ~Refused(resolved[q], query[q].selected)
    PROVE  ScopeOf(q) = {s \in held[q] : s.cluster = query[q].selected}
<1> DEFINE a == resolved[q]
           u == query[q].user
           c == query[q].selected
<1>1. c \in DOMAIN a /\ (a[c].fullAccess \/ a[c].namespaces # {})
    BY DEF Refused, IInv, MapsWellFormed, WellFormed
<1>2. held[q] \subseteq Series /\ \A s \in Series : s \in held[q] <=> Lets(a, u, s)
    BY DEF IInv, MapsStandForRows, QueriesTyped
<1>3. ASSUME NEW s \in Series
      PROVE  s \in ScopeOf(q) <=> s \in held[q] /\ s.cluster = c
  <2>1. s \in ScopeOf(q) <=>
           /\ s.tenant = owner[u] /\ s.cluster = c
           /\ a[c].fullAccess \/ s.ns \in a[c].namespaces
    <3>1. CASE a[c].fullAccess
        BY <3>1, <1>3 DEF ScopeOf, WithOrgID, Scope, ScopeSelected, Matching
    <3>2. CASE ~a[c].fullAccess
        BY <3>2, <1>1, <1>3 DEF ScopeOf, WithOrgID, Scope, ScopeSelected, Matching
    <3> QED BY <3>1, <3>2
  <2> QED BY <1>1, <1>2, <1>3, <2>1 DEF Lets
<1>4. ScopeOf(q) \subseteq Series
    BY DEF ScopeOf, WithOrgID, Scope, ScopeSelected, Matching
<1> QED BY <1>2, <1>3, <1>4

\* Without a selection: the lists are joined, or none is kept.
LEMMA UnionScope ==
    ASSUME IInv, NEW q \in Query, stage[q] = "loaded", query[q].selected = NoSelection
    PROVE  held[q] \subseteq ScopeOf(q)
<1> DEFINE a == resolved[q]
           u == query[q].user
           names == IF AnyFullAccess(a) THEN {} ELSE UNION {a[c].namespaces : c \in DOMAIN a}
<1> SUFFICES ASSUME NEW s \in held[q]
             PROVE  s \in ScopeOf(q)
    OBVIOUS
<1>1. s \in Series /\ Lets(a, u, s)
    BY DEF IInv, MapsStandForRows, QueriesTyped
<1>2. s.cluster \in DOMAIN a /\ s.tenant = owner[u]
    BY <1>1 DEF Lets
<1>3. names = {} \/ s.ns \in names
    BY <1>1, <1>2 DEF Lets, AnyFullAccess
<1>4. s \in Matching(DOMAIN a, names)
    BY <1>1, <1>2, <1>3 DEF Matching
<1> QED BY <1>2, <1>4 DEF ScopeOf, WithOrgID, Scope, ScopeUnion

LEMMA AnswerKeepsIInv ==
    ASSUME IInv, NEW q \in Query, AnswerScoped(q)
    PROVE  IInv'
<1> DEFINE refused == Refused(resolved[q], query[q].selected)
<1>1. /\ stage[q] \in {"loaded", "partial"} /\ query[q].route = "scoped"
      /\ owner' = owner /\ nsCluster' = nsCluster /\ live' = live /\ access' = access
      /\ query' = query /\ held' = held /\ resolved' = resolved
    BY DEF AnswerScoped, Respond
<1>2. PICK status \in {"answered", "cut_short", "refused"}, series \in SUBSET Series :
         /\ stage' = [stage EXCEPT ![q] = status] /\ answer' = [answer EXCEPT ![q] = series]
         /\ status = "refused" \/ (~refused /\ series = ScopeOf(q))
         /\ status = "answered" => stage[q] = "loaded"
  <2>1. CASE refused
      BY <2>1 DEF AnswerScoped, Respond
  <2>2. CASE ~refused
    <3>1. ScopeOf(q) \subseteq Series
        BY <1>1, <2>2, ScopeConfined
    <3>2. Status(q) \in {"answered", "cut_short"} /\ (Status(q) = "answered" => stage[q] = "loaded")
        BY DEF Status
    <3>3. Respond(q, Status(q), ScopeOf(q))
        BY <2>2 DEF AnswerScoped, ScopeOf
    <3> QED BY <2>2, <3>1, <3>2, <3>3 DEF Respond
  <2> QED BY <2>1, <2>2
<1> HIDE DEF refused
<1>3. /\ stage'[q] = status /\ answer'[q] = series
      /\ \A o \in Query \ {q} : stage'[o] = stage[o] /\ answer'[o] = answer[o]
    BY <1>2 DEF IInv, QueriesTyped
<1>4. TableTyped' /\ GrantsSound'
    BY <1>1 DEF IInv, TableTyped, GrantsSound, Sound
<1>5. QueriesTyped'
  <2>1. stage' \in [Query -> Stage] /\ answer' \in [Query -> SUBSET Series]
      BY <1>2 DEF IInv, QueriesTyped, Stage
  <2> QED BY <2>1, <1>1, <1>3 DEF IInv, QueriesTyped
<1>6. MapsWellFormed' /\ MapsStandForRows'
    BY <1>1, <1>2, <1>3 DEF IInv, MapsWellFormed, MapsStandForRows, Lets
<1>7. SelectedIsExact'
  <2>1. status = "answered" /\ query[q].selected # NoSelection =>
           series = {s \in held[q] : s.cluster = query[q].selected}
      BY <1>2, SelectedScope DEF refused
  <2> QED BY <2>1, <1>1, <1>3 DEF IInv, SelectedIsExact, Scoped, Served
<1>8. OnlyHeldClusters'
  <2>1. status # "refused" => \A s \in series :
           s.tenant = owner[query[q].user] /\ \E h \in held[q] : h.cluster = s.cluster
      BY <1>1, <1>2, ScopeConfined DEF refused
  <2>2. stage'[q] \in {"answered", "cut_short"} => status # "refused"
      BY <1>3
  <2> QED BY <2>1, <2>2, <1>1, <1>3 DEF IInv, OnlyHeldClusters, Scoped, Served
<1>9. NothingHeldIsHidden'
  <2>1. status = "answered" /\ query[q].selected = NoSelection => held[q] \subseteq series
      BY <1>2, UnionScope
  <2> QED BY <2>1, <1>1, <1>3 DEF IInv, NothingHeldIsHidden
<1> QED BY <1>4, <1>5, <1>6, <1>7, <1>8, <1>9 DEF IInv

LEMMA TraceKeepsIInv ==
    ASSUME IInv, NEW q \in Query, NEW u \in User, AnswerTrace(q, u)
    PROVE  IInv'
<1> DEFINE r == [route |-> "trace", user |-> u, selected |-> NoSelection]
           series == WithOrgID(owner[u], Series)
<1>1. /\ stage[q] = "idle" /\ owner[u] # NoTenant
      /\ owner' = owner /\ nsCluster' = nsCluster /\ live' = live /\ access' = access
      /\ resolved' = resolved
      /\ stage' = [stage EXCEPT ![q] = "answered"] /\ query' = [query EXCEPT ![q] = r]
      /\ answer' = [answer EXCEPT ![q] = series] /\ held' = [held EXCEPT ![q] = Held(u)]
    BY DEF AnswerTrace
<1>2. /\ r \in Request /\ r.user = u /\ r.route = "trace" /\ r.selected = NoSelection
      /\ series \subseteq Series /\ Held(u) \subseteq series
    BY DEF Request, Route, WithOrgID, Held
<1> HIDE DEF r, series
<1>3. /\ stage'[q] = "answered" /\ query'[q] = r /\ answer'[q] = series /\ held'[q] = Held(u)
      /\ \A o \in Query \ {q} : /\ stage'[o] = stage[o] /\ query'[o] = query[o]
                                /\ held'[o] = held[o] /\ answer'[o] = answer[o]
    BY <1>1 DEF IInv, QueriesTyped
<1>4. TableTyped' /\ GrantsSound'
    BY <1>1 DEF IInv, TableTyped, GrantsSound, Sound
<1>5. QueriesTyped'
  <2>1. /\ stage' \in [Query -> Stage] /\ query' \in [Query -> Request \cup {{}}]
        /\ held' \in [Query -> SUBSET Series] /\ answer' \in [Query -> SUBSET Series]
        /\ DOMAIN resolved' = Query
      BY <1>1, <1>2 DEF IInv, QueriesTyped, Stage
  <2> QED BY <2>1, <1>1, <1>2, <1>3 DEF IInv, QueriesTyped
<1>6. MapsWellFormed' /\ MapsStandForRows'
    BY <1>1, <1>3 DEF IInv, MapsWellFormed, MapsStandForRows, Lets
<1>7. SelectedIsExact' /\ OnlyHeldClusters' /\ NothingHeldIsHidden'
    BY <1>1, <1>2, <1>3 DEF IInv, SelectedIsExact, OnlyHeldClusters, NothingHeldIsHidden,
       Scoped, Served
<1> QED BY <1>4, <1>5, <1>6, <1>7 DEF IInv

LEMMA NextIInv ==
    ASSUME IInv, [Next]_vars
    PROVE  IInv'
<1>1. CASE UNCHANGED vars
  <2>1. /\ UNCHANGED <<owner, nsCluster, live, access>>
        /\ UNCHANGED <<stage, query, held, resolved, answer>>
      BY <1>1 DEF vars
  <2> QED BY <2>1 DEF IInv, TableTyped, GrantsSound, Sound, QueriesTyped, MapsWellFormed,
          MapsStandForRows, Lets, SelectedIsExact, OnlyHeldClusters, NothingHeldIsHidden,
          Scoped, Served
<1>2. CASE TableNext /\ UNCHANGED queryVars
    BY <1>2, TableStepKeepsIInv
<1>3. CASE \E q \in Query, r \in Request : r.route = "scoped" /\ Load(q, r)
    BY <1>3, LoadKeepsIInv
<1>4. CASE \E q \in Query : AnswerScoped(q)
    BY <1>4, AnswerKeepsIInv
<1>5. CASE \E q \in Query, u \in User : AnswerTrace(q, u)
    BY <1>5, TraceKeepsIInv
<1> QED BY <1>1, <1>2, <1>3, <1>4, <1>5 DEF Next

LEMMA Inductive == Spec => []IInv
<1>1. IInv /\ [Next]_vars => IInv'
    BY NextIInv
<1> QED BY InitIInv, <1>1, PTL DEF Spec

-----------------------------------------------------------------------------
(* The theorems *)

\* Handlers, access maps and answers keep their types.
THEOREM TypeCorrect == Spec => []TypeOK
<1>1. ASSUME IInv PROVE TypeOK
  <2>1. \A q \in Query : DOMAIN resolved[q] \subseteq ClusterName
                         /\ \A c \in DOMAIN resolved[q] : resolved[q][c] \in ClusterGrant
      BY <1>1 DEF IInv, MapsWellFormed, WellFormed
  <2>2. \A q \in Query : answer[q] \subseteq Series /\ (stage[q] # "idle" => query[q] \in Request)
      BY <1>1 DEF IInv, QueriesTyped
  <2>3. stage \in [Query -> Stage]
      BY <1>1 DEF IInv, QueriesTyped
  <2> QED BY <2>1, <2>2, <2>3 DEF TypeOK, Stage
<1> QED BY <1>1, Inductive, PTL

\* However the read of the grants ends, a query names only clusters on which
\* the caller held a grant at the read, in the caller's tenant.
THEOREM ClustersConfined == Spec => []OnlyHeldClusters
<1>1. IInv => OnlyHeldClusters
    BY DEF IInv
<1> QED BY <1>1, Inductive, PTL

\* A query that selects a cluster sees what was held of it, all of it and
\* nothing else: names, per-cluster lists and full access lose nothing.
THEOREM SelectionExact == Spec => []SelectedIsExact
<1>1. IInv => SelectedIsExact
    BY DEF IInv
<1> QED BY <1>1, Inductive, PTL

\* A query that selects no cluster sees at least what was held.
THEOREM UnionComplete == Spec => []NothingHeldIsHidden
<1>1. IInv => NothingHeldIsHidden
    BY DEF IInv
<1> QED BY <1>1, Inductive, PTL

\* handleClusters' rows against loadAccess': an admin's are one query, and the
\* others' agree because no join loses or widens a grant.
LEMMA OffersStandForRows ==
    ASSUME TableTyped, GrantsSound, NEW u \in User, NEW c
    PROVE  /\ (\E o \in Listing(u) : o.name = c) <=> \E r \in RowsFor(u) : r.cluster = c
           /\ [name |-> c, fullAccess |-> TRUE] \in Listing(u) <=>
                 \E r \in RowsFor(u) : r.cluster = c /\ r.ns = AllNamespaces
<1>1. CASE u \in Admin
  <2> DEFINE T == TenantClusters(owner[u])
             row(d) == [cluster |-> NameOf[d], ns |-> AllNamespaces]
             offer(d) == Offer(d, TRUE)
  <2>1. RowsFor(u) = {row(d) : d \in T} /\ Listing(u) = {offer(d) : d \in T}
      BY <1>1 DEF RowsFor, Listing
  <2>2. \A d \in T : row(d).cluster = NameOf[d] /\ row(d).ns = AllNamespaces
      OBVIOUS
  <2>3. \A d \in T : offer(d).name = NameOf[d]
      BY DEF Offer
  <2>4. \A d \in T : offer(d) = [name |-> c, fullAccess |-> TRUE] <=> NameOf[d] = c
      BY DEF Offer
  <2> HIDE DEF row, offer, T
  <2> QED BY <2>1, <2>2, <2>3, <2>4
<1>2. CASE u \notin Admin
  <2> DEFINE G == {h \in access : h.user = u /\ h.cluster \in live}
             row(g) == [cluster |-> NameOf[g.cluster],
                        ns |-> IF g.ns \in live THEN g.ns ELSE AllNamespaces]
             offer(g) == Offer(g.cluster, g.ns = AllNamespaces)
  <2>1. RowsFor(u) = {row(g) : g \in G} /\ Listing(u) = {offer(g) : g \in G}
      BY <1>2 DEF RowsFor, Listing
  <2>2. \A g \in G : row(g).cluster = NameOf[g.cluster] /\ row(g).ns = g.ns
      BY JoinsFind
  <2>3. \A g \in G : offer(g).name = NameOf[g.cluster]
      BY DEF Offer
  <2>4. \A g \in G : offer(g) = [name |-> c, fullAccess |-> TRUE] <=>
                      NameOf[g.cluster] = c /\ g.ns = AllNamespaces
    <3> SUFFICES ASSUME NEW g \in G
                 PROVE  offer(g) = [name |-> c, fullAccess |-> TRUE] <=>
                           NameOf[g.cluster] = c /\ g.ns = AllNamespaces
        OBVIOUS
    <3>1. CASE g.ns = AllNamespaces
      <4>1. offer(g) = Offer(g.cluster, TRUE)
          BY <3>1, Zenon
      <4>2. Offer(g.cluster, TRUE) = [name |-> c, fullAccess |-> TRUE]
               <=> NameOf[g.cluster] = c
          BY DEF Offer
      <4> QED BY <3>1, <4>1, <4>2
    <3>2. CASE g.ns # AllNamespaces
      <4>1. offer(g).fullAccess = FALSE
          BY <3>2 DEF Offer
      <4> QED BY <3>2, <4>1
    <3> QED BY <3>1, <3>2
  <2> HIDE DEF row, offer, G
  <2> QED BY <2>1, <2>2, <2>3, <2>4
<1> QED BY <1>1, <1>2

\* The picker (handleClusters) and the gateway (loadAccess) agree on every
\* cluster, although neither reads the other's columns: no save and no delete
\* leaves a grant for one of their joins to lose or to widen.
THEOREM PickerSound == Spec => []PickerMatchesGateway
<1>1. ASSUME IInv PROVE PickerMatchesGateway
  <2> SUFFICES ASSUME NEW u \in User
               PROVE  /\ \A c \in ClusterName :
                            Refused(Resolve(RowsFor(u)), c) <=>
                               \A o \in Listing(u) : o.name # c
                      /\ \A c \in DOMAIN Resolve(RowsFor(u)) :
                            Resolve(RowsFor(u))[c].fullAccess <=>
                               [name |-> c, fullAccess |-> TRUE] \in Listing(u)
      BY DEF PickerMatchesGateway
  <2>1. RowsFor(u) \in SUBSET Row /\ TableTyped /\ GrantsSound
      BY <1>1, RowsTyped DEF IInv
  <2>2. \A c \in ClusterName : Refused(Resolve(RowsFor(u)), c) <=>
                               \A o \in Listing(u) : o.name # c
    <3>1. \A c \in ClusterName :
             Refused(Resolve(RowsFor(u)), c) <=> c \notin DOMAIN Resolve(RowsFor(u))
        BY DEF Refused
    <3>2. \A c \in ClusterName :
             c \in DOMAIN Resolve(RowsFor(u)) <=> \E o \in Listing(u) : o.name = c
      <4> SUFFICES ASSUME NEW c \in ClusterName
                   PROVE  c \in DOMAIN Resolve(RowsFor(u))
                             <=> \E o \in Listing(u) : o.name = c
          OBVIOUS
      <4>1. c \in DOMAIN Resolve(RowsFor(u)) <=> \E r \in RowsFor(u) : r.cluster = c
          BY ResolveDomain
      <4>2. (\E o \in Listing(u) : o.name = c) <=> \E r \in RowsFor(u) : r.cluster = c
          BY <2>1, OffersStandForRows
      <4> QED BY <4>1, <4>2
    <3> QED BY <3>1, <3>2
  <2>3. ASSUME NEW c \in DOMAIN Resolve(RowsFor(u))
        PROVE  Resolve(RowsFor(u))[c].fullAccess <=>
                  [name |-> c, fullAccess |-> TRUE] \in Listing(u)
      BY <2>1, <2>3, ResolveFull, OffersStandForRows
  <2> QED BY <2>2, <2>3
<1> QED BY <1>1, Inductive, PTL

\* The token of a deleted user, who is not an admin, finds nothing: the
\* cascade took the grants, so the access map of a new request is empty.
THEOREM DeletedUsersRefused == Spec => DeletedUserRefused
<1> DEFINE Refuses == \A q \in Query : \A u \in User \ (live \cup Admin) :
              stage[q] = "idle" /\ stage'[q] # "idle" /\ query'[q].route = "scoped"
                /\ query'[q].user = u => resolved'[q] = NoAccess
<1>1. ASSUME IInv, [Next]_vars PROVE [Refuses]_vars
  <2> SUFFICES ASSUME NEW q \in Query, NEW u \in User \ (live \cup Admin),
                      stage[q] = "idle", stage'[q] # "idle", query'[q].route = "scoped",
                      query'[q].user = u
               PROVE  resolved'[q] = NoAccess
      OBVIOUS
  <2>1. PICK r \in Request : Load(q, r)
    <3>1. \A v \in User : ~AnswerTrace(q, v)
      <4> SUFFICES ASSUME NEW v \in User, AnswerTrace(q, v) PROVE FALSE
          OBVIOUS
      <4>1. query'[q] = [route |-> "trace", user |-> v, selected |-> NoSelection]
          BY <1>1 DEF AnswerTrace, IInv, QueriesTyped
      <4> QED BY <4>1
    <3>2. \A o \in Query \ {q} : \A s : ~(Load(o, s) \/ AnswerScoped(o) \/ AnswerTrace(o, s))
        BY <1>1 DEF Load, AnswerScoped, Respond, AnswerTrace, IInv, QueriesTyped
    <3>3. ~AnswerScoped(q) /\ stage' # stage
        BY DEF AnswerScoped
    <3> QED BY <1>1, <3>1, <3>2, <3>3 DEF Next, vars, queryVars
  <2>2. query'[q] = r /\ r.user = u
      BY <1>1, <2>1 DEF Load, IInv, QueriesTyped
  <2>3. RowsFor(u) = {}
      BY <1>1 DEF RowsFor, IInv, GrantsSound, Sound
  <2>4. resolved'[q] = Resolve({})
    <3>1. PICK R \in SUBSET RowsFor(r.user) : resolved' = [resolved EXCEPT ![q] = Resolve(R)]
        BY <2>1 DEF Load
    <3>2. R = {}
        BY <2>2, <2>3
    <3> QED BY <1>1, <3>1, <3>2 DEF IInv, QueriesTyped
  <2>5. Resolve({}) = NoAccess
      BY DEF Resolve, NoAccess
  <2> QED BY <2>4, <2>5
<1> QED BY <1>1, Inductive, PTL DEF Spec, DeletedUserRefused
=============================================================================
