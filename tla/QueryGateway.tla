---------------------------- MODULE QueryGateway ----------------------------
(***************************************************************************)
(* query-gateway: every read of metrics, logs, traces and alerts loads the *)
(* caller's grants, turns them into label matchers and proxies the query.  *)
(* A stored series carries its tenant and its cluster and namespace names; *)
(* what header and matchers let through is the answer.  The grants change  *)
(* underneath as GrantTable says.                                          *)
(***************************************************************************)
EXTENDS GrantTable

CONSTANTS
    Query,          \* HTTP requests that reach the gateway
    Admin,          \* users whose role column is 'admin'; no handler updates it
    ClusterName, NsName,    \* values of the name columns
    NameOf, NsNameOf,       \* name column of each clusters / namespaces row
    NoSelection     \* the ?cluster= parameter is absent

ASSUME GatewayAssumption ==
    /\ Admin \subseteq User
    /\ NsNameOf \in [Namespace -> NsName]
    /\ NameOf \in [Cluster -> ClusterName]
    /\ NoSelection \notin ClusterName
    /\ (User \cup Cluster) \cap Namespace = {}
    /\ NoTenant \notin Tenant
    /\ NoCluster \notin Cluster
    /\ AllNamespaces \notin Namespace

VARIABLES
    stage,      \* where the handler is
    query,      \* route, claims' user, selected cluster
    held,       \* history: the series the caller's grants covered at the read
    resolved,   \* resolvedAccess: per cluster full access or a namespace list
    answer      \* series the proxied query may return

queryVars == <<stage, query, held, resolved, answer>>
vars == <<owner, nsCluster, live, access, stage, query, held, resolved, answer>>

Route == {"scoped", "trace"}
Request == [route: Route, user: User, selected: ClusterName \cup {NoSelection}]
Series == [tenant: Tenant, cluster: ClusterName, ns: NsName]
ClusterGrant == [fullAccess: BOOLEAN, namespaces: SUBSET NsName]
NoAccess == [c \in {} |-> {}]

Init ==
    /\ TableInit
    /\ stage = [q \in Query |-> "idle"]
    /\ query = [q \in Query |-> {}]
    /\ held = [q \in Query |-> {}]
    /\ resolved = [q \in Query |-> NoAccess]
    /\ answer = [q \in Query |-> {}]

-----------------------------------------------------------------------------
(* The rows loadAccess reads, and what it makes of them. *)

TenantClusters(t) == {c \in live \cap Cluster : owner[c] = t}

\* loadAccess.  An admin's claims stand for every cluster of the tenant.
\* Anyone else's grants are joined with clusters, and LEFT JOINed with
\* namespaces: the name of a namespace that is not there is NULL, and so is
\* read as the whole cluster.
RowsFor(u) ==
    IF u \in Admin
      THEN {[cluster |-> NameOf[c], ns |-> AllNamespaces] :
               c \in TenantClusters(owner[u])}
      ELSE {[cluster |-> NameOf[g.cluster],
             ns |-> IF g.ns \in live THEN g.ns ELSE AllNamespaces] :
               g \in {h \in access : h.user = u /\ h.cluster \in live}}

\* Mutant: the query selects ids instead of names.
ResolveIds(R) ==
    [c \in {r.cluster : r \in R} |->
        [fullAccess |-> [cluster |-> c, ns |-> AllNamespaces] \in R,
         namespaces |-> {r.ns : r \in
                            {s \in R : s.cluster = c /\ s.ns # AllNamespaces}}]]

Resolve(R) ==
    [c \in {r.cluster : r \in R} |->
        [fullAccess |-> [cluster |-> c, ns |-> AllNamespaces] \in R,
         namespaces |-> {NsNameOf[r.ns] : r \in
                            {s \in R : s.cluster = c /\ s.ns # AllNamespaces}}]]

\* Reference: the series user u may see now.
Held(u) ==
    {s \in Series :
        \E c \in live \cap Cluster :
            /\ s.tenant = owner[u] /\ owner[c] = owner[u] /\ s.cluster = NameOf[c]
            /\ \/ u \in Admin
               \/ \E g \in access :
                     /\ g.user = u /\ g.cluster = c
                     /\ g.ns = AllNamespaces \/ NsNameOf[g.ns] = s.ns}

(* scopeFor and the injected matchers. *)

\* No clusters is a refusal; no namespaces is no namespace matcher.
Matching(clusters, names) ==
    {s \in Series : s.cluster \in clusters /\ (names = {} \/ s.ns \in names)}

\* Mutant: the header is not set, so every tenant's store is searched.
WithoutOrgID(t, S) == S \cap Series

\* X-Scope-OrgID: the store only ever holds one tenant's series.
WithOrgID(t, S) == {s \in S : s.tenant = t}

\* Mutant: the selected cluster is filtered with every cluster's namespaces.
ScopeSelectedAnyList(a, c) ==
    IF a[c].fullAccess THEN Matching({c}, {})
    ELSE Matching({c}, UNION {a[d].namespaces : d \in DOMAIN a})

ScopeSelected(a, c) ==
    IF a[c].fullAccess THEN Matching({c}, {}) ELSE Matching({c}, a[c].namespaces)

AnyFullAccess(a) == \E c \in DOMAIN a : a[c].fullAccess

\* Mutant: the namespace list is kept although a cluster is granted in full.
ScopeUnionKeepsList(a) ==
    Matching(DOMAIN a, UNION {a[c].namespaces : c \in DOMAIN a})

ScopeUnion(a) ==
    Matching(DOMAIN a,
             IF AnyFullAccess(a) THEN {}
             ELSE UNION {a[c].namespaces : c \in DOMAIN a})

Refused(a, selected) ==
    IF selected = NoSelection THEN DOMAIN a = {} ELSE selected \notin DOMAIN a

Scope(a, selected) ==
    IF selected = NoSelection THEN ScopeUnion(a) ELSE ScopeSelected(a, selected)

\* handleClusters, a query of its own.  An admin is offered every cluster of
\* the tenant, in full; anyone else one row per distinct cluster and "is the
\* grant's namespace_id NULL", so that a cluster may be offered twice.
Offer(c, full) == [name |-> NameOf[c], fullAccess |-> full]

\* Mutant: only access_grants is read, whatever the role.
ListingGrantsOnly(u) ==
    {Offer(g.cluster, g.ns = AllNamespaces) :
        g \in {h \in access : h.user = u /\ h.cluster \in live}}

Listing(u) ==
    IF u \in Admin
      THEN {Offer(c, TRUE) : c \in TenantClusters(owner[u])}
      ELSE {Offer(g.cluster, g.ns = AllNamespaces) :
               g \in {h \in access : h.user = u /\ h.cluster \in live}}

-----------------------------------------------------------------------------
(* A request: RequireAuth accepts a token of a user that existed when it     *)
(* logged in, loadAccess runs one statement, the handler answers from it.    *)

\* The scan loop ends early, with no error, when the connection fails:
\* rows.Err() is not checked, so any part of the rows may be what is used.
Load(q, r) ==
    /\ stage[q] = "idle"
    /\ owner[r.user] # NoTenant
    /\ \E R \in SUBSET RowsFor(r.user) :
          /\ resolved' = [resolved EXCEPT ![q] = Resolve(R)]
          /\ stage' = [stage EXCEPT ![q] =
                          IF R = RowsFor(r.user) THEN "loaded" ELSE "partial"]
    /\ query' = [query EXCEPT ![q] = r]
    /\ held' = [held EXCEPT ![q] = Held(r.user)]
    /\ UNCHANGED <<owner, nsCluster, live, access, answer>>

Respond(q, status, series) ==
    /\ stage' = [stage EXCEPT ![q] = status]
    /\ answer' = [answer EXCEPT ![q] = series]
    /\ UNCHANGED <<owner, nsCluster, live, access, query, held, resolved>>

Status(q) == IF stage[q] = "loaded" THEN "answered" ELSE "cut_short"

\* handleQuery, handleLabelValues, handleLogLabelValues and handleAlerts.
AnswerScoped(q) ==
    LET selected == query[q].selected
    IN  /\ stage[q] \in {"loaded", "partial"}
        /\ query[q].route = "scoped"
        /\ IF Refused(resolved[q], selected)
             THEN Respond(q, "refused", {})
             ELSE Respond(q, Status(q), WithOrgID(owner[query[q].user],
                                             Scope(resolved[q], selected)))

\* handleTraceByID reads no grants: X-Scope-OrgID alone.
AnswerTrace(q, u) ==
    /\ stage[q] = "idle"
    /\ owner[u] # NoTenant
    /\ stage' = [stage EXCEPT ![q] = "answered"]
    /\ query' = [query EXCEPT ![q] =
                    [route |-> "trace", user |-> u, selected |-> NoSelection]]
    /\ answer' = [answer EXCEPT ![q] = WithOrgID(owner[u], Series)]
    /\ held' = [held EXCEPT ![q] = Held(u)]
    /\ UNCHANGED <<owner, nsCluster, live, access, resolved>>

\* UNIQUE (tenant_id, name) of clusters.
NamesUnique ==
    \A c, d \in live \cap Cluster :
        owner[c] = owner[d] /\ NameOf[c] = NameOf[d] => c = d

Next ==
    \/ TableNext /\ NamesUnique' /\ UNCHANGED queryVars
    \/ \E q \in Query :
          \/ \E r \in Request : r.route = "scoped" /\ Load(q, r)
          \/ AnswerScoped(q)
          \/ \E u \in User : AnswerTrace(q, u)

Spec == Init /\ [][Next]_vars

-----------------------------------------------------------------------------
(* Properties *)

Served(q) == stage[q] \in {"answered", "cut_short"}
Scoped(q) == Served(q) /\ query[q].route = "scoped"

\* Every variable ranges over what the handlers can build.
TypeOK ==
    /\ stage \in [Query -> {"idle", "loaded", "partial", "answered",
                            "cut_short", "refused"}]
    /\ \A q \in Query :
          /\ stage[q] # "idle" => query[q] \in Request
          /\ DOMAIN resolved[q] \subseteq ClusterName
          /\ \A c \in DOMAIN resolved[q] : resolved[q][c] \in ClusterGrant
          /\ answer[q] \subseteq Series

\* With a cluster selected, the answer is exactly what the caller's grants
\* covered of that cluster when they were read (scopeFor, main.go:129-139).
SelectedIsExact ==
    \A q \in Query :
        stage[q] = "answered" /\ Scoped(q) /\ query[q].selected # NoSelection =>
            answer[q] = {s \in held[q] : s.cluster = query[q].selected}

\* Whatever happens to the read, a scoped answer names no cluster on which
\* the caller held nothing, and none outside the caller's tenant.
OnlyHeldClusters ==
    \A q \in Query : Scoped(q) => \A s \in answer[q] :
        /\ \E h \in held[q] : h.cluster = s.cluster
        /\ s.tenant = owner[query[q].user]

\* Without a selection nothing the caller may see is hidden: full access to
\* one cluster is not narrowed by another's list (main.go:120-127).
NothingHeldIsHidden ==
    \A q \in Query :
        stage[q] = "answered" /\ query[q].selected = NoSelection =>
            held[q] \subseteq answer[q]

\* A deleted user's token still authenticates, but finds no grants: a request
\* that starts after the delete is refused unless the role is admin.
DeletedUserRefused ==
    [][\A q \in Query : \A u \in User \ (live \cup Admin) :
          stage[q] = "idle" /\ stage'[q] # "idle" /\ query'[q].route = "scoped"
            /\ query'[q].user = u => resolved'[q] = NoAccess]_vars

\* The picker and the gateway read the grants with queries of their own, by
\* namespace_id here and by the joined name there: yet the picker offers
\* exactly the clusters that a query may select, and offers in full exactly
\* those on which the gateway sets no namespace matcher, whatever was deleted
\* since the grants were saved (main.go:60-113 and 239-300).
PickerMatchesGateway ==
    \A u \in User :
        LET a == Resolve(RowsFor(u))
        IN  owner[u] # NoTenant =>
              /\ \A c \in ClusterName :
                    Refused(a, c) <=> \A o \in Listing(u) : o.name # c
              /\ \A c \in DOMAIN a :
                    a[c].fullAccess <=> [name |-> c, fullAccess |-> TRUE] \in Listing(u)

\* The header of main.go: reads are restricted to the caller's granted
\* clusters and namespaces.  The case of a cluster granted in full, which
\* scopeFor's comment admits it cannot restrict, is left out.
ListsAreEnforced ==
    \A q \in Query :
        Scoped(q) /\ ~AnyFullAccess(resolved[q]) => answer[q] \subseteq held[q]
=============================================================================
