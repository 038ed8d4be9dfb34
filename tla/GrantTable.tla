----------------------------- MODULE GrantTable -----------------------------
(***************************************************************************)
(* What the control plane's tables promise their readers: rows appear and  *)
(* disappear one committed request at a time, a save changes the grants of *)
(* one user only, and every grant is sound when it appears.  AccessGrants  *)
(* implements this with transactions; QueryGateway reads it.               *)
(***************************************************************************)
CONSTANTS Tenant, User, Cluster, Namespace,
          NoTenant, NoCluster, AllNamespaces

VARIABLES owner, nsCluster, live,
          access      \* committed grants: who may see what

Ids == User \cup Cluster
Grant == [user: User, cluster: Cluster, ns: Namespace \cup {AllNamespaces}]

tableVars == <<owner, nsCluster, live, access>>

TableInit ==
    /\ owner = [x \in Ids |-> NoTenant]
    /\ nsCluster = [n \in Namespace |-> NoCluster]
    /\ live = {}
    /\ access = {}

\* A grant that names live rows of one tenant.
Sound(g) ==
    /\ {g.user, g.cluster} \subseteq live
    /\ owner[g.user] = owner[g.cluster]
    /\ g.ns # AllNamespaces => g.ns \in live /\ nsCluster[g.ns] = g.cluster

SoundGrants(u) == {g \in Grant : g.user = u /\ Sound(g)}

\* POST /users, POST /clusters.
AddRow(x, t) ==
    /\ owner[x] = NoTenant
    /\ owner' = [owner EXCEPT ![x] = t]
    /\ live' = live \cup {x}
    /\ UNCHANGED <<nsCluster, access>>

\* A cluster's agent reported namespaces not seen before.
AddNamespaces(c, N) ==
    /\ c \in live
    /\ \A n \in N : nsCluster[n] = NoCluster
    /\ nsCluster' = [n \in Namespace |-> IF n \in N THEN c ELSE nsCluster[n]]
    /\ live' = live \cup N
    /\ UNCHANGED <<owner, access>>

\* A committed PUT /users/{id}/access.
Replace(u, A) ==
    /\ access' = {g \in access : g.user # u} \cup A
    /\ UNCHANGED <<owner, nsCluster, live>>

\* Mutant: the foreign keys of access_grants do not cascade.
RemoveWithoutCascade(x) ==
    /\ x \in live
    /\ live' = live \ {x}
    /\ UNCHANGED <<owner, nsCluster, access>>

\* A committed DELETE of a user or cluster, with its ON DELETE CASCADE.
Remove(x) ==
    /\ x \in live
    /\ live' = live \ ({x} \cup {n \in Namespace : nsCluster[n] = x})
    /\ access' = {g \in access : x \notin {g.user, g.cluster}}
    /\ UNCHANGED <<owner, nsCluster>>

TableNext ==
    \/ \E x \in Ids, t \in Tenant : AddRow(x, t)
    \/ \E c \in Cluster, N \in (SUBSET Namespace) \ {{}} : AddNamespaces(c, N)
    \/ \E x \in Ids : Remove(x)
    \/ \E u \in User : \E A \in SUBSET SoundGrants(u) : Replace(u, A)

TableSpec == TableInit /\ [][TableNext]_tableVars
=============================================================================
