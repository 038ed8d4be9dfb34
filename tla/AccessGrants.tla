---------------------------- MODULE AccessGrants ----------------------------
(***************************************************************************)
(* The access-control tables of the control plane (users, clusters,        *)
(* namespaces, access_grants: backend/migrations) and the handlers of      *)
(* rbac-service and tenant-service that write them.  Each request runs its *)
(* own statements on a PostgreSQL pool at READ COMMITTED; the single       *)
(* multi-statement request is PUT /users/{id}/access.                      *)
(*                                                                         *)
(* A row that was deleted keeps its owner, because ids are random UUIDs    *)
(* that are never handed out twice; `live` says which rows exist.          *)
(***************************************************************************)
EXTENDS Naturals, Sequences, FiniteSets

CONSTANTS
    Tenant,         \* tenants that signed up
    User, Cluster, Namespace,   \* the row ids that can be generated
    Request,        \* HTTP requests that ever reach the handlers
    Payloads,       \* grant lists a PUT may carry: sequences of Entry
    NoTenant, NoCluster, AllNamespaces  \* SQL NULLs / "no such row yet"

Parent == User \cup Cluster
NsScope == Namespace \cup {AllNamespaces}
Entry == [cluster: Cluster, ns: NsScope]
Row == [user: User, cluster: Cluster, ns: NsScope, by: Request]

ASSUME ConstantsAssumption ==
    /\ User \cap Cluster = {}
    /\ Parent \cap Namespace = {}
    /\ NoTenant \notin Tenant
    /\ NoCluster \notin Cluster
    /\ AllNamespaces \notin Namespace
    /\ Payloads \subseteq Seq(Entry)

VARIABLES
    owner,      \* tenant_id of every users / clusters row ever inserted
    nsCluster,  \* cluster_id of every namespaces row ever inserted
    live,       \* the rows that exist
    grants,     \* committed rows of access_grants
    op,         \* what each request asks for
    pc,         \* where each request's handler is
    idx,        \* the payload entry a PUT is working on
    snap,       \* rows its DELETE statement saw
    del,        \* rows its transaction has deleted and not yet committed
    ins         \* rows its transaction has inserted and not yet committed

tables == <<owner, nsCluster, live, grants>>
vars == <<owner, nsCluster, live, grants, op, pc, idx, snap, del, ins>>

NoOp == [kind |-> "none"]
Put == [kind: {"put"}, tenant: Tenant, target: User, payload: Seq(Entry)]
Delete == [kind: {"delete"}, tenant: Tenant, target: Parent]
Stage == {"idle", "verify", "clear", "insert", "lock", "cascade",
          "committed", "failed"}

Init ==
    /\ owner = [x \in Parent |-> NoTenant]
    /\ nsCluster = [n \in Namespace |-> NoCluster]
    /\ live = {}
    /\ grants = {}
    /\ op = [r \in Request |-> NoOp]
    /\ pc = [r \in Request |-> "idle"]
    /\ idx = [r \in Request |-> 1]
    /\ snap = [r \in Request |-> {}]
    /\ del = [r \in Request |-> {}]
    /\ ins = [r \in Request |-> {}]

-----------------------------------------------------------------------------
(* Rows are created by statements of their own. *)

\* POST /users and POST /clusters by an admin of tenant t.
CreateParent(x, t) ==
    /\ owner[x] = NoTenant
    /\ owner' = [owner EXCEPT ![x] = t]
    /\ live' = live \cup {x}
    /\ UNCHANGED <<nsCluster, grants, op, pc, idx, snap, del, ins>>

CreateUser(u, t) == CreateParent(u, t)
CreateCluster(c, t) == CreateParent(c, t)

\* A namespace report: the transaction's UPDATE of the clusters row waits for
\* a DELETE holding it, then the names not seen before get rows.
ReportNamespaces(c, N) ==
    /\ c \in live
    /\ ~ \E s \in Request : pc[s] = "cascade" /\ op[s].target = c
    /\ N # {} /\ \A n \in N : nsCluster[n] = NoCluster
    /\ nsCluster' = [n \in Namespace |-> IF n \in N THEN c ELSE nsCluster[n]]
    /\ live' = live \cup N
    /\ UNCHANGED <<owner, grants, op, pc, idx, snap, del, ins>>

-----------------------------------------------------------------------------
(* PUT /users/{id}/access *)

Start(r, o, stage) ==
    /\ pc[r] = "idle"
    /\ op' = [op EXCEPT ![r] = o]
    /\ pc' = [pc EXCEPT ![r] = stage]
    /\ UNCHANGED <<owner, nsCluster, live, grants, idx, snap, del, ins>>

\* An admin of t asks to replace the grants of u; userBelongsToTenant holds.
PutStart(r, t, u, p) ==
    /\ u \in live /\ owner[u] = t
    /\ Start(r, [kind |-> "put", tenant |-> t, target |-> u, payload |-> p],
             "verify")

\* Mutant: the namespace query forgets n.cluster_id = $2.
EntryBelongsAnyCluster(e, t) ==
    /\ e.cluster \in live /\ owner[e.cluster] = t
    /\ e.ns # AllNamespaces => e.ns \in live

\* The EXISTS queries of the verification loop for one payload entry.
EntryBelongs(e, t) ==
    /\ e.cluster \in live
    /\ owner[e.cluster] = t
    /\ e.ns # AllNamespaces =>
          e.ns \in live /\ nsCluster[e.ns] = e.cluster

\* Mutant: no deferred Rollback, so the transaction keeps what it holds.
GiveUpHolding(r) ==
    pc' = [pc EXCEPT ![r] = "failed"] /\ UNCHANGED <<del, ins>>

\* A handler that gives up: deferred Rollback releases what its transaction
\* holds, and the client gets a 4xx or 5xx.
GiveUp(r) ==
    /\ pc' = [pc EXCEPT ![r] = "failed"]
    /\ del' = [del EXCEPT ![r] = {}]
    /\ ins' = [ins EXCEPT ![r] = {}]

Entries(r) == op[r].payload

\* The loop reads outside any transaction: one entry per step.
PutVerify(r) ==
    /\ pc[r] = "verify"
    /\ idx[r] <= Len(Entries(r))
    /\ IF EntryBelongs(Entries(r)[idx[r]], op[r].tenant)
         THEN /\ idx' = [idx EXCEPT ![r] = @ + 1]
              /\ UNCHANGED <<pc, del, ins>>
         ELSE GiveUp(r) /\ UNCHANGED idx
    /\ UNCHANGED <<owner, nsCluster, live, grants, op, snap>>

\* Rows a reader's statement returns for user u: only committed ones.
UserAccess(u) == {g \in grants : g.user = u}

\* Begin, and the snapshot DELETE FROM access_grants works on.
PutBegin(r) ==
    /\ pc[r] = "verify"
    /\ idx[r] > Len(Entries(r))
    /\ pc' = [pc EXCEPT ![r] = "clear"]
    /\ snap' = [snap EXCEPT ![r] = UserAccess(op[r].target)]
    /\ UNCHANGED <<owner, nsCluster, live, grants, op, idx, del, ins>>

\* Requests whose uncommitted deletes hold a row of G.
Holders(r, G) == {s \in Request \ {r} : G \cap del[s] # {}}

\* Mutant: only rows of clusters the payload names are cleared.
ClearListed(r) ==
    {g \in snap[r] \cap grants :
        \E i \in 1..Len(Entries(r)) : Entries(r)[i].cluster = g.cluster}

\* The DELETE waits for rows another transaction is deleting and skips those
\* that are gone by then; rows committed after its snapshot are not deleted.
ClearTargets(r) == snap[r] \cap grants

\* Mutant: the INSERT loop starts one entry too early.
PutClearOffByOne(r) ==
    /\ pc[r] = "clear"
    /\ Holders(r, ClearTargets(r)) = {}
    /\ del' = [del EXCEPT ![r] = ClearTargets(r)]
    /\ pc' = [pc EXCEPT ![r] = "insert"]
    /\ idx' = [idx EXCEPT ![r] = 0]
    /\ UNCHANGED <<owner, nsCluster, live, grants, op, snap, ins>>

PutClear(r) ==
    /\ pc[r] = "clear"
    /\ Holders(r, ClearTargets(r)) = {}
    /\ del' = [del EXCEPT ![r] = ClearTargets(r)]
    /\ pc' = [pc EXCEPT ![r] = "insert"]
    /\ idx' = [idx EXCEPT ![r] = 1]
    /\ UNCHANGED <<owner, nsCluster, live, grants, op, snap, ins>>

NextRow(r) ==
    LET e == Entries(r)[idx[r]]
    IN  [user |-> op[r].target, cluster |-> e.cluster, ns |-> e.ns, by |-> r]

\* Mutant: the constraint of migration 0001, where NULLs never conflict.
SameKeyNullsDistinct(g, h) ==
    /\ g.user = h.user /\ g.cluster = h.cluster
    /\ g.ns # AllNamespaces /\ g.ns = h.ns

\* The two partial unique indexes of migration 0003.
SameKey(g, h) ==
    /\ g.user = h.user /\ g.cluster = h.cluster
    /\ \/ g.ns = AllNamespaces /\ h.ns = AllNamespaces
       \/ g.ns # AllNamespaces /\ g.ns = h.ns

KeyTaken(r, row) ==
    \E g \in (grants \ del[r]) \cup ins[r] : SameKey(g, row)

\* Mutant: access_grants without its REFERENCES clauses.
ForeignKeysAbsent(row) == row \in Row

ForeignKeysHold(row) ==
    /\ row.user \in live
    /\ row.cluster \in live
    /\ row.ns # AllNamespaces => row.ns \in live

\* Transactions an INSERT of `row` waits for: the same key inserted or deleted
\* but not committed, or a parent row locked by a DELETE.
InsertWaits(r, row) ==
    {s \in Request \ {r} :
        \/ \E g \in ins[s] \cup (grants \cap del[s]) : SameKey(g, row)
        \/ pc[s] = "cascade" /\ op[s].target \in {row.user, row.cluster}}

\* Mutant: the loop inserts through the pool instead of the transaction.
PutInsertAutocommit(r) ==
    /\ pc[r] = "insert"
    /\ idx[r] <= Len(Entries(r))
    /\ LET row == NextRow(r)
       IN  IF ~KeyTaken(r, row) /\ ForeignKeysHold(row)
             THEN /\ grants' = grants \cup {row}
                  /\ idx' = [idx EXCEPT ![r] = @ + 1]
                  /\ UNCHANGED <<pc, del, ins>>
             ELSE GiveUp(r) /\ UNCHANGED <<idx, grants>>
    /\ UNCHANGED <<owner, nsCluster, live, op, snap>>

PutInsert(r) ==
    /\ pc[r] = "insert"
    /\ idx[r] <= Len(Entries(r))
    /\ LET row == NextRow(r)
       IN  /\ InsertWaits(r, row) = {}
           /\ IF ~KeyTaken(r, row) /\ ForeignKeysHold(row)
                THEN /\ ins' = [ins EXCEPT ![r] = @ \cup {row}]
                     /\ idx' = [idx EXCEPT ![r] = @ + 1]
                     /\ UNCHANGED <<pc, del>>
                ELSE GiveUp(r) /\ UNCHANGED idx
    /\ UNCHANGED <<owner, nsCluster, live, grants, op, snap>>

PutCommit(r) ==
    /\ pc[r] = "insert"
    /\ idx[r] > Len(Entries(r))
    /\ grants' = (grants \ del[r]) \cup ins[r]
    /\ pc' = [pc EXCEPT ![r] = "committed"]
    /\ del' = [del EXCEPT ![r] = {}]
    /\ ins' = [ins EXCEPT ![r] = {}]
    /\ UNCHANGED <<owner, nsCluster, live, op, idx, snap>>

-----------------------------------------------------------------------------
(* DELETE /users/{id} and DELETE /clusters/{id}: one statement each, which  *)
(* locks the row, then cascades.                                            *)

DeleteStart(r, t, x) ==
    Start(r, [kind |-> "delete", tenant |-> t, target |-> x], "lock")

\* An uncommitted INSERT holds its parent rows FOR KEY SHARE.
LockWaits(r) ==
    {s \in Request \ {r} :
        \/ \E g \in ins[s] : op[r].target \in {g.user, g.cluster}
        \/ pc[s] = "cascade" /\ op[s].target = op[r].target}

\* Mutant: WHERE id = $1 alone.
DeleteLockAnyTenant(r) ==
    /\ pc[r] = "lock"
    /\ LockWaits(r) = {}
    /\ pc' = [pc EXCEPT ![r] = IF op[r].target \in live
                                 THEN "cascade" ELSE "failed"]
    /\ UNCHANGED <<owner, nsCluster, live, grants, op, idx, snap, del, ins>>

\* WHERE id = $1 AND tenant_id = $2; no row is a 404.
DeleteLock(r) ==
    /\ pc[r] = "lock"
    /\ LockWaits(r) = {}
    /\ pc' = [pc EXCEPT ![r] =
                IF op[r].target \in live /\ owner[op[r].target] = op[r].tenant
                  THEN "cascade" ELSE "failed"]
    /\ UNCHANGED <<owner, nsCluster, live, grants, op, idx, snap, del, ins>>

\* The grants that go with a parent row, by ON DELETE CASCADE.
Cascaded(x) ==
    {g \in grants : \/ x \in {g.user, g.cluster}
                    \/ g.ns # AllNamespaces /\ nsCluster[g.ns] = x}

DeleteCommit(r) ==
    LET x == op[r].target
    IN  /\ pc[r] = "cascade"
        /\ Holders(r, Cascaded(x)) = {}
        /\ live' = live \ ({x} \cup {n \in Namespace : nsCluster[n] = x})
        /\ grants' = grants \ Cascaded(x)
        /\ pc' = [pc EXCEPT ![r] = "committed"]
        /\ UNCHANGED <<owner, nsCluster, op, idx, snap, del, ins>>

-----------------------------------------------------------------------------
(* Failures. *)

Running(r) == pc[r] \notin {"idle", "committed", "failed"}

\* The client goes away, a statement or the connection fails.
Fail(r) ==
    /\ Running(r)
    /\ GiveUp(r)
    /\ UNCHANGED <<owner, nsCluster, live, grants, op, idx, snap>>

WaitsFor(r) ==
    CASE pc[r] = "clear" -> Holders(r, ClearTargets(r))
      [] pc[r] = "insert" /\ idx[r] <= Len(Entries(r)) ->
            InsertWaits(r, NextRow(r))
      [] pc[r] = "lock" -> LockWaits(r)
      [] pc[r] = "cascade" -> Holders(r, Cascaded(op[r].target))
      [] OTHER -> {}

\* PostgreSQL aborts a member of a cycle of waiting transactions.
Deadlocked(r) ==
    \E S \in SUBSET Request :
        r \in S /\ \A s \in S : WaitsFor(s) \cap S # {}

DeadlockVictim(r) ==
    /\ Running(r) /\ Deadlocked(r)
    /\ GiveUp(r)
    /\ UNCHANGED <<owner, nsCluster, live, grants, op, idx, snap>>

Step(r) ==
    \/ PutVerify(r) \/ PutBegin(r) \/ PutClear(r) \/ PutInsert(r)
    \/ PutCommit(r) \/ DeleteLock(r) \/ DeleteCommit(r)

Next ==
    \/ \E t \in Tenant : \/ \E u \in User : CreateUser(u, t)
                         \/ \E c \in Cluster : CreateCluster(c, t)
    \/ \E c \in Cluster, N \in SUBSET Namespace : ReportNamespaces(c, N)
    \/ \E r \in Request, t \in Tenant :
          \/ \E u \in User, p \in Payloads : PutStart(r, t, u, p)
          \/ \E x \in Parent : DeleteStart(r, t, x)
    \/ \E r \in Request : Step(r) \/ Fail(r) \/ DeadlockVictim(r)

Spec == Init /\ [][Next]_vars

\* A handler that can take its next step takes it, and PostgreSQL's deadlock
\* detector breaks cycles of waits; clients and failures owe nothing.
Fairness ==
    /\ \A r \in Request : WF_vars(Step(r))
    /\ WF_vars(\E r \in Request : DeadlockVictim(r))

FairSpec == Spec /\ Fairness

-----------------------------------------------------------------------------
(* Properties *)

\* Every variable ranges over the values the schema and the handlers allow.
TypeOK ==
    /\ owner \in [Parent -> Tenant \cup {NoTenant}]
    /\ nsCluster \in [Namespace -> Cluster \cup {NoCluster}]
    /\ live \in SUBSET (Parent \cup Namespace)
    /\ grants \in SUBSET Row
    /\ op \in [Request -> {NoOp} \cup Put \cup Delete]
    /\ pc \in [Request -> Stage]
    /\ idx \in [Request -> Nat \ {0}]
    /\ snap \in [Request -> SUBSET Row]
    /\ del \in [Request -> SUBSET Row]
    /\ ins \in [Request -> SUBSET Row]

\* A grant never crosses tenants, names a namespace of another cluster or
\* refers to a row that is gone, although PUT verifies its payload outside
\* the transaction that inserts it (rbac-service/main.go:291-347).
GrantIntegrity ==
    \A g \in grants :
        /\ {g.user, g.cluster} \subseteq live
        /\ owner[g.user] = owner[g.cluster]
        /\ g.ns # AllNamespaces =>
              g.ns \in live /\ nsCluster[g.ns] = g.cluster

\* One row per grant, full-cluster grants included, whatever is saved
\* concurrently (migration 0003).
NoDuplicateGrants ==
    \A g, h \in grants :
        (g.user = h.user /\ g.cluster = h.cluster /\ g.ns = h.ns) => g = h

\* No reader sees a row of a save that has not committed, or that failed
\* after some of its inserts.
OnlyCommittedSaves == \A g \in grants : pc[g.by] = "committed"

RowsOf(r) ==
    {[user |-> op[r].target, cluster |-> op[r].payload[i].cluster,
      ns |-> op[r].payload[i].ns, by |-> r] : i \in 1..Len(op[r].payload)}

Commits(r) == pc[r] # "committed" /\ pc'[r] = "committed"

\* A save that commits replaces in one step everything its DELETE saw by
\* exactly its payload, and touches no other user's grants.
SaveReplaces ==
    [][\A r \in Request : Commits(r) /\ op[r].kind = "put" =>
          /\ {g \in grants' : g.by = r} = RowsOf(r)
          /\ grants' \cap snap[r] = {}
          /\ \A g \in grants : g.user # op[r].target => g \in grants']_vars

\* The grants of a user change only when a request of an admin of that user's
\* own tenant commits.
TenantConfined ==
    [][\A g \in grants \cup grants' :
          (g \in grants) # (g \in grants') =>
             \E r \in Request : /\ Commits(r)
                                /\ op[r].tenant = owner[g.user]]_vars

\* What readers see of the table.
Visible == {[user |-> g.user, cluster |-> g.cluster, ns |-> g.ns] : g \in grants}

Table == INSTANCE GrantTable WITH access <- Visible

\* Transactions, locks and failures are invisible: readers see the steps of
\* GrantTable, one committed request at a time.
ImplementsGrantTable == Table!TableSpec

\* Every request that starts is answered, however requests block each other.
RequestsFinish == \A r \in Request : Running(r) ~> ~Running(r)

\* What query-gateway and the access editor say of a user's grants on one
\* cluster: full access or a list of namespaces, not both
\* (query-gateway/main.go:38-39).
EitherFullOrList ==
    \A g, h \in grants :
        g.user = h.user /\ g.cluster = h.cluster /\ g.ns = AllNamespaces
            => h.ns = AllNamespaces
=============================================================================
