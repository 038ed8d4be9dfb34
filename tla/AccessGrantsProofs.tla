------------------------- MODULE AccessGrantsProofs -------------------------
(***************************************************************************)
(* Safety of AccessGrants for any number of tenants, users, clusters,      *)
(* namespaces, requests and payloads.  The inductive invariant IInv says   *)
(* what a request in flight relies on: its payload was verified against    *)
(* columns that never change, and the parent rows of its uncommitted       *)
(* inserts cannot be deleted under it.  SInv says what a transaction has   *)
(* done so far and what its locks keep others from doing: a save is        *)
(* atomic, replaces what its DELETE saw and never makes a duplicate, and   *)
(* readers of access_grants see the steps of GrantTable.                   *)
(***************************************************************************)
EXTENDS AccessGrants, TLAPS

USE ConstantsAssumption

\* The handler a request runs is the one its operation names.
StageMatchesOp ==
    \A r \in Request :
        /\ pc[r] \in {"verify", "clear", "insert"} => op[r] \in Put
        /\ pc[r] \in {"lock", "cascade"} => op[r] \in Delete
        /\ pc[r] = "committed" => op[r] \in Put \cup Delete
        /\ pc[r] = "idle" => op[r] = NoOp /\ idx[r] = 1

\* A live user or cluster has an owner, so its id is not free.
LiveOwned == \A x \in live \cap Parent : owner[x] \in Tenant

\* What the checks before the transaction established still holds.
EntryVerified(e, t) ==
    /\ owner[e.cluster] = t
    /\ e.ns # AllNamespaces => nsCluster[e.ns] = e.cluster

Verified ==
    \A r \in Request :
        pc[r] \in {"verify", "clear", "insert"} =>
            /\ owner[op[r].target] = op[r].tenant
            /\ \A i \in 1..Len(op[r].payload) :
                  (pc[r] # "verify" \/ i < idx[r]) =>
                      EntryVerified(op[r].payload[i], op[r].tenant)

\* Uncommitted inserts are sound rows of a running transaction.
PendingSound ==
    \A r \in Request : \A g \in ins[r] :
        /\ pc[r] = "insert"
        /\ g.by = r
        /\ g.user = op[r].target
        /\ {g.user, g.cluster} \subseteq live
        /\ owner[g.user] = owner[g.cluster]
        /\ g.ns # AllNamespaces =>
              g.ns \in live /\ nsCluster[g.ns] = g.cluster
        /\ \A s \in Request :
              pc[s] = "cascade" => op[s].target \notin {g.user, g.cluster}

\* A cascade runs for the tenant that owns the row.
CascadeOwned ==
    \A r \in Request :
        pc[r] = "cascade" => owner[op[r].target] = op[r].tenant

Typed == TypeOK /\ StageMatchesOp

IInv == /\ Typed
        /\ LiveOwned
        /\ Verified
        /\ CascadeOwned
        /\ PendingSound
        /\ GrantIntegrity

-----------------------------------------------------------------------------
(* Types *)

LEMMA InitTyped == Init => Typed
<1> SUFFICES ASSUME Init PROVE Typed
    OBVIOUS
<1>1. TypeOK
    BY DEF Init, TypeOK, Stage
<1>2. StageMatchesOp
    BY DEF Init, StageMatchesOp
<1> QED BY <1>1, <1>2 DEF Typed

\* Every action of the next-state relation, for case analysis.
LEMMA NextCases ==
    ASSUME Next
    PROVE  \/ \E t \in Tenant, x \in Parent : CreateParent(x, t)
           \/ \E c \in Cluster, N \in SUBSET Namespace : ReportNamespaces(c, N)
           \/ \E r \in Request, t \in Tenant, u \in User, p \in Payloads :
                 PutStart(r, t, u, p)
           \/ \E r \in Request, t \in Tenant, x \in Parent : DeleteStart(r, t, x)
           \/ \E r \in Request : PutVerify(r)
           \/ \E r \in Request : PutBegin(r)
           \/ \E r \in Request : PutClear(r)
           \/ \E r \in Request : PutInsert(r)
           \/ \E r \in Request : PutCommit(r)
           \/ \E r \in Request : DeleteLock(r)
           \/ \E r \in Request : DeleteCommit(r)
           \/ \E r \in Request : Fail(r)
BY DEF Next, Step, CreateUser, CreateCluster, Parent, DeadlockVictim, Fail

\* The row an INSERT writes is a row of the table.
LEMMA NextRowTyped ==
    ASSUME Typed, NEW r \in Request, pc[r] = "insert",
           idx[r] <= Len(Entries(r))
    PROVE  /\ NextRow(r) \in Row
           /\ Entries(r)[idx[r]] \in Entry
           /\ idx[r] \in 1..Len(Entries(r))
<1>1. op[r] \in Put /\ idx[r] \in Nat \ {0}
    BY DEF Typed, TypeOK, StageMatchesOp
<1>2. Entries(r) \in Seq(Entry)
    BY <1>1 DEF Put, Entries
<1>3. Entries(r)[idx[r]] \in Entry
    BY <1>1, <1>2
<1> QED BY <1>1, <1>2, <1>3 DEF NextRow, Row, Entry, Put

LEMMA NextTyped == Typed /\ [Next]_vars => Typed'
<1> SUFFICES ASSUME Typed, [Next]_vars PROVE Typed'
    OBVIOUS
<1> USE DEF Typed
<1>1. CASE UNCHANGED vars
    BY <1>1 DEF vars, TypeOK, StageMatchesOp
<1>2. ASSUME NEW t \in Tenant, NEW x \in Parent, CreateParent(x, t)
      PROVE  Typed'
    BY <1>2 DEF CreateParent, TypeOK, StageMatchesOp
<1>3. ASSUME NEW c \in Cluster, NEW N \in SUBSET Namespace,
             ReportNamespaces(c, N)
      PROVE  Typed'
    BY <1>3 DEF ReportNamespaces, TypeOK, StageMatchesOp
<1>4. ASSUME NEW r \in Request, NEW t \in Tenant, NEW u \in User,
             NEW p \in Payloads, PutStart(r, t, u, p)
      PROVE  Typed'
  <2>1. [kind |-> "put", tenant |-> t, target |-> u, payload |-> p] \in Put
    BY DEF Put
  <2> QED BY <1>4, <2>1 DEF PutStart, Start, TypeOK, StageMatchesOp, Stage
<1>5. ASSUME NEW r \in Request, NEW t \in Tenant, NEW x \in Parent,
             DeleteStart(r, t, x)
      PROVE  Typed'
  <2>1. [kind |-> "delete", tenant |-> t, target |-> x] \in Delete
    BY DEF Delete
  <2> QED BY <1>5, <2>1 DEF DeleteStart, Start, TypeOK, StageMatchesOp, Stage
<1>6. ASSUME NEW r \in Request, PutVerify(r) PROVE Typed'
  <2>1. CASE EntryBelongs(Entries(r)[idx[r]], op[r].tenant)
    <3>1. idx' \in [Request -> Nat \ {0}]
      BY <1>6, <2>1 DEF PutVerify, TypeOK
    <3> QED BY <1>6, <2>1, <3>1 DEF PutVerify, TypeOK, StageMatchesOp
  <2>2. CASE ~EntryBelongs(Entries(r)[idx[r]], op[r].tenant)
    BY <1>6, <2>2 DEF PutVerify, GiveUp, TypeOK, StageMatchesOp, Stage
  <2> QED BY <2>1, <2>2
<1>7. ASSUME NEW r \in Request, PutBegin(r) PROVE Typed'
    BY <1>7 DEF PutBegin, UserAccess, TypeOK, StageMatchesOp, Stage
<1>8. ASSUME NEW r \in Request, PutClear(r) PROVE Typed'
    BY <1>8 DEF PutClear, ClearTargets, TypeOK, StageMatchesOp, Stage
<1>9. ASSUME NEW r \in Request, PutInsert(r) PROVE Typed'
  <2>1. NextRow(r) \in Row
    BY <1>9, NextRowTyped DEF PutInsert
  <2>2. CASE ~KeyTaken(r, NextRow(r)) /\ ForeignKeysHold(NextRow(r))
    <3>1. /\ idx' \in [Request -> Nat \ {0}]
          /\ ins' \in [Request -> SUBSET Row]
      BY <1>9, <2>1, <2>2 DEF PutInsert, TypeOK
    <3> QED BY <1>9, <2>2, <3>1 DEF PutInsert, TypeOK, StageMatchesOp
  <2>3. CASE ~(~KeyTaken(r, NextRow(r)) /\ ForeignKeysHold(NextRow(r)))
    BY <1>9, <2>3 DEF PutInsert, GiveUp, TypeOK, StageMatchesOp, Stage
  <2> QED BY <2>2, <2>3
<1>10. ASSUME NEW r \in Request, PutCommit(r) PROVE Typed'
    BY <1>10 DEF PutCommit, TypeOK, StageMatchesOp, Stage
<1>11. ASSUME NEW r \in Request, DeleteLock(r) PROVE Typed'
    BY <1>11 DEF DeleteLock, TypeOK, StageMatchesOp, Stage
<1>12. ASSUME NEW r \in Request, DeleteCommit(r) PROVE Typed'
    BY <1>12 DEF DeleteCommit, TypeOK, StageMatchesOp, Stage
<1>13. ASSUME NEW r \in Request, Fail(r) PROVE Typed'
    BY <1>13 DEF Fail, GiveUp, TypeOK, StageMatchesOp, Stage
<1> QED
    BY <1>1, <1>2, <1>3, <1>4, <1>5, <1>6, <1>7, <1>8, <1>9, <1>10, <1>11,
       <1>12, <1>13, NextCases

\* Every variable keeps its type, for every value of the constants.
THEOREM TypeCorrect == Spec => []TypeOK
<1>1. Spec => []Typed
    BY InitTyped, NextTyped, PTL DEF Spec
<1> QED BY <1>1, PTL DEF Typed

-----------------------------------------------------------------------------
(* Grants stay inside their tenant *)

LEMMA InitIInv == Init => IInv
<1> SUFFICES ASSUME Init PROVE IInv
    OBVIOUS
<1>1. LiveOwned /\ Verified /\ CascadeOwned /\ PendingSound /\ GrantIntegrity
    BY DEF Init, LiveOwned, Verified, CascadeOwned, PendingSound,
           GrantIntegrity
<1> QED BY <1>1, InitTyped DEF IInv

\* What a free id is not: no row that exists, and no verified entry, names it.
LEMMA FreeIds ==
    ASSUME IInv
    PROVE  /\ \A x \in Parent : owner[x] = NoTenant => x \notin live
           /\ \A r \in Request : op[r] \in Put \cup Delete =>
                 op[r].tenant # NoTenant /\ op[r].target \in Parent
           /\ \A g \in Row : {g.user, g.cluster} \subseteq Parent
BY DEF IInv, LiveOwned, Put, Delete, Parent, Row

LEMMA PayloadTyped ==
    ASSUME NEW o \in Put
    PROVE  /\ Len(o.payload) \in Nat
           /\ \A i \in 1..Len(o.payload) : o.payload[i] \in Entry
<1>1. o.payload \in Seq(Entry)
    BY DEF Put
<1> QED BY <1>1

LEMMA CreateKeeps ==
    ASSUME IInv, NEW t \in Tenant, NEW x \in Parent, CreateParent(x, t), Typed'
    PROVE  IInv'
<1> USE DEF CreateParent
<1>1. LiveOwned'
    BY DEF IInv, Typed, TypeOK, LiveOwned
<1>2. ASSUME NEW y \in Parent, owner[y] # NoTenant
      PROVE  owner'[y] = owner[y]
    BY <1>2 DEF IInv, Typed, TypeOK
<1>3. Verified'
  <2> SUFFICES ASSUME NEW r \in Request, pc[r] \in {"verify", "clear", "insert"}
               PROVE  /\ owner'[op[r].target] = op[r].tenant
                      /\ \A i \in 1..Len(op[r].payload) :
                            (pc[r] # "verify" \/ i < idx[r]) =>
                                EntryVerified(op[r].payload[i], op[r].tenant)'
    BY DEF Verified
  <2>1. op[r] \in Put
    BY DEF IInv, Typed, StageMatchesOp
  <2>2. owner'[op[r].target] = op[r].tenant
    BY <2>1, <1>2, FreeIds DEF IInv, Verified
  <2>3. ASSUME NEW i \in 1..Len(op[r].payload),
               pc[r] # "verify" \/ i < idx[r]
        PROVE  EntryVerified(op[r].payload[i], op[r].tenant)'
    <3>1. EntryVerified(op[r].payload[i], op[r].tenant)
      BY <2>3 DEF IInv, Verified
    <3>2. op[r].payload[i].cluster \in Parent
      BY <2>1, PayloadTyped DEF Entry, Parent
    <3> QED BY <2>1, <3>1, <3>2, <1>2, FreeIds DEF EntryVerified
  <2> QED BY <2>2, <2>3
<1>4. CascadeOwned'
    BY <1>2, FreeIds DEF IInv, Typed, StageMatchesOp, CascadeOwned
<1>5. ASSUME NEW g \in Row, {g.user, g.cluster} \subseteq live
      PROVE  owner'[g.user] = owner[g.user] /\ owner'[g.cluster] = owner[g.cluster]
    BY <1>2, <1>5, FreeIds
<1>6. PendingSound'
  <2> SUFFICES ASSUME NEW r \in Request, NEW g \in ins[r]
               PROVE  /\ {g.user, g.cluster} \subseteq live'
                      /\ owner'[g.user] = owner'[g.cluster]
                      /\ g.ns # AllNamespaces => g.ns \in live'
    BY DEF IInv, PendingSound
  <2>1. g \in Row
    BY DEF IInv, Typed, TypeOK
  <2> QED BY <2>1, <1>5 DEF IInv, PendingSound
<1>7. GrantIntegrity'
  <2> SUFFICES ASSUME NEW g \in grants
               PROVE  /\ {g.user, g.cluster} \subseteq live'
                      /\ owner'[g.user] = owner'[g.cluster]
                      /\ g.ns # AllNamespaces =>
                            g.ns \in live' /\ nsCluster[g.ns] = g.cluster
    BY DEF GrantIntegrity
  <2>1. g \in Row
    BY DEF IInv, Typed, TypeOK
  <2> QED BY <2>1, <1>5 DEF IInv, GrantIntegrity
<1> QED BY <1>1, <1>3, <1>4, <1>6, <1>7 DEF IInv

LEMMA ReportKeeps ==
    ASSUME IInv, NEW c \in Cluster, NEW N \in SUBSET Namespace,
           ReportNamespaces(c, N), Typed'
    PROVE  IInv'
<1> USE DEF ReportNamespaces
<1>1. LiveOwned'
    BY DEF IInv, LiveOwned
<1>2. ASSUME NEW n \in Namespace, nsCluster[n] \in Cluster
      PROVE  nsCluster'[n] = nsCluster[n]
    BY <1>2
<1>3. Verified'
  <2> SUFFICES ASSUME NEW r \in Request,
                      pc[r] \in {"verify", "clear", "insert"},
                      NEW i \in 1..Len(op[r].payload),
                      pc[r] # "verify" \/ i < idx[r]
               PROVE  EntryVerified(op[r].payload[i], op[r].tenant)'
    BY DEF IInv, Verified
  <2>1. op[r].payload[i] \in Entry
    BY PayloadTyped DEF IInv, Typed, StageMatchesOp
  <2>2. EntryVerified(op[r].payload[i], op[r].tenant)
    BY DEF IInv, Verified
  <2> QED BY <2>1, <2>2, <1>2 DEF EntryVerified, Entry, NsScope
<1>4. CascadeOwned'
    BY DEF IInv, CascadeOwned
<1>5. PendingSound'
  <2> SUFFICES ASSUME NEW r \in Request, NEW g \in ins[r]
               PROVE  /\ {g.user, g.cluster} \subseteq live'
                      /\ g.ns # AllNamespaces =>
                            g.ns \in live' /\ nsCluster'[g.ns] = g.cluster
    BY DEF IInv, PendingSound
  <2>1. g \in Row
    BY DEF IInv, Typed, TypeOK
  <2> QED BY <2>1, <1>2 DEF IInv, PendingSound, Row, NsScope
<1>6. GrantIntegrity'
  <2> SUFFICES ASSUME NEW g \in grants
               PROVE  /\ {g.user, g.cluster} \subseteq live'
                      /\ g.ns # AllNamespaces =>
                            g.ns \in live' /\ nsCluster'[g.ns] = g.cluster
    BY DEF IInv, GrantIntegrity
  <2>1. g \in Row
    BY DEF IInv, Typed, TypeOK
  <2> QED BY <2>1, <1>2 DEF IInv, GrantIntegrity, Row, NsScope
<1> QED BY <1>1, <1>3, <1>4, <1>5, <1>6 DEF IInv

\* Steps that leave the tables alone only move requests.
LEMMA TablesKeep ==
    ASSUME IInv, UNCHANGED tables
    PROVE  LiveOwned' /\ GrantIntegrity'
BY DEF IInv, tables, LiveOwned, GrantIntegrity

LEMMA StartKeeps ==
    ASSUME IInv, NEW r \in Request, NEW t \in Tenant, Typed',
           \/ \E u \in User, p \in Payloads : PutStart(r, t, u, p)
           \/ \E x \in Parent : DeleteStart(r, t, x)
    PROVE  IInv'
<1> USE DEF PutStart, DeleteStart, Start
<1>1. UNCHANGED <<tables, idx, ins>>
    BY DEF tables
<1>2. /\ pc[r] = "idle" /\ pc'[r] \in {"verify", "lock"}
      /\ \A s \in Request \ {r} : pc'[s] = pc[s] /\ op'[s] = op[s]
      /\ idx[r] = 1
    BY DEF IInv, Typed, TypeOK, StageMatchesOp
<1>3. pc'[r] = "verify" => owner[op'[r].target] = op'[r].tenant
    BY DEF IInv, Typed, TypeOK
<1>4. Verified'
  <2> SUFFICES ASSUME NEW s \in Request,
                      pc'[s] \in {"verify", "clear", "insert"}
               PROVE  /\ owner[op'[s].target] = op'[s].tenant
                      /\ \A i \in 1..Len(op'[s].payload) :
                            (pc'[s] # "verify" \/ i < idx[s]) =>
                                EntryVerified(op[s].payload[i], op[s].tenant)'
    BY <1>1 DEF Verified, tables
  <2>1. CASE s = r
    <3>1. op'[r] \in Put
      BY <2>1 DEF Typed, StageMatchesOp
    <3> QED BY <2>1, <1>2, <1>3, <3>1, PayloadTyped
  <2>2. CASE s # r
    BY <2>2, <1>1, <1>2 DEF IInv, Verified, EntryVerified, tables
  <2> QED BY <2>1, <2>2
<1>5. CascadeOwned'
    BY <1>1, <1>2 DEF IInv, CascadeOwned, tables
<1>6. PendingSound'
    BY <1>1, <1>2 DEF IInv, PendingSound, tables
<1> QED BY <1>1, <1>4, <1>5, <1>6, TablesKeep DEF IInv

LEMMA FailKeeps ==
    ASSUME IInv, NEW r \in Request, GiveUp(r), Typed',
           UNCHANGED <<tables, op, idx>>
    PROVE  IInv'
<1> USE DEF GiveUp
<1>1. /\ pc'[r] = "failed" /\ ins'[r] = {}
      /\ \A s \in Request \ {r} : pc'[s] = pc[s] /\ ins'[s] = ins[s]
    BY DEF IInv, Typed, TypeOK
<1>2. Verified' /\ CascadeOwned'
    BY <1>1 DEF IInv, Verified, EntryVerified, CascadeOwned, tables
<1>3. PendingSound'
    BY <1>1 DEF IInv, PendingSound, tables
<1> QED BY <1>2, <1>3, TablesKeep DEF IInv

LEMMA VerifyKeeps ==
    ASSUME IInv, NEW r \in Request, PutVerify(r), Typed'
    PROVE  IInv'
<1> USE DEF PutVerify
<1>1. UNCHANGED <<tables, op>>
    BY DEF tables
<1>2. CASE ~EntryBelongs(Entries(r)[idx[r]], op[r].tenant)
    BY <1>1, <1>2, FailKeeps
<1>3. CASE EntryBelongs(Entries(r)[idx[r]], op[r].tenant)
  <2>1. /\ UNCHANGED <<pc, ins>>
        /\ idx'[r] = idx[r] + 1
        /\ \A s \in Request \ {r} : idx'[s] = idx[s]
    BY <1>3 DEF IInv, Typed, TypeOK
  <2>2. EntryVerified(Entries(r)[idx[r]], op[r].tenant)
    BY <1>3 DEF EntryBelongs, EntryVerified
  <2>3. Verified'
    <3> SUFFICES ASSUME NEW s \in Request,
                        pc[s] \in {"verify", "clear", "insert"},
                        NEW i \in 1..Len(op[s].payload),
                        pc[s] # "verify" \/ i < idx'[s]
                 PROVE  EntryVerified(op[s].payload[i], op[s].tenant)
      BY <1>1, <2>1 DEF IInv, Verified, EntryVerified, tables
    <3>1. CASE s = r /\ i = idx[r]
      BY <3>1, <2>2 DEF Entries
    <3>2. CASE s = r /\ i # idx[r]
      <4>1. i < idx[r]
        BY <3>2, <2>1 DEF IInv, Typed, TypeOK
      <4> QED BY <3>2, <4>1 DEF IInv, Verified
    <3>3. CASE s # r
      BY <3>3, <2>1 DEF IInv, Verified
    <3> QED BY <3>1, <3>2, <3>3
  <2>4. CascadeOwned' /\ PendingSound'
    BY <1>1, <2>1 DEF IInv, CascadeOwned, PendingSound, tables
  <2> QED BY <1>1, <2>3, <2>4, TablesKeep DEF IInv
<1> QED BY <1>2, <1>3

\* Begin and DELETE: the whole payload is verified from here on.
LEMMA ClearKeeps ==
    ASSUME IInv, NEW r \in Request, PutBegin(r) \/ PutClear(r), Typed'
    PROVE  IInv'
<1> USE DEF PutBegin, PutClear
<1>1. UNCHANGED <<tables, op, ins>>
    BY DEF tables
<1>2. /\ pc[r] \in {"verify", "clear"} /\ pc'[r] \in {"clear", "insert"}
      /\ pc[r] = "verify" => idx[r] > Len(op[r].payload)
      /\ \A s \in Request \ {r} : pc'[s] = pc[s] /\ idx'[s] = idx[s]
    BY DEF IInv, Typed, TypeOK, Entries
<1>3. Verified'
  <2> SUFFICES ASSUME NEW s \in Request,
                      pc'[s] \in {"verify", "clear", "insert"}
               PROVE  /\ owner[op[s].target] = op[s].tenant
                      /\ \A i \in 1..Len(op[s].payload) :
                            (pc'[s] # "verify" \/ i < idx'[s]) =>
                                EntryVerified(op[s].payload[i], op[s].tenant)
    BY <1>1 DEF Verified, EntryVerified, tables
  <2>1. CASE s = r
    <3>1. op[r] \in Put /\ idx[r] \in Nat
      BY <1>2 DEF IInv, Typed, TypeOK, StageMatchesOp
    <3> QED BY <2>1, <1>2, <3>1, PayloadTyped DEF IInv, Verified
  <2>2. CASE s # r
    BY <2>2, <1>2 DEF IInv, Verified
  <2> QED BY <2>1, <2>2
<1>4. CascadeOwned' /\ PendingSound'
    BY <1>1, <1>2 DEF IInv, CascadeOwned, PendingSound, tables
<1> QED BY <1>1, <1>3, <1>4, TablesKeep DEF IInv

LEMMA InsertKeeps ==
    ASSUME IInv, NEW r \in Request, PutInsert(r), Typed'
    PROVE  IInv'
<1> DEFINE row == NextRow(r)
<1>1. UNCHANGED <<tables, op>>
    BY DEF tables, PutInsert
<1>2. CASE ~(~KeyTaken(r, row) /\ ForeignKeysHold(row))
    BY <1>1, <1>2, FailKeeps DEF PutInsert
<1>3. CASE ~KeyTaken(r, row) /\ ForeignKeysHold(row)
  <2>1. /\ pc[r] = "insert" /\ UNCHANGED pc
        /\ ins'[r] = ins[r] \cup {row}
        /\ \A s \in Request \ {r} : ins'[s] = ins[s] /\ idx'[s] = idx[s]
    BY <1>3 DEF PutInsert, IInv, Typed, TypeOK
  <2>2. /\ op[r] \in Put
        /\ row \in Row
        /\ idx[r] \in 1..Len(op[r].payload)
    BY <2>1, NextRowTyped DEF PutInsert, IInv, Typed, StageMatchesOp, Entries
  <2>3. /\ row.user = op[r].target /\ row.by = r
        /\ row.cluster = op[r].payload[idx[r]].cluster
        /\ row.ns = op[r].payload[idx[r]].ns
    BY DEF NextRow, Entries
  <2>4. /\ owner[op[r].target] = op[r].tenant
        /\ EntryVerified(op[r].payload[idx[r]], op[r].tenant)
    BY <2>1, <2>2 DEF IInv, Verified
  <2>5. /\ {row.user, row.cluster} \subseteq live
        /\ owner[row.user] = owner[row.cluster]
        /\ row.ns # AllNamespaces =>
              row.ns \in live /\ nsCluster[row.ns] = row.cluster
    BY <1>3, <2>3, <2>4 DEF ForeignKeysHold, EntryVerified
  <2>6. ASSUME NEW s \in Request, pc[s] = "cascade"
        PROVE  op[s].target \notin {row.user, row.cluster}
    <3>1. s # r
      BY <2>1, <2>6
    <3>2. InsertWaits(r, row) = {}
      BY DEF PutInsert
    <3> QED BY <2>6, <3>1, <3>2 DEF InsertWaits
  <2>7. PendingSound'
    <3> SUFFICES ASSUME NEW s \in Request, NEW g \in ins'[s]
                 PROVE  /\ pc[s] = "insert"
                        /\ g.by = s
                        /\ g.user = op[s].target
                        /\ {g.user, g.cluster} \subseteq live
                        /\ owner[g.user] = owner[g.cluster]
                        /\ g.ns # AllNamespaces =>
                              g.ns \in live /\ nsCluster[g.ns] = g.cluster
                        /\ \A q \in Request : pc[q] = "cascade" =>
                              op[q].target \notin {g.user, g.cluster}
      BY <1>1, <2>1 DEF PendingSound, tables
    <3>1. CASE s = r /\ g = row
      BY <3>1, <2>1, <2>3, <2>5, <2>6
    <3>2. CASE g \in ins[s]
      BY <3>2 DEF IInv, PendingSound
    <3> QED BY <3>1, <3>2, <2>1
  <2>8. Verified'
    BY <1>1, <2>1 DEF IInv, Verified, EntryVerified, tables
  <2>9. CascadeOwned'
    BY <1>1, <2>1 DEF IInv, CascadeOwned, tables
  <2> QED BY <1>1, <2>7, <2>8, <2>9, TablesKeep DEF IInv
<1> QED BY <1>2, <1>3

LEMMA CommitKeeps ==
    ASSUME IInv, NEW r \in Request, PutCommit(r), Typed'
    PROVE  IInv'
<1> USE DEF PutCommit
<1>1. /\ pc'[r] = "committed" /\ ins'[r] = {}
      /\ \A s \in Request \ {r} : pc'[s] = pc[s] /\ ins'[s] = ins[s]
    BY DEF IInv, Typed, TypeOK
<1>2. LiveOwned'
    BY DEF IInv, LiveOwned
<1>3. Verified' /\ CascadeOwned'
    BY <1>1 DEF IInv, Verified, EntryVerified, CascadeOwned
<1>4. PendingSound'
    BY <1>1 DEF IInv, PendingSound
<1>5. GrantIntegrity'
    BY DEF IInv, PendingSound, GrantIntegrity
<1> QED BY <1>2, <1>3, <1>4, <1>5 DEF IInv

\* A DELETE that has its row locked excludes uncommitted inserts under it.
LEMMA LockKeeps ==
    ASSUME IInv, NEW r \in Request, DeleteLock(r), Typed'
    PROVE  IInv'
<1> USE DEF DeleteLock
<1>1. UNCHANGED <<tables, op, idx, ins>>
    BY DEF tables
<1>2. /\ pc[r] = "lock" /\ pc'[r] \in {"cascade", "failed"}
      /\ pc'[r] = "cascade" => owner[op[r].target] = op[r].tenant
      /\ \A s \in Request \ {r} : pc'[s] = pc[s]
    BY DEF IInv, Typed, TypeOK
<1>3. Verified' /\ CascadeOwned'
    BY <1>1, <1>2 DEF IInv, Verified, EntryVerified, CascadeOwned, tables
<1>4. ASSUME NEW s \in Request, NEW g \in ins[s]
      PROVE  op[r].target \notin {g.user, g.cluster}
  <2>1. s # r
    BY <1>2, <1>4 DEF IInv, PendingSound
  <2> QED BY <1>4, <2>1 DEF LockWaits
<1>5. PendingSound'
    BY <1>1, <1>2, <1>4 DEF IInv, PendingSound, tables
<1> QED BY <1>1, <1>3, <1>5, TablesKeep DEF IInv

LEMMA CascadeKeeps ==
    ASSUME IInv, NEW r \in Request, DeleteCommit(r), Typed'
    PROVE  IInv'
<1> DEFINE x == op[r].target
<1>1. /\ pc[r] = "cascade" /\ pc'[r] = "committed"
      /\ \A s \in Request \ {r} : pc'[s] = pc[s]
      /\ live' = live \ ({x} \cup {n \in Namespace : nsCluster[n] = x})
      /\ grants' = grants \ Cascaded(x)
      /\ UNCHANGED <<owner, nsCluster, op, idx, snap, del, ins>>
    BY DEF DeleteCommit, IInv, Typed, TypeOK
<1>2. LiveOwned'
    BY <1>1 DEF IInv, LiveOwned
<1>3. Verified' /\ CascadeOwned'
    BY <1>1 DEF IInv, Verified, EntryVerified, CascadeOwned
<1>4. x \in Parent
    BY <1>1, FreeIds DEF IInv, Typed, StageMatchesOp
<1>5. ASSUME NEW g \in Row, x \notin {g.user, g.cluster},
             {g.user, g.cluster} \subseteq live,
             g.ns # AllNamespaces => g.ns \in live /\ nsCluster[g.ns] = g.cluster
      PROVE  /\ {g.user, g.cluster} \subseteq live'
             /\ g.ns # AllNamespaces => g.ns \in live'
  <2>1. g.user \notin Namespace /\ g.cluster \notin Namespace
    BY DEF Row, Parent
  <2>2. g.ns # AllNamespaces => g.ns \in Namespace
    BY DEF Row, NsScope
  <2> QED BY <1>1, <1>4, <1>5, <2>1, <2>2
<1>6. PendingSound'
  <2> SUFFICES ASSUME NEW s \in Request, NEW g \in ins[s]
               PROVE  /\ pc'[s] = "insert"
                      /\ {g.user, g.cluster} \subseteq live'
                      /\ g.ns # AllNamespaces => g.ns \in live'
    BY <1>1 DEF IInv, PendingSound
  <2>1. g \in Row
    BY DEF IInv, Typed, TypeOK
  <2>2. pc[s] = "insert" /\ x \notin {g.user, g.cluster}
    BY <1>1 DEF IInv, PendingSound
  <2> QED BY <2>1, <2>2, <1>1, <1>5 DEF IInv, PendingSound
<1>7. GrantIntegrity'
  <2> SUFFICES ASSUME NEW g \in grants \ Cascaded(x)
               PROVE  /\ {g.user, g.cluster} \subseteq live'
                      /\ g.ns # AllNamespaces => g.ns \in live'
    BY <1>1 DEF IInv, GrantIntegrity
  <2>1. g \in Row /\ x \notin {g.user, g.cluster}
    BY DEF IInv, Typed, TypeOK, Cascaded
  <2> QED BY <2>1, <1>5 DEF IInv, GrantIntegrity
<1> QED BY <1>2, <1>3, <1>6, <1>7 DEF IInv

LEMMA NextIInv == IInv /\ [Next]_vars => IInv'
<1> SUFFICES ASSUME IInv, [Next]_vars PROVE IInv'
    OBVIOUS
<1>1. Typed'
    BY NextTyped DEF IInv
<1>2. CASE UNCHANGED vars
    BY <1>1, <1>2 DEF vars, IInv, LiveOwned, Verified, EntryVerified,
                      CascadeOwned, PendingSound, GrantIntegrity
<1>3. ASSUME NEW r \in Request, Fail(r) PROVE IInv'
    BY <1>1, <1>3, FailKeeps DEF Fail, tables
<1> QED
    BY <1>1, <1>2, <1>3, NextCases, CreateKeeps, ReportKeeps, StartKeeps,
       VerifyKeeps, ClearKeeps, InsertKeeps, CommitKeeps, LockKeeps,
       CascadeKeeps

LEMMA Inductive == Spec => []IInv
BY InitIInv, NextIInv, PTL DEF Spec

\* No committed grant crosses tenants, mixes a cluster with a foreign
\* namespace, or outlives a row it names: verifying outside the transaction
\* is enough, because the columns verified never change.
THEOREM GrantsSound == Spec => []GrantIntegrity
BY Inductive, PTL DEF IInv

-----------------------------------------------------------------------------
(* What a save does *)

\* What a DELETE saw was committed, and was of the user being saved.
SnapshotSound ==
    \A r \in Request : \A g \in snap[r] :
        /\ pc[g.by] = "committed"
        /\ pc[r] \in {"clear", "insert"} => g.user = op[r].target

\* A transaction deletes of what it saw all that is still there.
ClearSound ==
    \A r \in Request :
        /\ del[r] \subseteq snap[r]
        /\ del[r] # {} => pc[r] = "insert"
        /\ pc[r] = "insert" => snap[r] \cap grants \subseteq del[r]

\* The row that entry i of request r's payload becomes.
EntryRow(r, i) ==
    [user |-> op[r].target, cluster |-> op[r].payload[i].cluster,
     ns |-> op[r].payload[i].ns, by |-> r]

\* The INSERT loop has written the entries before idx, and nothing else.
InsertSound ==
    \A r \in Request :
        pc[r] = "insert" =>
            /\ idx[r] <= Len(op[r].payload) + 1
            /\ ins[r] = {EntryRow(r, i) : i \in 1..(idx[r] - 1)}

\* The unique indexes hold for every transaction that may still commit: what
\* it inserted meets no row that it leaves, and no other's insert.
KeysFree ==
    \A r \in Request : \A h \in ins[r] :
        /\ \A g \in grants \ del[r] : ~SameKey(g, h)
        /\ \A s \in Request \ {r} : \A g \in ins[s] : ~SameKey(g, h)

\* A row lock: the row is there, and nobody else cascades from it.
CascadeHeld ==
    \A r \in Request :
        pc[r] = "cascade" =>
            /\ op[r].target \in live
            /\ \A s \in Request \ {r} :
                  pc[s] = "cascade" => op[s].target # op[r].target

SInv == /\ OnlyCommittedSaves
        /\ SnapshotSound
        /\ ClearSound
        /\ InsertSound
        /\ KeysFree
        /\ CascadeHeld
        /\ NoDuplicateGrants

-----------------------------------------------------------------------------
(* Rows and keys *)

LEMMA SameKeyIsEquality ==
    ASSUME NEW g \in Row, NEW h \in Row
    PROVE  /\ SameKey(g, h) <=>
                 g.user = h.user /\ g.cluster = h.cluster /\ g.ns = h.ns
           /\ g.user = h.user /\ g.cluster = h.cluster /\ g.ns = h.ns
                 /\ g.by = h.by => g = h
BY DEF Row, SameKey

\* Where the rows that requests work on come from.
LEMMA RowsTyped ==
    ASSUME IInv
    PROVE  /\ grants \subseteq Row
           /\ \A r \in Request : /\ ins[r] \subseteq Row
                                 /\ del[r] \subseteq Row
                                 /\ snap[r] \subseteq Row
           /\ \A g \in Row : g.by \in Request
BY DEF IInv, Typed, TypeOK, Row

LEMMA InitSInv == Init => SInv
BY DEF Init, SInv, OnlyCommittedSaves, SnapshotSound, ClearSound, InsertSound,
       KeysFree, CascadeHeld, NoDuplicateGrants

-----------------------------------------------------------------------------
(* Steps of one request *)

\* A step that moves request r alone, and neither inserts nor commits.
LEMMA MoveKeepsCommitted ==
    ASSUME IInv, SInv, NEW r \in Request, pc[r] # "committed",
           \A s \in Request \ {r} : pc'[s] = pc[s],
           UNCHANGED <<grants, snap>>
    PROVE  /\ OnlyCommittedSaves' /\ NoDuplicateGrants'
           /\ \A s \in Request : \A g \in snap[s] : pc'[g.by] = "committed"
BY RowsTyped DEF SInv, OnlyCommittedSaves, NoDuplicateGrants, SnapshotSound

LEMMA TablesKeepS ==
    ASSUME IInv, SInv, live \subseteq live', UNCHANGED <<grants, op, pc, idx, snap, del, ins>>
    PROVE  SInv'
BY DEF SInv, OnlyCommittedSaves, SnapshotSound, ClearSound, InsertSound,
       EntryRow, KeysFree, CascadeHeld, NoDuplicateGrants

LEMMA StartKeepsS ==
    ASSUME IInv, SInv, NEW r \in Request, NEW t \in Tenant,
           \/ \E u \in User, p \in Payloads : PutStart(r, t, u, p)
           \/ \E x \in Parent : DeleteStart(r, t, x)
    PROVE  SInv'
<1> USE DEF PutStart, DeleteStart, Start
<1>1. /\ pc[r] = "idle" /\ pc'[r] \in {"verify", "lock"}
      /\ \A s \in Request \ {r} : pc'[s] = pc[s] /\ op'[s] = op[s]
      /\ UNCHANGED <<live, grants, idx, snap, del, ins>>
    BY DEF IInv, Typed, TypeOK
<1>2. /\ OnlyCommittedSaves' /\ NoDuplicateGrants'
      /\ \A s \in Request : \A g \in snap[s] : pc'[g.by] = "committed"
    BY <1>1, MoveKeepsCommitted
<1>3. SnapshotSound'
    BY <1>1, <1>2 DEF SInv, SnapshotSound
<1>4. ClearSound' /\ KeysFree'
    BY <1>1 DEF SInv, ClearSound, KeysFree
<1>5. InsertSound' /\ CascadeHeld'
    BY <1>1 DEF SInv, InsertSound, EntryRow, CascadeHeld
<1> QED BY <1>2, <1>3, <1>4, <1>5 DEF SInv

LEMMA FailKeepsS ==
    ASSUME IInv, SInv, NEW r \in Request, Running(r), GiveUp(r),
           UNCHANGED <<tables, op, idx, snap>>
    PROVE  SInv'
<1>1. /\ pc[r] # "committed" /\ pc'[r] = "failed"
      /\ del'[r] = {} /\ ins'[r] = {}
      /\ \A s \in Request \ {r} :
            pc'[s] = pc[s] /\ del'[s] = del[s] /\ ins'[s] = ins[s]
      /\ UNCHANGED <<live, grants, op, idx, snap>>
    BY DEF Running, GiveUp, tables, IInv, Typed, TypeOK
<1>2. /\ OnlyCommittedSaves' /\ NoDuplicateGrants'
      /\ \A s \in Request : \A g \in snap[s] : pc'[g.by] = "committed"
    BY <1>1, MoveKeepsCommitted
<1>3. SnapshotSound'
    BY <1>1, <1>2 DEF SInv, SnapshotSound
<1>4. ClearSound' /\ InsertSound' /\ CascadeHeld'
    BY <1>1 DEF SInv, ClearSound, InsertSound, EntryRow, CascadeHeld
<1>5. KeysFree'
    BY <1>1 DEF SInv, KeysFree
<1> QED BY <1>2, <1>3, <1>4, <1>5 DEF SInv

LEMMA VerifyKeepsS ==
    ASSUME IInv, SInv, NEW r \in Request, PutVerify(r)
    PROVE  SInv'
<1>1. CASE ~EntryBelongs(Entries(r)[idx[r]], op[r].tenant)
    BY <1>1, FailKeepsS DEF PutVerify, Running, tables
<1>2. CASE EntryBelongs(Entries(r)[idx[r]], op[r].tenant)
  <2>1. /\ pc[r] = "verify"
        /\ \A s \in Request \ {r} : idx'[s] = idx[s]
        /\ UNCHANGED <<live, grants, op, pc, snap, del, ins>>
    BY <1>2 DEF PutVerify, IInv, Typed, TypeOK
  <2> QED BY <2>1 DEF SInv, OnlyCommittedSaves, SnapshotSound, ClearSound,
                      InsertSound, EntryRow, KeysFree, CascadeHeld,
                      NoDuplicateGrants
<1> QED BY <1>1, <1>2

LEMMA BeginKeepsS ==
    ASSUME IInv, SInv, NEW r \in Request, PutBegin(r)
    PROVE  SInv'
<1>1. /\ pc[r] = "verify" /\ pc'[r] = "clear"
      /\ snap'[r] = UserAccess(op[r].target)
      /\ \A s \in Request \ {r} : pc'[s] = pc[s] /\ snap'[s] = snap[s]
      /\ UNCHANGED <<live, grants, op, idx, del, ins>>
    BY DEF PutBegin, IInv, Typed, TypeOK
<1>2. OnlyCommittedSaves' /\ NoDuplicateGrants'
    BY <1>1, RowsTyped DEF SInv, OnlyCommittedSaves, NoDuplicateGrants
<1>3. SnapshotSound'
    BY <1>1, <1>2, RowsTyped DEF SInv, SnapshotSound, OnlyCommittedSaves, UserAccess
<1>4. del[r] = {} /\ ins[r] = {}
    BY <1>1 DEF SInv, ClearSound, IInv, PendingSound
<1>5. ClearSound' /\ KeysFree'
    BY <1>1, <1>4 DEF SInv, ClearSound, KeysFree
<1>6. InsertSound' /\ CascadeHeld'
    BY <1>1 DEF SInv, InsertSound, EntryRow, CascadeHeld
<1> QED BY <1>2, <1>3, <1>5, <1>6 DEF SInv

LEMMA ClearKeepsS ==
    ASSUME IInv, SInv, NEW r \in Request, PutClear(r)
    PROVE  SInv'
<1>1. /\ pc[r] = "clear" /\ pc'[r] = "insert"
      /\ del'[r] = snap[r] \cap grants
      /\ idx'[r] = 1
      /\ \A s \in Request \ {r} :
            pc'[s] = pc[s] /\ del'[s] = del[s] /\ idx'[s] = idx[s]
      /\ UNCHANGED <<live, grants, op, snap, ins>>
    BY DEF PutClear, ClearTargets, IInv, Typed, TypeOK
<1>2. /\ OnlyCommittedSaves' /\ NoDuplicateGrants'
      /\ \A s \in Request : \A g \in snap[s] : pc'[g.by] = "committed"
    BY <1>1, MoveKeepsCommitted
<1>3. SnapshotSound' /\ ClearSound'
    BY <1>1, <1>2 DEF SInv, SnapshotSound, ClearSound
<1>4. ins[r] = {}
    BY <1>1 DEF IInv, PendingSound
<1>5. InsertSound'
  <2>1. {EntryRow(r, i)' : i \in 1..(idx'[r] - 1)} = {}
    BY <1>1
  <2>2. Len(op[r].payload) \in Nat
    BY <1>1, PayloadTyped DEF IInv, Typed, StageMatchesOp
  <2> QED BY <1>1, <1>4, <2>1, <2>2 DEF SInv, InsertSound, EntryRow
<1>6. KeysFree' /\ CascadeHeld'
    BY <1>1, <1>4 DEF SInv, KeysFree, CascadeHeld
<1> QED BY <1>2, <1>3, <1>5, <1>6 DEF SInv

LEMMA InsertKeepsS ==
    ASSUME IInv, SInv, NEW r \in Request, PutInsert(r)
    PROVE  SInv'
<1> DEFINE row == NextRow(r)
<1>1. CASE ~(~KeyTaken(r, row) /\ ForeignKeysHold(row))
    BY <1>1, FailKeepsS DEF PutInsert, Running, tables
<1>2. CASE ~KeyTaken(r, row) /\ ForeignKeysHold(row)
  <2>1. /\ pc[r] = "insert" /\ InsertWaits(r, row) = {}
        /\ ins'[r] = ins[r] \cup {row}
        /\ idx'[r] = idx[r] + 1
        /\ \A s \in Request \ {r} : ins'[s] = ins[s] /\ idx'[s] = idx[s]
        /\ UNCHANGED <<live, grants, op, pc, snap, del>>
    BY <1>2 DEF PutInsert, IInv, Typed, TypeOK
  <2>2. row \in Row /\ idx[r] \in 1..Len(op[r].payload)
    BY NextRowTyped DEF PutInsert, Entries, IInv
  <2>3. InsertSound'
    <3>1. row = EntryRow(r, idx[r])
      BY DEF NextRow, EntryRow, Entries
    <3>2. ins[r] = {EntryRow(r, i) : i \in 1..(idx[r] - 1)}
      BY <2>1 DEF SInv, InsertSound
    <3>3. 1..(idx'[r] - 1) = (1..(idx[r] - 1)) \cup {idx[r]}
      BY <2>1, <2>2
    <3>4. ins'[r] = {EntryRow(r, i) : i \in 1..(idx'[r] - 1)}
      BY <2>1, <3>1, <3>2, <3>3
    <3>5. Len(op[r].payload) \in Nat /\ idx'[r] <= Len(op[r].payload) + 1
      BY <2>1, <2>2, PayloadTyped DEF IInv, Typed, StageMatchesOp
    <3> QED BY <2>1, <3>4, <3>5 DEF SInv, InsertSound, EntryRow
  <2>4. KeysFree'
    <3>1. \A g \in grants \ del[r] : ~SameKey(g, row)
      BY <1>2 DEF KeyTaken
    <3>2. \A s \in Request \ {r} : \A g \in ins[s] :
              ~SameKey(g, row) /\ ~SameKey(row, g)
      BY <2>1, <2>2, RowsTyped, SameKeyIsEquality DEF InsertWaits
    <3> QED BY <2>1, <3>1, <3>2 DEF SInv, KeysFree
  <2>5. OnlyCommittedSaves' /\ SnapshotSound' /\ NoDuplicateGrants'
    BY <2>1 DEF SInv, OnlyCommittedSaves, SnapshotSound, NoDuplicateGrants
  <2>6. ClearSound' /\ CascadeHeld'
    BY <2>1 DEF SInv, ClearSound, CascadeHeld
  <2> QED BY <2>3, <2>4, <2>5, <2>6 DEF SInv
<1> QED BY <1>1, <1>2

LEMMA CommitKeepsS ==
    ASSUME IInv, SInv, NEW r \in Request, PutCommit(r)
    PROVE  SInv'
<1>1. /\ pc[r] = "insert" /\ pc'[r] = "committed"
      /\ grants' = (grants \ del[r]) \cup ins[r]
      /\ del'[r] = {} /\ ins'[r] = {}
      /\ \A s \in Request \ {r} :
            pc'[s] = pc[s] /\ del'[s] = del[s] /\ ins'[s] = ins[s]
      /\ UNCHANGED <<live, op, idx, snap>>
    BY DEF PutCommit, IInv, Typed, TypeOK
<1>2. \A g \in ins[r] : g \in Row /\ g.by = r
    BY RowsTyped DEF IInv, PendingSound
<1>3. OnlyCommittedSaves'
    BY <1>1, <1>2, RowsTyped DEF SInv, OnlyCommittedSaves
<1>4. SnapshotSound'
    BY <1>1, RowsTyped DEF SInv, SnapshotSound
<1>5. ClearSound'
  <2>1. \A s \in Request : snap[s] \cap ins[r] = {}
    BY <1>1, <1>2 DEF SInv, SnapshotSound
  <2> QED BY <1>1, <2>1 DEF SInv, ClearSound
<1>6. InsertSound' /\ CascadeHeld'
    BY <1>1 DEF SInv, InsertSound, EntryRow, CascadeHeld
<1>7. KeysFree'
    BY <1>1 DEF SInv, KeysFree
<1>8. NoDuplicateGrants'
  <2> SUFFICES ASSUME NEW g \in grants', NEW h \in grants',
                      g.user = h.user, g.cluster = h.cluster, g.ns = h.ns
               PROVE  g = h
    BY DEF NoDuplicateGrants
  <2>1. g \in Row /\ h \in Row
    BY <1>1, RowsTyped
  <2>2. SameKey(g, h) /\ SameKey(h, g)
    BY <2>1, SameKeyIsEquality
  <2>3. CASE g \in ins[r] /\ h \in ins[r]
    BY <2>1, <2>3, <1>2, SameKeyIsEquality
  <2>4. CASE g \in grants \ del[r] /\ h \in grants \ del[r]
    BY <2>4 DEF SInv, NoDuplicateGrants
  <2> QED BY <1>1, <2>2, <2>3, <2>4 DEF SInv, KeysFree
<1> QED BY <1>3, <1>4, <1>5, <1>6, <1>7, <1>8 DEF SInv

LEMMA LockKeepsS ==
    ASSUME IInv, SInv, NEW r \in Request, DeleteLock(r)
    PROVE  SInv'
<1>1. /\ pc[r] = "lock" /\ pc'[r] \in {"cascade", "failed"}
      /\ LockWaits(r) = {}
      /\ pc'[r] = "cascade" => op[r].target \in live
      /\ \A s \in Request \ {r} : pc'[s] = pc[s]
      /\ UNCHANGED <<live, grants, op, idx, snap, del, ins>>
    BY DEF DeleteLock, IInv, Typed, TypeOK
<1>2. /\ OnlyCommittedSaves' /\ NoDuplicateGrants'
      /\ \A s \in Request : \A g \in snap[s] : pc'[g.by] = "committed"
    BY <1>1, MoveKeepsCommitted
<1>3. SnapshotSound' /\ ClearSound' /\ KeysFree'
    BY <1>1, <1>2 DEF SInv, SnapshotSound, ClearSound, KeysFree
<1>4. InsertSound'
    BY <1>1 DEF SInv, InsertSound, EntryRow
<1>5. \A s \in Request \ {r} : pc[s] = "cascade" => op[s].target # op[r].target
    BY <1>1 DEF LockWaits
<1>6. CascadeHeld'
    BY <1>1, <1>5 DEF SInv, CascadeHeld
<1> QED BY <1>2, <1>3, <1>4, <1>6 DEF SInv

LEMMA CascadeKeepsS ==
    ASSUME IInv, SInv, NEW r \in Request, DeleteCommit(r)
    PROVE  SInv'
<1> DEFINE x == op[r].target
<1>1. /\ pc[r] = "cascade" /\ pc'[r] = "committed"
      /\ \A s \in Request \ {r} : pc'[s] = pc[s]
      /\ live' = live \ ({x} \cup {n \in Namespace : nsCluster[n] = x})
      /\ grants' \subseteq grants
      /\ UNCHANGED <<op, idx, snap, del, ins>>
    BY DEF DeleteCommit, IInv, Typed, TypeOK
<1>2. OnlyCommittedSaves' /\ NoDuplicateGrants'
    BY <1>1, RowsTyped DEF SInv, OnlyCommittedSaves, NoDuplicateGrants
<1>3. SnapshotSound'
    BY <1>1, RowsTyped DEF SInv, SnapshotSound
<1>4. ClearSound' /\ KeysFree'
    BY <1>1 DEF SInv, ClearSound, KeysFree
<1>5. InsertSound'
    BY <1>1 DEF SInv, InsertSound, EntryRow
<1>6. CascadeHeld'
  <2> SUFFICES ASSUME NEW s \in Request, pc'[s] = "cascade"
               PROVE  op[s].target \in live'
    BY <1>1 DEF SInv, CascadeHeld
  <2>1. /\ s # r /\ pc[s] = "cascade"
        /\ op[s].target \in live /\ op[s].target # x
    BY <1>1 DEF SInv, CascadeHeld
  <2>2. op[s].target \in Parent
    BY <2>1, FreeIds DEF IInv, Typed, StageMatchesOp
  <2> QED BY <1>1, <2>1, <2>2
<1> QED BY <1>2, <1>3, <1>4, <1>5, <1>6 DEF SInv

LEMMA NextSInv == IInv /\ SInv /\ [Next]_vars => SInv'
<1> SUFFICES ASSUME IInv, SInv, [Next]_vars PROVE SInv'
    OBVIOUS
<1>1. CASE UNCHANGED vars
    BY <1>1, TablesKeepS DEF vars
<1>2. ASSUME NEW t \in Tenant, NEW x \in Parent, CreateParent(x, t) PROVE SInv'
    BY <1>2, TablesKeepS DEF CreateParent
<1>3. ASSUME NEW c \in Cluster, NEW N \in SUBSET Namespace, ReportNamespaces(c, N)
      PROVE  SInv'
    BY <1>3, TablesKeepS DEF ReportNamespaces
<1>4. ASSUME NEW r \in Request, Fail(r) PROVE SInv'
    BY <1>4, FailKeepsS DEF Fail, tables
<1> QED
    BY <1>1, <1>2, <1>3, <1>4, NextCases, StartKeepsS, VerifyKeepsS, BeginKeepsS,
       ClearKeepsS, InsertKeepsS, CommitKeepsS, LockKeepsS, CascadeKeepsS

LEMMA InductiveS == Spec => [](IInv /\ SInv)
BY InitIInv, NextIInv, InitSInv, NextSInv, PTL DEF Spec

\* No grant is ever there twice: full-cluster grants, whose namespace is
\* null, included, however many saves of one user overlap.
THEOREM NoDuplicates == Spec => []NoDuplicateGrants
BY InductiveS, PTL DEF SInv

\* Readers never see a row of a save that failed or is still under way.
THEOREM SavesAtomic == Spec => []OnlyCommittedSaves
BY InductiveS, PTL DEF SInv

-----------------------------------------------------------------------------
(* What a step may do to the grants *)

\* Steps that change access_grants, and what they do to it.
LEMMA GrantSteps ==
    ASSUME IInv, SInv, [Next]_vars
    PROVE  \/ grants' = grants /\ \A r \in Request : ~(op[r].kind = "put" /\ Commits(r))
           \/ \E r \in Request : PutCommit(r)
           \/ \E r \in Request : DeleteCommit(r)
<1> DEFINE NoSave == \A r \in Request : ~(op[r].kind = "put" /\ Commits(r))
<1> SUFFICES ASSUME \A r \in Request : ~PutCommit(r) /\ ~DeleteCommit(r)
             PROVE  grants' = grants /\ NoSave
    OBVIOUS
<1> USE DEF Commits
<1>1. CASE pc' = pc /\ grants' = grants
    BY <1>1
<1>2. ASSUME NEW r \in Request, NEW stage \in Stage \ {"committed"},
             pc' = [pc EXCEPT ![r] = stage], grants' = grants
      PROVE  grants' = grants /\ NoSave
    BY <1>2 DEF IInv, Typed, TypeOK
<1>3. ASSUME NEW r \in Request, PutVerify(r) \/ PutInsert(r)
      PROVE  grants' = grants /\ NoSave
    BY <1>1, <1>2, <1>3 DEF PutVerify, PutInsert, GiveUp, Stage
<1>4. ASSUME NEW r \in Request, PutBegin(r) \/ PutClear(r) \/ Fail(r)
      PROVE  grants' = grants /\ NoSave
    BY <1>2, <1>4 DEF PutBegin, PutClear, Fail, GiveUp, Stage
<1>5. ASSUME NEW r \in Request, DeleteLock(r)
      PROVE  grants' = grants /\ NoSave
    BY <1>2, <1>5 DEF DeleteLock, Stage
<1>6. ASSUME NEW r \in Request, NEW t \in Tenant,
             \/ \E u \in User, p \in Payloads : PutStart(r, t, u, p)
             \/ \E x \in Parent : DeleteStart(r, t, x)
      PROVE  grants' = grants /\ NoSave
    BY <1>2, <1>6 DEF PutStart, DeleteStart, Start, Stage
<1>7. CASE UNCHANGED vars
    BY <1>1, <1>7 DEF vars
<1>8. ASSUME NEW t \in Tenant, NEW x \in Parent, CreateParent(x, t)
      PROVE  grants' = grants /\ NoSave
    BY <1>1, <1>8 DEF CreateParent
<1>9. ASSUME NEW c \in Cluster, NEW N \in SUBSET Namespace, ReportNamespaces(c, N)
      PROVE  grants' = grants /\ NoSave
    BY <1>1, <1>9 DEF ReportNamespaces
<1> QED BY <1>3, <1>4, <1>5, <1>6, <1>7, <1>8, <1>9, NextCases

\* The effect of a save that commits.
LEMMA SaveEffect ==
    ASSUME IInv, SInv, NEW r \in Request, PutCommit(r)
    PROVE  /\ op[r] \in Put
           /\ grants' = (grants \ del[r]) \cup ins[r]
           /\ ins[r] = RowsOf(r)
           /\ \A g \in del[r] \cup ins[r] : g.user = op[r].target
           /\ grants' \cap snap[r] = {}
           /\ Commits(r) /\ \A s \in Request : Commits(s) => s = r
           /\ owner[op[r].target] = op[r].tenant
<1>1. /\ pc[r] = "insert" /\ op[r] \in Put
      /\ idx[r] > Len(op[r].payload) /\ idx[r] \in Nat
      /\ grants' = (grants \ del[r]) \cup ins[r]
      /\ pc' = [pc EXCEPT ![r] = "committed"]
    BY DEF PutCommit, Entries, IInv, Typed, TypeOK, StageMatchesOp
<1>2. Len(op[r].payload) \in Nat
    BY <1>1, PayloadTyped
<1>3. ins[r] = RowsOf(r)
  <2>1. /\ ins[r] = {EntryRow(r, i) : i \in 1..(idx[r] - 1)}
        /\ idx[r] <= Len(op[r].payload) + 1
    BY <1>1 DEF SInv, InsertSound
  <2>2. idx[r] - 1 = Len(op[r].payload)
    BY <1>1, <1>2, <2>1
  <2> QED BY <2>1, <2>2 DEF RowsOf, EntryRow
<1>4. \A g \in del[r] \cup ins[r] : g.user = op[r].target
    BY <1>1 DEF SInv, ClearSound, SnapshotSound, IInv, PendingSound
<1>5. grants' \cap snap[r] = {}
  <2>1. ins[r] \cap snap[r] = {}
    BY <1>1 DEF SInv, SnapshotSound, IInv, PendingSound
  <2> QED BY <1>1, <2>1 DEF SInv, ClearSound
<1>6. Commits(r) /\ \A s \in Request : Commits(s) => s = r
    BY <1>1 DEF Commits, IInv, Typed, TypeOK
<1> QED BY <1>1, <1>3, <1>4, <1>5, <1>6 DEF IInv, Verified

\* A user's grants change only when a request of an admin of the user's own
\* tenant commits, whoever else writes at the same time.
THEOREM GrantsConfined == Spec => TenantConfined
<1>1. ASSUME IInv, SInv, [Next]_vars
      PROVE  [\A g \in grants \cup grants' :
                 (g \in grants) # (g \in grants') =>
                    \E r \in Request : /\ Commits(r)
                                       /\ op[r].tenant = owner[g.user]]_vars
  <2> SUFFICES ASSUME NEW g \in grants \cup grants',
                      (g \in grants) # (g \in grants')
               PROVE  \E r \in Request : Commits(r) /\ op[r].tenant = owner[g.user]
    OBVIOUS
  <2>1. ASSUME NEW r \in Request, PutCommit(r)
        PROVE  Commits(r) /\ op[r].tenant = owner[g.user]
    BY <1>1, <2>1, SaveEffect
  <2>2. ASSUME NEW r \in Request, DeleteCommit(r)
        PROVE  Commits(r) /\ op[r].tenant = owner[g.user]
    <3>1. /\ pc[r] = "cascade" /\ pc'[r] = "committed"
          /\ g \in grants /\ g \in Cascaded(op[r].target)
      BY <1>1, <2>2 DEF DeleteCommit, IInv, Typed, TypeOK
    <3>2. owner[op[r].target] = op[r].tenant
      BY <1>1, <3>1 DEF IInv, CascadeOwned
    <3>3. owner[g.user] = owner[op[r].target]
      BY <1>1, <3>1 DEF Cascaded, IInv, GrantIntegrity
    <3> QED BY <3>1, <3>2, <3>3 DEF Commits
  <2> QED BY <1>1, <2>1, <2>2, GrantSteps
<1> QED BY <1>1, InductiveS, PTL DEF Spec, TenantConfined

\* A save that commits puts its payload in the place of all that its DELETE
\* saw, in one step, and touches no other user's grants.
THEOREM SavesReplace == Spec => SaveReplaces
<1>1. ASSUME IInv, SInv, [Next]_vars
      PROVE  [\A r \in Request : Commits(r) /\ op[r].kind = "put" =>
                 /\ {g \in grants' : g.by = r} = RowsOf(r)
                 /\ grants' \cap snap[r] = {}
                 /\ \A g \in grants : g.user # op[r].target => g \in grants']_vars
  <2> SUFFICES ASSUME NEW r \in Request, Commits(r), op[r].kind = "put"
               PROVE  /\ {g \in grants' : g.by = r} = RowsOf(r)
                      /\ grants' \cap snap[r] = {}
                      /\ \A g \in grants : g.user # op[r].target => g \in grants'
    OBVIOUS
  <2>1. PutCommit(r)
    <3>1. \A s \in Request : ~DeleteCommit(s) \/ s # r
      BY <1>1 DEF DeleteCommit, IInv, Typed, StageMatchesOp, Delete
    <3>2. \A s \in Request : DeleteCommit(s) /\ s # r => ~Commits(r)
      BY <1>1 DEF DeleteCommit, Commits, IInv, Typed, TypeOK
    <3>3. \A s \in Request : PutCommit(s) => s = r
      BY <1>1, SaveEffect
    <3> QED BY <1>1, <3>1, <3>2, <3>3, GrantSteps
  <2>2. \A g \in grants : g.by # r
    BY <1>1 DEF SInv, OnlyCommittedSaves, Commits
  <2>3. \A g \in RowsOf(r) : g.by = r
    BY DEF RowsOf
  <2> QED BY <1>1, <2>1, <2>2, <2>3, SaveEffect
<1> QED BY <1>1, InductiveS, PTL DEF Spec, SaveReplaces

-----------------------------------------------------------------------------
(* Refinement *)

\* What readers see of one row.
Seen(g) == [user |-> g.user, cluster |-> g.cluster, ns |-> g.ns]

\* A save that commits is one Replace.  The user's grants afterwards may hold
\* rows of another save that committed after its snapshot.
LEMMA SaveIsReplace ==
    ASSUME IInv, SInv, IInv', NEW r \in Request, PutCommit(r)
    PROVE  \E u \in User : \E A \in SUBSET Table!SoundGrants(u) : Table!Replace(u, A)
<1> DEFINE u == op[r].target
           A == {Seen(g) : g \in {h \in grants' : h.user = u}}
<1>1. /\ u \in User
      /\ grants' = (grants \ del[r]) \cup ins[r]
      /\ \A g \in del[r] \cup ins[r] : g.user = u
      /\ UNCHANGED <<owner, nsCluster, live>>
    BY SaveEffect DEF PutCommit, Put
<1>2. A \in SUBSET Table!SoundGrants(u)
  <2> SUFFICES ASSUME NEW g \in grants', g.user = u
               PROVE  Seen(g) \in Table!SoundGrants(u)
    OBVIOUS
  <2>1. g \in Row
    BY <1>1, RowsTyped
  <2>2. /\ {g.user, g.cluster} \subseteq live
        /\ owner[g.user] = owner[g.cluster]
        /\ g.ns # AllNamespaces => g.ns \in live /\ nsCluster[g.ns] = g.cluster
    BY <1>1 DEF IInv, GrantIntegrity
  <2> QED BY <2>1, <2>2 DEF Table!SoundGrants, Table!Sound, Table!Grant, Seen,
                            Row, NsScope
<1>3. Visible' = {v \in Visible : v.user # u} \cup A
    BY <1>1 DEF Visible, Seen
<1> QED BY <1>1, <1>2, <1>3 DEF Table!Replace

\* A delete that commits is one Remove: its cascades take exactly the grants
\* that name the row.
LEMMA DeleteIsRemove ==
    ASSUME IInv, SInv, NEW r \in Request, DeleteCommit(r)
    PROVE  \E x \in Table!Ids : Table!Remove(x)
<1> DEFINE x == op[r].target
<1>1. pc[r] = "cascade" /\ op[r] \in Delete
    BY DEF DeleteCommit, IInv, Typed, StageMatchesOp
<1>2. x \in Table!Ids /\ x \in live
    BY <1>1 DEF SInv, CascadeHeld, Delete, Parent, Table!Ids
<1>3. \A g \in grants : g \in Cascaded(x) <=> x \in {g.user, g.cluster}
    BY DEF Cascaded, IInv, GrantIntegrity
<1>4. Visible' = {v \in Visible : x \notin {v.user, v.cluster}}
    BY <1>3 DEF DeleteCommit, Visible
<1>5. Table!Remove(x)
    BY <1>2, <1>4 DEF DeleteCommit, Table!Remove
<1> QED BY <1>2, <1>5

LEMMA StepSimulation ==
    ASSUME IInv, SInv, IInv', [Next]_vars
    PROVE  [Table!TableNext]_Table!tableVars
<1> USE DEF Table!TableNext
<1>1. ASSUME NEW r \in Request, PutCommit(r) PROVE Table!TableNext
    BY <1>1, SaveIsReplace
<1>2. ASSUME NEW r \in Request, DeleteCommit(r) PROVE Table!TableNext
    BY <1>2, DeleteIsRemove
<1>3. ASSUME NEW t \in Tenant, NEW x \in Parent, CreateParent(x, t)
      PROVE  Table!TableNext
  <2>1. Table!AddRow(x, t) /\ x \in Table!Ids
    BY <1>3 DEF CreateParent, Table!AddRow, Visible, Parent, Table!Ids
  <2> QED BY <2>1
<1>4. ASSUME NEW c \in Cluster, NEW N \in SUBSET Namespace, ReportNamespaces(c, N)
      PROVE  Table!TableNext
  <2>1. Table!AddNamespaces(c, N) /\ N \in (SUBSET Namespace) \ {{}}
    BY <1>4 DEF ReportNamespaces, Table!AddNamespaces, Visible
  <2> QED BY <2>1
<1>5. ASSUME UNCHANGED <<owner, nsCluster, live, grants>>
      PROVE  UNCHANGED Table!tableVars
    BY <1>5 DEF Table!tableVars, Visible
<1>6. ASSUME NEW r \in Request,
             \/ PutVerify(r) \/ PutBegin(r) \/ PutClear(r) \/ PutInsert(r)
             \/ DeleteLock(r) \/ Fail(r)
      PROVE  UNCHANGED <<owner, nsCluster, live, grants>>
    BY <1>6 DEF PutVerify, PutBegin, PutClear, PutInsert, DeleteLock, Fail
<1>7. ASSUME NEW r \in Request, NEW t \in Tenant,
             \/ \E u \in User, p \in Payloads : PutStart(r, t, u, p)
             \/ \E x \in Parent : DeleteStart(r, t, x)
      PROVE  UNCHANGED <<owner, nsCluster, live, grants>>
    BY <1>7 DEF PutStart, DeleteStart, Start
<1>8. CASE UNCHANGED vars
    BY <1>5, <1>8 DEF vars
<1> QED BY <1>1, <1>2, <1>3, <1>4, <1>5, <1>6, <1>7, <1>8, NextCases

\* Transactions, locks and failures are invisible: what readers see of the
\* tables changes by one committed request at a time, as GrantTable says.
THEOREM SavesImplementTable == Spec => ImplementsGrantTable
<1>1. Init => Table!TableInit
    BY DEF Init, Table!TableInit, Visible, Table!Ids, Parent
<1>2. IInv /\ SInv /\ IInv' /\ [Next]_vars => [Table!TableNext]_Table!tableVars
    BY StepSimulation
<1> QED BY <1>1, <1>2, InductiveS, PTL DEF Spec, ImplementsGrantTable, Table!TableSpec
=============================================================================
