---------------------------- MODULE SupportProofs ----------------------------
(***************************************************************************)
(* Safety of Support for any tenants, users, staff, tickets, requests,     *)
(* patches and number of instants.  IInv says what a comment in flight     *)
(* relies on: the tenant checked before the transaction is told by columns *)
(* that never change, and its foreign keys hold ticket and author until it *)
(* commits.                                                                *)
(***************************************************************************)
EXTENDS Support, TLAPS

USE SupportAssumption

Stage == {"idle", "check", "insert", "author", "bump", "commit", "patch", "lock",
          "cascade", "fetch", "thread", "done", "failed", "refused"}
Commenting == {"check", "insert", "author", "bump", "commit"}
Inserted == {"author", "bump", "commit"}

ThreadOp == [actor: User \cup Admin, ticket: Ticket]
PatchOp == [actor: Admin, ticket: Ticket, patch: Patches]
DeleteOp == [actor: {NoUser}, tenant: Tenant, target: User]
Op == {NoOp} \cup ThreadOp \cup PatchOp \cup DeleteOp

RowsTyped ==
    /\ tenantOf \in [User -> Tenant \cup {NoTenant}]
    /\ users \subseteq {u \in User : tenantOf[u] # NoTenant}
    /\ creator \in [Ticket -> User \cup {NoUser}]
    /\ tickets \subseteq {k \in Ticket : creator[k] # NoUser}
    /\ fields \in [Ticket -> [Field -> Value]]
    /\ updated \in [Ticket -> 0..clock] /\ clock \in 0..MaxClock
    /\ comments \subseteq Comment

RequestsTyped ==
    /\ pc \in [Request -> Stage]
    /\ op \in [Request -> Op]
    /\ began \in [Request -> 0..clock]
    /\ pending \in [Request -> SUBSET Comment]
    /\ bumped \in [Request -> SUBSET Ticket]
    /\ shown \in [Request -> SUBSET Comment]

\* The handler a request runs is the one its arguments are for.
StageMatchesOp ==
    \A r \in Request :
        /\ pc[r] \in Commenting => r \in CommentRequest /\ op[r] \in ThreadOp
        /\ pc[r] \in {"fetch", "thread"} => op[r] \in ThreadOp
        /\ pc[r] = "patch" => r \in PatchRequest /\ op[r] \in PatchOp
        /\ pc[r] \in {"lock", "cascade"} => r \in DeleteRequest /\ op[r] \in DeleteOp
        /\ pc[r] # "idle" => began[r] # 0

\* What a transaction holds is its own comment and that comment's ticket.
HoldsOwn ==
    \A r \in Request :
        /\ pending[r] = IF pc[r] \in Inserted
                          THEN {[ticket |-> op[r].ticket, author |-> op[r].actor,
                                 at |-> began[r]]}
                          ELSE {}
        /\ bumped[r] = IF pc[r] = "commit" THEN {op[r].ticket} ELSE {}

Typed == RowsTyped /\ RequestsTyped /\ StageMatchesOp /\ HoldsOwn

\* Whoever opened a ticket, or acts as a user, was a user of some tenant.
OwnersKnown ==
    /\ \A k \in Ticket : creator[k] # NoUser => tenantOf[creator[k]] # NoTenant
    /\ \A r \in Request : op[r].actor \in User => tenantOf[op[r].actor] # NoTenant

\* The ticket is one the actor may see.
SeesTicket(r) ==
    /\ creator[op[r].ticket] # NoUser
    /\ op[r].actor \in User => TenantOfTicket(op[r].ticket) = tenantOf[op[r].actor]

\* What the check before the transaction, or the first read, found stays so.
ScopeChecked ==
    \A r \in Request :
        /\ pc[r] \in Inserted \cup {"insert", "thread"} => SeesTicket(r)
        /\ \A c \in shown[r] :
              /\ pc[r] = "done" /\ op[r] \in ThreadOp
              /\ c.ticket = op[r].ticket
              /\ SeesTicket(r)

\* An uncommitted comment's ticket cannot go, nor, once its foreign key was
\* looked at, its author.
ParentsHeld ==
    \A r \in Request :
        /\ pc[r] \in Inserted => op[r].ticket \in tickets
        /\ pc[r] \in {"bump", "commit"} =>
              /\ op[r].actor \in users \cup Admin
              /\ \A s \in Request :
                    pc[s] = "cascade" => op[s].target # op[r].actor

IInv == /\ Typed
        /\ OwnersKnown
        /\ ScopeChecked
        /\ ParentsHeld
        /\ ThreadsIntact

-----------------------------------------------------------------------------
(* Types *)

LEMMA InitIInv == Init => IInv
<1> SUFFICES ASSUME Init PROVE IInv
    OBVIOUS
<1>1. RowsTyped
    BY DEF Init, RowsTyped
<1>2. RequestsTyped /\ StageMatchesOp /\ HoldsOwn
    BY DEF Init, RequestsTyped, StageMatchesOp, HoldsOwn, Stage, Op, Commenting,
           Inserted
<1>3. OwnersKnown
    BY DEF Init, OwnersKnown, NoOp
<1>4. ScopeChecked /\ ParentsHeld /\ ThreadsIntact
    BY DEF Init, ScopeChecked, ParentsHeld, ThreadsIntact, Inserted
<1> QED BY <1>1, <1>2, <1>3, <1>4 DEF IInv, Typed

\* A deadlock victim fails like any other request.
LEMMA VictimFails ==
    ASSUME NEW r \in Request, DeadlockVictim(r)
    PROVE  Fail(r)
<1>1. WaitsFor(r) # {}
    BY DEF DeadlockVictim
<1>2. Running(r)
    BY <1>1 DEF WaitsFor, Running
<1> QED BY <1>2 DEF DeadlockVictim, Fail

LEMMA NextCases ==
    ASSUME Next
    PROVE  \/ \E u \in User, t \in Tenant : CreateUser(u, t)
           \/ \E u \in User, k \in Ticket : CreateTicket(k, u)
           \/ \E r \in CommentRequest, a \in User \cup Admin, k \in Ticket :
                 CommentBegin(r, a, k)
           \/ \E r \in ReadRequest, a \in User \cup Admin, k \in Ticket :
                 ReadBegin(r, a, k)
           \/ \E r \in PatchRequest, a \in Admin, k \in Ticket, p \in Patches :
                 PatchBegin(r, a, k, p)
           \/ \E r \in DeleteRequest, t \in Tenant, u \in User : DeleteBegin(r, t, u)
           \/ \E r \in Request :
                 \/ CommentCheck(r) \/ CommentInsert(r) \/ CommentAuthor(r)
                 \/ CommentBump(r) \/ CommentCommit(r) \/ Patch(r)
                 \/ DeleteLock(r) \/ DeleteCascade(r)
                 \/ FetchTicket(r) \/ FetchComments(r) \/ Fail(r)
BY VictimFails DEF Next, Step

\* Patched fields are fields.
LEMMA PatchedTyped ==
    ASSUME NEW f \in [Field -> Value], NEW p \in Patches
    PROVE  Patched(f, p) \in [Field -> Value]
<1>1. ASSUME NEW x \in DOMAIN p PROVE p[x] \in Value
    BY <1>1 DEF Value
<1> QED BY <1>1 DEF Patched

\* A request that ends holds nothing any more.
LEMMA FinishTyped ==
    ASSUME Typed, NEW r \in Request, NEW stage \in {"done", "failed", "refused"},
           pc[r] # "idle", Finish(r, stage), UNCHANGED <<clock, op, began>>,
           shown' \in [Request -> SUBSET Comment]
    PROVE  RequestsTyped' /\ StageMatchesOp' /\ HoldsOwn'
<1> USE DEF Finish
<1>1. RequestsTyped'
    BY DEF Typed, RequestsTyped, Stage
<1>2. /\ pc'[r] = stage /\ pending'[r] = {} /\ bumped'[r] = {}
      /\ \A s \in Request \ {r} :
            pc'[s] = pc[s] /\ pending'[s] = pending[s] /\ bumped'[s] = bumped[s]
    BY DEF Typed, RequestsTyped
<1>3. StageMatchesOp'
    BY <1>2 DEF Typed, StageMatchesOp, Commenting
<1>4. HoldsOwn'
    BY <1>2 DEF Typed, HoldsOwn, Inserted
<1> QED BY <1>1, <1>3, <1>4

\* A request that goes on to a stage of the same handler, holding the same.
LEMMA MoveTyped ==
    ASSUME Typed, NEW r \in Request, NEW stage \in Stage,
           pc' = [pc EXCEPT ![r] = stage],
           UNCHANGED <<clock, op, began, pending, bumped, shown>>,
           \/ pc[r] = "check" /\ stage = "insert"
           \/ pc[r] = "author" /\ stage = "bump"
           \/ pc[r] = "lock" /\ stage = "cascade"
           \/ pc[r] = "fetch" /\ stage = "thread"
    PROVE  RequestsTyped' /\ StageMatchesOp' /\ HoldsOwn'
<1>1. RequestsTyped'
    BY DEF Typed, RequestsTyped
<1>2. pc'[r] = stage /\ \A s \in Request \ {r} : pc'[s] = pc[s]
    BY DEF Typed, RequestsTyped
<1>3. StageMatchesOp'
    BY <1>2 DEF Typed, StageMatchesOp, Commenting
<1>4. HoldsOwn'
    BY <1>2 DEF Typed, HoldsOwn, Inserted
<1> QED BY <1>1, <1>3, <1>4

LEMMA BeginTyped ==
    ASSUME Typed, NEW r \in Request, NEW o \in Op, NEW stage \in Stage,
           Begin(r, o, stage),
           \/ stage = "check" /\ o \in ThreadOp /\ r \in CommentRequest
           \/ stage = "fetch" /\ o \in ThreadOp
           \/ stage = "patch" /\ o \in PatchOp /\ r \in PatchRequest
           \/ stage = "lock" /\ o \in DeleteOp /\ r \in DeleteRequest
    PROVE  Typed'
<1>1. /\ pc[r] = "idle" /\ clock' = clock + 1 /\ clock < MaxClock
      /\ UNCHANGED <<rows, pending, bumped, shown>>
      /\ pc' = [pc EXCEPT ![r] = stage] /\ op' = [op EXCEPT ![r] = o]
      /\ began' = [began EXCEPT ![r] = clock + 1]
    BY DEF Begin
<1>2. clock \in Nat /\ clock' \in 0..MaxClock
    BY <1>1 DEF Typed, RowsTyped
<1>3. RowsTyped'
  <2>1. updated' \in [Ticket -> 0..clock']
    BY <1>1, <1>2 DEF Typed, RowsTyped, rows
  <2> QED BY <1>1, <1>2, <2>1 DEF Typed, RowsTyped, rows
<1>4. RequestsTyped'
  <2>1. began' \in [Request -> 0..clock']
    BY <1>1, <1>2 DEF Typed, RequestsTyped
  <2> QED BY <1>1, <2>1 DEF Typed, RequestsTyped
<1>5. /\ pc'[r] = stage /\ op'[r] = o /\ began'[r] # 0
      /\ \A s \in Request \ {r} :
            pc'[s] = pc[s] /\ op'[s] = op[s] /\ began'[s] = began[s]
    BY <1>1, <1>2 DEF Typed, RequestsTyped
<1>6. StageMatchesOp'
    BY <1>5 DEF Typed, StageMatchesOp, Commenting
<1>7. HoldsOwn'
    BY <1>1, <1>5 DEF Typed, HoldsOwn, Inserted
<1> QED BY <1>3, <1>4, <1>6, <1>7 DEF Typed

LEMMA RowsKeepTyped ==
    ASSUME Typed, UNCHANGED <<rows, clock>>
    PROVE  RowsTyped'
BY DEF Typed, RowsTyped, rows

LEMMA NextTyped == Typed /\ [Next]_vars => Typed'
<1> SUFFICES ASSUME Typed, [Next]_vars PROVE Typed'
    OBVIOUS
<1>1. shown \in [Request -> SUBSET Comment]
    BY DEF Typed, RequestsTyped
<1>2. CASE UNCHANGED vars
    BY <1>2 DEF vars, Typed, RowsTyped, RequestsTyped, StageMatchesOp, HoldsOwn
<1>3. ASSUME NEW u \in User, NEW t \in Tenant, CreateUser(u, t) PROVE Typed'
    BY <1>3 DEF CreateUser, Typed, RowsTyped, RequestsTyped, StageMatchesOp, HoldsOwn
<1>4. ASSUME NEW u \in User, NEW k \in Ticket, CreateTicket(k, u) PROVE Typed'
  <2>1. clock \in Nat /\ clock' = clock + 1 /\ clock' \in 0..MaxClock
    BY <1>4 DEF CreateTicket, Typed, RowsTyped
  <2>2. updated' \in [Ticket -> 0..clock']
    BY <1>4, <2>1 DEF CreateTicket, Typed, RowsTyped
  <2>3. began' \in [Request -> 0..clock']
    BY <1>4, <2>1 DEF CreateTicket, Typed, RequestsTyped
  <2>4. RowsTyped' /\ RequestsTyped'
    BY <1>4, <2>1, <2>2, <2>3 DEF CreateTicket, Typed, RowsTyped, RequestsTyped
  <2> QED BY <1>4, <2>4 DEF CreateTicket, Typed, StageMatchesOp, HoldsOwn
<1>5. ASSUME NEW r \in Request, NEW a \in User \cup Admin, NEW k \in Ticket,
             \/ r \in CommentRequest /\ CommentBegin(r, a, k)
             \/ ReadBegin(r, a, k)
      PROVE  Typed'
  <2>1. [actor |-> a, ticket |-> k] \in ThreadOp
    BY DEF ThreadOp
  <2> QED BY <1>5, <2>1, BeginTyped DEF CommentBegin, ReadBegin, Op, Stage
<1>6. ASSUME NEW r \in PatchRequest, NEW a \in Admin, NEW k \in Ticket,
             NEW p \in Patches, PatchBegin(r, a, k, p)
      PROVE  Typed'
  <2>1. [actor |-> a, ticket |-> k, patch |-> p] \in PatchOp /\ r \in Request
    BY DEF PatchOp, Request
  <2> QED BY <1>6, <2>1, BeginTyped DEF PatchBegin, Op, Stage
<1>7. ASSUME NEW r \in DeleteRequest, NEW t \in Tenant, NEW u \in User,
             DeleteBegin(r, t, u)
      PROVE  Typed'
  <2>1. [actor |-> NoUser, tenant |-> t, target |-> u] \in DeleteOp /\ r \in Request
    BY DEF DeleteOp, Request
  <2> QED BY <1>7, <2>1, BeginTyped DEF DeleteBegin, Op, Stage
<1>8. ASSUME NEW r \in Request,
             CommentCheck(r) \/ CommentAuthor(r) \/ DeleteLock(r) \/ FetchTicket(r)
      PROVE  Typed'
  <2>1. RowsTyped'
    BY <1>8, RowsKeepTyped DEF CommentCheck, CommentAuthor, DeleteLock, FetchTicket
  <2>2. RequestsTyped' /\ StageMatchesOp' /\ HoldsOwn'
    <3>1. CASE CommentCheck(r)
      BY <3>1, <1>1, FinishTyped, MoveTyped DEF CommentCheck, Stage
    <3>2. CASE CommentAuthor(r)
      BY <3>2, <1>1, FinishTyped, MoveTyped DEF CommentAuthor, Stage
    <3>3. CASE DeleteLock(r)
      BY <3>3, <1>1, FinishTyped, MoveTyped DEF DeleteLock, Stage
    <3>4. CASE FetchTicket(r)
      BY <3>4, <1>1, FinishTyped, MoveTyped DEF FetchTicket, Stage
    <3> QED BY <1>8, <3>1, <3>2, <3>3, <3>4
  <2> QED BY <2>1, <2>2 DEF Typed
<1>9. ASSUME NEW r \in Request, CommentInsert(r) PROVE Typed'
  <2>1. RowsTyped'
    BY <1>9, RowsKeepTyped DEF CommentInsert
  <2>2. CASE op[r].ticket \notin tickets
    BY <1>1, <1>9, <2>1, <2>2, FinishTyped DEF CommentInsert, Typed
  <2>3. CASE op[r].ticket \in tickets
    <3> DEFINE row == [ticket |-> op[r].ticket, author |-> op[r].actor, at |-> began[r]]
    <3>1. /\ pc[r] = "insert" /\ pc' = [pc EXCEPT ![r] = "author"]
          /\ pending' = [pending EXCEPT ![r] = {row}]
          /\ UNCHANGED <<clock, op, began, bumped, shown>>
      BY <1>9, <2>3 DEF CommentInsert
    <3>2. row \in Comment
      <4>1. op[r] \in ThreadOp /\ began[r] \in 0..clock /\ began[r] # 0
        BY <3>1 DEF Typed, RequestsTyped, StageMatchesOp, Commenting
      <4>2. began[r] \in 1..MaxClock
        BY <4>1 DEF Typed, RowsTyped
      <4> QED BY <4>1, <4>2 DEF ThreadOp, Comment
    <3>3. RequestsTyped'
      BY <3>1, <3>2 DEF Typed, RequestsTyped, Stage
    <3>4. /\ pc'[r] = "author" /\ pending'[r] = {row}
          /\ \A s \in Request \ {r} : pc'[s] = pc[s] /\ pending'[s] = pending[s]
      BY <3>1 DEF Typed, RequestsTyped
    <3>5. StageMatchesOp'
      BY <3>1, <3>4 DEF Typed, StageMatchesOp, Commenting
    <3>6. HoldsOwn'
      BY <3>1, <3>4 DEF Typed, HoldsOwn, Inserted
    <3> QED BY <2>1, <3>3, <3>5, <3>6 DEF Typed
  <2> QED BY <2>2, <2>3
<1>10. ASSUME NEW r \in Request, CommentBump(r) PROVE Typed'
  <2>1. RowsTyped'
    BY <1>10, RowsKeepTyped DEF CommentBump
  <2>2. /\ pc[r] = "bump" /\ pc' = [pc EXCEPT ![r] = "commit"]
        /\ bumped' = [bumped EXCEPT ![r] = {op[r].ticket}]
        /\ UNCHANGED <<clock, op, began, pending, shown>>
    BY <1>10 DEF CommentBump
  <2>3. op[r].ticket \in Ticket
    BY <2>2 DEF Typed, StageMatchesOp, Commenting, ThreadOp
  <2>4. RequestsTyped'
    BY <2>2, <2>3 DEF Typed, RequestsTyped, Stage
  <2>5. /\ pc'[r] = "commit" /\ bumped'[r] = {op[r].ticket}
        /\ \A s \in Request \ {r} : pc'[s] = pc[s] /\ bumped'[s] = bumped[s]
    BY <2>2 DEF Typed, RequestsTyped
  <2>6. StageMatchesOp' /\ HoldsOwn'
    BY <2>2, <2>5 DEF Typed, StageMatchesOp, HoldsOwn, Commenting, Inserted
  <2> QED BY <2>1, <2>4, <2>6 DEF Typed
<1>11. ASSUME NEW r \in Request, CommentCommit(r) PROVE Typed'
  <2>1. RequestsTyped' /\ StageMatchesOp' /\ HoldsOwn'
    BY <1>1, <1>11, FinishTyped DEF CommentCommit
  <2>2. updated' \in [Ticket -> 0..clock]
    BY <1>11 DEF CommentCommit, Typed, RowsTyped, RequestsTyped
  <2>3. comments' \subseteq Comment
    BY <1>11 DEF CommentCommit, Typed, RowsTyped, RequestsTyped
  <2> QED BY <1>11, <2>1, <2>2, <2>3 DEF CommentCommit, Typed, RowsTyped
<1>12. ASSUME NEW r \in Request, Patch(r) PROVE Typed'
  <2> DEFINE k == op[r].ticket
  <2>1. RequestsTyped' /\ StageMatchesOp' /\ HoldsOwn'
    BY <1>1, <1>12, FinishTyped DEF Patch
  <2>2. CASE k \notin tickets
    BY <1>12, <2>1, <2>2, RowsKeepTyped DEF Patch, rows, Typed
  <2>3. CASE k \in tickets
    <3>1. k \in Ticket /\ op[r].patch \in Patches
      BY <1>12 DEF Patch, Typed, StageMatchesOp, PatchOp
    <3>2. fields' \in [Ticket -> [Field -> Value]]
      BY <1>12, <2>3, <3>1, PatchedTyped DEF Patch, Typed, RowsTyped
    <3>3. updated' \in [Ticket -> 0..clock]
      BY <1>12, <2>3, <3>1 DEF Patch, Typed, RowsTyped, RequestsTyped
    <3> QED BY <1>12, <2>1, <3>2, <3>3 DEF Patch, Typed, RowsTyped
  <2> QED BY <2>2, <2>3
<1>13. ASSUME NEW r \in Request, DeleteCascade(r) PROVE Typed'
  <2>1. RequestsTyped' /\ StageMatchesOp' /\ HoldsOwn'
    BY <1>1, <1>13, FinishTyped DEF DeleteCascade
  <2>2. users' \subseteq users /\ tickets' \subseteq tickets /\ comments' \subseteq comments
    BY <1>13 DEF DeleteCascade
  <2> QED BY <1>13, <2>1, <2>2 DEF DeleteCascade, Typed, RowsTyped
<1>14. ASSUME NEW r \in Request, FetchComments(r) PROVE Typed'
  <2>1. shown' \in [Request -> SUBSET Comment]
    BY <1>1, <1>14 DEF FetchComments, Typed, RowsTyped
  <2>2. RequestsTyped' /\ StageMatchesOp' /\ HoldsOwn'
    BY <1>14, <2>1, FinishTyped DEF FetchComments
  <2> QED BY <1>14, <2>2, RowsKeepTyped DEF FetchComments, Typed
<1>15. ASSUME NEW r \in Request, Fail(r) PROVE Typed'
  <2>1. RequestsTyped' /\ StageMatchesOp' /\ HoldsOwn'
    BY <1>1, <1>15, FinishTyped DEF Fail, Running
  <2> QED BY <1>15, <2>1, RowsKeepTyped DEF Fail, Typed
<1> QED
    BY <1>2, <1>3, <1>4, <1>5, <1>6, <1>7, <1>8, <1>9, <1>10, <1>11, <1>12,
       <1>13, <1>14, <1>15, NextCases DEF Request

LEMMA TypedIsTypeOK == Typed => TypeOK
BY DEF Typed, RowsTyped, RequestsTyped, HoldsOwn, TypeOK

\* Every variable keeps its type, and only a comment about to commit holds a
\* row lock of its ticket.
THEOREM TypeCorrect == Spec => []TypeOK
<1>1. Spec => []Typed
    BY InitIInv, NextTyped, PTL DEF Spec, IInv
<1> QED BY <1>1, TypedIsTypeOK, PTL

-----------------------------------------------------------------------------
(* Threads *)

\* The columns the checks read never change once they are set.
LEMMA OwnersStable ==
    ASSUME Typed, OwnersKnown, [Next]_vars
    PROVE  /\ \A u \in User : tenantOf[u] # NoTenant => tenantOf'[u] = tenantOf[u]
           /\ \A k \in Ticket : creator[k] # NoUser =>
                 /\ creator'[k] = creator[k]
                 /\ TenantOfTicket(k)' = TenantOfTicket(k)
<1>1. CASE UNCHANGED <<tenantOf, creator>>
    BY <1>1 DEF TenantOfTicket
<1>2. ASSUME NEW u \in User, NEW t \in Tenant, CreateUser(u, t)
      PROVE  /\ \A v \in User : tenantOf[v] # NoTenant => tenantOf'[v] = tenantOf[v]
             /\ \A k \in Ticket : creator[k] # NoUser =>
                   creator'[k] = creator[k] /\ TenantOfTicket(k)' = TenantOfTicket(k)
    BY <1>2 DEF CreateUser, Typed, RowsTyped, OwnersKnown, TenantOfTicket
<1>3. ASSUME NEW u \in User, NEW j \in Ticket, CreateTicket(j, u)
      PROVE  /\ \A v \in User : tenantOf[v] # NoTenant => tenantOf'[v] = tenantOf[v]
             /\ \A k \in Ticket : creator[k] # NoUser =>
                   creator'[k] = creator[k] /\ TenantOfTicket(k)' = TenantOfTicket(k)
    BY <1>3 DEF CreateTicket, Typed, RowsTyped, TenantOfTicket
<1>4. \/ UNCHANGED <<tenantOf, creator>>
      \/ \E u \in User, t \in Tenant : CreateUser(u, t)
      \/ \E u \in User, k \in Ticket : CreateTicket(k, u)
    BY NextCases DEF vars, rows, CommentBegin, ReadBegin, PatchBegin, DeleteBegin,
       Begin, CommentCheck, CommentInsert, CommentAuthor, CommentBump,
       CommentCommit, Patch, DeleteLock, DeleteCascade, FetchTicket,
       FetchComments, Fail
<1> QED BY <1>1, <1>2, <1>3, <1>4

\* So a ticket, once seen, stays one that the actor may see.
LEMMA SeesStable ==
    ASSUME IInv, [Next]_vars, NEW r \in Request, op'[r] = op[r],
           op[r] \in ThreadOp, SeesTicket(r)
    PROVE  SeesTicket(r)'
BY OwnersStable DEF IInv, OwnersKnown, SeesTicket, ThreadOp

LEMMA NextOwnersKnown == IInv /\ [Next]_vars => OwnersKnown'
<1> SUFFICES ASSUME IInv, [Next]_vars PROVE OwnersKnown'
    OBVIOUS
<1>1. CASE UNCHANGED <<tenantOf, creator, op>>
    BY <1>1 DEF IInv, OwnersKnown
<1>2. ASSUME NEW u \in User, NEW t \in Tenant, CreateUser(u, t) PROVE OwnersKnown'
    BY <1>2 DEF CreateUser, IInv, Typed, RowsTyped, OwnersKnown
<1>3. ASSUME NEW u \in User, NEW k \in Ticket, CreateTicket(k, u) PROVE OwnersKnown'
    BY <1>3 DEF CreateTicket, IInv, Typed, RowsTyped, OwnersKnown
<1>4. ASSUME NEW r \in Request, NEW o \in Op, NEW stage, Begin(r, o, stage),
             o.actor \in User => tenantOf[o.actor] # NoTenant
      PROVE  OwnersKnown'
    BY <1>4 DEF Begin, rows, IInv, Typed, RequestsTyped, OwnersKnown
<1>5. ASSUME NEW r \in Request, NEW a \in User \cup Admin, NEW k \in Ticket,
             CommentBegin(r, a, k) \/ ReadBegin(r, a, k)
      PROVE  OwnersKnown'
  <2>1. [actor |-> a, ticket |-> k] \in Op
    BY DEF Op, ThreadOp
  <2> QED BY <1>4, <1>5, <2>1 DEF CommentBegin, ReadBegin, Session
<1>6. ASSUME NEW r \in PatchRequest, NEW a \in Admin, NEW k \in Ticket,
             NEW p \in Patches, PatchBegin(r, a, k, p)
      PROVE  OwnersKnown'
  <2>1. [actor |-> a, ticket |-> k, patch |-> p] \in Op /\ r \in Request
    BY DEF Op, PatchOp, Request
  <2> QED BY <1>4, <1>6, <2>1 DEF PatchBegin
<1>7. ASSUME NEW r \in DeleteRequest, NEW t \in Tenant, NEW u \in User,
             DeleteBegin(r, t, u)
      PROVE  OwnersKnown'
  <2>1. [actor |-> NoUser, tenant |-> t, target |-> u] \in Op /\ r \in Request
    BY DEF Op, DeleteOp, Request
  <2> QED BY <1>4, <1>7, <2>1 DEF DeleteBegin
<1>8. ASSUME NEW r \in Request,
             \/ CommentCheck(r) \/ CommentInsert(r) \/ CommentAuthor(r)
             \/ CommentBump(r) \/ CommentCommit(r) \/ Patch(r)
             \/ DeleteLock(r) \/ DeleteCascade(r)
             \/ FetchTicket(r) \/ FetchComments(r) \/ Fail(r)
      PROVE  UNCHANGED <<tenantOf, creator, op>>
    BY <1>8 DEF rows, CommentCheck, CommentInsert, CommentAuthor, CommentBump,
       CommentCommit, Patch, DeleteLock, DeleteCascade, FetchTicket,
       FetchComments, Fail
<1>9. CASE UNCHANGED vars
    BY <1>1, <1>9 DEF vars
<1> QED BY <1>1, <1>2, <1>3, <1>5, <1>6, <1>7, <1>8, <1>9, NextCases DEF Request

\* Steps by which a request comes to rely on a ticket it sees, or shows it.
LEMMA NextScopeChecked == IInv /\ [Next]_vars => ScopeChecked'
<1> SUFFICES ASSUME IInv, [Next]_vars, NEW r \in Request
             PROVE  /\ pc'[r] \in Inserted \cup {"insert", "thread"} => SeesTicket(r)'
                    /\ \A c \in shown'[r] :
                          /\ pc'[r] = "done" /\ op'[r] \in ThreadOp
                          /\ c.ticket = op'[r].ticket
                          /\ SeesTicket(r)'
    BY DEF ScopeChecked
<1>1. pc[r] \in Commenting \cup {"fetch", "thread"} => op[r] \in ThreadOp
    BY DEF IInv, Typed, StageMatchesOp
<1> DEFINE Same == /\ op'[r] = op[r] /\ shown'[r] = shown[r]
                   /\ pc'[r] = pc[r] \/ (shown[r] = {} /\ pc'[r] \notin
                                            Inserted \cup {"insert", "thread"})
           Goal == /\ pc'[r] \in Inserted \cup {"insert", "thread"} => SeesTicket(r)'
                   /\ \A c \in shown'[r] :
                         /\ pc'[r] = "done" /\ op'[r] \in ThreadOp
                         /\ c.ticket = op'[r].ticket
                         /\ SeesTicket(r)'
<1>2. CASE Same
    BY <1>1, <1>2, SeesStable DEF IInv, ScopeChecked, Commenting, Inserted
<1>3. shown[r] # {} => pc[r] = "done"
    BY DEF IInv, ScopeChecked
<1>4. CASE UNCHANGED <<pc, op, shown>>
    BY <1>2, <1>4
<1>5. ASSUME NEW s \in Request, NEW o, NEW stage \in {"check", "fetch", "patch", "lock"},
             Begin(s, o, stage)
      PROVE  Goal
  <2>1. CASE s = r
    <3>1. pc[r] = "idle" /\ pc'[r] = stage /\ UNCHANGED shown
      BY <1>5, <2>1 DEF Begin, IInv, Typed, RequestsTyped
    <3> QED BY <1>3, <3>1 DEF Inserted
  <2>2. CASE s # r
    <3>1. Same
      BY <1>5, <2>2 DEF Begin, IInv, Typed, RequestsTyped
    <3> QED BY <1>2, <3>1
  <2> QED BY <2>1, <2>2
<1>6. ASSUME NEW s \in Request, s # r,
             \/ CommentCheck(s) \/ CommentInsert(s) \/ CommentAuthor(s)
             \/ CommentBump(s) \/ CommentCommit(s) \/ Patch(s)
             \/ DeleteLock(s) \/ DeleteCascade(s)
             \/ FetchTicket(s) \/ FetchComments(s) \/ Fail(s)
      PROVE  Goal
  <2>1. Same
    BY <1>6 DEF CommentCheck, CommentInsert, CommentAuthor, CommentBump,
       CommentCommit, Patch, DeleteLock, DeleteCascade, FetchTicket,
       FetchComments, Fail, Finish, IInv, Typed, RequestsTyped
  <2> QED BY <1>2, <2>1
<1>7. ASSUME NEW stage \in {"done", "failed", "refused"}, Finish(r, stage),
             pc[r] \notin {"done", "failed", "refused"},
             op'[r] = op[r], UNCHANGED shown
      PROVE  Goal
  <2>1. pc'[r] = stage
    BY <1>7 DEF Finish, IInv, Typed, RequestsTyped
  <2> QED BY <1>2, <1>3, <1>7, <2>1 DEF Inserted
<1>8. CASE CommentCheck(r) \/ FetchTicket(r)
  <2>1. CASE InScope(op[r].actor, op[r].ticket)
    <3>1. op[r] \in ThreadOp /\ op[r].ticket \in tickets
      BY <1>1, <1>8, <2>1 DEF CommentCheck, FetchTicket, InScope, Commenting
    <3>2. SeesTicket(r)
      BY <2>1, <3>1 DEF InScope, SeesTicket, IInv, Typed, RowsTyped
    <3>3. op'[r] = op[r] /\ shown'[r] = {}
      BY <1>3, <1>8 DEF CommentCheck, FetchTicket
    <3> QED BY <3>1, <3>2, <3>3, SeesStable
  <2>2. CASE ~InScope(op[r].actor, op[r].ticket)
    BY <1>7, <1>8, <2>2 DEF CommentCheck, FetchTicket
  <2> QED BY <2>1, <2>2
<1>9. CASE CommentInsert(r)
  <2>1. CASE op[r].ticket \in tickets
    <3>1. /\ pc[r] = "insert" /\ pc'[r] = "author"
          /\ op'[r] = op[r] /\ shown'[r] = {}
      BY <1>3, <1>9, <2>1 DEF CommentInsert, IInv, Typed, RequestsTyped
    <3> QED BY <1>1, <3>1, SeesStable DEF IInv, ScopeChecked, Commenting
  <2>2. CASE op[r].ticket \notin tickets
    BY <1>7, <1>9, <2>2 DEF CommentInsert
  <2> QED BY <2>1, <2>2
<1>10. CASE CommentAuthor(r)
  <2>1. CASE op[r].actor \in users \cup Admin
    <3>1. /\ pc[r] = "author" /\ op'[r] = op[r] /\ shown'[r] = {}
      BY <1>3, <1>10, <2>1 DEF CommentAuthor
    <3> QED BY <1>1, <3>1, SeesStable DEF IInv, ScopeChecked, Commenting, Inserted
  <2>2. CASE op[r].actor \notin users \cup Admin
    BY <1>7, <1>10, <2>2 DEF CommentAuthor
  <2> QED BY <2>1, <2>2
<1>11. CASE CommentBump(r)
  <2>1. /\ pc[r] = "bump" /\ op'[r] = op[r] /\ shown'[r] = {}
    BY <1>3, <1>11 DEF CommentBump
  <2> QED BY <1>1, <2>1, SeesStable DEF IInv, ScopeChecked, Commenting, Inserted
<1>12. CASE DeleteLock(r)
  <2>1. pc[r] = "lock" /\ op'[r] = op[r] /\ shown'[r] = {} /\ UNCHANGED shown
    BY <1>3, <1>12 DEF DeleteLock
  <2>2. CASE pc' = [pc EXCEPT ![r] = "cascade"]
    BY <2>1, <2>2 DEF IInv, Typed, RequestsTyped, Inserted
  <2>3. CASE Finish(r, "failed")
    BY <1>7, <2>1, <2>3
  <2> QED BY <1>12, <2>2, <2>3 DEF DeleteLock
<1>13. CASE CommentCommit(r) \/ Patch(r) \/ DeleteCascade(r) \/ Fail(r)
    BY <1>7, <1>13 DEF CommentCommit, Patch, DeleteCascade, Fail, Running
<1>14. CASE FetchComments(r)
  <2>1. /\ pc[r] = "thread" /\ pc'[r] = "done" /\ op'[r] = op[r]
        /\ shown'[r] = {c \in comments : c.ticket = op[r].ticket}
    BY <1>14 DEF FetchComments, Finish, IInv, Typed, RequestsTyped
  <2>2. op[r] \in ThreadOp /\ SeesTicket(r)'
    BY <1>1, <2>1, SeesStable DEF IInv, ScopeChecked
  <2> QED BY <2>1, <2>2 DEF Inserted
<1>15. ASSUME NEW u \in User, NEW k \in Ticket, CreateTicket(k, u) PROVE Goal
    BY <1>4, <1>15 DEF CreateTicket
<1>16. ASSUME NEW u \in User, NEW t \in Tenant, CreateUser(u, t) PROVE Goal
    BY <1>4, <1>16 DEF CreateUser
<1>17. ASSUME NEW s \in Request, NEW a, NEW k,
              CommentBegin(s, a, k) \/ ReadBegin(s, a, k)
       PROVE  Goal
    BY <1>5, <1>17 DEF CommentBegin, ReadBegin
<1>18. ASSUME NEW s \in Request, NEW a, NEW k, NEW p,
              PatchBegin(s, a, k, p) \/ DeleteBegin(s, a, k)
       PROVE  Goal
    BY <1>5, <1>18 DEF PatchBegin, DeleteBegin
<1>19. CASE UNCHANGED vars
    BY <1>4, <1>19 DEF vars
<1> QED
    BY <1>6, <1>8, <1>9, <1>10, <1>11, <1>12, <1>13, <1>14, <1>15, <1>16, <1>17,
       <1>18, <1>19, NextCases DEF Request

\* Steps by which nobody comes to hold, or to delete, a parent row.
LEMMA QuietKeepsParents ==
    ASSUME IInv, tickets \subseteq tickets', users \subseteq users',
           \A s \in Request : pc'[s] \in Inserted \cup {"cascade"} =>
                                 pc'[s] = pc[s] /\ op'[s] = op[s]
    PROVE  ParentsHeld'
BY DEF IInv, ParentsHeld, Inserted

LEMMA NextParentsHeld == IInv /\ [Next]_vars => ParentsHeld'
<1> SUFFICES ASSUME IInv, [Next]_vars PROVE ParentsHeld'
    OBVIOUS
<1>1. CASE UNCHANGED <<tickets, users, pc, op>>
    BY <1>1, QuietKeepsParents
<1>3. ASSUME NEW r \in Request, NEW o, NEW stage \in {"check", "fetch", "patch", "lock"},
             Begin(r, o, stage)
      PROVE  ParentsHeld'
  <2>1. \A s \in Request : pc'[s] \in Inserted \cup {"cascade"} =>
                              pc'[s] = pc[s] /\ op'[s] = op[s]
    BY <1>3 DEF Begin, IInv, Typed, RequestsTyped, Inserted
  <2> QED BY <1>3, <2>1, QuietKeepsParents DEF Begin, rows
<1>4. ASSUME NEW r \in Request, NEW stage \in {"done", "failed", "refused", "insert", "thread"},
             pc' = [pc EXCEPT ![r] = stage], UNCHANGED <<users, tickets, op>>
      PROVE  ParentsHeld'
  <2>1. \A s \in Request : pc'[s] \in Inserted \cup {"cascade"} =>
                              pc'[s] = pc[s] /\ op'[s] = op[s]
    BY <1>4 DEF IInv, Typed, RequestsTyped, Inserted
  <2> QED BY <1>4, <2>1, QuietKeepsParents
<1>5. ASSUME NEW r \in Request,
             \/ CommentCheck(r) \/ CommentCommit(r) \/ Patch(r)
             \/ FetchTicket(r) \/ FetchComments(r) \/ Fail(r)
      PROVE  ParentsHeld'
    BY <1>4, <1>5 DEF CommentCheck, CommentCommit, Patch, FetchTicket,
       FetchComments, Fail, Finish, rows
<1>6. ASSUME NEW r \in Request, CommentInsert(r) PROVE ParentsHeld'
  <2>1. CASE op[r].ticket \notin tickets
    BY <1>4, <1>6, <2>1 DEF CommentInsert, Finish, rows
  <2>2. CASE op[r].ticket \in tickets
    <3>1. /\ pc'[r] = "author" /\ \A s \in Request \ {r} : pc'[s] = pc[s]
          /\ UNCHANGED <<users, tickets, op>>
      BY <1>6, <2>2 DEF CommentInsert, rows, IInv, Typed, RequestsTyped
    <3> QED BY <2>2, <3>1 DEF IInv, ParentsHeld
  <2> QED BY <2>1, <2>2
<1>7. ASSUME NEW r \in Request, CommentAuthor(r) PROVE ParentsHeld'
  <2>1. CASE op[r].actor \notin users \cup Admin
    BY <1>4, <1>7, <2>1 DEF CommentAuthor, Finish, rows
  <2>2. CASE op[r].actor \in users \cup Admin
    <3>1. /\ pc[r] = "author" /\ pc'[r] = "bump"
          /\ \A s \in Request \ {r} : pc'[s] = pc[s]
          /\ Removing(op[r].actor) = {}
          /\ UNCHANGED <<users, tickets, op>>
      BY <1>7, <2>2 DEF CommentAuthor, rows, IInv, Typed, RequestsTyped
    <3>2. \A s \in Request : pc[s] = "cascade" => op[s].target # op[r].actor
      BY <3>1 DEF Removing, IInv, Typed, StageMatchesOp
    <3> QED BY <2>2, <3>1, <3>2 DEF IInv, ParentsHeld, Inserted
  <2> QED BY <2>1, <2>2
<1>8. ASSUME NEW r \in Request, CommentBump(r) PROVE ParentsHeld'
  <2>1. /\ pc[r] = "bump" /\ pc'[r] = "commit"
        /\ \A s \in Request \ {r} : pc'[s] = pc[s]
        /\ UNCHANGED <<users, tickets, op>>
    BY <1>8 DEF CommentBump, rows, IInv, Typed, RequestsTyped
  <2> QED BY <2>1 DEF IInv, ParentsHeld, Inserted
<1>9. ASSUME NEW r \in Request, DeleteLock(r) PROVE ParentsHeld'
  <2>1. CASE Finish(r, "failed")
    BY <1>4, <1>9, <2>1 DEF DeleteLock, Finish, rows
  <2>2. CASE pc' = [pc EXCEPT ![r] = "cascade"]
    <3>1. /\ pc'[r] = "cascade" /\ \A s \in Request \ {r} : pc'[s] = pc[s]
          /\ LockWaits(r) = {}
          /\ UNCHANGED <<users, tickets, op>>
      BY <1>9, <2>2 DEF DeleteLock, rows, IInv, Typed, RequestsTyped
    <3>2. \A s \in Request : pc[s] \in {"bump", "commit"} => op[s].actor # op[r].target
      BY <3>1 DEF LockWaits, AuthorLocks, IInv, Typed, StageMatchesOp, Commenting
    <3> QED BY <3>1, <3>2 DEF IInv, ParentsHeld, Inserted
  <2> QED BY <1>9, <2>1, <2>2 DEF DeleteLock
<1>10. ASSUME NEW r \in Request, DeleteCascade(r) PROVE ParentsHeld'
  <2> DEFINE u == op[r].target
  <2>1. /\ pc[r] = "cascade" /\ pc'[r] \in {"done", "refused"}
        /\ \A s \in Request \ {r} : pc'[s] = pc[s]
        /\ CascadeWaits(r) = {} /\ UNCHANGED op
        /\ users \ {u} \subseteq users' /\ tickets \ Opened(u) \subseteq tickets'
    BY <1>10 DEF DeleteCascade, Finish, IInv, Typed, RequestsTyped
  <2>2. ASSUME NEW s \in Request, pc[s] \in Inserted
        PROVE  op[s].ticket \in tickets \ Opened(u)
    <3>1. s # r /\ \E c \in pending[s] : c.ticket = op[s].ticket
      <4>1. s # r
        BY <2>1, <2>2 DEF Inserted
      <4>2. pending[s] = {[ticket |-> op[s].ticket, author |-> op[s].actor,
                           at |-> began[s]]}
        BY <2>2 DEF IInv, Typed, HoldsOwn
      <4> QED BY <4>1, <4>2
    <3>2. op[s].ticket \notin Opened(u)
      BY <2>1, <3>1 DEF CascadeWaits, Sharing
    <3> QED BY <2>2, <3>2 DEF IInv, ParentsHeld
  <2> QED BY <2>1, <2>2 DEF IInv, ParentsHeld, Inserted
<1>11. ASSUME NEW s \in Request, NEW a, NEW k, NEW p,
              \/ CommentBegin(s, a, k) \/ ReadBegin(s, a, k)
              \/ PatchBegin(s, a, k, p) \/ DeleteBegin(s, a, k)
       PROVE  ParentsHeld'
    BY <1>3, <1>11 DEF CommentBegin, ReadBegin, PatchBegin, DeleteBegin
<1>12. CASE UNCHANGED vars
    BY <1>1, <1>12 DEF vars
<1>13. ASSUME NEW u \in User, NEW t \in Tenant, CreateUser(u, t) PROVE ParentsHeld'
    BY <1>13, QuietKeepsParents DEF CreateUser
<1>14. ASSUME NEW u \in User, NEW k \in Ticket, CreateTicket(k, u) PROVE ParentsHeld'
    BY <1>14, QuietKeepsParents DEF CreateTicket
<1> QED
    BY <1>5, <1>6, <1>7, <1>8, <1>9, <1>10, <1>11, <1>12, <1>13, <1>14,
       NextCases DEF Request

\* What holds of a comment that commits.
LEMMA CommittedComment ==
    ASSUME IInv, NEW r \in Request, CommentCommit(r), NEW c \in pending[r]
    PROVE  /\ c.ticket = op[r].ticket /\ c.at = began[r]
           /\ c.ticket \in tickets
           /\ c.author \in users \cup Admin
           /\ c.author \in User => tenantOf[c.author] = TenantOfTicket(c.ticket)
           /\ c.ticket \in bumped[r]
<1>1. /\ pc[r] = "commit"
      /\ c = [ticket |-> op[r].ticket, author |-> op[r].actor, at |-> began[r]]
      /\ bumped[r] = {op[r].ticket}
    BY DEF CommentCommit, IInv, Typed, HoldsOwn, Inserted
<1> QED BY <1>1 DEF IInv, ParentsHeld, ScopeChecked, SeesTicket, Inserted

LEMMA NextThreadsIntact == IInv /\ [Next]_vars => ThreadsIntact'
<1> SUFFICES ASSUME IInv, [Next]_vars PROVE ThreadsIntact'
    OBVIOUS
<1> DEFINE Good(c) == /\ c.ticket \in tickets
                      /\ c.author \in users \cup Admin
                      /\ c.author \in User => tenantOf[c.author] = TenantOfTicket(c.ticket)
<1>1. \A c \in comments : Good(c) /\ c.ticket \in Ticket
    BY DEF IInv, ThreadsIntact, Typed, RowsTyped
<1>2. ASSUME NEW c, Good(c), c.ticket \in Ticket, c.ticket \in tickets',
             c.author \in users' \cup Admin
      PROVE  Good(c)'
    BY <1>2, OwnersStable DEF IInv, Typed, RowsTyped
<1>3. CASE UNCHANGED <<tenantOf, users, creator, tickets, comments>>
    BY <1>3 DEF IInv, ThreadsIntact, TenantOfTicket
<1>4. ASSUME NEW u \in User, NEW t \in Tenant, CreateUser(u, t) PROVE ThreadsIntact'
  <2>1. /\ users \subseteq users' /\ UNCHANGED <<creator, tickets, comments>>
    BY <1>4 DEF CreateUser
  <2>2. \A c \in comments : Good(c)'
    BY <1>1, <1>2, <2>1
  <2> QED BY <2>1, <2>2 DEF IInv, ThreadsIntact
<1>5. ASSUME NEW u \in User, NEW k \in Ticket, CreateTicket(k, u) PROVE ThreadsIntact'
  <2>1. /\ u \in users /\ creator' = [creator EXCEPT ![k] = u]
        /\ tickets' = tickets \cup {k} /\ UNCHANGED <<users, comments>>
    BY <1>5 DEF CreateTicket
  <2>2. \A c \in comments : Good(c)'
    BY <1>1, <1>2, <2>1
  <2>3. \A j \in tickets' : creator'[j] \in users
    BY <2>1 DEF IInv, ThreadsIntact, Typed, RowsTyped
  <2> QED BY <2>1, <2>2, <2>3 DEF ThreadsIntact
<1>6. ASSUME NEW r \in Request, CommentCommit(r) PROVE ThreadsIntact'
  <2>1. /\ comments' = comments \cup pending[r]
        /\ UNCHANGED <<tenantOf, users, creator, tickets>>
    BY <1>6 DEF CommentCommit
  <2>2. \A c \in pending[r] : Good(c) /\ c.ticket \in Ticket
    BY <1>6, CommittedComment DEF IInv, Typed, RowsTyped
  <2>3. \A c \in comments' : Good(c)'
    BY <1>1, <1>2, <2>1, <2>2
  <2> QED BY <2>1, <2>3 DEF IInv, ThreadsIntact
<1>7. ASSUME NEW r \in Request, DeleteCascade(r) PROVE ThreadsIntact'
  <2> DEFINE u == op[r].target
             left == {c \in comments : c.ticket \notin Opened(u)}
  <2>1. CASE \E c \in comments : c.author = u
    BY <1>3, <1>7, <2>1 DEF DeleteCascade
  <2>2. CASE ~ \E c \in comments : c.author = u
    <3>1. /\ users' = users \ {u} /\ tickets' = tickets \ Opened(u)
          /\ comments' = left /\ UNCHANGED <<tenantOf, creator>>
      BY <1>7, <2>2 DEF DeleteCascade
    <3>2. \A c \in comments' : Good(c)'
      BY <1>1, <1>2, <2>2, <3>1
    <3>3. \A k \in tickets' : creator[k] \in users'
      BY <3>1 DEF Opened, IInv, ThreadsIntact
    <3> QED BY <3>1, <3>2, <3>3 DEF ThreadsIntact
  <2> QED BY <2>1, <2>2
<1>8. ASSUME NEW r \in Request,
             \/ CommentCheck(r) \/ CommentInsert(r) \/ CommentAuthor(r)
             \/ CommentBump(r) \/ Patch(r) \/ DeleteLock(r)
             \/ FetchTicket(r) \/ FetchComments(r) \/ Fail(r)
      PROVE  UNCHANGED <<tenantOf, users, creator, tickets, comments>>
    BY <1>8 DEF rows, CommentCheck, CommentInsert, CommentAuthor, CommentBump,
       Patch, DeleteLock, FetchTicket, FetchComments, Fail
<1>9. ASSUME NEW s \in Request, NEW a, NEW k, NEW p,
             \/ CommentBegin(s, a, k) \/ ReadBegin(s, a, k)
             \/ PatchBegin(s, a, k, p) \/ DeleteBegin(s, a, k)
      PROVE  UNCHANGED <<tenantOf, users, creator, tickets, comments>>
    BY <1>9 DEF CommentBegin, ReadBegin, PatchBegin, DeleteBegin, Begin, rows
<1>10. CASE UNCHANGED vars
    BY <1>3, <1>10 DEF vars
<1> QED
    BY <1>3, <1>4, <1>5, <1>6, <1>7, <1>8, <1>9, <1>10, NextCases DEF Request

LEMMA Inductive == Spec => []IInv
<1>1. IInv /\ [Next]_vars => IInv'
    BY NextTyped, NextOwnersKnown, NextScopeChecked, NextParentsHeld,
       NextThreadsIntact DEF IInv
<1> QED BY <1>1, InitIInv, PTL DEF Spec

\* Threads name what exists and stay inside a tenant, although the tenant is
\* checked before the transaction and users are deleted meanwhile.
THEOREM ThreadsSound == Spec => []ThreadsIntact
BY Inductive, PTL DEF IInv

\* A detail response shows its caller no other tenant's comments.
THEOREM DetailsSound == Spec => []DetailConfined
<1>1. IInv => DetailConfined
    BY DEF IInv, ScopeChecked, SeesTicket, DetailConfined, Request
<1> QED BY <1>1, Inductive, PTL

\* A comment is never seen without its ticket's new updated_at.
THEOREM CommentsBump == Spec => CommentBumpsTicket
<1>1. ASSUME IInv, [Next]_vars
      PROVE  [\A c \in comments' \ comments : updated'[c.ticket] = c.at]_vars
  <2> SUFFICES ASSUME NEW c \in comments' \ comments
               PROVE  updated'[c.ticket] = c.at
    OBVIOUS
  <2>1. PICK r \in Request : CommentCommit(r)
    BY <1>1, NextCases DEF vars, rows, CreateUser, CreateTicket, CommentBegin,
       ReadBegin, PatchBegin, DeleteBegin, Begin, CommentCheck, CommentInsert,
       CommentAuthor, CommentBump, Patch, DeleteLock, DeleteCascade,
       FetchTicket, FetchComments, Fail
  <2>2. c \in pending[r]
    BY <2>1 DEF CommentCommit
  <2>3. c.ticket \in bumped[r] /\ c.at = began[r] /\ c.ticket \in Ticket
    BY <1>1, <2>1, <2>2, CommittedComment DEF IInv, Typed, RowsTyped
  <2> QED BY <2>1, <2>3 DEF CommentCommit
<1> QED BY <1>1, Inductive, PTL DEF Spec, CommentBumpsTicket

\* Fields change by the PATCH that names them, and to what it says.
THEOREM PatchesConfined == Spec => OnlyNamedFieldsChange
<1>1. ASSUME IInv, [Next]_vars
      PROVE  [\A k \in Ticket, f \in Field : fields'[k][f] # fields[k][f] =>
                 \E r \in PatchRequest :
                     /\ pc[r] = "patch" /\ pc'[r] = "done" /\ op[r].ticket = k
                     /\ f \in DOMAIN op[r].patch
                     /\ fields'[k][f] = op[r].patch[f]]_vars
  <2> SUFFICES ASSUME NEW k \in Ticket, NEW f \in Field,
                      fields'[k][f] # fields[k][f]
               PROVE  \E r \in PatchRequest :
                          /\ pc[r] = "patch" /\ pc'[r] = "done" /\ op[r].ticket = k
                          /\ f \in DOMAIN op[r].patch
                          /\ fields'[k][f] = op[r].patch[f]
    OBVIOUS
  <2>1. PICK r \in Request : Patch(r)
    BY <1>1, NextCases DEF vars, rows, CreateUser, CreateTicket, CommentBegin,
       ReadBegin, PatchBegin, DeleteBegin, Begin, CommentCheck, CommentInsert,
       CommentAuthor, CommentBump, CommentCommit, DeleteLock, DeleteCascade,
       FetchTicket, FetchComments, Fail
  <2>2. /\ r \in PatchRequest /\ pc[r] = "patch"
        /\ op[r].ticket \in Ticket
    BY <1>1, <2>1 DEF Patch, IInv, Typed, StageMatchesOp, PatchOp
  <2>3. /\ op[r].ticket \in tickets /\ pc'[r] = "done"
        /\ fields' = [fields EXCEPT ![op[r].ticket] = Patched(@, op[r].patch)]
    BY <1>1, <2>1 DEF Patch, Finish, IInv, Typed, RequestsTyped
  <2>4. op[r].ticket = k /\ fields'[k] = Patched(fields[k], op[r].patch)
    BY <1>1, <2>2, <2>3 DEF IInv, Typed, RowsTyped
  <2>5. f \in DOMAIN op[r].patch /\ fields'[k][f] = op[r].patch[f]
    BY <2>4 DEF Patched
  <2> QED BY <2>2, <2>3, <2>4, <2>5
<1> QED BY <1>1, Inductive, PTL DEF Spec, OnlyNamedFieldsChange
=============================================================================
