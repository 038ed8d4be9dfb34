------------------------------ MODULE Support ------------------------------
(***************************************************************************)
(* support-service: tickets that a tenant's users open and platform staff  *)
(* triage, their comments, and DELETE /users/{id} of rbac-service, whose   *)
(* cascade reaches them.  Handlers run on PostgreSQL at READ COMMITTED;    *)
(* now() is the instant its transaction began.  Ids are never reused, so a *)
(* deleted user or ticket keeps its immutable columns.                     *)
(***************************************************************************)
EXTENDS Naturals, FiniteSets

CONSTANTS
    Tenant, User, Admin, Ticket,    \* Admin: platform_admins, never deleted
    CommentRequest, PatchRequest, DeleteRequest, ReadRequest,
    Patches,        \* bodies of PATCH: which fields, and their new values
    Default,        \* fields of a ticket just opened
    Null, NoTenant, NoUser,
    MaxClock        \* bound: instants

Field == DOMAIN Default
Value == UNION {{p[f] : f \in DOMAIN p} : p \in Patches \cup {Default}}
Request == CommentRequest \cup PatchRequest \cup DeleteRequest \cup ReadRequest

ASSUME SupportAssumption ==
    /\ User \cap Admin = {} /\ (User \cup Admin) \cap Ticket = {}
    /\ NoTenant \notin Tenant /\ NoUser \notin User
    /\ Default \in [Field -> Value]
    /\ \A p \in Patches : DOMAIN p \subseteq Field /\ DOMAIN p # {}
    /\ "assignedTo" \in Field
    /\ MaxClock \in Nat

VARIABLES
    tenantOf, users,            \* users ever created, and those that exist
    creator, tickets,           \* the same of tickets
    fields, updated,            \* status, priority, assignedTo; updated_at
    comments,                   \* committed support_ticket_comments
    clock,
    pc, op, began,              \* per request: stage, arguments, its now()
    pending,                    \* comment its transaction has inserted
    bumped,                     \* tickets its transaction has updated
    shown                       \* comments a detail response carries

rows == <<tenantOf, users, creator, tickets, fields, updated, comments>>
vars == <<tenantOf, users, creator, tickets, fields, updated, comments, clock,
          pc, op, began, pending, bumped, shown>>

Comment == [ticket: Ticket, author: User \cup Admin, at: 1..MaxClock]
NoOp == [actor |-> NoUser]

Init ==
    /\ tenantOf = [u \in User |-> NoTenant] /\ users = {}
    /\ creator = [k \in Ticket |-> NoUser] /\ tickets = {}
    /\ fields = [k \in Ticket |-> Default]
    /\ updated = [k \in Ticket |-> 0]
    /\ comments = {}
    /\ clock = 0
    /\ pc = [r \in Request |-> "idle"]
    /\ op = [r \in Request |-> NoOp]
    /\ began = [r \in Request |-> 0]
    /\ pending = [r \in Request |-> {}]
    /\ bumped = [r \in Request |-> {}]
    /\ shown = [r \in Request |-> {}]

-----------------------------------------------------------------------------
(* Locks. *)

\* Deletes that hold the row of user u while they cascade.
Removing(u) == {s \in DeleteRequest : pc[s] = "cascade" /\ op[s].target = u}

\* Transactions that hold ticket k: a comment's foreign key, or the UPDATE.
Sharing(r, k) == {s \in Request \ {r} : \E c \in pending[s] : c.ticket = k}
Updating(r, k) == {s \in Request \ {r} : k \in bumped[s]}

TenantOfTicket(k) == tenantOf[creator[k]]

\* Whoever may act: a user whose token is still valid, deleted or not, or staff.
Session(a) == a \in Admin \/ (a \in User /\ tenantOf[a] # NoTenant)

\* Staff see every ticket; a user those of the tenant in the claims.
InScope(a, k) == k \in tickets /\ (a \in User => TenantOfTicket(k) = tenantOf[a])

Begin(r, o, stage) ==
    /\ pc[r] = "idle" /\ clock < MaxClock
    /\ clock' = clock + 1
    /\ began' = [began EXCEPT ![r] = clock + 1]
    /\ op' = [op EXCEPT ![r] = o]
    /\ pc' = [pc EXCEPT ![r] = stage]
    /\ UNCHANGED <<rows, pending, bumped, shown>>

Finish(r, stage) ==
    /\ pc' = [pc EXCEPT ![r] = stage]
    /\ pending' = [pending EXCEPT ![r] = {}]
    /\ bumped' = [bumped EXCEPT ![r] = {}]

-----------------------------------------------------------------------------
(* Single statements. *)

\* POST /users.
CreateUser(u, t) ==
    /\ tenantOf[u] = NoTenant
    /\ tenantOf' = [tenantOf EXCEPT ![u] = t]
    /\ users' = users \cup {u}
    /\ UNCHANGED <<creator, tickets, fields, updated, comments, clock, pc, op,
                   began, pending, bumped, shown>>

\* POST /tickets: the foreign key wants the creator's row, which a delete
\* in progress keeps waiting.
CreateTicket(k, u) ==
    /\ creator[k] = NoUser /\ u \in users /\ Removing(u) = {}
    /\ clock < MaxClock /\ clock' = clock + 1
    /\ creator' = [creator EXCEPT ![k] = u]
    /\ tickets' = tickets \cup {k}
    /\ updated' = [updated EXCEPT ![k] = clock + 1]
    /\ UNCHANGED <<tenantOf, users, fields, comments, pc, op, began, pending,
                   bumped, shown>>

-----------------------------------------------------------------------------
(* POST /tickets/{id}/comments and /platform/tickets/{id}/comments. *)

CommentBegin(r, a, k) ==
    /\ Session(a)
    /\ Begin(r, [actor |-> a, ticket |-> k], "check")

\* Mutant: SELECT EXISTS ... WHERE id = $1 on the tenant side too.
CommentCheckAnyTenant(r) ==
    /\ pc[r] = "check"
    /\ IF op[r].ticket \in tickets
         THEN pc' = [pc EXCEPT ![r] = "insert"] /\ UNCHANGED <<pending, bumped>>
         ELSE Finish(r, "failed")
    /\ UNCHANGED <<rows, clock, op, began, shown>>

CommentCheck(r) ==
    /\ pc[r] = "check"
    /\ IF InScope(op[r].actor, op[r].ticket)
         THEN pc' = [pc EXCEPT ![r] = "insert"] /\ UNCHANGED <<pending, bumped>>
         ELSE Finish(r, "failed")
    /\ UNCHANGED <<rows, clock, op, began, shown>>

\* The row is inserted; its foreign keys are looked at afterwards, ticket
\* first, and only then does a missing parent abort the statement.
CommentInsert(r) ==
    LET k == op[r].ticket
    IN  /\ pc[r] = "insert"
        /\ IF k \in tickets
             THEN /\ pending' = [pending EXCEPT ![r] =
                        {[ticket |-> k, author |-> op[r].actor, at |-> began[r]]}]
                  /\ pc' = [pc EXCEPT ![r] = "author"] /\ UNCHANGED bumped
             ELSE Finish(r, "failed")
        /\ UNCHANGED <<rows, clock, op, began, shown>>

\* The author's foreign key waits for a delete of that user.
CommentAuthor(r) ==
    /\ pc[r] = "author"
    /\ Removing(op[r].actor) = {}
    /\ IF op[r].actor \in users \cup Admin
         THEN pc' = [pc EXCEPT ![r] = "bump"] /\ UNCHANGED <<pending, bumped>>
         ELSE Finish(r, "failed")
    /\ UNCHANGED <<rows, clock, op, began, shown>>

\* UPDATE support_tickets SET updated_at = now().
CommentBump(r) ==
    /\ pc[r] = "bump"
    /\ Updating(r, op[r].ticket) = {}
    /\ bumped' = [bumped EXCEPT ![r] = {op[r].ticket}]
    /\ pc' = [pc EXCEPT ![r] = "commit"]
    /\ UNCHANGED <<rows, clock, op, began, pending, shown>>

\* Mutant: the UPDATE goes through the pool, not the transaction.
CommentCommitAlone(r) ==
    /\ pc[r] = "commit"
    /\ comments' = comments \cup pending[r]
    /\ Finish(r, "done")
    /\ UNCHANGED <<tenantOf, users, creator, tickets, fields, updated, clock, op,
                   began, shown>>

CommentCommit(r) ==
    /\ pc[r] = "commit"
    /\ comments' = comments \cup pending[r]
    /\ updated' = [k \in Ticket |-> IF k \in bumped[r] THEN began[r]
                                    ELSE updated[k]]
    /\ Finish(r, "done")
    /\ UNCHANGED <<tenantOf, users, creator, tickets, fields, clock, op, began,
                   shown>>

-----------------------------------------------------------------------------
(* PATCH /platform/tickets/{id}: one UPDATE of the fields named. *)

PatchBegin(r, a, k, p) ==
    Begin(r, [actor |-> a, ticket |-> k, patch |-> p], "patch")

\* Mutant: a plain struct, where an absent assignedTo reads as null.
PatchedFromStruct(f, p) ==
    [x \in Field |-> IF x \in DOMAIN p THEN p[x]
                     ELSE IF x = "assignedTo" THEN Null ELSE f[x]]

Patched(f, p) == [x \in Field |-> IF x \in DOMAIN p THEN p[x] ELSE f[x]]

\* Having waited, the UPDATE works on the row as it is then.
Patch(r) ==
    LET k == op[r].ticket
    IN  /\ pc[r] = "patch"
        /\ Updating(r, k) = {}
        /\ IF k \in tickets
             THEN /\ fields' = [fields EXCEPT ![k] = Patched(@, op[r].patch)]
                  /\ updated' = [updated EXCEPT ![k] = began[r]]
                  /\ Finish(r, "done")
             ELSE Finish(r, "failed") /\ UNCHANGED <<fields, updated>>
        /\ UNCHANGED <<tenantOf, users, creator, tickets, comments, clock, op,
                       began, shown>>

-----------------------------------------------------------------------------
(* DELETE /users/{id} (rbac-service). *)

DeleteBegin(r, t, u) ==
    Begin(r, [actor |-> NoUser, tenant |-> t, target |-> u], "lock")

\* Transactions whose comment holds the user's row as its author.
AuthorLocks(u) ==
    {s \in CommentRequest : pc[s] \in {"bump", "commit"} /\ op[s].actor = u}

LockWaits(r) == AuthorLocks(op[r].target) \cup Removing(op[r].target)

DeleteLock(r) ==
    LET u == op[r].target
    IN  /\ pc[r] = "lock"
        /\ LockWaits(r) = {}
        /\ IF u \in users /\ tenantOf[u] = op[r].tenant
             THEN pc' = [pc EXCEPT ![r] = "cascade"] /\ UNCHANGED <<pending, bumped>>
             ELSE Finish(r, "failed")
        /\ UNCHANGED <<rows, clock, op, began, shown>>

Opened(u) == {k \in tickets : creator[k] = u}

CascadeWaits(r) ==
    UNION {Sharing(r, k) \cup Updating(r, k) : k \in Opened(op[r].target)}

\* The row's own triggers come first: the user's tickets go, and ON DELETE SET
\* NULL leaves every comment of the user without an author, on the user's own
\* tickets too, which one_author refuses: the whole DELETE is undone.  Only
\* then would the comments on the tickets go.
DeleteCascade(r) ==
    LET u == op[r].target
    IN  /\ pc[r] = "cascade"
        /\ CascadeWaits(r) = {}
        /\ IF \E c \in comments : c.author = u
             THEN Finish(r, "refused") /\ UNCHANGED <<users, tickets, comments>>
             ELSE /\ users' = users \ {u} /\ tickets' = tickets \ Opened(u)
                  /\ comments' = {c \in comments : c.ticket \notin Opened(u)}
                  /\ Finish(r, "done")
        /\ UNCHANGED <<tenantOf, creator, fields, updated, clock, op, began, shown>>

-----------------------------------------------------------------------------
(* GET /tickets/{id} and /platform/tickets/{id}: two statements. *)

ReadBegin(r, a, k) ==
    /\ Session(a)
    /\ Begin(r, [actor |-> a, ticket |-> k], "fetch")

\* Mutant: fetchTicket(ctx, ticketID, nil) on the tenant side.
FetchTicketUnscoped(r) ==
    /\ pc[r] = "fetch"
    /\ IF op[r].ticket \in tickets
         THEN pc' = [pc EXCEPT ![r] = "thread"] /\ UNCHANGED <<pending, bumped>>
         ELSE Finish(r, "failed")
    /\ UNCHANGED <<rows, clock, op, began, shown>>

FetchTicket(r) ==
    /\ pc[r] = "fetch"
    /\ IF InScope(op[r].actor, op[r].ticket)
         THEN pc' = [pc EXCEPT ![r] = "thread"] /\ UNCHANGED <<pending, bumped>>
         ELSE Finish(r, "failed")
    /\ UNCHANGED <<rows, clock, op, began, shown>>

\* fetchComments names the ticket only.
FetchComments(r) ==
    /\ pc[r] = "thread"
    /\ shown' = [shown EXCEPT ![r] = {c \in comments : c.ticket = op[r].ticket}]
    /\ Finish(r, "done")
    /\ UNCHANGED <<rows, clock, op, began>>

-----------------------------------------------------------------------------
Running(r) == pc[r] \notin {"idle", "done", "failed", "refused"}

\* Mutant: no deferred Rollback.
FailHolding(r) ==
    /\ Running(r)
    /\ pc' = [pc EXCEPT ![r] = "failed"]
    /\ UNCHANGED <<rows, clock, op, began, pending, bumped, shown>>

\* The client or the connection goes away: deferred Rollback.
Fail(r) ==
    /\ Running(r)
    /\ Finish(r, "failed")
    /\ UNCHANGED <<rows, clock, op, began, shown>>

WaitsFor(r) ==
    CASE pc[r] = "author" -> Removing(op[r].actor)
      [] pc[r] \in {"bump", "patch"} -> Updating(r, op[r].ticket)
      [] pc[r] = "lock" -> LockWaits(r)
      [] pc[r] = "cascade" -> CascadeWaits(r)
      [] OTHER -> {}

\* PostgreSQL aborts a member of a cycle of waiting transactions: a comment
\* that holds its ticket and wants its author, and the author's delete that
\* holds the author and wants the ticket.
DeadlockVictim(r) ==
    /\ \E S \in SUBSET {s \in Request : WaitsFor(s) # {}} :
          r \in S /\ \A s \in S : WaitsFor(s) \cap S # {}
    /\ Finish(r, "failed")
    /\ UNCHANGED <<rows, clock, op, began, shown>>

Step(r) ==
    \/ CommentCheck(r) \/ CommentInsert(r) \/ CommentAuthor(r)
    \/ CommentBump(r) \/ CommentCommit(r)
    \/ Patch(r)
    \/ DeleteLock(r) \/ DeleteCascade(r)
    \/ FetchTicket(r) \/ FetchComments(r)

Next ==
    \/ \E u \in User : \/ \E t \in Tenant : CreateUser(u, t)
                       \/ \E k \in Ticket : CreateTicket(k, u)
    \/ \E k \in Ticket, a \in User \cup Admin :
          \/ \E r \in CommentRequest : CommentBegin(r, a, k)
          \/ \E r \in ReadRequest : ReadBegin(r, a, k)
    \/ \E r \in PatchRequest, a \in Admin, k \in Ticket, p \in Patches :
          PatchBegin(r, a, k, p)
    \/ \E r \in DeleteRequest, t \in Tenant, u \in User : DeleteBegin(r, t, u)
    \/ \E r \in Request : Step(r) \/ Fail(r) \/ DeadlockVictim(r)

Spec == Init /\ [][Next]_vars

-----------------------------------------------------------------------------
(* Properties *)

\* Every variable ranges over what the schema and the handlers allow.
TypeOK ==
    /\ tenantOf \in [User -> Tenant \cup {NoTenant}]
    /\ users \subseteq {u \in User : tenantOf[u] # NoTenant}
    /\ creator \in [Ticket -> User \cup {NoUser}]
    /\ tickets \subseteq {k \in Ticket : creator[k] # NoUser}
    /\ fields \in [Ticket -> [Field -> Value]]
    /\ updated \in [Ticket -> 0..clock] /\ clock \in 0..MaxClock
    /\ comments \subseteq Comment
    /\ \A r \in Request : pending[r] \cup shown[r] \subseteq Comment
    /\ \A r \in Request : bumped[r] # {} => pc[r] = "commit"

\* Tickets and comments name people and tickets that exist, and a user's
\* comment is on a ticket of the user's own tenant, although the check and
\* the insert are separate statements (main.go:339-379).
ThreadsIntact ==
    /\ \A k \in tickets : creator[k] \in users
    /\ \A c \in comments :
          /\ c.ticket \in tickets
          /\ c.author \in users \cup Admin
          /\ c.author \in User => tenantOf[c.author] = TenantOfTicket(c.ticket)

\* A detail response carries comments of the caller's tenant only, although
\* fetchComments does not ask whose ticket it is.
DetailConfined ==
    \A r \in ReadRequest : \A c \in shown[r] :
        op[r].actor \in User => TenantOfTicket(c.ticket) = tenantOf[op[r].actor]

\* A comment and its ticket's new updated_at are seen together.
CommentBumpsTicket ==
    [][\A c \in comments' \ comments : updated'[c.ticket] = c.at]_vars

\* A ticket's field changes only when a PATCH that names it commits: triage
\* by two people at once, or of a field left out, loses nothing
\* (main.go:593-597).
OnlyNamedFieldsChange ==
    [][\A k \in Ticket, f \in Field : fields'[k][f] # fields[k][f] =>
          \E r \in PatchRequest :
              /\ pc[r] = "patch" /\ pc'[r] = "done" /\ op[r].ticket = k
              /\ f \in DOMAIN op[r].patch
              /\ fields'[k][f] = op[r].patch[f]]_vars

\* Deleting a user leaves the user's comments behind without an author, as
\* the schema asks: "author_user_id UUID REFERENCES users(id) ON DELETE SET
\* NULL" (migration 0004, line 41).
DeleteNeverRefused == \A r \in DeleteRequest : pc[r] # "refused"
=============================================================================
