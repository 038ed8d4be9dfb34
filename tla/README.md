# Observex: TLA+ models, model checking and proofs

Observex is a multi-tenant observability platform: Go services over PostgreSQL
in front of Mimir, Loki and Tempo (`src/backend`), and a Next.js console
(`src/frontend`). This directory models the parts whose correctness depends on
the order of things: concurrent requests on the control plane's tables, reads
scoped by grants that change meanwhile, the uptime prober's loop, support
threads that several people edit, sessions in several tabs, and a browser whose
answers come late, out of order, or never. TLC checks small instances; TLAPS
proves every safety property that these runs check, for every instance.

## 1. Inventory

| Part (source) | State | Operations | What is hard | What makes it correct |
|---|---|---|---|---|
| access grants: `rbac-service`, `tenant-service`, `migrations/0001`, `0003` | `users`, `clusters`, `namespaces`, `access_grants` | create and delete users and clusters, namespace report, `PUT /users/{id}/access` (verify, DELETE, INSERTs, commit) | verification outside the transaction; READ COMMITTED snapshots; NULL keys; cascades; row-lock waits and deadlocks | grants are sound, unique, all-or-nothing, changed by the user's own tenant only; every request ends |
| `query-gateway`, `internal/tenancy` | none of its own; reads grants once per request | `loadAccess`, `scopeFor`, the proxied routes, `/clusters` | grants change while a query runs; partial reads; several clusters in one matcher | an answer is what the caller held; picker and enforcement agree |
| `blackbox-service` | `synthetic_checks`; in memory: ticker, `lastProbed` | create and delete a check; tick, probe, push | ticks longer than the ticker's period; hanging targets; failed loads and pushes; restart | no check starves; deleted checks fade; samples stay with their tenant |
| `support-service`, `DELETE /users/{id}` | `support_tickets`, `support_ticket_comments` | create, comment (two sides), patch, detail read, user deletion | three-statement transactions; time stamps taken at BEGIN; cascades against a CHECK; waits | threads keep existing authors of the right tenant; a patch changes what it names |
| `auth-service`, staff login of `platform-admin-service`, `middleware.ts`, forms, sidebars, `useSession` | `tenants`, `users`, two cookies, tabs | signup, login, logout, me, page visits; accounts created and deleted by administrators | slug chosen before it is inserted; commit before the session exists; failures at every hop; tabs share cookies | signup is all-or-nothing; slugs unique; sessions are of accounts that were committed; forms recover |
| console pages: uptime, users, clusters, tickets, tenants | a copy of one table, form state | load, create, delete, filter, patch, comment | reloads that nothing cancels; answers lost or refused; page left and revisited; other people write the same tables | spinners mean requests; a settled page is the table, up to what it was never told |
| access editor (`app/admin/users/AccessEditor.tsx`) | the grants being edited | open for a user, edit, save, close | a load that answers after the user changed; late PUTs; saves that overlap in the service | what is shown and saved belongs to the user named |
| live views: metrics, logs, alerts, KPIs, uptime badge; `clusterContext` | inputs, data on display, requests in flight | choose cluster, change controls, answers | effects that depend on each other; cancelled requests; the cluster read after the first render | data on display belong to the controls shown |
| dashboards (`dashboard/`, `components/dashboard`, `mock/dashboards.ts`) | localStorage, dashboard on display, variables, status cache, panel requests | open, create, edit, save, resolve variables, refresh | chained queries; write-backs that start passes; a shared promise; tabs that share storage | panels are current; variables come to rest; only gestures write |
| `internal/db`, `cmd/seed`, `ingest-gateway` | `migrations_applied`, `clusters.last_seen_at` | migrate, seed, forward, report | see "Not modelled" | - |
| landing page, costs, traces, charts, deployment | - | rendering, configuration | - | - |

The services share one PostgreSQL database and call each other hardly at all:
rows are the interface. The browser talks to them through Next.js API routes
that forward the session cookie. The stores (Mimir, Loki, Tempo) are external
and separate tenants by the `X-Scope-OrgID` header the gateways set. In the
browser, pages share the cookies, the chosen cluster and localStorage, and
nothing else.

`PROJECT.json` lists the hazards line by line, with the properties that cover
each one.

## 2. Modules

| Module | Models | Composes |
|---|---|---|
| `GrantTable` | what readers may rely on: rows and grants change one committed request at a time, and grants are sound when they appear | - |
| `AccessGrants` | the handlers of rbac-service and tenant-service, statement by statement | implements `GrantTable` (`Table`) |
| `QueryGateway` | query-gateway reading the grants | extends `GrantTable` |
| `Prober` | blackbox-service | - |
| `Support` | support-service and the cascade of `DELETE /users/{id}` | - |
| `Sessions` | signup, login and logout, from the form to the tables, in several tabs and two portals | - |
| `ListPages` | the seven list pages: load, create, delete, filter, token banner | - |
| `TicketPage` | a ticket as staff see it: patches, assignee draft, comments, reloads | - |
| `AccessEditor` | the editor of a user's access, and other administrators, against the service's table | - |
| `LiveViews` | the views that query the gateway, as sets of effects | - |
| `Dashboards` | list, storage, variables, status cache and a panel | - |
| `Console` | one tab on one of these five screens | extends the five modules above |
| `MC...` | small instances: payloads, patches, label values, symmetry | each extends its module |
| `AccessGrantsProofs`, `QueryGatewayProofs`, `ProberProofs`, `SupportProofs`, `SessionsProofs` | theorems about the module named | each extends it |
| `PagesProofs` | theorems about `AccessEditor`; the invariants of `ListPages` and `TicketPage` | extends the three |
| `DashboardsProofs` | theorems about `Dashboards` | extends it |
| `ConsoleProofs` | theorems about `Console`; the invariant of `LiveViews` | extends `Console` and the two above |

Operators named in a comment as "Mutant:" are plausible bugs of the definition
that follows them. No specification uses them; each shows that a property
notices the bug (`PROJECT.json`, `mutants`).

### AccessGrants

`owner` and `nsCluster` are the `tenant_id` and `cluster_id` columns, kept for
deleted rows too because ids are random UUIDs; `live` says which rows exist and
`grants` is the committed table. A request has a stage `pc`, its arguments
`op`, and its transaction: `snap` (rows the DELETE's snapshot saw), `del` and
`ins` (uncommitted). A PUT goes through `PutStart` (claims, ownership, decode),
`PutVerify` (one payload entry per step, outside the transaction), `PutBegin`,
`PutClear`, `PutInsert` (one row per step) and `PutCommit`. Deletes are one
statement in two steps: `DeleteLock` takes the row, `DeleteCommit` cascades.

What PostgreSQL does is part of the model, because the code relies on it: a
statement sees committed rows only; a DELETE waits for rows that another
transaction deletes and skips those then gone, and does not see rows committed
after its snapshot; an INSERT waits for an uncommitted equal key or parent and
fails on a committed one; a cycle of waits is broken by aborting a member.
`UserAccess` is what `GET /users/{id}/access` returns.

Left out: e-mail addresses, names, roles and the agent token of a row; the
unique constraints on names, which only make a create fail. The tenant of a
request comes from a validated token. Rows of tenants are never deleted by any
handler.

### QueryGateway

The tables move by `GrantTable`. `Load` is authentication and `loadAccess`;
because the loop does not look at `rows.Err()`, any subset of the rows may be
what is used (stage `partial`). `AnswerScoped` is `scopeFor`, the matchers and
the header; `AnswerTrace` is `/traces/{id}`. `Listing` is `handleClusters`,
which has queries of its own: it looks at a grant's `namespace_id`, where
`loadAccess` (`RowsFor`) looks at the name that a LEFT JOIN finds for it. That
both agree is therefore a claim about the tables: a grant never outlives its
namespace. The answer is the set of series
(tenant, cluster name, namespace name) that header and matchers let through.
`held` remembers what the caller's grants covered when they were read and is
the reference the answer is compared with. Query text is abstracted to one
selector, which is the case `ScopeLogQL` and `ScopeTraceQL` handle, as their
comments say.

### Prober

One unit of time is 5 s. Instants are kept as distances to the present
(`since` for `lastProbed`, `elapsed` for the tick's `now`), which makes the
state space finite without a horizon; a distance stops growing where no guard
or property can tell it from a larger one. `Advance` lets time pass, and only
where the code can spend time: waiting for a tick, or in a GET or push that
`probeTimeout` still allows. The ticker's channel holds one tick and drops
others. Loading the checks takes no time in the model but may fail.
`OverdueBound` is tight: TLC refutes the same invariant with one unit less.

### Support

A comment's transaction is `CommentBegin`, `CommentCheck`, `CommentInsert`
(which takes the ticket's key), `CommentAuthor` (the author's key),
`CommentBump`, `CommentCommit`. `Begin` takes the time that `now()` returns
throughout the transaction. `Patch` is one UPDATE of the fields the body names.
`DeleteLock` and `DeleteCascade` are `DELETE /users/{id}`; the cascade takes all
tickets at once, a coarsening of PostgreSQL's row by row, and is undone as a
whole (stage `refused`) when any comment of the user is stored: SET NULL leaves
it without an author, also on a ticket of the user's own, whose comments the
cascade of the tickets would only delete afterwards.
`FetchTicket` and `FetchComments` are the two statements of a detail read.
Lists are single statements and left out. Status and priority are treated alike
by the code; one field stands for both.

### Sessions

A tab has a page, a form and what `useSession` knows; the two cookies are the
`jar`. `AppShell` says what a visit mounts and `Middleware` where it ends. A
request moves through its stages: `FindSlug`, `InsertTenant`, `CommitSignup`
and `IssueToken` are `handleSignup`, `CookieSet` the answer reaching the
browser, `FormAnswered` the rest of the form's handler; `Lost` is a failure of
a service or the network, before or after the request took effect. All
companies have the same name, so that slugs collide; passwords are right.
`InsertTenant` waits for an uncommitted equal slug as PostgreSQL's unique index
does. `CreateUser` and `DeleteUser` are what administrators do to accounts;
a token of a deleted account stays in its `jar` until it expires, and `removed`
remembers the row, so that `SessionsWereCommitted` can say that a session is
always one of an account that was committed, never of one that a failing
signup took back. (What a deleted user's token still reads is
`DeletedUserRefused` in `QueryGateway`.)

### ListPages, TicketPage, AccessEditor

Requests are sequences or sets of records with a stage: sent, then done or
refused at the server, then answered, lost, or dropped because the page has
been left (`mine`). `Offered` is what a page lets its user do at the moment, as
its buttons are disabled and its form is hidden. `OthersWrite` and
`OthersWriteTicket` are other users of the tenant, the customer and other staff,
who write the same rows. History variables say when a page could not have known
better: a GET answered after a later one (`overtaken`); a change, since the last
GET was served, that nobody will tell the page of, by other people or by a
request of its own whose answer reached nobody (`tableMoved`, `ticketMoved`).
That a ticket goes with its deleted creator is left out of `TicketPage`;
`ListPages` has it.

`AccessEditor` has the table of grants as `held`. A PUT, of the panel or of
another administrator (`OthersSave`), begins (`BeginPut`), when its DELETE sees
the rows it will take away (`saw`), and commits (`CommitPut`), when the
INSERTs meet what the DELETE left; rows of a save that committed in between
survive it, so that overlapping saves leave more than either sent, as in
`AccessGrants`, which takes the handler apart. `strayed` marks the persons whose
access another save than the panel's has changed since the panel's began: the
exception of `SavedMeansStored`. TLC refutes the property without it. Deletions
of users and clusters while access is edited are left out here; `AccessGrants`
has them.

### LiveViews

A view is a set of effects. `Key` is what an effect asks for, `Sends` whether
it asks, `Deps` when it runs again. `RunEffects` is React's part: cancel, ask
again, clear. Data are modelled by the key they were asked for. Namespace,
container and pod filters work alike; one stands for them.

### Dashboards

`Render` is a state update of `Dashboard.tsx` with the effects it causes: the
write-back of resolved values, a new pass of `resolveAll` if its inputs
changed, a new request of the panel if its own changed. A pass collects the
options of one variable after another (`LabelsAnswered`) and publishes them at
once (`PassEnds`). `GetDatasourceStatus` is the cache with its promise in
flight; a status taken from the cache arrives a step later (`cached`).

### Console

The five screens of one tab. Only the page of the URL is mounted; the others
stand still (`On`).

## 3. Runs

| Run | Question | Bounds |
|---|---|---|
| `access_races` | sound, unique, all-or-nothing, confined grants; `GrantTable` implemented | 2 tenants, 2 users, 2 clusters, 1 namespace, 3 requests, 5 payloads incl. repeated entries and a foreign namespace |
| `access_liveness` | does every request end? | 1 tenant, user, cluster, namespace; 3 requests; payloads in both orders, so that waits cycle |
| `access_editor_race` | violation: full access and a list at once | 2 requests with payloads the editor builds |
| `gateway_scope` | answers against what was held | 2 tenants, an admin and a user, 2 clusters of different names, 2 namespaces, 1 query |
| `gateway_beyond` | violation: lists pooled over clusters | the same with 1 tenant |
| `prober_loop` | starvation, deleted checks, tenants | 2 checks, 2 tenants, timeout 2, tick 3, intervals 2 and 4, 1 restart |
| `support_threads` | threads, detail reads, patches | 2 tenants, 2 users, 1 staff, 1 ticket, 2 comments, 2 patches (one may follow the other, so a ticket can be assigned before a patch that does not name the assignee), 1 delete, 1 read, 4 instants |
| `support_delete` | violation: a commenter cannot be deleted | 1 comment, 1 delete |
| `sessions` | accounts, sessions, logout, forms, shell | 2 tabs, 2 people, 1 admin, 5 steps of users and administrators |
| `console` | what pages, editor, views and dashboards show and store | 2 rows, 2 requests in flight, 2 visits; 2 statuses, 2 patches, 1 comment; 2 users, 2 clusters with a namespace each, 2 openings, 2 clicks, 2 saves in flight, one of them another administrator's; 2 clusters with different metrics, 2 changes; 2 dashboards, 2 chained variables with failing queries, 2 edits |
| `console_liveness` | do spinners, disabled controls, loading states and passes end? | the same with fewer rows and users, and one save; label queries that do not fail |
| `dashboard_saved` | violation: resolved values are stored | 2 chained variables |

Why these bounds suffice. In `AccessGrants` every guard compares a request with
the rows it names and with one other request at a time; three requests give a
third party that changes the tables between two steps of a pair, and cycles of
waits of length two and three. Two entries per payload are enough for a failure
in the middle and for opposite lock orders. In `QueryGateway` a query touches no
other query's state, so one suffices; two clusters and two namespaces are what
the pooled matcher needs to differ from the grants. In `Prober` the timeout
makes a tick with two hanging targets longer than the ticker's period and than
the smallest interval, which is where ticks are dropped and checks fall behind.
`Restarts` bounds crashes. In `Support` the clock bound lets three requests and
one ticket happen in a behaviour, of the five that are offered.

In `Sessions` two tabs are two signups, or a signup and a logout, at once; five
steps let both end and one be followed by another form. In `console` two
requests in flight are what an overtaken answer needs, two visits what a late
answer for a left page needs; two clicks expand a cluster and move a namespace,
or edit before and after a change of user. Two changes of a live view's inputs leave two requests
cancelled behind a third. Two variables are a chain, and clusters that
differ in the first variable's values make its stored value invalid. Two
PUTs are what an overlap needs: the panel's with another administrator's, or
with one that the panel gave up by closing or by a broken connection. Full
access, a namespace and nothing are maps that differ on one cluster, so that
saves overlap on one only (`OverlapsAreSmall`). The bounds
count steps of users only; answers are never bounded.

`CHECK_DEADLOCK FALSE` is said where requests and ids are used up and the system
rests; `prober_loop` checks for deadlock, since the prober never stops.

Fairness appears in `access_liveness`, `console_liveness` and `sessions`. A handler is a goroutine that is
scheduled and whose statement returns once nothing blocks it, hence weak
fairness of `Step(r)` for each request; PostgreSQL's deadlock detector runs
after `deadlock_timeout`, hence weak fairness of some `DeadlockVictim`. Nothing
is assumed of clients, failures, or of requests arriving. The prober's bound is
a safety property and needs no fairness. In the browser a `fetch` resolves or
rejects and its handlers run: weak fairness of each kind of answer, losses
included (`ConsoleFairness`, `SessionFairness`); a patch of the assignee has its
own, because other patches may keep coming. Users owe nothing.

## 4. What the code does that its documentation does not say

* Concurrent saves (`access_editor_race`): the later save's DELETE does not see
  rows committed after its snapshot, and the unique indexes do not relate a
  full-cluster grant to a namespace grant, so both lists survive.
* Queries without a selected cluster (`gateway_beyond`): namespace lists of
  several clusters are pooled into one matcher.
* Deleting a commenter (`support_delete`): `ON DELETE SET NULL` and `CHECK
  one_author` contradict each other, and the DELETE fails for a user who ever
  commented, whosever the ticket.
* Resolved variables (`dashboard_saved`): the values that resolution wrote into
  the dashboard on display are stored with the user's next change of anything.

Seen while reading, without a run.

Services:
* `created_at` of comments is the begin of their transaction, so of two
  concurrent comments the one that appears later may sort first.
* `uptime` queries pass through the gateway's cluster matcher although probe
  samples carry no cluster label.
* A user with full access to a cluster and a list on it, as overlapping saves
  leave, is offered that cluster twice by `/clusters`: DISTINCT takes
  `full_access` into account.
* `validRole` refuses `developer`, which the form and migration 0004 offer.
* `markProbed` records the tick's now, not the time of the GET
  (`prober.go:97`): behind a hanging neighbour a check is asked twice within its
  interval, which `prober.go:25-28` says is enforced.
* The suffixes of slugs skip every other number: `attempt` is counted twice.
* E-mail addresses are unique per tenant only, and login takes the first row
  with the address: a signup repeated after a lost answer leaves an account
  that may not be the one logged into.

Console:
* The previous user's access stays on display, and can be saved, under the next
  user's name while that one's is loading. "Saved." stays after edits and after
  a change of user. A namespace list that failed is never asked for again. A
  namespace dragged from another cluster's box becomes an invisible entry that
  makes every later save fail.
* A Select whose value is not among its options shows its first option while
  the filter still applies. Clearing the advanced query while it is loading
  leaves the loading flag set. An empty or failed list keeps old metric names.
* `useAlerts.ts:15-18` says views "can never disagree"; each fetches for itself.
  The round trip of the PromQL builder fails for p95. The health dot of a
  cluster does not age by itself, as nothing renders again. Failures of built-in
  dashboards are cached until the page is reloaded.
* `nextPanelId` starts anew with each page load, so that an added panel can
  replace one saved earlier under the same id.
* A stored choice that is not among the file's options is reset when the
  dashboard is opened again, before its first pass ends. A failed label query
  resets the choice to the file's option, and queries that fail now and then can
  keep passes going; `VariablesSettle` is checked without such failures.
* After a failed logout the tab shows the login page with the cookie kept. A
  login form pushed to the app after another tab signed out comes back disabled
  (the exception of `FormsRecover`).

## 5. Proofs

Each invariant and each action property of the passing runs is a theorem of its
specification, for any constants that satisfy the assumption of its module; so
is the refinement of `GrantTable`. The properties are seldom inductive. Each
proof module says what has to be added, as a conjunction of named parts, and
has one lemma per action, with one step per part that the action can disturb;
`Inductive` combines them. TLC checked every strengthening on the small instance
before it was proved.

**Access grants** (`AccessGrantsProofs`). A commit installs rows that were
checked steps ago, against tables that have changed since, so `GrantIntegrity`
needs what holds through a transaction. `IInv`:

* `LiveOwned`: a row that exists has an owner, a namespace that exists has a
  live cluster, and cascades take namespaces with their cluster.
* `Verified`: every entry before `idx` (and, once past verification, every
  entry) names a cluster of the request's tenant and a namespace of that
  cluster, whether or not they still exist. Owners never change, so nothing
  another request does invalidates it.
* `CascadeOwned`: a delete that holds its row checked the tenant.
* `PendingSound`: a row inserted and not yet committed refers to rows that
  exist. Deletes cannot take a parent from under it because `DeleteLock` waits
  for inserters and inserters wait for a delete that holds the row.

`SInv` adds what a transaction has done so far (`SnapshotSound`, `ClearSound`,
`InsertSound`) and what its locks keep from others (`KeysFree`, `CascadeHeld`).
From both follow `NoDuplicates`, `SavesAtomic`, `GrantsConfined`,
`SavesReplace`, and `SavesImplementTable`: a commit is one `Replace`, a delete
one `Remove`, creations are themselves, and everything else is a stutter.

**query-gateway** (`QueryGatewayProofs`). `GrantsSound` is proved of the steps
of `GrantTable`, which is what `SavesImplementTable` lets a reader assume.
`PickerSound` rests on it: the two queries agree because grants are sound.
`MapsStandForRows` ties the map that `loadAccess` builds to the rows it was
built from, and `MapsWellFormed` says that no entry stands for nothing, which
would be a query without a namespace matcher. `DeletedUsersRefused` is an action
property; the others are invariants.

**Prober** (`ProberProofs`). That no check waits longer than `OverdueBound` is
arithmetic over the loop. `InBudget`: what a tick still has to do costs no more
than two calls for each check left, so `TickBound` holds. `TickerKeepsUp`: a
tick that takes long finds the next one in the channel. `WaitsIdle` and
`WaitsTicking` bound the wait of a check by where the loop stands: its turn to
come, its turn taken, or due only since the tick began. The sum is the bound
that TLC found to be tight.

**Support** (`SupportProofs`). `ScopeChecked`: what the check before the
transaction found stays so, because a ticket's creator and a user's tenant
never change. `ParentsHeld`: from the insert on, the foreign keys hold ticket
and author. `CommentsBump` and `PatchesConfined` are action properties.

**Sessions** (`SessionsProofs`). `TokensHaveAccounts`: a token exists only once
its account is committed, although the session is made after the commit; the
account may be deleted later.
`SlugHeld`: a row inserted and not committed keeps its slug from others.
`RequestsMatch`: which form waits for which request.

**Console** (`PagesProofs`, `DashboardsProofs`, `ConsoleProofs`). A page that
keeps a copy of a table is right because somebody will tell it: `PInv` and
`TInv` say that the last GET, or once it is answered the page itself, has what
the service holds, unless something has changed since a GET was served, which
either a request of the page's own will still tell (`OwnWriteDone`, `ToBeTold`)
or nobody (`tableMoved`, `ticketMoved`): `LastReadIsTrue`, `LastGetIsTrue`; and
which control waits for which request (`FormWaits`, `ControlsMatch`). `EInv`
says whom the editor's requests are for, that the one PUT it waits for carries
what is on display until the next edit (`PutIsShown`), and what that PUT knows
of the table in each stage, unless its person is `strayed`: from its begin its
DELETE sees everything stored, and once done its map is what is stored
(`PutTellsHeld`). `LInv`: what a live view has not cancelled was asked for the inputs of
now (`AskedIsCurrent`). `DInv`: what a pass has resolved so far is effective
among the options that the values before it give (`ResolvedSoFar`), passes and
requests are for the inputs of now, and who waits for the datasource's status is
told. `CInv` is their conjunction, which is inductive because only the screen
of the URL moves; the ten properties of the run `console` follow from it.

The assumptions on constants are those of the modules, which TLC evaluates for
the values of each run: markers such as `NoTenant` or `NoRow` are none of the values they
mark the absence of; ids of different tables are disjoint (random UUIDs);
payloads, label values and lists are sequences; the prober has finitely many
checks and a longest interval; namespaces and clusters an editor shows are
finitely many; a ticket's fields have a default; a page is visited at least
once. Bounds such as `Visits` or `Comments` are constants too: the theorems
hold for each of their values.

The editor's `AccessOf` is a fold over the rows of an answer. That it exists
and what it shows (`FoldExists`, `FoldShows`) is an induction on the number of
rows. The library's induction rule takes a predicate as parameter, which the
installed provers cannot instantiate; `LeastNumber` and `InductionOnNat` state
it for a set of numbers instead, from the well-foundedness of `<`.

Only model-checked:

* Liveness, which is beyond the prover under fairness: `RequestsFinish`,
  `FormsRecover`, `LoadingEnds`, `VariablesSettle`.
* The four violations of section 4, which are counterexamples.

## 6. Not modelled

* `internal/db` and `cmd/seed`: migrations run at the start of a service or by
  hand, the seed by hand; two at once, or one that dies, leave what the next run
  repeats or refuses. No other component reads their state.
* `ingest-gateway`: a token check and a proxy. Its inserts into `namespaces` are
  `ReportNamespaces` of `AccessGrants`, one by one; `last_seen_at` is only shown.
* `platform-admin-service` beyond login: listings by single reads, and one
  upsert at start.
* Landing page, infrastructure cost and the cost clients, trace explorer,
  visualizations, layout, formatting, log queries and the parsing of Grafana
  files: rendering, pure functions and single reads without state of their own.
  `InfraCost` fetches once without cancelling, the pattern of `ListPages`.
* Helm and compose files, and the stores themselves.

## 7. Plan

1. Done: the modules above.
2. Done: theorems for the safety properties of all passing runs.
3. Left: a refinement that joins the browser to the service, the steps of a PUT
   in `AccessEditor` as steps of a request of `AccessGrants`; a ranking argument for
   `RequestsFinish` in place of the small instance (each request makes finitely
   many steps, each abort ends one), as action properties a proof can reach.
