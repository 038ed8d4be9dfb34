----------------------------- MODULE ListPages -----------------------------
(***************************************************************************)
(* The list pages of the console: uptime checks, users, clusters (the      *)
(* administration's and everybody's), and, for staff, tickets and tenants. *)
(*                                                                         *)
(* Each page keeps its own copy of one table.  load() shows a spinner and  *)
(* sends a GET that nothing cancels; the create form and the delete button *)
(* send one request and load again once it is answered.  Requests reach    *)
(* the server, and answers reach the page, in any order or not at all.     *)
(* Other people write the same table, and nothing tells the page.          *)
(* The tab stays on one page and leaves it only to come back (Remount):    *)
(* pages share no state.                                                   *)
(***************************************************************************)
EXTENDS Naturals, Sequences, FiniteSets, SequencesExt

CONSTANTS
    Row,            \* ids of the table's rows
    NoRow,          \* null
    InFlight,       \* bound: requests that await an answer when a user acts
    Visits          \* bound: how often the user opens the page

ASSUME ListAssumption ==
    /\ NoRow \notin Row
    /\ InFlight \in Nat /\ Visits \in Nat \ {0}

VARIABLES
    listPage,       \* the page shown
    rows,           \* the table
    gone,           \* rows deleted from it; ids are never used again
    closed,         \* tickets that the filter "open" does not let through
    list,           \* the page's copy: state of useState<ListState>
    reads,          \* its GETs in the order they were sent
    writes,         \* POSTs and DELETEs in flight
    filter,         \* statusFilter of the ticket list
    creating, formError, showForm, deleting,
    created,        \* the banner with a new cluster's agent token
    tableMoved,     \* history: since the last GET was served the table has
                    \* changed, or may have, and nobody will tell the page
    visits

table == <<rows, gone, closed>>
form == <<creating, formError, showForm>>
listVars == <<listPage, rows, gone, closed, list, reads, writes, filter, creating,
              formError, showForm, deleting, created, tableMoved, visits>>

-----------------------------------------------------------------------------
Uptime == "uptime"
Users == "users"
AdminClusters == "admin/clusters"
Clusters == "clusters"
Tickets == "tickets"
Tenants == "tenants"
Tenant == "tenant"
Page == {Uptime, Users, AdminClusters, Clusters, Tickets, Tenants, Tenant}

Filter == {"all", "open"}

\* What a GET with ?status=f, or without, finds in the table.
Matching(f) == IF f = "open" THEN rows \ closed ELSE rows

Loading == [status |-> "loading", rows |-> {}, overtaken |-> FALSE]
Read(f) == [filter |-> f, answer |-> "none", rows |-> {}, late |-> FALSE]

Shown == IF list.status = "loaded" THEN list.rows ELSE {}

\* What a page lets its user do: submit the form (its button is disabled while
\* a create is in flight), delete rows (each loaded row has a button, disabled
\* while it is the one last clicked), dismiss the banner with a token.
Offer(submit, delete, token) == [submit |-> submit, delete |-> delete, token |-> token]

UptimeView == Offer(~creating, Shown \ {deleting}, NoRow)
UsersView == Offer(~creating, {}, NoRow)
AdminClustersView == Offer(~creating, {}, created)
ClustersView == Offer(showForm /\ ~creating, Shown \ {deleting}, created)
TicketsView == Offer(FALSE, {}, NoRow)
TenantsView == Offer(FALSE, {}, NoRow)
TenantView == Offer(FALSE, {}, NoRow)

Offered ==
    CASE listPage = Uptime -> UptimeView
      [] listPage = Users -> UsersView
      [] listPage = AdminClusters -> AdminClustersView
      [] listPage = Clusters -> ClustersView
      [] listPage = Tickets -> TicketsView
      [] listPage = Tenants -> TenantsView
      [] listPage = Tenant -> TenantView

Busy == Len(reads) + Cardinality(writes) >= InFlight

-----------------------------------------------------------------------------
\* Mount: useState's initial values, and useEffect(load, []).
Fresh(page) ==
    /\ list = Loading /\ filter = "all" /\ reads = <<Read("all")>>
    /\ creating = FALSE /\ formError = "none" /\ deleting = NoRow
    /\ showForm = (page # Clusters)
    /\ created = NoRow

ListInit ==
    /\ listPage \in Page
    /\ rows \in SUBSET Row /\ gone = {}
    /\ closed \in SUBSET (IF listPage = Tickets THEN rows ELSE {})
    /\ writes = {} /\ tableMoved = FALSE /\ visits = 1
    /\ Fresh(listPage)

\* load(): the spinner, and one more GET.  Older GETs go on.
Load(f) ==
    /\ list' = Loading
    /\ reads' = Append(reads, Read(f))

\* The user leaves the page and comes back: the answers still on their way
\* reach an unmounted component; what they report is not seen.
Remount ==
    /\ visits < Visits /\ visits' = visits + 1
    /\ ~Busy
    /\ list' = Loading /\ filter' = "all" /\ reads' = <<Read("all")>>
    /\ creating' = FALSE /\ formError' = "none" /\ deleting' = NoRow
    /\ showForm' = (listPage # Clusters)
    /\ created' = NoRow
    /\ writes' = {[w EXCEPT !.mine = FALSE] : w \in writes}
    /\ UNCHANGED <<listPage, table, tableMoved>>

\* The ticket list's effect on [statusFilter].
ChooseFilter ==
    /\ listPage = Tickets /\ ~Busy
    /\ \E f \in Filter \ {filter} : filter' = f /\ Load(f)
    /\ UNCHANGED <<listPage, visits, table, writes, form, deleting, created, tableMoved>>

\* A GET is answered by the service with what the table holds at that moment;
\* it may also fail there, in the proxy, or on the way ("error").
ServeRead ==
    /\ \E i \in DOMAIN reads :
         /\ reads[i].answer = "none"
         /\ \/ /\ reads' = [reads EXCEPT ![i].answer = "ok", ![i].rows = Matching(reads[i].filter)]
               /\ tableMoved' = (tableMoved /\ i # Len(reads))
            \/ reads' = [reads EXCEPT ![i].answer = "error"] /\ UNCHANGED tableMoved
    /\ UNCHANGED <<listPage, visits, table, list, writes, filter, form, deleting, created>>

\* Mutant: ReadAnswered without the .catch of load().
ReadAnsweredNoCatch ==
    /\ \E i \in DOMAIN reads :
         /\ reads[i].answer # "none"
         /\ list' = IF reads[i].answer = "ok"
                    THEN [status |-> "loaded", rows |-> reads[i].rows, overtaken |-> reads[i].late]
                    ELSE list
         /\ reads' = RemoveAt([j \in DOMAIN reads |->
                        IF j < i THEN [reads[j] EXCEPT !.late = TRUE] ELSE reads[j]], i)
    /\ UNCHANGED <<listPage, visits, table, writes, filter, form, deleting, created, tableMoved>>

\* The answer of a GET replaces the list, even when a GET sent later has been
\* answered before (late).
ReadAnswered ==
    /\ \E i \in DOMAIN reads :
         /\ reads[i].answer # "none"
         /\ list' = [status |-> IF reads[i].answer = "ok" THEN "loaded" ELSE "error",
                     rows |-> reads[i].rows, overtaken |-> reads[i].late]
         /\ reads' = RemoveAt([j \in DOMAIN reads |->
                        IF j < i THEN [reads[j] EXCEPT !.late = TRUE] ELSE reads[j]], i)
    /\ UNCHANGED <<listPage, visits, table, writes, filter, form, deleting, created, tableMoved>>

-----------------------------------------------------------------------------
Write(op, r) == [op |-> op, row |-> r, stage |-> "sent", mine |-> TRUE]

\* handleCreate up to its await.  Requests name rows by the id they will get.
SubmitForm ==
    /\ Offered.submit /\ ~Busy
    /\ \E r \in Row \ (rows \cup gone \cup {w.row : w \in writes}) :
         writes' = writes \cup {Write("create", r)}
    /\ creating' = TRUE /\ formError' = "none"
    /\ UNCHANGED <<listPage, visits, table, list, reads, filter, showForm, deleting, created, tableMoved>>

\* handleDelete up to its await.
ClickDelete ==
    /\ ~Busy
    /\ \E r \in Offered.delete :
         /\ deleting' = r
         /\ writes' = writes \cup {Write("delete", r)}
    /\ UNCHANGED <<listPage, visits, table, list, reads, filter, form, created, tableMoved>>

\* "Connect new cluster" opens the form, "Cancel" closes it, also while its
\* request is in flight.
ToggleForm ==
    /\ listPage = Clusters
    /\ showForm' = ~showForm
    /\ UNCHANGED <<listPage, visits, table, list, reads, writes, filter, creating,
                   formError, deleting, created, tableMoved>>

\* The service commits the request, or refuses it (a taken name, a row that
\* is gone, a caller who is not an administrator).
ServeWrite ==
    /\ \E w \in writes :
         /\ w.stage = "sent"
         /\ \/ /\ \/ w.op = "create" /\ rows' = rows \cup {w.row} /\ UNCHANGED gone
                  \/ /\ w.op = "delete" /\ w.row \in rows
                     /\ rows' = rows \ {w.row} /\ gone' = gone \cup {w.row}
               /\ writes' = (writes \ {w}) \cup {[w EXCEPT !.stage = "done"]}
               /\ tableMoved' = (tableMoved \/ ~w.mine)
            \/ /\ writes' = (writes \ {w}) \cup {[w EXCEPT !.stage = "refused"]}
               /\ UNCHANGED <<rows, gone, tableMoved>>
    /\ UNCHANGED <<listPage, visits, closed, list, reads, filter, form, deleting, created>>

\* Other people of the tenant and staff add rows and delete them (no handler
\* deletes a tenant), and staff close and reopen tickets.
OthersWrite ==
    /\ \/ /\ \E r \in Row \ (rows \cup gone \cup {w.row : w \in writes}) : rows' = rows \cup {r}
          /\ UNCHANGED <<gone, closed>>
       \/ /\ listPage # Tenants
          /\ \E r \in rows : rows' = rows \ {r} /\ gone' = gone \cup {r}
          /\ UNCHANGED closed
       \/ /\ listPage = Tickets
          /\ \E r \in rows : closed' = IF r \in closed THEN closed \ {r} ELSE closed \cup {r}
          /\ UNCHANGED <<rows, gone>>
    /\ tableMoved' = TRUE
    /\ UNCHANGED <<listPage, visits, list, reads, writes, filter, form, deleting, created>>

\* handleCreate after its await: an error stays in the form; a success loads
\* the list again; either way the form is released.
AnswerCreate(page, showsToken, closesForm) ==
    /\ listPage = page
    /\ \E w \in writes :
         /\ w.op = "create" /\ w.mine /\ w.stage # "sent"
         /\ writes' = writes \ {w}
         /\ \/ /\ w.stage = "refused"
               /\ formError' = "refused"
               /\ UNCHANGED <<list, reads, showForm, created>>
            \/ /\ w.stage = "done"
               /\ created' = IF showsToken THEN w.row ELSE created
               /\ showForm' = (showForm /\ ~closesForm)
               /\ Load(filter)
               /\ UNCHANGED formError
    /\ creating' = FALSE
    /\ UNCHANGED <<listPage, visits, table, filter, deleting, tableMoved>>

UptimeCreated == AnswerCreate(Uptime, FALSE, FALSE)
UserCreated == AnswerCreate(Users, FALSE, FALSE)
AdminClusterCreated == AnswerCreate(AdminClusters, TRUE, FALSE)
ClusterCreated == AnswerCreate(Clusters, TRUE, TRUE)

\* handleDelete after its await: whatever the status, the list is loaded.
DeleteAnswered ==
    /\ \E w \in writes :
         /\ w.op = "delete" /\ w.mine /\ w.stage # "sent"
         /\ writes' = writes \ {w}
    /\ deleting' = NoRow
    /\ Load(filter)
    /\ UNCHANGED <<listPage, visits, table, filter, form, created, tableMoved>>

\* The connection breaks or the proxy answers 502.  The service may have
\* committed the request, may still do so, or may never see it.
Lose(w) ==
    /\ \/ writes' = writes \ {w}
       \/ w.stage = "sent" /\ writes' = (writes \ {w}) \cup {[w EXCEPT !.mine = FALSE]}
    /\ tableMoved' = (tableMoved \/ w.stage = "done")

\* The form says that the server could not be reached, and loads nothing.
CreateLost ==
    /\ \E w \in writes : w.op = "create" /\ w.mine /\ Lose(w)
    /\ creating' = FALSE /\ formError' = "unreachable"
    /\ UNCHANGED <<listPage, visits, table, list, reads, filter, deleting, showForm, created>>

\* The exception of handleDelete goes nowhere: only the button is released.
DeleteLost ==
    /\ \E w \in writes : w.op = "delete" /\ w.mine /\ Lose(w)
    /\ deleting' = NoRow
    /\ UNCHANGED <<listPage, visits, table, list, reads, filter, form, created>>

\* The answer to a page that is gone.
WriteDropped ==
    /\ \E w \in writes : ~w.mine /\ w.stage # "sent" /\ writes' = writes \ {w}
    /\ UNCHANGED <<listPage, visits, table, list, reads, filter, form, deleting, created, tableMoved>>

-----------------------------------------------------------------------------
\* The banner, which says that the token will not be shown again, is closed.
Dismiss ==
    /\ Offered.token # NoRow /\ created' = NoRow
    /\ UNCHANGED <<listPage, visits, table, list, reads, writes, filter, form, deleting, tableMoved>>

CreateEnds ==
    \/ UptimeCreated \/ UserCreated \/ AdminClusterCreated \/ ClusterCreated
    \/ CreateLost
DeleteEnds == DeleteAnswered \/ DeleteLost
ListNext ==
    \/ ServeRead \/ ReadAnswered \/ ServeWrite \/ CreateEnds \/ DeleteEnds \/ WriteDropped
    \/ OthersWrite \/ Remount \/ ChooseFilter \/ SubmitForm \/ ClickDelete \/ ToggleForm
    \/ Dismiss

\* Each kind of request is answered or fails in the end; users owe nothing.
ListFairness ==
    /\ WF_listVars(ServeRead) /\ WF_listVars(ReadAnswered)
    /\ WF_listVars(CreateEnds) /\ WF_listVars(DeleteEnds)
ListSpec == ListInit /\ [][ListNext]_listVars /\ ListFairness

-----------------------------------------------------------------------------
ListTypeOK ==
    /\ listPage \in Page /\ rows \subseteq Row /\ gone \subseteq Row /\ closed \subseteq Row
    /\ tableMoved \in BOOLEAN
    /\ list \in [status : {"loading", "loaded", "error"}, rows : SUBSET Row, overtaken : BOOLEAN]
    /\ list.status = "loading" => reads # <<>>
    /\ \A i \in DOMAIN reads :
         reads[i] \in [filter : Filter, answer : {"none", "ok", "error"},
                       rows : SUBSET Row, late : BOOLEAN]
    /\ writes \subseteq [op : {"create", "delete"}, row : Row,
                         stage : {"sent", "done", "refused"}, mine : BOOLEAN]
    /\ filter \in Filter
    /\ creating \in BOOLEAN /\ showForm \in BOOLEAN
    /\ formError \in {"none", "refused", "unreachable"}
    /\ {deleting, created} \subseteq Row \cup {NoRow}
    /\ visits \in 1..Visits

Awaited(op) == {w.row : w \in {v \in writes : v.op = op /\ v.mine}}

\* A button that is disabled with a spinner stands for a request that is
\* really on its way: the form for exactly one create of this visit, a delete
\* button for the delete of its own row.  Neither stays disabled after a lost
\* answer (setCreating and setDeletingId in the finally blocks).
BusyButtonsAreBusy ==
    /\ creating <=> Awaited("create") # {}
    /\ Cardinality(Awaited("create")) <= 1
    /\ deleting # NoRow => deleting \in Awaited("delete")

\* Once the page waits for nothing, a loaded list is exactly what the table
\* holds for the filter chosen, whatever mixture of its own GETs, POSTs and
\* DELETEs led there.  Two things excuse it: a GET that was overtaken by a
\* later one, and a change after the last GET was served that nobody tells the
\* page of, by other people or by a request that it has given up.
SettledPageIsTrue ==
    (reads = <<>> /\ (\A w \in writes : ~w.mine) /\ list.status = "loaded"
       /\ ~list.overtaken /\ ~tableMoved)
        => list.rows = Matching(filter)
=============================================================================
