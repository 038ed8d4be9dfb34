----------------------------- MODULE Dashboards -----------------------------
(***************************************************************************)
(* The dashboards of one browser tab: the list, a dashboard with a chain   *)
(* of template variables, one of its panels, and localStorage, which other *)
(* tabs share.  A variable's options come from label queries sent one      *)
(* after the other, each scoped by the values picked before it (a pass);   *)
(* what a pass resolves is written back to the dashboard on display.  The  *)
(* data of the panel are modelled by the inputs they were asked for.       *)
(* An edit of a panel's title or query is a save that keeps the panel's    *)
(* id, and no page is left while the built-in dashboards are loading.      *)
(***************************************************************************)
EXTENDS Naturals, Sequences, FiniteSets

CONSTANTS
    Builtin,        \* ids of the dashboards served as static files
    Own,            \* ids "dash-<time>" and "imported-<time>"
    Labels,         \* per cluster: values of a variable, by those before it
    IncludeAll,     \* the variables with includeAll
    Flaky,          \* the variables whose label query may fail
    Edits           \* bound: steps of users

AllValue == "All"
Vars == 1..2
DashCluster == DOMAIN Labels
Board == Builtin \cup Own

ASSUME DashAssumption ==
    /\ Builtin \cap Own = {}
    /\ DashCluster # {}
    /\ \A c \in DashCluster : \A before \in DOMAIN Labels[c] :      \* JSON arrays
         Labels[c][before] \in Seq({Labels[c][before][k] : k \in DOMAIN Labels[c][before]})
    /\ IncludeAll \subseteq Vars
    /\ Flaky \subseteq Vars
    /\ Edits \in Nat

VARIABLES
    stored,         \* localStorage "observex.dashboards.v1"
    cached,         \* builtinCache: those fetched
    counter,        \* panelIdCounter, new with each page load
    place,          \* the list, or the dashboard opened
    dash,           \* the cards listed, or the dashboard on display
    dashIn,         \* dsStatus, time range and cluster of the dashboard
    offered,        \* resolvedOptions and resolvedCurrents
    passes,         \* the pass of resolveAll, unless cancelled
    graph,          \* the panel with id 0: its dsStatus and fetchState
    panelAsked,     \* its requests in flight
    statusCache, statusAsked,
    inEditor,       \* the panel in the editor, by id
    edits

dashVars == <<stored, cached, counter, place, dash, dashIn, offered, passes, graph,
              panelAsked, statusCache, statusAsked, inEditor, edits>>

NotRead == {"not read"}
NoBoard == [none |-> "not stored"]
Loading_ == [none |-> "loading"]
NotFound == [none |-> "not found"]
NoEditor == {}
List == "list"

-----------------------------------------------------------------------------
\* A dashboard as its file has it: no value chosen, one panel.
Static == <<AllValue>>
FromFile == [vars |-> [i \in Vars |-> [current |-> AllValue, by |-> "file"]], panels |-> {0}]
EmptyDashboard == [vars |-> <<>>, panels |-> {}]

Currents(d) == [i \in DOMAIN d.vars |-> d.vars[i].current]
Has(s, x) == \E k \in DOMAIN s : s[k] = x

\* What the datasource answers for variable i after the values before it: a
\* failed request counts as no values, and then the file's options stand.
LabelAnswers(c, before) ==
    LET i == Len(before) + 1
        values == IF before \in DOMAIN Labels[c] THEN Labels[c][before] ELSE <<>>
    IN  {IF i \in IncludeAll THEN <<AllValue>> \o values ELSE values}
        \cup {v \in {<<>>} : i \in Flaky}
LabelOptions(values) == IF values # <<>> THEN values ELSE Static
Effective(current, options) == IF Has(options, current) THEN current ELSE options[1]

NotOffered == [options |-> [i \in Vars |-> Static], currents |-> [i \in Vars |-> AllValue]]

\* The variables of useResolvedVariables, written back to the dashboard.
ResolvedCurrent(d, off, i) ==
    IF Has(off.options[i], d.vars[i].current) THEN d.vars[i].current ELSE off.currents[i]
WrittenBack(d, off, in) ==
    IF in.ds # "configured" THEN d
    ELSE [d EXCEPT !.vars = [i \in DOMAIN d.vars |->
             IF ResolvedCurrent(d, off, i) = d.vars[i].current THEN d.vars[i]
             ELSE [current |-> ResolvedCurrent(d, off, i), by |-> "runtime"]]]

\* The dependencies of the two effects.
PassKey(d, in) == <<in.ds = "configured", Currents(d), in.cluster>>
PanelKey(d, in) == <<Currents(d), in.range, in.cluster>>

NewPass(d, in) == [vars |-> Currents(d), cluster |-> in.cluster, cascade |-> <<>>,
                   options |-> <<>>]
Cancel(S) == {[r EXCEPT !.cancelled = TRUE] : r \in S}

\* Mutant: Render whose pass depends on the array of variables, which is a
\* new one each time.
RenderByIdentity(d, in, off, running, p, sent) ==
    /\ dash' = WrittenBack(d, off, in) /\ dashIn' = in /\ offered' = off
    /\ passes' = {NewPass(dash', in)}
    /\ graph' = p /\ panelAsked' = sent

\* Render the dashboard d with inputs in, options off and panel p: write the
\* resolved values back, then run the effects whose dependencies changed.
Render(d, in, off, running, p, sent) ==
    LET new == WrittenBack(d, off, in)
        resolves == PassKey(new, in) # PassKey(dash, dashIn)
        fetches == <<p.ds, PanelKey(new, in)>> # <<graph.ds, PanelKey(dash, dashIn)>>
        asks == fetches /\ p.ds = "configured"
    IN  /\ dash' = new /\ dashIn' = in /\ offered' = off
        /\ passes' = (IF resolves THEN {} ELSE running)
                     \cup {q \in {NewPass(new, in)} : resolves /\ in.ds = "configured"}
        /\ panelAsked' = (IF fetches THEN Cancel(sent) ELSE sent)
                         \cup {q \in {[key |-> PanelKey(new, in), cancelled |-> FALSE]} : asks}
        /\ graph' = IF asks THEN [p EXCEPT !.fetch = "loading"]
                    ELSE IF fetches THEN [p EXCEPT !.fetch = "idle"] ELSE p

-----------------------------------------------------------------------------
\* Mutant: getDatasourceStatus that keeps no promise of a request in flight.
GetDatasourceStatusEach(consumers) ==
    IF statusCache # "none" THEN statusAsked' = statusAsked ELSE statusAsked' = statusAsked + consumers

\* getDatasourceStatus, for consumers that mount together: a fresh value, the
\* request in flight, or a new request.
GetDatasourceStatus(consumers) ==
    IF statusCache # "none" \/ statusAsked > 0 THEN statusAsked' = statusAsked
    ELSE statusAsked' = statusAsked + 1
Promised == IF statusCache # "none" THEN "cached" ELSE "waiting"

NoPanel == [ds |-> "unmounted", fetch |-> "idle", key |-> <<>>]
MountedPanel(d) == IF 0 \in d.panels THEN [NoPanel EXCEPT !.ds = Promised] ELSE NoPanel
Idle == [ds |-> "unmounted", range |-> "default", cluster |-> AllValue]
OnBoard == "panels" \in DOMAIN dash

ListDashboards(builtins) == [cards |-> {b \in Board : b \in builtins \/ stored[b] # NoBoard}]
GetDashboard(b, builtins) ==
    IF stored[b] # NoBoard THEN stored[b]
    ELSE IF b \in builtins THEN FromFile ELSE NotFound

\* SaveDashboard reads the map, sets one dashboard and writes the map back.
SaveDashboard(b, d) == stored' = [stored EXCEPT ![b] = d]
DeleteDashboard(b) == stored' = [stored EXCEPT ![b] = NoBoard]

DashInit ==
    /\ \E S \in SUBSET Own : stored = [b \in Board |-> IF b \in S THEN FromFile ELSE NoBoard]
    /\ cached = NotRead /\ counter = 0
    /\ place \in Board \cup {List} /\ dash = Loading_
    /\ dashIn \in {[Idle EXCEPT !.cluster = c] : c \in DashCluster} /\ offered = NotOffered
    /\ passes = {} /\ graph = NoPanel /\ panelAsked = {}
    /\ statusCache = "none" /\ statusAsked = 0
    /\ inEditor = NoEditor /\ edits = 0

UserActs == edits < Edits /\ edits' = edits + 1

\* Go to another page: the dashboard unmounts and its answers are dropped.
GoTo(p) ==
    /\ place' = p /\ dash' = Loading_
    /\ dashIn' = [Idle EXCEPT !.cluster = dashIn.cluster] /\ offered' = NotOffered
    /\ passes' = {} /\ graph' = NoPanel /\ panelAsked' = {} /\ inEditor' = NoEditor

OpenBoard(b) ==
    /\ UserActs /\ dash # Loading_ /\ inEditor = NoEditor
    /\ (place = List /\ b \in dash.cards) \/ (place # List /\ b = List)
    /\ GoTo(b)
    /\ UNCHANGED <<stored, cached, counter, statusCache, statusAsked>>

\* The built-in dashboards are there: those fetched now, or the cache.
Loaded ==
    /\ dash = Loading_
    /\ cached' \in IF cached = NotRead THEN SUBSET Builtin ELSE {cached}
    /\ IF place = List
       THEN /\ dash' = ListDashboards(cached')
            /\ UNCHANGED <<dashIn, graph, statusAsked>>
       ELSE LET d == GetDashboard(place, cached') IN
            /\ dash' = d
            /\ IF d = NotFound THEN UNCHANGED <<dashIn, graph, statusAsked>>
               ELSE /\ dashIn' = [dashIn EXCEPT !.ds = Promised]
                    /\ graph' = MountedPanel(d)
                    /\ GetDatasourceStatus(IF 0 \in d.panels THEN 2 ELSE 1)
    /\ UNCHANGED <<stored, counter, place, offered, passes, panelAsked, statusCache, inEditor,
                   edits>>

\* New Dashboard and Import: stored first, then opened.
CreateBoard ==
    /\ UserActs /\ dash # Loading_ /\ inEditor = NoEditor
    /\ \E b \in Own :
         /\ stored[b] = NoBoard
         /\ \/ place = List /\ SaveDashboard(b, EmptyDashboard)
            \/ SaveDashboard(b, FromFile)
         /\ GoTo(b)
    /\ UNCHANGED <<cached, counter, statusCache, statusAsked>>

\* Built-in dashboards have no delete button.
DeleteCard ==
    /\ UserActs /\ place = List /\ dash # Loading_
    /\ \E b \in dash.cards \ Builtin :
           DeleteDashboard(b) /\ dash' = [dash EXCEPT !.cards = @ \ {b}]
    /\ UNCHANGED <<cached, counter, place, dashIn, offered, passes, graph, panelAsked,
                   statusCache, statusAsked, inEditor>>

ReloadPage ==
    /\ UserActs /\ dash # Loading_
    /\ cached' = NotRead /\ counter' = 0 /\ statusCache' = "none" /\ statusAsked' = 0
    /\ GoTo(place) /\ UNCHANGED stored

\* Another tab saves a dashboard of its own, edits one or deletes one.
OtherTab ==
    /\ UserActs
    /\ \E b \in Board :
         \/ SaveDashboard(b, EmptyDashboard)
         \/ b \in Own /\ stored[b] # NoBoard /\ DeleteDashboard(b)
    /\ UNCHANGED <<cached, counter, place, dash, dashIn, offered, passes, graph, panelAsked,
                   statusCache, statusAsked, inEditor>>

-----------------------------------------------------------------------------
\* Mutant: Take by every consumer, mounted or not.
TakeAlways(ds, from, s) == s

\* The dashboard and its panel take the status they wait for.
Take(ds, from, s) == IF ds = from THEN s ELSE ds
GiveStatus(from, s) ==
    IF ~OnBoard THEN UNCHANGED <<dash, dashIn, offered, passes, graph, panelAsked>>
    ELSE Render(dash, [dashIn EXCEPT !.ds = Take(dashIn.ds, from, s)], offered, passes,
                [graph EXCEPT !.ds = Take(graph.ds, from, s)], panelAsked)

DashStatusAnswered ==
    /\ statusAsked > 0 /\ statusAsked' = statusAsked - 1
    /\ statusCache' \in {"configured", "not_configured"}
    /\ GiveStatus("waiting", statusCache')
    /\ UNCHANGED <<stored, cached, counter, place, inEditor, edits>>

CachedStatusTaken ==
    /\ "cached" \in {dashIn.ds, graph.ds} /\ GiveStatus("cached", statusCache)
    /\ UNCHANGED <<stored, cached, counter, place, statusCache, statusAsked, inEditor, edits>>

\* Ten seconds have passed.
StatusExpires ==
    /\ statusCache # "none" /\ "cached" \notin {dashIn.ds, graph.ds}
    /\ statusCache' = "none"
    /\ UNCHANGED <<stored, cached, counter, place, dash, dashIn, offered, passes, graph,
                   panelAsked, statusAsked, inEditor, edits>>

\* Mutant: a pass that hands on the stored value of a variable.
LabelsAnsweredStored ==
    /\ \E q \in passes : Len(q.cascade) < Len(q.vars) /\
         \E values \in LabelAnswers(q.cluster, q.cascade) :
           passes' = (passes \ {q}) \cup
             {[q EXCEPT !.cascade = Append(@, q.vars[Len(@) + 1]),
                        !.options = Append(@, LabelOptions(values))]}
    /\ UNCHANGED <<stored, cached, counter, place, dash, dashIn, offered, graph, panelAsked,
                   statusCache, statusAsked, inEditor, edits>>

\* The options of the next variable of a pass: its value, or the first option
\* if it is not one, scopes the variables after it.
LabelsAnswered ==
    /\ \E q \in passes : Len(q.cascade) < Len(q.vars) /\
         \E values \in LabelAnswers(q.cluster, q.cascade) :
           LET options == LabelOptions(values) IN
           passes' = (passes \ {q}) \cup
             {[q EXCEPT !.cascade = Append(@, Effective(q.vars[Len(@) + 1], options)),
                        !.options = Append(@, options)]}
    /\ UNCHANGED <<stored, cached, counter, place, dash, dashIn, offered, graph, panelAsked,
                   statusCache, statusAsked, inEditor, edits>>

\* Mutant: a pass whose result is saved with the dashboard.
PassEndsSaves ==
    /\ \E q \in passes : Len(q.cascade) = Len(q.vars) /\
         /\ Render(dash, dashIn, [options |-> q.options, currents |-> q.cascade],
                   passes \ {q}, graph, panelAsked)
         /\ SaveDashboard(place, dash')
    /\ UNCHANGED <<cached, counter, place, statusCache, statusAsked, inEditor, edits>>

\* The last variable is resolved: the pass is published.
PassEnds ==
    /\ \E q \in passes : Len(q.cascade) = Len(q.vars) /\
         Render(dash, dashIn, [options |-> q.options, currents |-> q.cascade],
                passes \ {q}, graph, panelAsked)
    /\ UNCHANGED <<stored, cached, counter, place, statusCache, statusAsked, inEditor, edits>>

\* The targets' answers are in: some of them data, or all of them errors.
PanelAnswered ==
    /\ \E r \in panelAsked :
         /\ panelAsked' = panelAsked \ {r}
         /\ graph' \in IF r.cancelled THEN {graph}
                       ELSE {[graph EXCEPT !.fetch = "loaded", !.key = r.key],
                             [graph EXCEPT !.fetch = "errored"]}
    /\ UNCHANGED <<stored, cached, counter, place, dash, dashIn, offered, passes,
                   statusCache, statusAsked, inEditor, edits>>

-----------------------------------------------------------------------------
\* The user changes inputs of the dashboard, or the dashboard.
Change(d, in) ==
    /\ UserActs /\ OnBoard /\ inEditor = NoEditor
    /\ Render(d, in, offered, passes, IF 0 \in d.panels THEN graph ELSE NoPanel, panelAsked)
    /\ UNCHANGED <<cached, counter, place, statusCache, statusAsked, inEditor>>

\* persist: what is on display, with the change, is saved.
Persist(d) == Change(d, dashIn) /\ SaveDashboard(place, d)

ChooseVariable ==
    OnBoard /\ \E i \in DOMAIN dash.vars : \E k \in DOMAIN offered.options[i] :
        LET v == offered.options[i][k] IN
        v # dash.vars[i].current
        /\ Persist([dash EXCEPT !.vars[i] = [current |-> v, by |-> "user"]])

ChooseRange ==
    OnBoard /\ Change(dash, [dashIn EXCEPT !.range = "longer"]) /\ UNCHANGED stored

PickCluster ==
    /\ OnBoard
    /\ \E c \in DashCluster : Change(dash, [dashIn EXCEPT !.cluster = c]) /\ UNCHANGED stored

RemovePanel == OnBoard /\ \E p \in dash.panels : Persist([dash EXCEPT !.panels = @ \ {p}])

\* A copy has the time as its id.
Duplicate ==
    OnBoard /\ dash.panels # {} /\ Persist([dash EXCEPT !.panels = @ \cup {10 + edits}])

\* Save, and the end of a drag or resize, store what is on display.
HandleSave == OnBoard /\ Persist(dash)

\* Refresh mounts the panels again, which ask for the status again.
RefreshNow ==
    /\ UserActs /\ OnBoard /\ inEditor = NoEditor
    /\ graph' = MountedPanel(dash) /\ panelAsked' = Cancel(panelAsked)
    /\ IF 0 \in dash.panels THEN GetDatasourceStatus(1) ELSE UNCHANGED statusAsked
    /\ UNCHANGED <<stored, cached, counter, place, dash, dashIn, offered, passes, statusCache,
                   inEditor>>

\* The editor covers the page until its panel is saved or dismissed.
EditPanel ==
    /\ UserActs /\ OnBoard /\ inEditor = NoEditor
    /\ \/ counter' = counter + 1 /\ inEditor' = {counter'}
       \/ inEditor' \in {{p} : p \in dash.panels} /\ UNCHANGED counter
    /\ UNCHANGED <<stored, cached, place, dash, dashIn, offered, passes, graph, panelAsked,
                   statusCache, statusAsked>>

HandlePanelSave ==
    /\ inEditor # NoEditor /\ inEditor' = NoEditor
    /\ LET d == [dash EXCEPT !.panels = @ \cup inEditor] IN
       /\ Render(d, dashIn, offered, passes, graph, panelAsked)
       /\ SaveDashboard(place, d)
    /\ UNCHANGED <<cached, counter, place, statusCache, statusAsked, edits>>

EditorCancelled ==
    /\ inEditor # NoEditor /\ inEditor' = NoEditor
    /\ UNCHANGED <<stored, cached, counter, place, dash, dashIn, offered, passes, graph,
                   panelAsked, statusCache, statusAsked, edits>>

Gesture ==
    \/ CreateBoard \/ DeleteCard \/ OtherTab \/ ChooseVariable \/ RemovePanel \/ Duplicate
    \/ HandleSave \/ HandlePanelSave

DashNext ==
    \/ Gesture \/ ReloadPage \/ (\E b \in Board \cup {List} : OpenBoard(b)) \/ Loaded
    \/ DashStatusAnswered \/ CachedStatusTaken \/ StatusExpires
    \/ LabelsAnswered \/ PassEnds \/ PanelAnswered
    \/ ChooseRange \/ PickCluster \/ RefreshNow \/ EditPanel \/ EditorCancelled

\* The browser ends what it started; users owe nothing.
DashFairness ==
    /\ WF_dashVars(Loaded) /\ WF_dashVars(DashStatusAnswered) /\ WF_dashVars(CachedStatusTaken)
    /\ WF_dashVars(LabelsAnswered) /\ WF_dashVars(PassEnds) /\ WF_dashVars(PanelAnswered)

DashSpec == DashInit /\ [][DashNext]_dashVars /\ DashFairness

-----------------------------------------------------------------------------
\* What the panel shows (usePanelData's status).
PanelStatus ==
    CASE graph.ds \in {"waiting", "cached"} -> "loading"
      [] graph.ds = "configured" -> (IF graph.fetch = "loaded" THEN "live"
                                     ELSE IF graph.fetch = "errored" THEN "error" ELSE "loading")
      [] graph.ds \in {"not_configured", "unmounted"} -> graph.ds

DashTypeOK ==
    /\ \A b \in Board : stored[b] = NoBoard \/ DOMAIN stored[b].vars \subseteq Vars
    /\ cached = NotRead \/ cached \subseteq Builtin
    /\ place \in Board \cup {List}
    /\ OnBoard => \A i \in DOMAIN dash.vars : dash.vars[i].by \in {"file", "user", "runtime"}
    /\ \A q \in passes : Len(q.cascade) = Len(q.options) /\ Len(q.cascade) <= Len(q.vars)
    /\ PanelStatus \in {"loading", "live", "error", "not_configured", "unmounted"}
    /\ graph.ds = "unmounted" <=> ~(OnBoard /\ 0 \in dash.panels)
    /\ statusAsked \in Nat

\* Data on display in a panel were asked for with the variables, the time
\* range and the cluster now selected, whatever the order of the answers.
PanelIsCurrent ==
    (OnBoard /\ PanelStatus = "live") => graph.key = PanelKey(dash, dashIn)

\* Panels that mount together, or while a status request is in flight, share
\* it: there is never a second one, and none waits for a request never sent.
StatusOnItsWay ==
    /\ statusAsked <= 1
    /\ "waiting" \in {dashIn.ds, graph.ds} => statusAsked = 1

Resolving == passes # {}

\* Once variables are resolved each has one of the options offered for it,
\* and these are the cluster's for the values before it, or the file's after
\* a failed query: no mix of answers of two passes is ever left standing.
ResolvedChainHolds ==
    (OnBoard /\ dashIn.ds = "configured" /\ ~Resolving) =>
        \A i \in DOMAIN dash.vars :
            /\ Has(offered.options[i], dash.vars[i].current)
            /\ \E values \in LabelAnswers(dashIn.cluster, SubSeq(Currents(dash), 1, i - 1)) :
                 offered.options[i] = LabelOptions(values)

\* localStorage changes only with what a user does: opening a dashboard and
\* resolving its variables never write it.
OnlyGesturesWrite == [][stored' # stored => Gesture]_dashVars

\* "this is runtime resolution against the live datasource, not a change the
\* user made, so it shouldn't be saved into the stored dashboard JSON."
ResolutionNotSaved ==
    \A b \in Board : stored[b] # NoBoard =>
        \A i \in DOMAIN stored[b].vars : stored[b].vars[i].by # "runtime"
=============================================================================
