----------------------------- MODULE LiveViews -----------------------------
(***************************************************************************)
(* The views that query the gateway from the browser: the metrics and logs *)
(* explorers, the alerts (their page, Top Alerts, Recent Problems), the    *)
(* KPI strip and the status badge of an uptime check.  A view is a set of  *)
(* effects.  An effect runs again when one of its inputs changes: it       *)
(* cancels its last request, so that its answer is dropped, and sends one  *)
(* for the new inputs.  An answer shows what it was asked for, so data are *)
(* modelled by the inputs they belong to (their key).  The cluster chosen  *)
(* in the top bar is an input of all views but the badge.                  *)
(***************************************************************************)
EXTENDS Naturals, Sequences

CONSTANTS
    Cl,             \* clusters, by name
    MetricsOn,      \* the metric names of each cluster and of All
    Changes         \* bound: inputs changed by the user

All == "all"
Up == "up"

ASSUME LiveAssumption ==
    /\ All \notin Cl
    /\ MetricsOn \in [Cl \cup {All} -> SUBSET STRING]
    /\ Changes \in Nat

VARIABLES
    liveView,       \* the view
    storedCluster,  \* localStorage "observex.selectedCluster"
    inputs,         \* dsStatus, the selected cluster, the view's controls
    shown,          \* what each effect last put on display
    fetching,       \* liveLoading, or status "loading" (the KPI strip has
                    \* neither: for it, that its request is in flight)
    asked,          \* requests in flight, those cancelled included
    changes

liveVars == <<liveView, storedCluster, inputs, shown, fetching, asked, changes>>

Metrics == "metrics"
Logs == "logs"
Alerts == "alerts"
Kpi == "kpi"
Badge == "badge"
LiveView == {Metrics, Logs, Alerts, Kpi, Badge}

-----------------------------------------------------------------------------
\* toPromQLString in the builder, the text typed in the advanced editor.
Blank == <<"", "">>
BuilderText(in) == <<in.metric, in.namespace>>
QueryText(in) == IF in.mode = "advanced" THEN in.advanced ELSE BuilderText(in)

\* The effects of each view, and the inputs in the request each sends.
Effects ==
    CASE liveView = Metrics -> {"names", "options", "data"}
      [] liveView = Logs -> {"options", "data"}
      [] liveView \in {Alerts, Kpi, Badge} -> {"data"}

MetricNamesKey(in) == <<in.cluster>>
MetricOptionsKey(in) == <<in.metric, in.namespace, in.cluster>>
MetricDataKey(in) == QueryText(in) \o <<in.range, in.cluster>>
LogOptionsKey(in) == <<in.namespace, in.cluster>>
LogDataKey(in) == <<in.range, in.cluster>>
AlertsKey(in) == <<in.cluster>>
KpiKey(in) == <<in.cluster>>
BadgeKey(in) == <<"probe_success">>

Key(e, in) ==
    CASE liveView = Metrics /\ e = "names" -> MetricNamesKey(in)
      [] liveView = Metrics /\ e = "options" -> MetricOptionsKey(in)
      [] liveView = Metrics /\ e = "data" -> MetricDataKey(in)
      [] liveView = Logs /\ e = "options" -> LogOptionsKey(in)
      [] liveView = Logs /\ e = "data" -> LogDataKey(in)
      [] liveView = Alerts -> AlertsKey(in)
      [] liveView = Kpi -> KpiKey(in)
      [] liveView = Badge -> BadgeKey(in)

\* The logs do not wait for a status; a blank query is not sent.
Sends(e, in) ==
    \/ liveView = Logs
    \/ in.ds = "configured" /\ ~(liveView = Metrics /\ e = "data" /\ QueryText(in) = Blank)

Deps(e, in) == <<Sends(e, in), Key(e, in)>>

-----------------------------------------------------------------------------
\* What a view shows in place of data, and whether it shows data.
DataView ==
    CASE inputs.ds # "configured" -> "Not signed in"
      [] inputs.ds = "configured" /\ shown["data"].kind = "ok" -> "data"
      [] OTHER -> IF fetching \/ shown["data"].kind = "none" THEN "Loading" ELSE "Datasource error"
MetricsView == DataView
AlertsPageView == DataView
TopAlertsView == DataView
RecentProblemsView == DataView
KpiView == IF shown["data"].kind = "ok" THEN "data" ELSE "unavailable"
LogsView == IF fetching THEN "Loading" ELSE shown["data"].kind
BadgeView ==
    CASE inputs.ds # "configured" -> "Not signed in"
      [] inputs.ds = "configured" /\ fetching -> "Checking"
      [] OTHER -> IF shown["data"].kind = "ok" THEN "data" ELSE "Pending first check"

View ==
    CASE liveView = Metrics -> MetricsView
      [] liveView = Logs -> LogsView
      [] liveView = Alerts -> AlertsPageView
      [] liveView = Kpi -> KpiView
      [] liveView = Badge -> BadgeView

-----------------------------------------------------------------------------
Nothing == [kind |-> "none", key |-> <<>>]
Ask(e, in) == [effect |-> e, key |-> Key(e, in), cancelled |-> FALSE]

\* React runs the effects whose dependencies changed; sent is what is in
\* flight and display what is shown by then.  An effect that sends nothing
\* clears its display.
RunEffects(new, sent, display, loading) ==
    LET changed == {e \in Effects : Deps(e, new) # Deps(e, inputs)}
        sending == {e \in changed : Sends(e, new)}
    IN  /\ inputs' = new
        /\ asked' = {IF r.effect \in changed THEN [r EXCEPT !.cancelled = TRUE] ELSE r : r \in sent}
                    \cup {Ask(e, new) : e \in sending}
        /\ shown' = [e \in DOMAIN display |->
                        IF e \in changed \ sending THEN Nothing ELSE display[e]]
        /\ fetching' = (loading \/ "data" \in sending)

\* The first render knows no cluster, so that the server's and the browser's
\* agree; what the logs ask for then is cancelled as soon as the provider has
\* read localStorage.
LiveInit ==
    /\ liveView \in LiveView
    /\ storedCluster \in Cl \cup {All}
    /\ LET first == [ds |-> "unknown", cluster |-> All, mode |-> "builder", metric |-> Up,
                     namespace |-> "all", range |-> "default", advanced |-> <<"typed", "">>]
           second == [first EXCEPT !.cluster = storedCluster]
           sending == {e \in Effects : Sends(e, first)}
       IN  /\ inputs = second
           /\ asked = {[Ask(e, first) EXCEPT !.cancelled = TRUE] :
                          e \in {d \in sending : Key(d, first) # Key(d, second)}}
                      \cup {Ask(e, second) : e \in sending}
           /\ fetching = ("data" \in sending)
    /\ shown = [e \in {"names", "options", "data"} |-> Nothing]
    /\ changes = 0

\* The status is asked for once per mount; failures count as not configured.
StatusAnswered ==
    /\ inputs.ds = "unknown" /\ liveView # Logs
    /\ \E s \in {"configured", "not_configured"} :
         RunEffects([inputs EXCEPT !.ds = s], asked, shown, fetching)
    /\ UNCHANGED <<liveView, storedCluster, changes>>

UserSets(new) ==
    /\ changes < Changes /\ changes' = changes + 1
    /\ new # inputs
    /\ RunEffects(new, asked, shown, fetching)
    /\ UNCHANGED liveView

\* The top bar's Select sets the context and localStorage.
SelectCluster ==
    \E c \in Cl \cup {All} :
        UserSets([inputs EXCEPT !.cluster = c]) /\ storedCluster' = c

MetricNames == IF shown["names"].kind = "ok" THEN MetricsOn[shown["names"].key[1]] ELSE {}
NamespaceOptions == IF shown["options"].kind = "ok" THEN {"all", "ns"} ELSE {"all"}

\* A control of the builder, the mode, or the text of the advanced editor.
SetMetricsControl ==
    /\ liveView = Metrics
    /\ \/ inputs.mode = "builder" /\ \E m \in MetricNames : UserSets([inputs EXCEPT !.metric = m])
       \/ /\ inputs.mode = "builder"
          /\ \E n \in NamespaceOptions : UserSets([inputs EXCEPT !.namespace = n])
       \/ \E m \in {"builder", "advanced"} : UserSets([inputs EXCEPT !.mode = m])
       \/ /\ inputs.mode = "advanced"
          /\ \E t \in {Blank, <<"typed", "">>} : UserSets([inputs EXCEPT !.advanced = t])
    /\ UNCHANGED storedCluster

\* The time range ("around" of a link works the same way), or a filter.
SetLogsControl ==
    /\ liveView = Logs
    /\ \/ \E r \in {"default", "longer"} : UserSets([inputs EXCEPT !.range = r])
       \/ \E n \in NamespaceOptions : UserSets([inputs EXCEPT !.namespace = n])
    /\ UNCHANGED storedCluster

-----------------------------------------------------------------------------
\* The replies that queryGateway.ts makes of a gateway's answer: 200, 401 or
\* anything else.
Replies == {200, 401, 500}
RangeReply(s) == CASE s = 200 -> "ok" [] s = 401 -> "not_configured" [] s = 500 -> "error"
LogsReply(s) == CASE s = 200 -> "ok" [] s = 401 -> "not_configured" [] s = 500 -> "error"
AlertsReply(s) == CASE s = 200 -> "ok" [] s = 401 -> "not_configured" [] s = 500 -> "error"
InstantReply(s) == IF s = 200 THEN "ok" ELSE "none"
ProbeReply(s) == IF s = 200 THEN "ok" ELSE "none"
DataReply(s) ==
    CASE liveView = Metrics -> RangeReply(s)
      [] liveView = Logs -> LogsReply(s)
      [] liveView = Alerts -> AlertsReply(s)
      [] liveView = Kpi -> InstantReply(s)
      [] liveView = Badge -> ProbeReply(s)

\* The data effect's then, catch and finally.
ShowData(r) ==
    /\ \E s \in Replies :
         LET kind == DataReply(s) IN
         shown' = [shown EXCEPT !["data"] =
                     [kind |-> kind, key |-> IF kind = "ok" THEN r.key ELSE <<>>]]
    /\ fetching' = FALSE /\ asked' = asked \ {r}
    /\ UNCHANGED inputs

\* Lists for the dropdowns: an error is an empty list.
ShowOptions(r) ==
    /\ shown' = [shown EXCEPT !["options"] = [kind |-> "ok", key |-> r.key]]
    /\ asked' = asked \ {r}
    /\ UNCHANGED <<inputs, fetching>>

\* Mutant: ShowNames without the effect that moves the selection.
ShowNamesOnly(r) ==
    /\ asked' = asked \ {r}
    /\ shown' = IF MetricsOn[r.key[1]] = {} THEN shown
                ELSE [shown EXCEPT !["names"] = [kind |-> "ok", key |-> r.key]]
    /\ UNCHANGED <<inputs, fetching>>

\* Names of metrics: an error or an empty list is ignored; a list without the
\* metric selected moves the selection to "up" or to its first name, which
\* runs the other effects.
ShowNames(r) ==
    LET names == MetricsOn[r.key[1]]
        display == [shown EXCEPT !["names"] = [kind |-> "ok", key |-> r.key]]
    IN  \/ /\ asked' = asked \ {r}
           /\ UNCHANGED <<inputs, shown, fetching>>
        \/ /\ names # {} /\ inputs.metric \in names
           /\ shown' = display /\ asked' = asked \ {r}
           /\ UNCHANGED <<inputs, fetching>>
        \/ /\ names # {} /\ inputs.metric \notin names
           /\ \E m \in IF Up \in names THEN {Up} ELSE names :
                RunEffects([inputs EXCEPT !.metric = m], asked \ {r}, display, fetching)

Show(r) ==
    \/ r.effect = "data" /\ ShowData(r)
    \/ r.effect = "options" /\ ShowOptions(r)
    \/ r.effect = "names" /\ ShowNames(r)

\* Mutant: Answered without the test of cancelled.
AnsweredAnyway ==
    /\ \E r \in asked : Show(r)
    /\ UNCHANGED <<liveView, storedCluster, changes>>

Answered ==
    /\ \E r \in asked : ~r.cancelled /\ Show(r)
    /\ UNCHANGED <<liveView, storedCluster, changes>>

AnswerDropped ==
    /\ \E r \in asked : r.cancelled /\ asked' = asked \ {r}
    /\ UNCHANGED <<liveView, storedCluster, inputs, shown, fetching, changes>>

LiveNext ==
    \/ StatusAnswered \/ Answered \/ AnswerDropped
    \/ SelectCluster \/ SetMetricsControl \/ SetLogsControl
LiveFairness == WF_liveVars(StatusAnswered) /\ WF_liveVars(Answered)
LiveSpec == LiveInit /\ [][LiveNext]_liveVars /\ LiveFairness

-----------------------------------------------------------------------------
LiveTypeOK ==
    /\ liveView \in LiveView
    /\ storedCluster \in Cl \cup {All}
    /\ inputs.ds \in {"unknown", "configured", "not_configured"}
    /\ inputs.cluster \in Cl \cup {All}
    /\ inputs.mode \in {"builder", "advanced"}
    /\ \A e \in DOMAIN shown : shown[e].kind \in {"none", "ok", "error", "not_configured"}
    /\ fetching \in BOOLEAN
    /\ \A r \in asked : r.effect \in Effects /\ r.cancelled \in BOOLEAN
    /\ changes \in 0..Changes

Awaiting(e) == \E r \in asked : r.effect = e /\ ~r.cancelled /\ r.key = Key(e, inputs)

\* Data and options on display belong to the query, the filters and the
\* cluster that the controls show, unless the right ones are on their way:
\* answers that come late or out of order never win over them.
StaleOnlyWhileFetching ==
    \A e \in Effects \ {"names"} :
        (Sends(e, inputs) /\ shown[e].kind = "ok" /\ shown[e].key # Key(e, inputs)) => Awaiting(e)

\* A view says that it is loading exactly while its data are on their way,
\* unless the query is blank.
LoadingIsTrue == Sends("data", inputs) => (fetching <=> Awaiting("data"))

\* The metric queried is one of the names offered, however lists of names for
\* old and new clusters and the user's choices follow each other.
MetricIsOffered == shown["names"].kind = "ok" => inputs.metric \in MetricNames
=============================================================================
