---------------------------- MODULE ConsoleProofs ----------------------------
(***************************************************************************)
(* Safety of the console for any data behind its screens.  Each screen has *)
(* an invariant of its own, as only the screen of the URL moves: LInv for  *)
(* the live views, here, says what the requests that were not cancelled    *)
(* are for; PInv, TInv and EInv are in PagesProofs, DInv in                *)
(* DashboardsProofs.  The console's is their conjunction.                  *)
(***************************************************************************)
EXTENDS Console, PagesProofs, DashboardsProofs

USE LiveAssumption

-----------------------------------------------------------------------------
(* Live views *)

Displays == {"names", "options", "data"}
InputsOf(in) == [ds |-> in.ds, cluster |-> in.cluster, mode |-> in.mode, metric |-> in.metric,
                 namespace |-> in.namespace, range |-> in.range, advanced |-> in.advanced]
InputsTyped(in) ==
    /\ in = InputsOf(in)
    /\ in.ds \in {"unknown", "configured", "not_configured"}
    /\ in.cluster \in Cl \cup {All}
    /\ in.mode \in {"builder", "advanced"}
DisplayTyped(display) ==
    /\ display = [e \in Displays |-> display[e]]
    /\ \A e \in Displays : display[e].kind \in {"none", "ok", "error", "not_configured"}

LiveTyped ==
    /\ LiveTypeOK
    /\ InputsTyped(inputs) /\ DisplayTyped(shown)
    /\ \A r \in asked : r = [effect |-> r.effect, key |-> r.key, cancelled |-> r.cancelled]

\* What was not cancelled was asked for the inputs of now.
AskedIsCurrent ==
    \A r \in asked : ~r.cancelled => r.key = Key(r.effect, inputs) /\ Sends(r.effect, inputs)

LInv == /\ LiveTyped
        /\ AskedIsCurrent
        /\ StaleOnlyWhileFetching /\ LoadingIsTrue
        /\ MetricIsOffered

\* The view does not change, so that keys depend on the inputs only.
LEMMA KeysOfInputs ==
    ASSUME liveView' = liveView, NEW new, inputs' = new, NEW e
    PROVE  /\ Key(e, inputs)' = Key(e, new)
           /\ Sends(e, inputs)' = Sends(e, new)
<1>1. Key(e, inputs)' = Key(e, new)
    BY DEF Key, MetricNamesKey, MetricOptionsKey, MetricDataKey, LogOptionsKey, LogDataKey,
       AlertsKey, KpiKey, BadgeKey
<1>2. Sends(e, inputs)' = Sends(e, new)
    BY DEF Sends
<1> QED BY <1>1, <1>2

LEMMA EffectsAreDisplays ==
    ASSUME liveView \in LiveView
    PROVE  /\ Effects \subseteq Displays
           /\ "data" \in Effects
           /\ liveView' = liveView => Effects' = Effects
BY DEF LiveView, Effects, Displays, Metrics, Logs, Alerts, Kpi, Badge

\* The effects of a render keep all of it, given what is on display by then.
LEMMA RunEffectsKeepsLInv ==
    ASSUME LInv, NEW new, NEW sent, NEW display,
           RunEffects(new, sent, display, fetching), liveView' = liveView,
           sent \subseteq asked, \A r \in asked \ sent : r.effect = "names",
           InputsTyped(new), DisplayTyped(display),
           \A e \in Displays \ {"names"} : display[e] = shown[e],
           display["names"].kind = "ok" => new.metric \in MetricsOn[display["names"].key[1]],
           storedCluster' \in Cl \cup {All}, changes' \in 0..Changes
    PROVE  LInv'
<1> DEFINE changed == {e \in Effects : Deps(e, new) # Deps(e, inputs)}
           sending == {e \in changed : Sends(e, new)}
<1>1. /\ inputs' = new
      /\ asked' = {IF r.effect \in changed THEN [r EXCEPT !.cancelled = TRUE] ELSE r : r \in sent}
                  \cup {Ask(e, new) : e \in sending}
      /\ shown' = [e \in DOMAIN display |->
                      IF e \in changed \ sending THEN Nothing ELSE display[e]]
      /\ fetching' = (fetching \/ "data" \in sending)
    BY DEF RunEffects
<1>2. ASSUME NEW e \in Effects, e \notin changed
      PROVE  Key(e, new) = Key(e, inputs) /\ (Sends(e, new) <=> Sends(e, inputs))
    BY <1>2 DEF Deps
<1>3. Effects \subseteq Displays /\ Effects' = Effects /\ "data" \in Effects
      /\ changed \subseteq Effects /\ sending \subseteq changed
    BY EffectsAreDisplays DEF LInv, LiveTyped, LiveTypeOK
<1>4. ASSUME NEW r \in asked
      PROVE  /\ r = [effect |-> r.effect, key |-> r.key, cancelled |-> r.cancelled]
             /\ r.effect \in Effects /\ r.cancelled \in BOOLEAN
    BY DEF LInv, LiveTyped, LiveTypeOK
<1>5. ASSUME NEW r \in asked
      PROVE  [r EXCEPT !.cancelled = TRUE] =
                [effect |-> r.effect, key |-> r.key, cancelled |-> TRUE]
  <2> PICK e, k, c : r = [effect |-> e, key |-> k, cancelled |-> c]
      BY <1>4
  <2>1. r.effect = e /\ r.key = k
      OBVIOUS
  <2>2. \A t : [r EXCEPT !.cancelled = t] = [effect |-> e, key |-> k, cancelled |-> t]
      OBVIOUS
  <2> QED BY <2>1, <2>2
<1>6. \A e : Ask(e, new) = [effect |-> e, key |-> Key(e, new), cancelled |-> FALSE]
    BY DEF Ask
<1> HIDE DEF changed, sending
\* What is in flight: kept as it was, cancelled, or new.
<1>7. ASSUME NEW r \in asked'
      PROVE  \/ r \in sent /\ r.effect \notin changed
             \/ r.cancelled = TRUE /\ r.effect \in Effects
                /\ r = [effect |-> r.effect, key |-> r.key, cancelled |-> r.cancelled]
             \/ \E e \in sending : r = [effect |-> e, key |-> Key(e, new), cancelled |-> FALSE]
    BY <1>1, <1>4, <1>5, <1>6
<1>8. \A r \in sent : r.effect \notin changed => r \in asked'
    BY <1>1
<1>9. \A e \in sending : [effect |-> e, key |-> Key(e, new), cancelled |-> FALSE] \in asked'
    BY <1>1, <1>6
<1>10. DisplayTyped(shown)'
    BY <1>1 DEF DisplayTyped, Nothing
<1>11. \A r \in asked' : /\ r = [effect |-> r.effect, key |-> r.key, cancelled |-> r.cancelled]
                         /\ r.effect \in Effects /\ r.cancelled \in BOOLEAN
  <2> TAKE r \in asked'
  <2>1. CASE r \in sent /\ r.effect \notin changed
      BY <1>4, <2>1
  <2>2. CASE \E e \in sending : r = [effect |-> e, key |-> Key(e, new), cancelled |-> FALSE]
    <3> PICK e \in sending : r = [effect |-> e, key |-> Key(e, new), cancelled |-> FALSE]
        BY <2>2
    <3>1. r.effect = e /\ r.key = Key(e, new) /\ r.cancelled = FALSE
        OBVIOUS
    <3> QED BY <1>3, <3>1
  <2> QED BY <1>7, <2>1, <2>2
<1>12. fetching' \in BOOLEAN
    BY <1>1
<1>13. LiveTypeOK'
    BY <1>1, <1>3, <1>10, <1>11, <1>12
       DEF LInv, LiveTyped, LiveTypeOK, InputsTyped, DisplayTyped
<1>14. LiveTyped'
    BY <1>1, <1>10, <1>11, <1>13 DEF LiveTyped, InputsTyped, InputsOf
<1>15. AskedIsCurrent'
  <2>1. ASSUME NEW r \in asked', ~r.cancelled
        PROVE  r.key = Key(r.effect, new) /\ Sends(r.effect, new)
    <3>1. CASE r \in sent /\ r.effect \notin changed
      <4>1. r.key = Key(r.effect, inputs) /\ Sends(r.effect, inputs)
          BY <2>1, <3>1 DEF LInv, AskedIsCurrent
      <4> QED BY <3>1, <4>1, <1>2, <1>4
    <3>2. CASE \E e \in sending : r = [effect |-> e, key |-> Key(e, new), cancelled |-> FALSE]
        BY <3>2 DEF sending
    <3> QED BY <1>7, <2>1, <3>1, <3>2
  <2>2. ASSUME NEW r \in asked', ~r.cancelled
        PROVE  r.key = Key(r.effect, inputs)' /\ Sends(r.effect, inputs)'
    <3> PICK e : e = r.effect
        OBVIOUS
    <3>1. Key(e, inputs)' = Key(e, new) /\ Sends(e, inputs)' = Sends(e, new)
        BY <1>1, KeysOfInputs
    <3> QED BY <3>1, <2>1, <2>2
  <2> QED BY <2>2 DEF AskedIsCurrent
\* What is awaited stays so, and an effect that sends is awaited.
<1>16. ASSUME NEW e \in Effects, e # "names"
       PROVE  /\ e \in sending => Awaiting(e)'
              /\ e \notin changed => (Awaiting(e)' <=> Awaiting(e))
  <2>1. Key(e, inputs)' = Key(e, new)
      BY <1>1, KeysOfInputs
  <2>2. e \in sending => Awaiting(e)'
      BY <1>9, <2>1 DEF Awaiting
  <2>3. ASSUME e \notin changed, Awaiting(e) PROVE Awaiting(e)'
    <3>1. PICK r \in asked : r.effect = e /\ ~r.cancelled /\ r.key = Key(e, inputs)
        BY <2>3 DEF Awaiting
    <3>2. r \in asked'
        BY <1>8, <1>16, <2>3, <3>1
    <3> QED BY <1>2, <2>1, <2>3, <3>1, <3>2 DEF Awaiting
  <2>4. ASSUME e \notin changed, Awaiting(e)' PROVE Awaiting(e)
    <3>1. PICK r \in asked' : r.effect = e /\ ~r.cancelled /\ r.key = Key(e, new)
        BY <2>1, <2>4 DEF Awaiting
    <3>2. r \in sent
      <4>1. ~ \E d \in sending : r = [effect |-> d, key |-> Key(d, new), cancelled |-> FALSE]
          BY <1>3, <2>4, <3>1
      <4> QED BY <1>7, <3>1, <4>1
    <3> QED BY <1>2, <2>4, <3>1, <3>2 DEF Awaiting
  <2> QED BY <2>2, <2>3, <2>4
<1>17. StaleOnlyWhileFetching'
  <2> SUFFICES ASSUME NEW e \in Effects \ {"names"},
                      Sends(e, inputs)', shown'[e].kind = "ok", shown'[e].key # Key(e, inputs)'
               PROVE  Awaiting(e)'
      BY <1>3 DEF StaleOnlyWhileFetching
  <2>1. Key(e, inputs)' = Key(e, new) /\ Sends(e, new)
      BY <1>1, KeysOfInputs
  <2>2. CASE e \in changed
      BY <1>16, <2>1, <2>2 DEF sending
  <2>3. CASE e \notin changed
    <3>1. shown'[e] = shown[e]
        BY <1>1, <1>3, <2>3 DEF DisplayTyped
    <3>2. Sends(e, inputs) /\ shown[e].key # Key(e, inputs)
        BY <1>2, <2>1, <2>3, <3>1
    <3>3. Awaiting(e)
        BY <3>1, <3>2 DEF LInv, StaleOnlyWhileFetching
    <3> QED BY <1>16, <2>3, <3>3
  <2> QED BY <2>2, <2>3
<1>18. LoadingIsTrue'
  <2> SUFFICES ASSUME Sends("data", inputs)'
               PROVE  fetching' <=> Awaiting("data")'
      BY DEF LoadingIsTrue
  <2>1. Sends("data", new)
      BY <1>1, KeysOfInputs
  <2>2. CASE "data" \in changed
      BY <1>1, <1>3, <1>16, <2>1, <2>2 DEF sending
  <2>3. CASE "data" \notin changed
    <3>1. fetching <=> Awaiting("data")
        BY <1>2, <1>3, <2>1, <2>3 DEF LInv, LoadingIsTrue
    <3>2. fetching' = fetching
        BY <1>1, <1>3, <2>3 DEF LInv, LiveTyped, LiveTypeOK
    <3> QED BY <1>3, <1>16, <2>3, <3>1, <3>2
  <2> QED BY <2>2, <2>3
<1>19. MetricIsOffered'
  <2> SUFFICES ASSUME shown'["names"].kind = "ok"
               PROVE  new.metric \in MetricsOn[shown'["names"].key[1]]
      BY <1>1 DEF MetricIsOffered, MetricNames
  <2>1. shown'["names"] = display["names"] \/ shown'["names"] = Nothing
      BY <1>1 DEF DisplayTyped, Displays
  <2> QED BY <2>1 DEF Nothing
<1> QED BY <1>14, <1>15, <1>17, <1>18, <1>19 DEF LInv

\* The first render and the second, which knows the stored cluster.
LEMMA InitLInv ==
    ASSUME LiveInit
    PROVE  LInv
<1> DEFINE first == [ds |-> "unknown", cluster |-> All, mode |-> "builder", metric |-> Up,
                     namespace |-> "all", range |-> "default", advanced |-> <<"typed", "">>]
           second == [first EXCEPT !.cluster = storedCluster]
           sending == {e \in Effects : Sends(e, first)}
<1>1. /\ inputs = second
      /\ asked = {[Ask(e, first) EXCEPT !.cancelled = TRUE] :
                     e \in {d \in sending : Key(d, first) # Key(d, second)}}
                 \cup {Ask(e, second) : e \in sending}
      /\ fetching = ("data" \in sending)
      /\ shown = [e \in Displays |-> Nothing]
      /\ changes = 0 /\ liveView \in LiveView /\ storedCluster \in Cl \cup {All}
    BY DEF LiveInit, Displays
<1>2. InputsTyped(second) /\ first.ds = "unknown" /\ second.ds = "unknown"
  <2> PICK c \in Cl \cup {All} : c = storedCluster
      BY <1>1
  <2> HIDE DEF first
  <2>3. first = [ds |-> "unknown", cluster |-> All, mode |-> "builder", metric |-> Up,
                 namespace |-> "all", range |-> "default", advanced |-> <<"typed", "">>]
      BY DEF first
  <2>4. second = [first EXCEPT !.cluster = c]
      OBVIOUS
  <2>1. second = [ds |-> "unknown", cluster |-> c, mode |-> "builder", metric |-> Up,
                  namespace |-> "all", range |-> "default", advanced |-> <<"typed", "">>]
    <3> HIDE DEF second
    <3> PICK typed : typed = <<"typed", "">>
        OBVIOUS
    <3> QED BY <2>3, <2>4
  <2>2. second.ds = "unknown" /\ second.cluster = c /\ second.mode = "builder"
        /\ second.metric = Up /\ second.namespace = "all" /\ second.range = "default"
        /\ second.advanced = <<"typed", "">>
      BY <2>1
  <2> HIDE DEF second
  <2>5. second = InputsOf(second)
      BY <2>1, <2>2, Zenon DEF InputsOf
  <2>6. InputsTyped(second)
      BY <2>2, <2>5 DEF InputsTyped
  <2> QED BY <2>2, <2>3, <2>6
<1> HIDE DEF first, second
<1>3. \A e : (Sends(e, first) <=> liveView = Logs) /\ (Sends(e, second) <=> liveView = Logs)
    BY <1>2 DEF Sends
<1>4. "data" \in Effects /\ Effects \subseteq Displays
    BY <1>1, EffectsAreDisplays
<1>5. \A e : Ask(e, second) = [effect |-> e, key |-> Key(e, second), cancelled |-> FALSE]
    BY DEF Ask
<1>6. ASSUME NEW e
      PROVE  [Ask(e, first) EXCEPT !.cancelled = TRUE]
                = [effect |-> e, key |-> Key(e, first), cancelled |-> TRUE]
  <2> PICK k : k = Key(e, first)
      OBVIOUS
  <2>1. Ask(e, first) = [effect |-> e, key |-> k, cancelled |-> FALSE]
      BY DEF Ask
  <2>2. \A t : [Ask(e, first) EXCEPT !.cancelled = t] = [effect |-> e, key |-> k, cancelled |-> t]
      BY <2>1
  <2> QED BY <2>2
<1> HIDE DEF sending
<1>7. ASSUME NEW r \in asked
      PROVE  \/ \E e \in sending : r = [effect |-> e, key |-> Key(e, first), cancelled |-> TRUE]
             \/ \E e \in sending : r = [effect |-> e, key |-> Key(e, second), cancelled |-> FALSE]
  <2>1. CASE r \in {Ask(e, second) : e \in sending}
      BY <1>5, <2>1
  <2>2. CASE r \in {[Ask(e, first) EXCEPT !.cancelled = TRUE] :
                       e \in {d \in sending : Key(d, first) # Key(d, second)}}
    <3> PICK e \in sending : r = [Ask(e, first) EXCEPT !.cancelled = TRUE]
        BY <2>2
    <3> QED BY <1>6
  <2> QED BY <1>1, <2>1, <2>2
<1>8. \A r \in asked : /\ r = [effect |-> r.effect, key |-> r.key, cancelled |-> r.cancelled]
                       /\ r.effect \in Effects /\ r.cancelled \in BOOLEAN
  <2> TAKE r \in asked
  <2>1. CASE \E e \in sending : r = [effect |-> e, key |-> Key(e, first), cancelled |-> TRUE]
    <3> PICK e \in sending : r = [effect |-> e, key |-> Key(e, first), cancelled |-> TRUE]
        BY <2>1
    <3> QED BY DEF sending
  <2>2. CASE \E e \in sending : r = [effect |-> e, key |-> Key(e, second), cancelled |-> FALSE]
    <3> PICK e \in sending : r = [effect |-> e, key |-> Key(e, second), cancelled |-> FALSE]
        BY <2>2
    <3> QED BY DEF sending
  <2> QED BY <1>7, <2>1, <2>2
<1>9. DisplayTyped(shown)
    BY <1>1 DEF DisplayTyped, Nothing
<1>10. LiveTyped
    BY <1>1, <1>2, <1>8, <1>9 DEF LiveTyped, LiveTypeOK, InputsTyped, DisplayTyped
<1>11. AskedIsCurrent
  <2> SUFFICES ASSUME NEW r \in asked, ~r.cancelled
               PROVE  r.key = Key(r.effect, second) /\ Sends(r.effect, second)
      BY <1>1 DEF AskedIsCurrent
  <2>1. PICK e \in sending : r = [effect |-> e, key |-> Key(e, second), cancelled |-> FALSE]
      BY <1>7
  <2> QED BY <1>3, <2>1 DEF sending
<1>12. StaleOnlyWhileFetching /\ MetricIsOffered
    BY <1>1, <1>4 DEF StaleOnlyWhileFetching, MetricIsOffered, Nothing, Displays
<1>13. LoadingIsTrue
  <2> SUFFICES ASSUME Sends("data", second)
               PROVE  fetching /\ Awaiting("data")
      BY <1>1 DEF LoadingIsTrue
  <2>1. "data" \in sending
      BY <1>3, <1>4 DEF sending
  <2>2. Ask("data", second) \in asked
      BY <1>1, <2>1
  <2>3. Ask("data", second).effect = "data" /\ ~Ask("data", second).cancelled
        /\ Ask("data", second).key = Key("data", second)
      BY <1>5
  <2> QED BY <1>1, <2>1, <2>2, <2>3 DEF Awaiting
<1> QED BY <1>10, <1>11, <1>12, <1>13 DEF LInv

LEMMA StatusAnsweredKeepsLInv ==
    ASSUME LInv, StatusAnswered
    PROVE  LInv'
<1> PICK s \in {"configured", "not_configured"} :
       RunEffects([inputs EXCEPT !.ds = s], asked, shown, fetching)
    BY DEF StatusAnswered
<1> PICK new : new = [inputs EXCEPT !.ds = s]
    OBVIOUS
<1>1. InputsTyped(new) /\ new.metric = inputs.metric
    BY DEF LInv, LiveTyped, InputsTyped, InputsOf
<1>2. /\ liveView' = liveView /\ storedCluster' \in Cl \cup {All} /\ changes' \in 0..Changes
      /\ RunEffects(new, asked, shown, fetching) /\ DisplayTyped(shown)
    BY DEF StatusAnswered, LInv, LiveTyped, LiveTypeOK
<1>3. shown["names"].kind = "ok" => new.metric \in MetricsOn[shown["names"].key[1]]
    BY <1>1 DEF LInv, MetricIsOffered, MetricNames
<1> QED BY <1>1, <1>2, <1>3, RunEffectsKeepsLInv

\* A control that is set to one of the values it offers.
LEMMA UserSetsKeepsLInv ==
    ASSUME LInv, NEW new, UserSets(new), InputsTyped(new),
           shown["names"].kind = "ok" => new.metric \in MetricNames,
           storedCluster' \in Cl \cup {All}
    PROVE  LInv'
<1>1. /\ liveView' = liveView /\ RunEffects(new, asked, shown, fetching) /\ DisplayTyped(shown)
      /\ changes' \in 0..Changes
    BY DEF UserSets, LInv, LiveTyped, LiveTypeOK
<1>2. shown["names"].kind = "ok" => new.metric \in MetricsOn[shown["names"].key[1]]
    BY DEF MetricNames
<1> QED BY <1>1, <1>2, RunEffectsKeepsLInv

LEMMA ControlsKeepLInv ==
    ASSUME LInv, SelectCluster \/ SetMetricsControl \/ SetLogsControl
    PROVE  LInv'
<1>1. /\ inputs = InputsOf(inputs) /\ InputsTyped(inputs)
      /\ shown["names"].kind = "ok" => inputs.metric \in MetricNames
      /\ storedCluster \in Cl \cup {All}
    BY DEF LInv, LiveTyped, LiveTypeOK, InputsTyped, MetricIsOffered
<1>2. ASSUME NEW v
      PROVE  /\ v \in Cl \cup {All} => /\ InputsTyped([inputs EXCEPT !.cluster = v])
                                       /\ [inputs EXCEPT !.cluster = v].metric = inputs.metric
             /\ InputsTyped([inputs EXCEPT !.metric = v])
             /\ [inputs EXCEPT !.metric = v].metric = v
             /\ InputsTyped([inputs EXCEPT !.namespace = v])
             /\ [inputs EXCEPT !.namespace = v].metric = inputs.metric
             /\ InputsTyped([inputs EXCEPT !.range = v])
             /\ [inputs EXCEPT !.range = v].metric = inputs.metric
             /\ InputsTyped([inputs EXCEPT !.advanced = v])
             /\ [inputs EXCEPT !.advanced = v].metric = inputs.metric
             /\ v \in {"builder", "advanced"} =>
                   /\ InputsTyped([inputs EXCEPT !.mode = v])
                   /\ [inputs EXCEPT !.mode = v].metric = inputs.metric
    BY <1>1 DEF InputsTyped, InputsOf
<1>3. CASE SelectCluster
  <2> PICK c \in Cl \cup {All} : UserSets([inputs EXCEPT !.cluster = c]) /\ storedCluster' = c
      BY <1>3 DEF SelectCluster
  <2> QED BY <1>1, <1>2, UserSetsKeepsLInv
<1>4. CASE SetMetricsControl
  <2>1. PICK v : \/ v \in MetricNames /\ UserSets([inputs EXCEPT !.metric = v])
                 \/ UserSets([inputs EXCEPT !.namespace = v])
                 \/ v \in {"builder", "advanced"} /\ UserSets([inputs EXCEPT !.mode = v])
                 \/ UserSets([inputs EXCEPT !.advanced = v])
      BY <1>4 DEF SetMetricsControl
  <2>2. storedCluster' = storedCluster
      BY <1>4 DEF SetMetricsControl
  <2>3. CASE v \in MetricNames /\ UserSets([inputs EXCEPT !.metric = v])
      BY <1>1, <1>2, <2>2, <2>3, UserSetsKeepsLInv
  <2>4. CASE UserSets([inputs EXCEPT !.namespace = v])
      BY <1>1, <1>2, <2>2, <2>4, UserSetsKeepsLInv
  <2>5. CASE v \in {"builder", "advanced"} /\ UserSets([inputs EXCEPT !.mode = v])
      BY <1>1, <1>2, <2>2, <2>5, UserSetsKeepsLInv
  <2>6. CASE UserSets([inputs EXCEPT !.advanced = v])
      BY <1>1, <1>2, <2>2, <2>6, UserSetsKeepsLInv
  <2> QED BY <2>1, <2>3, <2>4, <2>5, <2>6
<1>5. CASE SetLogsControl
  <2>1. PICK v : UserSets([inputs EXCEPT !.range = v]) \/ UserSets([inputs EXCEPT !.namespace = v])
      BY <1>5 DEF SetLogsControl
  <2>2. storedCluster' = storedCluster
      BY <1>5 DEF SetLogsControl
  <2>3. CASE UserSets([inputs EXCEPT !.range = v])
      BY <1>1, <1>2, <2>2, <2>3, UserSetsKeepsLInv
  <2>4. CASE UserSets([inputs EXCEPT !.namespace = v])
      BY <1>1, <1>2, <2>2, <2>4, UserSetsKeepsLInv
  <2> QED BY <2>1, <2>3, <2>4
<1> QED BY <1>3, <1>4, <1>5

\* An answer that does not run the effects: what was asked is one less, and
\* one display may change.
LEMMA AnswerKeepsLInv ==
    ASSUME LInv, NEW r \in asked, NEW e \in Displays, NEW now,
           asked' = asked \ {r}, inputs' = inputs, liveView' = liveView,
           storedCluster' = storedCluster, changes' = changes,
           shown' = [shown EXCEPT ![e] = now],
           now.kind \in {"none", "ok", "error", "not_configured"},
           fetching' = IF r.effect = "data" /\ ~r.cancelled THEN FALSE ELSE fetching,
           now # shown[e] /\ now.kind = "ok" /\ e # "names" => now.key = Key(e, inputs),
           now.kind = "ok" /\ e = "names" => inputs.metric \in MetricsOn[now.key[1]],
           r.effect # "names" /\ ~r.cancelled => e = r.effect /\ (now.kind = "ok" => now.key = r.key)
    PROVE  LInv'
<1>1. /\ shown = [d \in Displays |-> shown[d]] /\ Effects \subseteq Displays
      /\ Effects' = Effects /\ "data" \in Effects /\ fetching \in BOOLEAN
    BY EffectsAreDisplays DEF LInv, LiveTyped, LiveTypeOK, DisplayTyped
<1>2. \A d \in Displays : shown'[d] = IF d = e THEN now ELSE shown[d]
    BY <1>1
<1>3. \A d : Key(d, inputs)' = Key(d, inputs) /\ Sends(d, inputs)' = Sends(d, inputs)
  <2> PICK new : new = inputs
      OBVIOUS
  <2> QED BY KeysOfInputs
<1>4. DisplayTyped(shown)'
    BY <1>1, <1>2 DEF LInv, LiveTyped, DisplayTyped
<1>5. LiveTypeOK'
  <2>1. \A q \in asked' : q.effect \in Effects' /\ q.cancelled \in BOOLEAN
      BY <1>1 DEF LInv, LiveTyped, LiveTypeOK
  <2>2. fetching' \in BOOLEAN
      BY <1>1
  <2> QED BY <1>4, <2>1, <2>2 DEF LInv, LiveTyped, LiveTypeOK, DisplayTyped
<1>6. LiveTyped'
    BY <1>4, <1>5 DEF LInv, LiveTyped, InputsTyped, InputsOf
<1>7. AskedIsCurrent'
  <2> SUFFICES ASSUME NEW q \in asked', ~q.cancelled
               PROVE  q.key = Key(q.effect, inputs)' /\ Sends(q.effect, inputs)'
      BY DEF AskedIsCurrent
  <2>1. q.key = Key(q.effect, inputs) /\ Sends(q.effect, inputs)
      BY DEF LInv, AskedIsCurrent
  <2> PICK d : d = q.effect
      OBVIOUS
  <2>2. Key(d, inputs)' = Key(d, inputs) /\ Sends(d, inputs)' = Sends(d, inputs)
      BY <1>3
  <2> QED BY <2>1, <2>2
\* An answer that is not dropped was the only one awaited.
<1>8. ASSUME NEW d \in Effects, d # r.effect \/ r.cancelled
      PROVE  Awaiting(d)' <=> Awaiting(d)
    BY <1>3, <1>8 DEF Awaiting
<1>9. ASSUME ~r.cancelled PROVE ~Awaiting(r.effect)'
  <2> PICK d : d = r.effect
      OBVIOUS
  <2>1. SUFFICES ASSUME NEW q \in asked', q.effect = d, ~q.cancelled, q.key = Key(d, inputs)'
                 PROVE  FALSE
      BY DEF Awaiting
  <2>2. q \in asked /\ q # r /\ Key(d, inputs)' = Key(d, inputs)
      BY <1>3, <2>1
  <2>3. r.key = Key(d, inputs)
      BY <1>9 DEF LInv, AskedIsCurrent
  <2>4. /\ r = [effect |-> r.effect, key |-> r.key, cancelled |-> r.cancelled]
        /\ q = [effect |-> q.effect, key |-> q.key, cancelled |-> q.cancelled]
        /\ q.cancelled \in BOOLEAN /\ r.cancelled \in BOOLEAN
      BY <2>2 DEF LInv, LiveTyped, LiveTypeOK
  <2>5. q.cancelled = r.cancelled
      BY <1>9, <2>1, <2>4
  <2> QED BY <2>1, <2>2, <2>3, <2>4, <2>5
<1>10. StaleOnlyWhileFetching'
  <2> SUFFICES ASSUME NEW d \in Effects \ {"names"},
                      Sends(d, inputs)', shown'[d].kind = "ok", shown'[d].key # Key(d, inputs)'
               PROVE  Awaiting(d)'
      BY <1>1 DEF StaleOnlyWhileFetching
  <2>1. Sends(d, inputs) /\ shown'[d].key # Key(d, inputs)
      BY <1>3
  <2>2. CASE shown'[d] # shown[d]
    <3>1. d = e /\ shown'[d] = now
        BY <1>1, <1>2, <2>2
    <3> QED BY <2>1, <2>2, <3>1
  <2>3. CASE shown'[d] = shown[d]
    <3>1. Awaiting(d)
        BY <2>1, <2>3 DEF LInv, StaleOnlyWhileFetching
    <3>2. CASE d # r.effect \/ r.cancelled
        BY <1>8, <3>1, <3>2
    <3>3. CASE d = r.effect /\ ~r.cancelled
      <4>1. r.key = Key(d, inputs)
          BY <3>3 DEF LInv, AskedIsCurrent
      <4>2. d = e /\ shown'[d] = now
          BY <1>1, <1>2, <3>3
      <4> QED BY <2>1, <4>1, <4>2, <3>3
    <3> QED BY <3>2, <3>3
  <2> QED BY <2>2, <2>3
<1>11. LoadingIsTrue'
  <2> SUFFICES ASSUME Sends("data", inputs)'
               PROVE  fetching' <=> Awaiting("data")'
      BY DEF LoadingIsTrue
  <2>1. Sends("data", inputs)
      BY <1>3
  <2>2. CASE r.effect = "data" /\ ~r.cancelled
      BY <1>9, <2>2
  <2>3. CASE r.effect # "data" \/ r.cancelled
      BY <1>1, <1>8, <2>1, <2>3 DEF LInv, LoadingIsTrue
  <2> QED BY <2>2, <2>3
<1>12. MetricIsOffered'
  <2> SUFFICES ASSUME shown'["names"].kind = "ok"
               PROVE  inputs.metric \in MetricsOn[shown'["names"].key[1]]
      BY DEF MetricIsOffered, MetricNames
  <2>1. CASE e = "names"
      BY <1>2, <2>1 DEF Displays
  <2>2. CASE e # "names"
    <3>1. shown'["names"] = shown["names"]
        BY <1>2, <2>2 DEF Displays
    <3> QED BY <3>1 DEF LInv, MetricIsOffered, MetricNames
  <2> QED BY <2>1, <2>2
<1> QED BY <1>6, <1>7, <1>10, <1>11, <1>12 DEF LInv

LEMMA AnswersKeepLInv ==
    ASSUME LInv, Answered \/ AnswerDropped
    PROVE  LInv'
<1>1. UNCHANGED <<liveView, storedCluster, changes>>
    BY DEF Answered, AnswerDropped
<1>2. /\ shown = [d \in Displays |-> shown[d]] /\ Effects \subseteq Displays
      /\ \A d \in Displays : shown[d].kind \in {"none", "ok", "error", "not_configured"}
      /\ \A d \in Displays : shown = [shown EXCEPT ![d] = shown[d]]
  <2>1. shown = [d \in Displays |-> shown[d]]
      BY DEF LInv, LiveTyped, DisplayTyped
  <2> QED BY <2>1, EffectsAreDisplays DEF LInv, LiveTyped, LiveTypeOK, DisplayTyped
<1>3. shown["names"].kind = "ok" => inputs.metric \in MetricsOn[shown["names"].key[1]]
    BY DEF LInv, MetricIsOffered, MetricNames
<1>4. CASE AnswerDropped
  <2> PICK r \in asked : r.cancelled /\ asked' = asked \ {r}
      BY <1>4 DEF AnswerDropped
  <2>1. UNCHANGED <<inputs, shown, fetching>>
      BY <1>4 DEF AnswerDropped
  <2>2. "names" \in Displays
      BY DEF Displays
  <2> QED BY <1>1, <1>2, <1>3, <2>1, <2>2, AnswerKeepsLInv
<1>5. CASE Answered
  <2> PICK r \in asked : ~r.cancelled /\ Show(r)
      BY <1>5 DEF Answered
  <2>1. r.key = Key(r.effect, inputs)
      BY DEF LInv, AskedIsCurrent
  <2>2. CASE r.effect = "data" /\ ShowData(r)
    <3> PICK s \in Replies :
           shown' = [shown EXCEPT !["data"] =
                       [kind |-> DataReply(s), key |-> IF DataReply(s) = "ok" THEN r.key ELSE <<>>]]
        BY <2>2 DEF ShowData
    <3> PICK now : now = [kind |-> DataReply(s),
                          key |-> IF DataReply(s) = "ok" THEN r.key ELSE <<>>]
        OBVIOUS
    <3>1. DataReply(s) \in {"none", "ok", "error", "not_configured"}
        BY DEF DataReply, RangeReply, LogsReply, AlertsReply, InstantReply, ProbeReply, Replies,
           LInv, LiveTyped, LiveTypeOK, LiveView, Metrics, Logs, Alerts, Kpi, Badge
    <3>2. now.kind = DataReply(s) /\ (now.kind = "ok" => now.key = r.key)
        OBVIOUS
    <3>3. fetching' = FALSE /\ asked' = asked \ {r} /\ inputs' = inputs
        BY <2>2 DEF ShowData
    <3>4. "data" \in Displays /\ shown' = [shown EXCEPT !["data"] = now]
        BY DEF Displays
    <3>5. /\ now.kind \in {"none", "ok", "error", "not_configured"}
          /\ now.kind = "ok" => now.key = Key("data", inputs)
          /\ now.kind = "ok" => now.key = r.key
          /\ fetching' = IF r.effect = "data" /\ ~r.cancelled THEN FALSE ELSE fetching
          /\ r.effect = "data" /\ "data" # "names"
        BY <2>1, <2>2, <3>1, <3>2, <3>3
    <3> HIDE DEF DataReply
    <3> QED BY <1>1, <3>3, <3>4, <3>5, AnswerKeepsLInv
  <2>3. CASE r.effect = "options" /\ ShowOptions(r)
    <3> PICK now : now = [kind |-> "ok", key |-> r.key]
        OBVIOUS
    <3>1. /\ shown' = [shown EXCEPT !["options"] = now] /\ asked' = asked \ {r}
          /\ UNCHANGED <<inputs, fetching>> /\ "options" \in Displays
          /\ now.kind = "ok" /\ now.key = r.key
        BY <2>3 DEF ShowOptions, Displays
    <3> QED BY <1>1, <2>1, <2>3, <3>1, AnswerKeepsLInv
  <2>4. CASE r.effect = "names" /\ ShowNames(r)
    <3> PICK now : now = [kind |-> "ok", key |-> r.key]
        OBVIOUS
    <3>1. now.kind = "ok" /\ now.key = r.key /\ "names" \in Displays
        BY DEF Displays
    <3> DEFINE names == MetricsOn[r.key[1]]
               display == [shown EXCEPT !["names"] = now]
    <3>2. CASE asked' = asked \ {r} /\ UNCHANGED <<inputs, shown, fetching>>
        BY <1>1, <1>2, <1>3, <2>4, <3>1, <3>2, AnswerKeepsLInv
    <3>3. CASE /\ names # {} /\ inputs.metric \in names
               /\ shown' = display /\ asked' = asked \ {r}
               /\ UNCHANGED <<inputs, fetching>>
        BY <1>1, <2>4, <3>1, <3>3, AnswerKeepsLInv
    <3>4. CASE \E m \in names : RunEffects([inputs EXCEPT !.metric = m], asked \ {r}, display, fetching)
      <4> PICK m \in names : RunEffects([inputs EXCEPT !.metric = m], asked \ {r}, display, fetching)
          BY <3>4
      <4> PICK new : new = [inputs EXCEPT !.metric = m]
          OBVIOUS
      <4>1. InputsTyped(new) /\ new.metric = m
          BY DEF LInv, LiveTyped, InputsTyped, InputsOf
      <4>2. /\ DisplayTyped(display) /\ display["names"] = now
            /\ \A e \in Displays \ {"names"} : display[e] = shown[e]
          BY <1>2, <3>1 DEF DisplayTyped
      <4>3. /\ storedCluster' \in Cl \cup {All} /\ changes' \in 0..Changes
            /\ RunEffects(new, asked \ {r}, display, fetching)
            /\ asked \ {r} \subseteq asked /\ \A q \in asked \ (asked \ {r}) : q.effect = "names"
          BY <1>1, <2>4 DEF LInv, LiveTyped, LiveTypeOK
      <4>4. display["names"].kind = "ok" => new.metric \in MetricsOn[display["names"].key[1]]
          BY <3>1, <4>1, <4>2
      <4> HIDE DEF display
      <4> QED BY <1>1, <4>1, <4>2, <4>3, <4>4, RunEffectsKeepsLInv
    <3>5. \/ asked' = asked \ {r} /\ UNCHANGED <<inputs, shown, fetching>>
          \/ /\ names # {} /\ inputs.metric \in names
             /\ shown' = display /\ asked' = asked \ {r}
             /\ UNCHANGED <<inputs, fetching>>
          \/ \E m \in names : RunEffects([inputs EXCEPT !.metric = m], asked \ {r}, display, fetching)
        BY <2>4 DEF ShowNames
    <3> QED BY <3>2, <3>3, <3>4, <3>5
  <2> QED BY <2>2, <2>3, <2>4 DEF Show
<1> QED BY <1>4, <1>5

LEMMA LiveKeepsLInv ==
    ASSUME LInv, [LiveNext]_liveVars
    PROVE  LInv'
<1>1. CASE UNCHANGED liveVars
  <2>1. LiveTyped'
      BY <1>1 DEF LInv, liveVars, LiveTyped, LiveTypeOK, InputsTyped, InputsOf, DisplayTyped, Effects
  <2>2. \A e : Key(e, inputs)' = Key(e, inputs) /\ Sends(e, inputs)' = Sends(e, inputs)
    <3> PICK new : new = inputs
        OBVIOUS
    <3> QED BY <1>1, KeysOfInputs DEF liveVars
  <2>3. \A e : Awaiting(e)' = Awaiting(e)
      BY <1>1, <2>2 DEF liveVars, Awaiting
  <2>4. Effects' = Effects
      BY <1>1 DEF liveVars, Effects
  <2>5. AskedIsCurrent'
    <3> SUFFICES ASSUME NEW q \in asked, ~q.cancelled
                 PROVE  q.key = Key(q.effect, inputs)' /\ Sends(q.effect, inputs)'
        BY <1>1 DEF AskedIsCurrent, liveVars
    <3>1. q.key = Key(q.effect, inputs) /\ Sends(q.effect, inputs)
        BY DEF LInv, AskedIsCurrent
    <3> PICK d : d = q.effect
        OBVIOUS
    <3>2. Key(d, inputs)' = Key(d, inputs) /\ Sends(d, inputs)' = Sends(d, inputs)
        BY <2>2
    <3> QED BY <3>1, <3>2
  <2>6. StaleOnlyWhileFetching' /\ LoadingIsTrue'
      BY <1>1, <2>2, <2>3, <2>4 DEF liveVars, LInv, StaleOnlyWhileFetching, LoadingIsTrue
  <2>7. MetricIsOffered'
      BY <1>1 DEF liveVars, LInv, MetricIsOffered, MetricNames
  <2> QED BY <2>1, <2>5, <2>6, <2>7 DEF LInv
<1>2. CASE LiveNext
    BY <1>2, StatusAnsweredKeepsLInv, ControlsKeepLInv, AnswersKeepLInv DEF LiveNext
<1> QED BY <1>1, <1>2

-----------------------------------------------------------------------------
(* The console *)

CInv == /\ screen \in Screen
        /\ PInv /\ TInv /\ EInv /\ LInv /\ DInv

LEMMA ConsoleInitCInv ==
    ASSUME ConsoleInit
    PROVE  CInv
BY InitPInv, InitTInv, InitEInv, InitLInv, InitDInv DEF ConsoleInit, CInv

LEMMA ConsoleKeepsCInv ==
    ASSUME CInv, [ConsoleNext]_consoleVars
    PROVE  CInv'
<1>1. /\ UNCHANGED screen
      /\ [ListNext]_listVars /\ [TicketNext]_ticketVars /\ [EditorNext]_editorVars
      /\ [LiveNext]_liveVars /\ [DashNext]_dashVars
    BY DEF ConsoleNext, On, consoleVars
<1> QED BY <1>1, ListKeepsPInv, TicketKeepsTInv, EditorKeepsEInv, LiveKeepsLInv, DashKeepsDInv
        DEF CInv

LEMMA ConsoleInductive == ConsoleSpec => []CInv
<1>1. ConsoleInit => CInv
    BY ConsoleInitCInv
<1>2. CInv /\ [ConsoleNext]_consoleVars => CInv'
    BY ConsoleKeepsCInv
<1> QED BY <1>1, <1>2, PTL DEF ConsoleSpec

\* The type invariant of the console holds, on whatever screen it is and for
\* any data behind it.
THEOREM ConsoleTypeCorrect == ConsoleSpec => []ConsoleTypeOK
<1>1. CInv => ConsoleTypeOK
  <2>1. CInv => EditorTypeOK /\ LiveTypeOK
      BY DEF CInv, EInv, LInv, LiveTyped
  <2> QED BY <2>1, PInvImplies, TInvImplies, DInvIsTyped DEF CInv, ConsoleTypeOK
<1> QED BY <1>1, ConsoleInductive, PTL

\* Spinners, disabled buttons and loading states of every page stand for a
\* request on its way: the finally and catch blocks leave none behind.
THEOREM WaitingSound == ConsoleSpec => []WaitingIsReal
<1>1. CInv => WaitingIsReal
  <2>1. CInv => SavingMeansPut /\ LoadingIsTrue
      BY SpinnerOfEInv DEF CInv, LInv
  <2> QED BY <2>1, PInvImplies, TInvImplies DEF CInv, WaitingIsReal
<1> QED BY <1>1, ConsoleInductive, PTL

\* With nothing in flight, lists and tickets are what the service holds, and
\* the draft is the ticket's assignee, unless a GET was overtaken or something
\* has changed since that the page was never told of: for what the tab itself
\* does, load() after every success is enough, in whatever order requests and
\* answers arrive.
THEOREM SettledPagesSound == ConsoleSpec => []SettledPagesAreTrue
<1>1. CInv => SettledPagesAreTrue
    BY PInvImplies, TInvImplies DEF CInv, SettledPagesAreTrue
<1> QED BY <1>1, ConsoleInductive, PTL

\* The effects' cleanup functions are enough: grants, query results, options
\* and panels on display belong to what the page names, or their successors
\* are on the way.
THEOREM DisplaySound == ConsoleSpec => []DisplayIsCurrent
<1>1. CInv => DisplayIsCurrent
    BY DInvIsCurrent DEF CInv, EInv, LInv, DisplayIsCurrent
<1> QED BY <1>1, ConsoleInductive, PTL

\* The access editor: a cluster that was not touched keeps the reach of the
\* grants loaded, in whatever order and form these come.
THEOREM EditsSound == ConsoleSpec => []UntouchedClustersKeepReach
<1>1. CInv => UntouchedClustersKeepReach
    BY DEF CInv, EInv, ReachKept, UntouchedClustersKeepReach, Rows, EditorView
<1> QED BY <1>1, ConsoleInductive, PTL

\* "Saved." is said only while the service holds what the panel shows, however
\* saves overlap in it, unless another save of the same user took effect after
\* the panel's had begun.
THEOREM SavesSound == ConsoleSpec => []SavedMeansStored
<1>1. CInv => SavedMeansStored
    BY DEF CInv, EInv
<1> QED BY <1>1, ConsoleInductive, PTL

\* The metrics explorer: the metric selected is one of the names on display.
THEOREM MetricsOffered == ConsoleSpec => []MetricIsOffered
<1>1. CInv => MetricIsOffered
    BY DEF CInv, LInv
<1> QED BY <1>1, ConsoleInductive, PTL

\* A dashboard that waits for the datasource's status waits for the one request
\* there is, also when the tab shows other screens than dashboards.
THEOREM ConsoleStatusComes == ConsoleSpec => []StatusOnItsWay
<1>1. CInv => StatusOnItsWay
    BY DEF CInv, DInv
<1> QED BY <1>1, ConsoleInductive, PTL

\* The options of a variable are for the values resolved before it.
THEOREM ConsoleResolves == ConsoleSpec => []ResolvedChainHolds
<1>1. CInv => ResolvedChainHolds
    BY DEF CInv, DInv
<1> QED BY <1>1, ConsoleInductive, PTL

\* No other screen writes the dashboards' localStorage either.
THEOREM ConsoleWrites == ConsoleSpec => OnlyGesturesWrite
<1>1. [ConsoleNext]_consoleVars => [stored' # stored => Gesture]_dashVars
  <2>1. [ConsoleNext]_consoleVars => [DashNext]_dashVars
      BY DEF ConsoleNext, On, consoleVars
  <2>2. UNCHANGED dashVars => stored' = stored
      BY DEF dashVars
  <2> QED BY <2>1, <2>2, OthersDoNotWrite
<1> QED BY <1>1, PTL DEF ConsoleSpec, OnlyGesturesWrite
=============================================================================
