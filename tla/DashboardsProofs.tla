-------------------------- MODULE DashboardsProofs --------------------------
(***************************************************************************)
(* Safety of the dashboards, for any labels, clusters and dashboards.      *)
(* DInv adds to the properties what a pass has resolved so far, for which  *)
(* inputs the requests that were not cancelled are, and who waits for the  *)
(* datasource's status.                                                    *)
(***************************************************************************)
EXTENDS Dashboards, SequenceTheorems, TLAPS

USE DashAssumption

-----------------------------------------------------------------------------
\* A sequence of whatever values.
IsSeq(s) == s \in Seq({s[k] : k \in DOMAIN s})

\* A dashboard has all template variables or none.
IsBoard(d) ==
    /\ d = [vars |-> d.vars, panels |-> d.panels]
    /\ \E n \in {0, 2} : DOMAIN d.vars = 1..n
    /\ d.vars = [i \in DOMAIN d.vars |-> [current |-> d.vars[i].current, by |-> d.vars[i].by]]
    /\ \A i \in DOMAIN d.vars : d.vars[i].by \in {"file", "user", "runtime"}

InputsTyped_(in) ==
    /\ in = [ds |-> in.ds, range |-> in.range, cluster |-> in.cluster]
    /\ in.ds \in {"unmounted", "waiting", "cached", "configured", "not_configured"}
    /\ in.cluster \in DashCluster
PanelTyped(p) ==
    /\ p = [ds |-> p.ds, fetch |-> p.fetch, key |-> p.key]
    /\ p.ds \in {"unmounted", "waiting", "cached", "configured", "not_configured"}
    /\ p.fetch \in {"idle", "loading", "loaded", "errored"}

PageTyped ==
    /\ stored = [b \in Board |-> stored[b]]
    /\ \A b \in Board : stored[b] = NoBoard \/ IsBoard(stored[b])
    /\ cached = NotRead \/ cached \subseteq Builtin
    /\ place \in Board \cup {List}
    /\ \/ dash = Loading_
       \/ place # List /\ dash = NotFound
       \/ place = List /\ dash = [cards |-> dash.cards]
       \/ place # List /\ IsBoard(dash)
    /\ InputsTyped_(dashIn) /\ PanelTyped(graph)
    /\ \A r \in panelAsked : r = [key |-> r.key, cancelled |-> r.cancelled]
    /\ statusAsked \in Nat /\ statusCache \in {"none", "configured", "not_configured"}
    /\ counter \in Nat /\ edits \in Nat

\* Only a dashboard resolves, asks and edits; its panel has the id 0.
OnlyBoardsAct ==
    /\ ~OnBoard => /\ dashIn.ds = "unmounted" /\ graph = NoPanel
                   /\ passes = {} /\ panelAsked = {} /\ inEditor = NoEditor
    /\ OnBoard => dashIn.ds # "unmounted"
    /\ graph.ds = "unmounted" <=> ~(OnBoard /\ 0 \in dash.panels)
    /\ OnBoard /\ 0 \in inEditor => 0 \in dash.panels

CachedIsThere == "cached" \in {dashIn.ds, graph.ds} => statusCache # "none"

\* Data, and requests that were not cancelled, are for the inputs of now.
AskedForPanel ==
    /\ graph.ds = "configured" /\ graph.fetch = "loaded" => graph.key = PanelKey(dash, dashIn)
    /\ \A r \in panelAsked : ~r.cancelled => r.key = PanelKey(dash, dashIn)

\* What a pass has resolved: each value is effective among the options that
\* the values before it give.
ResolvedSoFar(q) ==
    /\ q = [vars |-> q.vars, cluster |-> q.cluster, cascade |-> q.cascade, options |-> q.options]
    /\ IsSeq(q.vars) /\ IsSeq(q.cascade) /\ IsSeq(q.options)
    /\ Len(q.cascade) = Len(q.options) /\ Len(q.cascade) <= Len(q.vars)
    /\ \A i \in 1..Len(q.cascade) :
         /\ q.cascade[i] = Effective(q.vars[i], q.options[i])
         /\ \E values \in LabelAnswers(q.cluster, SubSeq(q.cascade, 1, i - 1)) :
              q.options[i] = LabelOptions(values)
PassesAreCurrent ==
    \A q \in passes : /\ ResolvedSoFar(q)
                      /\ dashIn.ds = "configured"
                      /\ q.vars = Currents(dash) /\ q.cluster = dashIn.cluster

DInv == /\ PageTyped /\ OnlyBoardsAct /\ CachedIsThere
        /\ StatusOnItsWay
        /\ AskedForPanel
        /\ PassesAreCurrent /\ ResolvedChainHolds

-----------------------------------------------------------------------------
(* Dashboards and sequences *)

LEMMA Pages ==
    /\ DOMAIN Loading_ = {"none"} /\ DOMAIN NotFound = {"none"} /\ DOMAIN NoBoard = {"none"}
    /\ \A S : DOMAIN [cards |-> S] = {"cards"}
    /\ \A d : IsBoard(d) => DOMAIN d = {"vars", "panels"}
BY DEF Loading_, NotFound, NoBoard, IsBoard

LEMMA OnBoardIs ==
    ASSUME PageTyped
    PROVE  OnBoard <=> place # List /\ IsBoard(dash)
<1>1. "panels" \notin {"none"} /\ "panels" \notin {"cards"} /\ "panels" \in {"vars", "panels"}
    OBVIOUS
<1>2. CASE dash = Loading_ \/ dash = NotFound
    BY <1>1, <1>2, Pages DEF OnBoard
<1>3. CASE place = List /\ dash = [cards |-> dash.cards]
    BY <1>1, <1>3, Pages DEF OnBoard
<1>4. CASE place # List /\ IsBoard(dash)
    BY <1>1, <1>4, Pages DEF OnBoard
<1> QED BY <1>2, <1>3, <1>4 DEF PageTyped

\* The service's file and a new dashboard.
LEMMA FilesAreBoards ==
    IsBoard(FromFile) /\ IsBoard(EmptyDashboard)
<1>1. IsBoard(FromFile)
    BY DEF IsBoard, FromFile, Vars, AllValue
<1>2. IsBoard(EmptyDashboard)
    BY EmptySeq, LenProperties DEF IsBoard, EmptyDashboard
<1> QED BY <1>1, <1>2

LEMMA CurrentsAreSeq ==
    ASSUME NEW d, IsBoard(d)
    PROVE  /\ IsSeq(Currents(d)) /\ DOMAIN Currents(d) = DOMAIN d.vars
           /\ Len(Currents(d)) \in Nat /\ DOMAIN d.vars = 1..Len(Currents(d))
<1> PICK n \in {0, 2} : DOMAIN d.vars = 1..n
    BY DEF IsBoard
<1> PICK c : c = Currents(d)
    OBVIOUS
<1>1. c \in [1..n -> {c[k] : k \in DOMAIN c}] /\ DOMAIN c = 1..n /\ n \in Nat
    BY DEF Currents
<1>2. c \in Seq({c[k] : k \in DOMAIN c})
    BY <1>1, SeqDef
<1>3. Len(c) \in Nat /\ DOMAIN c = 1..Len(c)
    BY <1>2, LenProperties
<1> QED BY <1>1, <1>2, <1>3 DEF IsSeq

LEMMA WrittenBackIsBoard ==
    ASSUME NEW d, IsBoard(d), NEW off, NEW in
    PROVE  /\ IsBoard(WrittenBack(d, off, in))
           /\ WrittenBack(d, off, in).panels = d.panels
           /\ DOMAIN WrittenBack(d, off, in).vars = DOMAIN d.vars
           /\ in.ds = "configured" =>
                \A i \in DOMAIN d.vars :
                    WrittenBack(d, off, in).vars[i].current = ResolvedCurrent(d, off, i)
<1>1. CASE in.ds # "configured"
    BY <1>1 DEF WrittenBack
<1>2. CASE in.ds = "configured"
  <2> DEFINE vs == [i \in DOMAIN d.vars |->
             IF ResolvedCurrent(d, off, i) = d.vars[i].current THEN d.vars[i]
             ELSE [current |-> ResolvedCurrent(d, off, i), by |-> "runtime"]]
  <2>1. WrittenBack(d, off, in) = [d EXCEPT !.vars = vs]
      BY <1>2 DEF WrittenBack
  <2>2. /\ DOMAIN vs = DOMAIN d.vars
        /\ \A i \in DOMAIN vs : /\ vs[i] = [current |-> vs[i].current, by |-> vs[i].by]
                                /\ vs[i].by \in {"file", "user", "runtime"}
                                /\ vs[i].current = ResolvedCurrent(d, off, i)
      BY DEF IsBoard
  <2>3. vs = [i \in DOMAIN vs |-> vs[i]]
      OBVIOUS
  <2>4. vs = [i \in DOMAIN vs |-> [current |-> vs[i].current, by |-> vs[i].by]]
      BY <2>2, <2>3
  <2> HIDE DEF vs
  <2>5. [d EXCEPT !.vars = vs] = [vars |-> vs, panels |-> d.panels]
      BY DEF IsBoard
  <2> PICK e : e = [vars |-> vs, panels |-> d.panels]
      OBVIOUS
  <2>6. e.vars = vs /\ e.panels = d.panels /\ e = [vars |-> e.vars, panels |-> e.panels]
      OBVIOUS
  <2>7. IsBoard(e)
      BY <2>2, <2>4, <2>6 DEF IsBoard
  <2> QED BY <2>1, <2>2, <2>5, <2>6, <2>7
<1> QED BY <1>1, <1>2

LEMMA SeqIsSeq ==
    ASSUME NEW S, NEW s \in Seq(S)
    PROVE  IsSeq(s)
<1> PICK n \in Nat : s \in [1..n -> S]
    BY SeqDef
<1> PICK T : T = {s[k] : k \in DOMAIN s}
    OBVIOUS
<1>1. s \in [1..n -> T]
    BY Zenon
<1>2. s \in Seq(T)
    BY <1>1, SeqDef
<1> QED BY <1>2 DEF IsSeq

LEMMA AppendAny ==
    ASSUME NEW s, IsSeq(s), NEW e
    PROVE  /\ IsSeq(Append(s, e)) /\ Len(s) \in Nat /\ Len(Append(s, e)) = Len(s) + 1
           /\ \A i \in 1..Len(s) : /\ Append(s, e)[i] = s[i]
                                   /\ SubSeq(Append(s, e), 1, i - 1) = SubSeq(s, 1, i - 1)
           /\ Append(s, e)[Len(s) + 1] = e
           /\ SubSeq(Append(s, e), 1, (Len(s) + 1) - 1) = s
<1> PICK S : S = {s[k] : k \in DOMAIN s} \cup {e}
    OBVIOUS
<1> PICK a : a = Append(s, e)
    OBVIOUS
<1>1. s \in Seq(S) /\ Len(s) \in Nat /\ DOMAIN s = 1..Len(s)
  <2>1. s \in Seq({s[k] : k \in DOMAIN s}) /\ {s[k] : k \in DOMAIN s} \subseteq S
      BY DEF IsSeq
  <2>2. Len(s) \in Nat /\ DOMAIN s = 1..Len(s)
      BY <2>1, LenProperties
  <2>3. s = [k \in 1..Len(s) |-> s[k]]
      BY <2>1, <2>2, ElementOfSeq, SeqDef
  <2>4. s \in [1..Len(s) -> S]
      BY <2>1, <2>2, <2>3
  <2> QED BY <2>2, <2>4, SeqDef
<1> PICK n \in Nat : n = Len(s)
    BY <1>1
<1>2. /\ a \in Seq(S) /\ Len(a) = n + 1 /\ \A i \in 1..n : a[i] = s[i]
      /\ a[n + 1] = e
    BY <1>1, AppendProperties
<1>3. IsSeq(a)
    BY <1>2, SeqIsSeq
<1>4. ASSUME NEW m \in 0..n PROVE SubSeq(a, 1, m) = SubSeq(s, 1, m)
  <2>1. /\ m \in Int /\ \A i \in 1..m : a[i] \in S /\ s[i] \in S /\ a[i] = s[i]
        /\ m - 1 + 1 = m /\ \A i \in 1..m : 1 + i - 1 = i
    <3>1. m \in Int /\ m - 1 + 1 = m /\ \A i \in 1..m : 1 + i - 1 = i /\ i \in 1..n
        OBVIOUS
    <3> QED BY <1>1, <1>2, <3>1, ElementOfSeq
  <2>2. /\ SubSeq(a, 1, m) \in Seq(S) /\ Len(SubSeq(a, 1, m)) = (IF 1 <= m THEN m - 1 + 1 ELSE 0)
        /\ \A i \in 1..(m - 1 + 1) : SubSeq(a, 1, m)[i] = a[1 + i - 1]
      BY <2>1, SubSeqProperties
  <2>3. /\ SubSeq(s, 1, m) \in Seq(S) /\ Len(SubSeq(s, 1, m)) = (IF 1 <= m THEN m - 1 + 1 ELSE 0)
        /\ \A i \in 1..(m - 1 + 1) : SubSeq(s, 1, m)[i] = s[1 + i - 1]
      BY <2>1, SubSeqProperties
  <2>4. (IF 1 <= m THEN m - 1 + 1 ELSE 0) = m
      OBVIOUS
  <2>5. \A i \in 1..m : SubSeq(a, 1, m)[i] = SubSeq(s, 1, m)[i]
      BY <2>1, <2>2, <2>3
  <2> PICK u \in Seq(S), v \in Seq(S) : u = SubSeq(a, 1, m) /\ v = SubSeq(s, 1, m)
      BY <2>2, <2>3
  <2> QED BY <2>2, <2>3, <2>4, <2>5, SeqEqual
<1>5. SubSeq(s, 1, n) = s
    BY <1>1, SubSeqFull
<1>6. n \in 0..n /\ (n + 1) - 1 = n /\ \A i \in 1..n : i - 1 \in 0..n
    OBVIOUS
<1> QED BY <1>2, <1>3, <1>4, <1>5, <1>6

-----------------------------------------------------------------------------
(* Rendering *)

\* The panel handed to Render is the one before, its status apart, unless it
\* is mounted anew or gone.
SamePanel(p) == p.ds = "configured" => p.fetch = graph.fetch /\ p.key = graph.key

LEMMA RenderKeepsPage ==
    ASSUME PageTyped, OnlyBoardsAct, place # List,
           NEW d, IsBoard(d), NEW in, InputsTyped_(in), in.ds # "unmounted",
           NEW off, NEW running, NEW p, PanelTyped(p), p.ds = "unmounted" <=> 0 \notin d.panels,
           0 \in inEditor => 0 \in d.panels,
           Render(d, in, off, running, p, panelAsked)
    PROVE  /\ IsBoard(dash') /\ dash'.panels = d.panels /\ OnBoard'
           /\ DOMAIN dash'.vars = DOMAIN d.vars
           /\ InputsTyped_(dashIn') /\ dashIn' = in /\ offered' = off
           /\ PanelTyped(graph') /\ graph'.ds = p.ds
           /\ \A r \in panelAsked' : r = [key |-> r.key, cancelled |-> r.cancelled]
<1>1. dash' = WrittenBack(d, off, in) /\ dashIn' = in /\ offered' = off
    BY DEF Render
<1>2. /\ IsBoard(dash') /\ dash'.panels = d.panels /\ DOMAIN dash'.vars = DOMAIN d.vars
    BY <1>1, WrittenBackIsBoard
<1>3. OnBoard'
    BY <1>2, Pages DEF OnBoard
<1>4. PanelTyped(graph') /\ graph'.ds = p.ds
  <2>1. graph' \in {p, [p EXCEPT !.fetch = "loading"], [p EXCEPT !.fetch = "idle"]}
      BY DEF Render
  <2>2. \A f \in {"loading", "idle"} :
            [p EXCEPT !.fetch = f] = [ds |-> p.ds, fetch |-> f, key |-> p.key]
      BY DEF PanelTyped
  <2> QED BY <2>1, <2>2 DEF PanelTyped
<1>5. \A r \in panelAsked' : r = [key |-> r.key, cancelled |-> r.cancelled]
  <2>1. \A r \in panelAsked : \A b \in BOOLEAN :
            [r EXCEPT !.cancelled = b] = [key |-> r.key, cancelled |-> b]
      BY DEF PageTyped
  <2>2. \A r \in Cancel(panelAsked) : r = [key |-> r.key, cancelled |-> r.cancelled]
      BY <2>1 DEF Cancel
  <2>3. \A r \in panelAsked' : \/ r \in panelAsked \/ r \in Cancel(panelAsked)
                               \/ \E k : r = [key |-> k, cancelled |-> FALSE]
      BY DEF Render
  <2> QED BY <2>2, <2>3 DEF PageTyped
<1> QED BY <1>1, <1>2, <1>3, <1>4, <1>5

LEMMA RenderKeepsAsked ==
    ASSUME PageTyped, AskedForPanel,
           NEW d, NEW in, NEW off, NEW running, NEW p, PanelTyped(p), SamePanel(p),
           Render(d, in, off, running, p, panelAsked)
    PROVE  AskedForPanel'
<1> PICK new : new = WrittenBack(d, off, in)
    OBVIOUS
<1>1. PanelKey(dash, dashIn)' = PanelKey(new, in)
    BY DEF Render, PanelKey, Currents
<1> PICK old, now : old = PanelKey(dash, dashIn) /\ now = PanelKey(new, in)
    OBVIOUS
<1> PICK fetches \in BOOLEAN : fetches <=> <<p.ds, now>> # <<graph.ds, old>>
    OBVIOUS
<1>2. /\ panelAsked' = (IF fetches THEN Cancel(panelAsked) ELSE panelAsked)
                       \cup {q \in {[key |-> now, cancelled |-> FALSE]} :
                               fetches /\ p.ds = "configured"}
      /\ graph' = IF fetches /\ p.ds = "configured" THEN [p EXCEPT !.fetch = "loading"]
                  ELSE IF fetches THEN [p EXCEPT !.fetch = "idle"] ELSE p
    BY DEF Render
<1>3. ~fetches => p.ds = graph.ds /\ now = old
    OBVIOUS
<1>4. graph'.ds = "configured" /\ graph'.fetch = "loaded" => graph'.key = now
  <2>1. CASE fetches
    <3>1. \A f \in {"loading", "idle"} : [p EXCEPT !.fetch = f].fetch = f
        BY DEF PanelTyped
    <3> QED BY <1>2, <2>1, <3>1
  <2>2. CASE ~fetches
      BY <1>2, <1>3, <2>2 DEF AskedForPanel, SamePanel
  <2> QED BY <2>1, <2>2
<1>5. ASSUME NEW r \in panelAsked', ~r.cancelled PROVE r.key = now
  <2>1. CASE fetches /\ r \in Cancel(panelAsked)
    <3>1. \A q \in panelAsked : \A b \in BOOLEAN :
              [q EXCEPT !.cancelled = b] = [key |-> q.key, cancelled |-> b]
        BY DEF PageTyped
    <3>2. r.cancelled
        BY <2>1, <3>1 DEF Cancel
    <3> QED BY <1>5, <3>2
  <2>2. CASE ~fetches /\ r \in panelAsked
      BY <1>3, <1>5, <2>2 DEF AskedForPanel
  <2>3. CASE r = [key |-> now, cancelled |-> FALSE]
      BY <2>3
  <2> QED BY <1>2, <2>1, <2>2, <2>3
<1> QED BY <1>1, <1>4, <1>5 DEF AskedForPanel

\* A pass that starts has resolved nothing.
LEMMA NewPassResolved ==
    ASSUME NEW d, IsBoard(d), NEW in
    PROVE  /\ ResolvedSoFar(NewPass(d, in))
           /\ NewPass(d, in).vars = Currents(d) /\ NewPass(d, in).cluster = in.cluster
<1> PICK q : q = NewPass(d, in)
    OBVIOUS
<1>1. /\ q = [vars |-> q.vars, cluster |-> q.cluster, cascade |-> q.cascade, options |-> q.options]
      /\ q.vars = Currents(d) /\ q.cluster = in.cluster /\ q.cascade = <<>> /\ q.options = <<>>
    BY DEF NewPass
<1>2. IsSeq(<<>>) /\ Len(<<>>) = 0
    BY EmptySeq DEF IsSeq
<1>3. IsSeq(q.vars) /\ Len(q.vars) \in Nat
    BY <1>1, CurrentsAreSeq
<1>4. ResolvedSoFar(q)
    BY <1>1, <1>2, <1>3 DEF ResolvedSoFar
<1> QED BY <1>1, <1>4

\* Passes after a render: those that were running, for inputs that have not
\* changed, or a new one.
LEMMA RenderPasses ==
    ASSUME NEW d, IsBoard(d), NEW in, NEW off, NEW running, NEW p,
           Render(d, in, off, running, p, panelAsked),
           \A q \in running : ResolvedSoFar(q) /\ dashIn.ds = "configured"
                              /\ q.vars = Currents(dash) /\ q.cluster = dashIn.cluster
    PROVE  /\ PassesAreCurrent'
           /\ in.ds = "configured" /\ passes' = {} =>
                /\ dashIn.ds = "configured" /\ dashIn.cluster = in.cluster
                /\ Currents(dash') = Currents(dash) /\ running = {}
<1> PICK new : new = WrittenBack(d, off, in)
    OBVIOUS
<1>1. dash' = new /\ dashIn' = in /\ IsBoard(new)
    BY WrittenBackIsBoard DEF Render
<1> PICK resolves \in BOOLEAN : resolves <=> PassKey(new, in) # PassKey(dash, dashIn)
    OBVIOUS
<1>2. passes' = (IF resolves THEN {} ELSE running)
                \cup {q \in {NewPass(new, in)} : resolves /\ in.ds = "configured"}
    BY DEF Render
<1>3. ~resolves => /\ (in.ds = "configured") <=> (dashIn.ds = "configured")
                   /\ Currents(new) = Currents(dash) /\ in.cluster = dashIn.cluster
    BY DEF PassKey
<1>4. ASSUME NEW q \in passes'
      PROVE  /\ ResolvedSoFar(q) /\ in.ds = "configured"
             /\ q.vars = Currents(new) /\ q.cluster = in.cluster
  <2>1. CASE resolves
    <3>1. q = NewPass(new, in) /\ in.ds = "configured"
        BY <1>2, <2>1
    <3> QED BY <1>1, <3>1, NewPassResolved
  <2>2. CASE ~resolves
    <3>1. q \in running
        BY <1>2, <2>2
    <3> QED BY <1>3, <2>2, <3>1
  <2> QED BY <2>1, <2>2
<1>5. in.ds = "configured" /\ passes' = {} => ~resolves /\ running = {}
    BY <1>2
<1>6. \A q : ResolvedSoFar(q)' = ResolvedSoFar(q)
    BY DEF ResolvedSoFar
<1> QED BY <1>1, <1>3, <1>4, <1>5, <1>6 DEF PassesAreCurrent, Currents

StoredTyped == /\ stored = [b \in Board |-> stored[b]]
               /\ \A b \in Board : stored[b] = NoBoard \/ IsBoard(stored[b])

\* The rest of the state, which Render leaves to its callers.
OthersTyped ==
    /\ StoredTyped
    /\ cached = NotRead \/ cached \subseteq Builtin
    /\ statusAsked \in Nat /\ statusCache \in {"none", "configured", "not_configured"}
    /\ counter \in Nat /\ edits \in Nat

LEMMA RenderKeepsTyped ==
    ASSUME PageTyped, OnlyBoardsAct, place # List, place' = place,
           NEW d, IsBoard(d), NEW in, InputsTyped_(in), in.ds # "unmounted",
           NEW off, NEW running, NEW p, PanelTyped(p), p.ds = "unmounted" <=> 0 \notin d.panels,
           0 \in inEditor => 0 \in d.panels, 0 \in inEditor' => 0 \in d.panels,
           Render(d, in, off, running, p, panelAsked), OthersTyped'
    PROVE  PageTyped' /\ OnlyBoardsAct' /\ OnBoard'
<1>1. /\ IsBoard(dash') /\ dash'.panels = d.panels /\ OnBoard'
      /\ InputsTyped_(dashIn') /\ dashIn' = in
      /\ PanelTyped(graph') /\ graph'.ds = p.ds
      /\ \A r \in panelAsked' : r = [key |-> r.key, cancelled |-> r.cancelled]
    BY RenderKeepsPage
<1>2. /\ InputsTyped_(dashIn)' = InputsTyped_(dashIn') /\ PanelTyped(graph)' = PanelTyped(graph')
      /\ IsBoard(dash)' = IsBoard(dash')
    BY DEF InputsTyped_, PanelTyped, IsBoard
<1>3. PageTyped'
    BY <1>1, <1>2 DEF PageTyped, OthersTyped, StoredTyped
<1>4. OnlyBoardsAct'
    BY <1>1 DEF OnlyBoardsAct
<1> QED BY <1>1, <1>3, <1>4

\* Rendering with the options of the last pass.
LEMMA RenderKeepsChain ==
    ASSUME PassesAreCurrent, ResolvedChainHolds, OnBoard,
           NEW d, IsBoard(d), NEW in, NEW p,
           Render(d, in, offered, passes, p, panelAsked)
    PROVE  PassesAreCurrent' /\ ResolvedChainHolds'
<1>1. /\ PassesAreCurrent'
      /\ in.ds = "configured" /\ passes' = {} =>
           /\ dashIn.ds = "configured" /\ dashIn.cluster = in.cluster
           /\ Currents(dash') = Currents(dash) /\ passes = {}
    BY RenderPasses DEF PassesAreCurrent
<1>2. dashIn' = in /\ offered' = offered
    BY DEF Render
<1>3. ASSUME in.ds = "configured", passes' = {}, NEW i \in DOMAIN dash'.vars
      PROVE  /\ Has(offered.options[i], dash'.vars[i].current)
             /\ \E values \in LabelAnswers(in.cluster, SubSeq(Currents(dash'), 1, i - 1)) :
                  offered.options[i] = LabelOptions(values)
  <2>1. /\ dashIn.ds = "configured" /\ dashIn.cluster = in.cluster
        /\ Currents(dash') = Currents(dash) /\ passes = {}
      BY <1>1, <1>3
  <2>2. /\ DOMAIN Currents(dash') = DOMAIN dash'.vars /\ DOMAIN Currents(dash) = DOMAIN dash.vars
        /\ Currents(dash')[i] = dash'.vars[i].current
      BY DEF Currents
  <2>3. i \in DOMAIN dash.vars /\ dash.vars[i].current = dash'.vars[i].current
      BY <2>1, <2>2 DEF Currents
  <2>4. /\ Has(offered.options[i], dash.vars[i].current)
        /\ \E values \in LabelAnswers(dashIn.cluster, SubSeq(Currents(dash), 1, i - 1)) :
             offered.options[i] = LabelOptions(values)
      BY <2>1, <2>3 DEF ResolvedChainHolds, Resolving
  <2> QED BY <2>1, <2>3, <2>4
<1>4. ResolvedChainHolds'
    BY <1>2, <1>3 DEF ResolvedChainHolds, Resolving, LabelAnswers, Currents, Has, LabelOptions
<1> QED BY <1>1, <1>4

-----------------------------------------------------------------------------
(* Steps *)

LEMMA InitDInv ==
    ASSUME DashInit
    PROVE  DInv
<1>1. /\ place \in Board \cup {List} /\ dash = Loading_
      /\ \E S \in SUBSET Own : stored = [b \in Board |-> IF b \in S THEN FromFile ELSE NoBoard]
      /\ \E c \in DashCluster : dashIn = [ds |-> "unmounted", range |-> "default", cluster |-> c]
      /\ cached = NotRead /\ counter = 0 /\ offered = NotOffered
      /\ passes = {} /\ graph = NoPanel /\ panelAsked = {}
      /\ statusCache = "none" /\ statusAsked = 0 /\ inEditor = NoEditor /\ edits = 0
    BY DEF DashInit, Idle
<1>2. InputsTyped_(dashIn) /\ dashIn.ds = "unmounted"
    BY <1>1 DEF InputsTyped_
<1>3. PanelTyped(graph) /\ graph.ds = "unmounted"
    BY <1>1 DEF PanelTyped, NoPanel
<1>4. stored = [b \in Board |-> stored[b]] /\ \A b \in Board : stored[b] = NoBoard \/ IsBoard(stored[b])
    BY <1>1, FilesAreBoards
<1>5. PageTyped
    BY <1>1, <1>2, <1>3, <1>4 DEF PageTyped
<1>6. ~OnBoard
    BY <1>1, Pages DEF OnBoard
<1>7. OnlyBoardsAct /\ CachedIsThere /\ StatusOnItsWay
    BY <1>1, <1>2, <1>3, <1>6 DEF OnlyBoardsAct, CachedIsThere, StatusOnItsWay
<1>8. AskedForPanel /\ PassesAreCurrent /\ ResolvedChainHolds
    BY <1>1, <1>3, <1>6 DEF AskedForPanel, PassesAreCurrent, ResolvedChainHolds
<1> QED BY <1>5, <1>7, <1>8 DEF DInv

LEMMA GoToKeepsDInv ==
    ASSUME DInv, OthersTyped', statusAsked' <= 1,
           NEW p \in Board \cup {List}, GoTo(p)
    PROVE  DInv'
<1>1. /\ place' = p /\ dash' = Loading_
      /\ dashIn' = [ds |-> "unmounted", range |-> "default", cluster |-> dashIn.cluster]
      /\ passes' = {} /\ graph' = NoPanel /\ panelAsked' = {} /\ inEditor' = NoEditor
    BY DEF GoTo, Idle
<1>2. (InputsTyped_(dashIn))' /\ dashIn'.ds = "unmounted"
    BY <1>1 DEF InputsTyped_, DInv, PageTyped
<1>3. (PanelTyped(graph))' /\ graph'.ds = "unmounted"
    BY <1>1 DEF PanelTyped, NoPanel
<1>4. PageTyped'
    BY <1>1, <1>2, <1>3 DEF PageTyped, OthersTyped, StoredTyped, Loading_
<1>5. ~OnBoard'
    BY <1>1, Pages DEF OnBoard
<1>6. OnlyBoardsAct' /\ CachedIsThere' /\ StatusOnItsWay'
    BY <1>1, <1>2, <1>3, <1>5 DEF OnlyBoardsAct, CachedIsThere, StatusOnItsWay, NoPanel, NoEditor
<1>7. AskedForPanel' /\ PassesAreCurrent' /\ ResolvedChainHolds'
    BY <1>1, <1>3, <1>5 DEF AskedForPanel, PassesAreCurrent, ResolvedChainHolds
<1> QED BY <1>4, <1>6, <1>7 DEF DInv

\* Steps that leave what is on display, and what was asked for it, alone.
LEMMA SameScreen ==
    ASSUME DInv, OthersTyped',
           UNCHANGED <<place, dash, dashIn, offered, passes, graph, panelAsked>>,
           OnBoard /\ 0 \in inEditor' => 0 \in dash.panels, ~OnBoard => inEditor' = NoEditor
    PROVE  /\ PageTyped' /\ OnlyBoardsAct'
           /\ AskedForPanel' /\ PassesAreCurrent' /\ ResolvedChainHolds'
<1>1. PageTyped'
    BY DEF DInv, PageTyped, OthersTyped, StoredTyped, InputsTyped_, PanelTyped, IsBoard, Loading_, NotFound
<1>2. OnlyBoardsAct'
    BY DEF DInv, OnlyBoardsAct, OnBoard, NoPanel, NoEditor
<1>3. AskedForPanel'
    BY DEF DInv, AskedForPanel, PanelKey, Currents
<1>4. PassesAreCurrent'
  <2>1. \A q : ResolvedSoFar(q)' = ResolvedSoFar(q)
      BY DEF ResolvedSoFar
  <2> QED BY <2>1 DEF DInv, PassesAreCurrent, Currents
<1>5. ResolvedChainHolds'
    BY DEF DInv, ResolvedChainHolds, Resolving, OnBoard, LabelAnswers, Currents, Has, LabelOptions
<1> QED BY <1>1, <1>2, <1>3, <1>4, <1>5

LEMMA SavedTyped ==
    ASSUME StoredTyped, NEW b, NEW d, IsBoard(d) \/ d = NoBoard, stored' = [stored EXCEPT ![b] = d]
    PROVE  StoredTyped'
<1>1. stored' = [x \in Board |-> IF x = b THEN d ELSE stored[x]]
    BY DEF StoredTyped
<1>2. \A x \in Board : stored'[x] = NoBoard \/ IsBoard(stored'[x])
    BY <1>1 DEF StoredTyped
<1>3. stored' = [x \in Board |-> stored'[x]]
    BY <1>1
<1> QED BY <1>2, <1>3 DEF StoredTyped, IsBoard, NoBoard

LEMMA PageOthers ==
    ASSUME PageTyped
    PROVE  OthersTyped
BY DEF PageTyped, OthersTyped, StoredTyped

LEMMA SameStored ==
    ASSUME OthersTyped, UNCHANGED stored
    PROVE  StoredTyped'
<1>1. \A b \in Board : (stored[b] = NoBoard \/ IsBoard(stored[b]))' =
                       (stored[b] = NoBoard \/ IsBoard(stored[b]))
    BY DEF IsBoard, NoBoard
<1> QED BY <1>1 DEF OthersTyped, StoredTyped

LEMMA SameOthers ==
    ASSUME OthersTyped, UNCHANGED <<cached, statusAsked, statusCache, counter>>, edits' \in Nat
    PROVE  /\ UNCHANGED stored => OthersTyped'
           /\ StoredTyped' => OthersTyped'
BY SameStored DEF OthersTyped, NotRead

LEMMA LeavingKeepsDInv ==
    ASSUME DInv
    PROVE  /\ \A b \in Board \cup {List} : OpenBoard(b) => DInv'
           /\ CreateBoard => DInv'
           /\ ReloadPage => DInv'
<1> PICK n \in Nat : n = edits
    BY DEF DInv, PageTyped
<1>1. OthersTyped /\ statusAsked <= 1 /\ (UserActs => edits' \in Nat)
    BY PageOthers DEF DInv, StatusOnItsWay, UserActs
<1>2. ASSUME NEW b \in Board \cup {List}, OpenBoard(b) PROVE DInv'
  <2>1. GoTo(b) /\ UNCHANGED <<stored, cached, counter, statusCache, statusAsked>> /\ UserActs
      BY <1>2 DEF OpenBoard
  <2>2. OthersTyped' /\ statusAsked' <= 1
      BY <1>1, <2>1, SameOthers
  <2> QED BY <2>1, <2>2, GoToKeepsDInv
<1>3. ASSUME CreateBoard PROVE DInv'
  <2>1. PICK b \in Own : /\ \/ SaveDashboard(b, EmptyDashboard)
                            \/ SaveDashboard(b, FromFile)
                         /\ GoTo(b)
      BY <1>3 DEF CreateBoard
  <2>2. UNCHANGED <<cached, counter, statusCache, statusAsked>> /\ UserActs
      BY <1>3 DEF CreateBoard
  <2>3. StoredTyped'
      BY <1>1, <2>1, FilesAreBoards, SavedTyped DEF SaveDashboard, OthersTyped
  <2>4. OthersTyped' /\ statusAsked' <= 1
      BY <1>1, <2>2, <2>3, SameOthers
  <2>5. b \in Board \cup {List}
      BY DEF Board
  <2> QED BY <2>1, <2>4, <2>5, GoToKeepsDInv
<1>4. ASSUME ReloadPage PROVE DInv'
  <2>1. /\ cached' = NotRead /\ counter' = 0 /\ statusCache' = "none" /\ statusAsked' = 0
        /\ UserActs /\ GoTo(place) /\ UNCHANGED stored
      BY <1>4 DEF ReloadPage
  <2>2. StoredTyped' /\ edits' \in Nat
      BY <1>1, <2>1, SameStored
  <2>3. /\ cached' = NotRead /\ counter' \in Nat
        /\ statusCache' \in {"none", "configured", "not_configured"}
        /\ statusAsked' \in Nat /\ statusAsked' <= 1
      BY <2>1
  <2>4. OthersTyped' /\ statusAsked' <= 1
      BY <2>2, <2>3 DEF OthersTyped, NotRead
  <2>5. place \in Board \cup {List}
      BY DEF DInv, PageTyped
  <2> QED BY <2>1, <2>4, <2>5, GoToKeepsDInv
<1> QED BY <1>2, <1>3, <1>4

\* Steps of the service, other tabs and the editor that render nothing.
LEMMA BackgroundKeepsDInv ==
    ASSUME DInv, OtherTab \/ StatusExpires \/ EditPanel \/ EditorCancelled
    PROVE  DInv'
<1> PICK n \in Nat : n = edits
    BY DEF DInv, PageTyped
<1> PICK m \in Nat : m = counter
    BY DEF DInv, PageTyped
<1>1. OthersTyped /\ (UserActs => edits' \in Nat)
    BY PageOthers DEF DInv, UserActs
<1>2. UNCHANGED <<place, dash, dashIn, offered, passes, graph, panelAsked, statusAsked>>
    BY DEF OtherTab, StatusExpires, EditPanel, EditorCancelled
<1>3. CASE OtherTab
  <2>1. UNCHANGED <<cached, counter, statusCache, statusAsked, inEditor>> /\ UserActs
      BY <1>3 DEF OtherTab
  <2>2. PICK b \in Board : SaveDashboard(b, EmptyDashboard) \/ DeleteDashboard(b)
      BY <1>3 DEF OtherTab
  <2>3. StoredTyped'
      BY <1>1, <2>2, FilesAreBoards, SavedTyped DEF SaveDashboard, DeleteDashboard, OthersTyped
  <2>4. OthersTyped'
      BY <1>1, <2>1, <2>3, SameOthers
  <2>5. /\ PageTyped' /\ OnlyBoardsAct'
        /\ AskedForPanel' /\ PassesAreCurrent' /\ ResolvedChainHolds'
      BY <1>2, <2>1, <2>4, SameScreen DEF DInv, OnlyBoardsAct
  <2> QED BY <1>2, <2>1, <2>5 DEF DInv, CachedIsThere, StatusOnItsWay
<1>4. CASE StatusExpires
  <2>1. /\ UNCHANGED <<stored, cached, counter, inEditor, edits>> /\ statusCache' = "none"
        /\ "cached" \notin {dashIn.ds, graph.ds}
      BY <1>4 DEF StatusExpires
  <2>2. OthersTyped'
      BY <1>1, <1>2, <2>1, SameStored DEF OthersTyped, NotRead
  <2>3. /\ PageTyped' /\ OnlyBoardsAct'
        /\ AskedForPanel' /\ PassesAreCurrent' /\ ResolvedChainHolds'
      BY <1>2, <2>1, <2>2, SameScreen DEF DInv, OnlyBoardsAct
  <2> QED BY <1>2, <2>1, <2>3 DEF DInv, CachedIsThere, StatusOnItsWay
<1>5. CASE EditPanel
  <2>1. /\ UNCHANGED <<stored, cached, statusCache, statusAsked>> /\ UserActs /\ OnBoard
        /\ \/ counter' = counter + 1 /\ inEditor' = {counter'}
           \/ inEditor' \in {{p} : p \in dash.panels} /\ UNCHANGED counter
      BY <1>5 DEF EditPanel
  <2>2. counter' \in Nat /\ (0 \in inEditor' => 0 \in dash.panels)
      BY <2>1
  <2>3. OthersTyped'
      BY <1>1, <2>1, <2>2, SameStored DEF OthersTyped, NotRead
  <2>4. /\ PageTyped' /\ OnlyBoardsAct'
        /\ AskedForPanel' /\ PassesAreCurrent' /\ ResolvedChainHolds'
      BY <1>2, <2>1, <2>2, <2>3, SameScreen
  <2> QED BY <1>2, <2>1, <2>4 DEF DInv, CachedIsThere, StatusOnItsWay
<1>6. CASE EditorCancelled
  <2>1. /\ UNCHANGED <<stored, cached, counter, statusCache, statusAsked, edits>>
        /\ inEditor' = NoEditor
      BY <1>6 DEF EditorCancelled
  <2>2. OthersTyped'
      BY <1>1, <2>1, SameOthers
  <2>3. /\ PageTyped' /\ OnlyBoardsAct'
        /\ AskedForPanel' /\ PassesAreCurrent' /\ ResolvedChainHolds'
      BY <1>2, <2>1, <2>2, SameScreen DEF NoEditor
  <2> QED BY <1>2, <2>1, <2>3 DEF DInv, CachedIsThere, StatusOnItsWay
<1> QED BY <1>3, <1>4, <1>5, <1>6

\* Loaded boards and lists, and cards that are deleted.
LEMMA ListKeepsDInv ==
    ASSUME DInv, Loaded \/ DeleteCard
    PROVE  DInv'
<1>1. OthersTyped /\ ~(dash = Loading_ /\ OnBoard) /\ ~(place = List /\ OnBoard)
    BY PageOthers, OnBoardIs, Pages DEF DInv, OnBoard
<1>2. ~OnBoard
    BY <1>1 DEF Loaded, DeleteCard
<1>3. /\ dashIn.ds = "unmounted" /\ graph = NoPanel /\ graph.ds = "unmounted"
      /\ passes = {} /\ panelAsked = {} /\ inEditor = NoEditor
    BY <1>2 DEF DInv, OnlyBoardsAct, NoPanel
<1>4. UNCHANGED <<place, offered, passes, panelAsked, statusCache, counter, inEditor>>
    BY DEF Loaded, DeleteCard
<1>5. ASSUME UNCHANGED <<dashIn, graph, statusAsked>>, OthersTyped', ~OnBoard',
             \/ place # List /\ dash' = NotFound
             \/ place = List /\ dash' = [cards |-> dash'.cards]
             \/ place = List /\ dash' = Loading_
      PROVE  DInv'
  <2>1. PageTyped'
      BY <1>3, <1>4, <1>5 DEF DInv, PageTyped, OthersTyped, StoredTyped, InputsTyped_, PanelTyped,
          NotFound, Loading_
  <2>2. OnlyBoardsAct' /\ CachedIsThere' /\ StatusOnItsWay'
      BY <1>3, <1>4, <1>5 DEF DInv, OnlyBoardsAct, CachedIsThere, StatusOnItsWay, NoPanel, NoEditor
  <2>3. AskedForPanel' /\ PassesAreCurrent' /\ ResolvedChainHolds'
      BY <1>3, <1>4, <1>5 DEF AskedForPanel, PassesAreCurrent, ResolvedChainHolds
  <2> QED BY <2>1, <2>2, <2>3 DEF DInv
<1>6. CASE Loaded
  <2>1. /\ dash = Loading_ /\ UNCHANGED <<stored, edits>>
        /\ cached' \in IF cached = NotRead THEN SUBSET Builtin ELSE {cached}
      BY <1>6 DEF Loaded
  <2>2. cached' = NotRead \/ cached' \subseteq Builtin
      BY <1>1, <2>1 DEF OthersTyped
  <2>3. statusAsked' \in Nat => OthersTyped'
    <3>1. StoredTyped'
        BY <1>1, <2>1, SameStored
    <3> QED BY <1>1, <1>4, <2>1, <2>2, <3>1 DEF OthersTyped, NotRead
  <2>4. CASE place = List
    <3>1. dash' = ListDashboards(cached') /\ UNCHANGED <<dashIn, graph, statusAsked>>
        BY <1>6, <2>4 DEF Loaded
    <3>2. dash' = [cards |-> dash'.cards]
        BY <3>1 DEF ListDashboards
    <3>3. ~OnBoard'
        BY <3>2, Pages DEF OnBoard
    <3> QED BY <1>1, <1>5, <2>3, <2>4, <3>1, <3>2, <3>3 DEF OthersTyped
  <2>5. CASE place # List
    <3> PICK d : d = GetDashboard(place, cached')
        OBVIOUS
    <3>1. dash' = d
        BY <1>6, <2>5 DEF Loaded
    <3>2. CASE d = NotFound
      <4>1. UNCHANGED <<dashIn, graph, statusAsked>>
          BY <1>6, <2>5, <3>2 DEF Loaded
      <4>2. ~OnBoard'
          BY <3>1, <3>2, Pages DEF OnBoard
      <4> QED BY <1>1, <1>5, <2>3, <2>5, <3>1, <3>2, <4>1, <4>2 DEF OthersTyped
    <3>3. CASE d # NotFound
      <4>1. /\ dashIn' = [dashIn EXCEPT !.ds = Promised]
            /\ graph' = MountedPanel(d)
            /\ statusAsked' = IF statusCache # "none" \/ statusAsked > 0 THEN statusAsked
                              ELSE statusAsked + 1
          BY <1>6, <2>5, <3>3 DEF Loaded, GetDatasourceStatus
      <4>2. IsBoard(d)
        <5>1. place \in Board
            BY <2>5 DEF DInv, PageTyped
        <5>2. (d = stored[place] /\ d # NoBoard) \/ d = FromFile
            BY <3>3 DEF GetDashboard
        <5> QED BY <1>1, <5>1, <5>2, FilesAreBoards DEF OthersTyped, StoredTyped
      <4>3. /\ dashIn' = [ds |-> Promised, range |-> dashIn.range, cluster |-> dashIn.cluster]
            /\ Promised \in {"waiting", "cached"} /\ (Promised = "cached" <=> statusCache # "none")
          BY <4>1 DEF DInv, PageTyped, InputsTyped_, Promised
      <4>4. (InputsTyped_(dashIn))' /\ dashIn'.ds = Promised
          BY <4>3 DEF DInv, PageTyped, InputsTyped_
      <4>5. /\ graph' = [ds |-> graph'.ds, fetch |-> "idle", key |-> <<>>]
            /\ graph'.ds = IF 0 \in d.panels THEN Promised ELSE "unmounted"
          BY <4>1 DEF MountedPanel, NoPanel
      <4>6. (PanelTyped(graph))'
          BY <4>3, <4>5 DEF PanelTyped
      <4>7. statusAsked' \in Nat /\ statusAsked' <= 1 /\ (statusCache = "none" => statusAsked' = 1)
          BY <4>1 DEF DInv, PageTyped, StatusOnItsWay
      <4>8. OnBoard'
          BY <3>1, <4>2, Pages DEF OnBoard
      <4>9. PageTyped'
        <5>1. (IsBoard(dash))'
            BY <3>1, <4>2 DEF IsBoard
        <5> QED BY <1>3, <1>4, <2>3, <2>5, <4>4, <4>6, <4>7, <5>1
                DEF PageTyped, OthersTyped, StoredTyped, DInv
      <4>10. OnlyBoardsAct'
          BY <1>3, <1>4, <3>1, <4>3, <4>4, <4>5, <4>8 DEF OnlyBoardsAct, NoEditor
      <4>11. CachedIsThere' /\ StatusOnItsWay'
          BY <1>4, <4>3, <4>4, <4>5, <4>7 DEF CachedIsThere, StatusOnItsWay
      <4>12. AskedForPanel' /\ PassesAreCurrent' /\ ResolvedChainHolds'
          BY <1>3, <1>4, <4>3, <4>4, <4>5 DEF AskedForPanel, PassesAreCurrent, ResolvedChainHolds
      <4> QED BY <4>9, <4>10, <4>11, <4>12 DEF DInv
    <3> QED BY <3>2, <3>3
  <2> QED BY <2>4, <2>5
<1>7. CASE DeleteCard
  <2>1. /\ UserActs /\ place = List /\ dash # Loading_
        /\ UNCHANGED <<cached, dashIn, graph, statusAsked>>
      BY <1>7 DEF DeleteCard
  <2>2. PICK b \in dash.cards \ Builtin :
           DeleteDashboard(b) /\ dash' = [dash EXCEPT !.cards = @ \ {b}]
      BY <1>7 DEF DeleteCard
  <2>3. StoredTyped'
      BY <1>1, <2>2, SavedTyped DEF DeleteDashboard, OthersTyped
  <2>4. OthersTyped'
    <3> PICK n \in Nat : n = edits
        BY <1>1 DEF OthersTyped
    <3>1. edits' \in Nat
        BY <2>1 DEF UserActs
    <3> QED BY <1>1, <1>4, <2>1, <2>3, <3>1, SameOthers
  <2>5. dash = [cards |-> dash.cards]
      BY <2>1 DEF DInv, PageTyped
  <2>6. dash' = [cards |-> dash'.cards]
      BY <2>2, <2>5
  <2>7. ~OnBoard'
      BY <2>6, Pages DEF OnBoard
  <2> QED BY <1>5, <2>1, <2>4, <2>6, <2>7
<1> QED BY <1>6, <1>7

LEMMA RenderKeepsDInv ==
    ASSUME DInv, OnBoard, place' = place,
           NEW d, IsBoard(d), NEW in, InputsTyped_(in), in.ds # "unmounted",
           NEW p, PanelTyped(p), SamePanel(p), p.ds = "unmounted" <=> 0 \notin d.panels,
           0 \in inEditor => 0 \in d.panels, 0 \in inEditor' => 0 \in d.panels,
           Render(d, in, offered, passes, p, panelAsked),
           OthersTyped'
    PROVE  /\ PageTyped' /\ OnlyBoardsAct' /\ OnBoard' /\ dashIn' = in /\ graph'.ds = p.ds
           /\ AskedForPanel' /\ PassesAreCurrent' /\ ResolvedChainHolds'
<1>1. PageTyped /\ OnlyBoardsAct /\ place # List
    BY OnBoardIs DEF DInv
<1>2. PageTyped' /\ OnlyBoardsAct' /\ OnBoard'
    BY <1>1, RenderKeepsTyped
<1>3. dashIn' = in /\ graph'.ds = p.ds
    BY <1>1, RenderKeepsPage
<1>4. AskedForPanel'
    BY <1>1, RenderKeepsAsked DEF DInv
<1>5. PassesAreCurrent' /\ ResolvedChainHolds'
    BY RenderKeepsChain DEF DInv
<1> QED BY <1>2, <1>3, <1>4, <1>5

\* The panel that a change of the dashboard keeps or drops.
LEMMA KeptPanel ==
    ASSUME DInv, OnBoard, NEW S, 0 \in S => 0 \in dash.panels,
           NEW p, p = IF 0 \in S THEN graph ELSE NoPanel
    PROVE  PanelTyped(p) /\ SamePanel(p) /\ (p.ds = "unmounted" <=> 0 \notin S) /\ p.ds \in {graph.ds, "unmounted"}
BY DEF DInv, PageTyped, OnlyBoardsAct, PanelTyped, SamePanel, NoPanel

LEMMA ChangeKeepsDInv ==
    ASSUME DInv, StoredTyped',
           NEW d, IsBoard(d), 0 \in d.panels => 0 \in dash.panels,
           NEW in, InputsTyped_(in), in.ds = dashIn.ds,
           Change(d, in)
    PROVE  DInv'
<1> PICK n \in Nat : n = edits
    BY DEF DInv, PageTyped
<1> PICK p : p = IF 0 \in d.panels THEN graph ELSE NoPanel
    OBVIOUS
<1>1. /\ OnBoard /\ inEditor = NoEditor /\ Render(d, in, offered, passes, p, panelAsked)
      /\ UNCHANGED <<cached, counter, place, statusCache, statusAsked, inEditor>>
      /\ edits' \in Nat
    BY DEF Change, UserActs
<1>2. OthersTyped'
    BY <1>1, PageOthers, SameOthers DEF DInv
<1>3. PanelTyped(p) /\ SamePanel(p) /\ (p.ds = "unmounted" <=> 0 \notin d.panels) /\ p.ds \in {graph.ds, "unmounted"}
    BY <1>1, KeptPanel
<1>4. in.ds # "unmounted"
    BY <1>1 DEF DInv, OnlyBoardsAct
<1>5. 0 \notin inEditor /\ 0 \notin inEditor'
    BY <1>1 DEF NoEditor
<1>6. /\ PageTyped' /\ OnlyBoardsAct' /\ OnBoard' /\ dashIn' = in /\ graph'.ds = p.ds
      /\ AskedForPanel' /\ PassesAreCurrent' /\ ResolvedChainHolds'
    BY <1>1, <1>2, <1>3, <1>4, <1>5, RenderKeepsDInv
<1>7. CachedIsThere' /\ StatusOnItsWay'
    BY <1>1, <1>3, <1>6 DEF DInv, CachedIsThere, StatusOnItsWay
<1> QED BY <1>6, <1>7 DEF DInv

LEMMA ChangesKeepDInv ==
    ASSUME DInv, ChooseVariable \/ ChooseRange \/ PickCluster \/ RemovePanel \/ Duplicate \/ HandleSave
    PROVE  DInv'
<1>1. OnBoard /\ IsBoard(dash) /\ InputsTyped_(dashIn) /\ OthersTyped /\ place \in Board
    BY OnBoardIs, PageOthers DEF ChooseVariable, ChooseRange, PickCluster, RemovePanel, Duplicate,
       HandleSave, DInv, PageTyped
<1>2. ASSUME NEW d, IsBoard(d), 0 \in d.panels => 0 \in dash.panels, Persist(d)
      PROVE  DInv'
  <2>1. StoredTyped'
      BY <1>1, <1>2, SavedTyped DEF Persist, SaveDashboard, OthersTyped
  <2> QED BY <1>1, <1>2, <2>1, ChangeKeepsDInv DEF Persist
<1>3. \A S : /\ [dash EXCEPT !.panels = S] = [vars |-> dash.vars, panels |-> S]
             /\ IsBoard([vars |-> dash.vars, panels |-> S])
    BY <1>1 DEF IsBoard
<1>4. CASE ChooseVariable
  <2>0. PICK i \in DOMAIN dash.vars :
            \E v : Persist([dash EXCEPT !.vars[i] = [current |-> v, by |-> "user"]])
      BY <1>4 DEF ChooseVariable
  <2>1. PICK v : Persist([dash EXCEPT !.vars[i] = [current |-> v, by |-> "user"]])
      BY <2>0
  <2> PICK u : u = [current |-> v, by |-> "user"]
      OBVIOUS
  <2> PICK vs : vs = [dash.vars EXCEPT ![i] = u]
      OBVIOUS
  <2>2. [dash EXCEPT !.vars[i] = u] = [vars |-> vs, panels |-> dash.panels]
      BY <1>1 DEF IsBoard
  <2>3. DOMAIN vs = DOMAIN dash.vars /\ vs = [j \in DOMAIN vs |-> IF j = i THEN u ELSE dash.vars[j]]
      BY <1>1 DEF IsBoard
  <2>4. \A j \in DOMAIN vs : /\ vs[j] = [current |-> vs[j].current, by |-> vs[j].by]
                             /\ vs[j].by \in {"file", "user", "runtime"}
      BY <1>1, <2>3 DEF IsBoard
  <2>5. vs = [j \in DOMAIN vs |-> [current |-> vs[j].current, by |-> vs[j].by]]
    <3>1. vs = [j \in DOMAIN vs |-> vs[j]]
        BY <2>3
    <3> QED BY <2>4, <3>1
  <2>6. IsBoard([vars |-> vs, panels |-> dash.panels])
      BY <1>1, <2>3, <2>4, <2>5 DEF IsBoard
  <2> QED BY <1>2, <2>1, <2>2, <2>6
<1>5. CASE ChooseRange
  <2> PICK in : in = [dashIn EXCEPT !.range = "longer"]
      OBVIOUS
  <2>1. Change(dash, in) /\ UNCHANGED stored
      BY <1>5 DEF ChooseRange
  <2>2. InputsTyped_(in) /\ in.ds = dashIn.ds
    <3>1. in = [ds |-> dashIn.ds, range |-> "longer", cluster |-> dashIn.cluster]
        BY <1>1 DEF InputsTyped_
    <3> QED BY <1>1, <3>1 DEF InputsTyped_
  <2> QED BY <1>1, <2>1, <2>2, SameStored, ChangeKeepsDInv
<1>6. CASE PickCluster
  <2>1. PICK c \in DashCluster : Change(dash, [dashIn EXCEPT !.cluster = c]) /\ UNCHANGED stored
      BY <1>6 DEF PickCluster
  <2> PICK in : in = [dashIn EXCEPT !.cluster = c]
      OBVIOUS
  <2>2. InputsTyped_(in) /\ in.ds = dashIn.ds
    <3>1. in = [ds |-> dashIn.ds, range |-> dashIn.range, cluster |-> c]
        BY <1>1 DEF InputsTyped_
    <3> QED BY <1>1, <3>1 DEF InputsTyped_
  <2> QED BY <1>1, <2>1, <2>2, SameStored, ChangeKeepsDInv
<1>7. CASE RemovePanel
  <2>1. PICK q \in dash.panels : Persist([dash EXCEPT !.panels = dash.panels \ {q}])
      BY <1>7 DEF RemovePanel
  <2> PICK d : d = [vars |-> dash.vars, panels |-> dash.panels \ {q}]
      OBVIOUS
  <2> QED BY <1>2, <1>3, <2>1
<1>8. CASE Duplicate
  <2> PICK n \in Nat : n = edits
      BY DEF DInv, PageTyped
  <2>1. Persist([dash EXCEPT !.panels = dash.panels \cup {10 + n}])
      BY <1>8 DEF Duplicate
  <2> PICK d : d = [vars |-> dash.vars, panels |-> dash.panels \cup {10 + n}]
      OBVIOUS
  <2>2. 0 \in d.panels => 0 \in dash.panels
      OBVIOUS
  <2> QED BY <1>2, <1>3, <2>1, <2>2
<1>9. CASE HandleSave
    BY <1>1, <1>2, <1>9 DEF HandleSave
<1> QED BY <1>4, <1>5, <1>6, <1>7, <1>8, <1>9

LEMMA PanelSaveKeepsDInv ==
    ASSUME DInv, HandlePanelSave
    PROVE  DInv'
<1> PICK d : d = [dash EXCEPT !.panels = dash.panels \cup inEditor]
    OBVIOUS
<1>1. /\ inEditor # NoEditor /\ inEditor' = NoEditor
      /\ Render(d, dashIn, offered, passes, graph, panelAsked) /\ SaveDashboard(place, d)
      /\ UNCHANGED <<cached, counter, place, statusCache, statusAsked, edits>>
    BY DEF HandlePanelSave
<1>2. OnBoard /\ IsBoard(dash) /\ InputsTyped_(dashIn) /\ PanelTyped(graph) /\ OthersTyped
    BY <1>1, OnBoardIs, PageOthers DEF DInv, OnlyBoardsAct, PageTyped
<1>3. d = [vars |-> dash.vars, panels |-> dash.panels \cup inEditor] /\ IsBoard(d)
    BY <1>2 DEF IsBoard
<1>4. 0 \in d.panels <=> 0 \in dash.panels
    BY <1>2, <1>3 DEF DInv, OnlyBoardsAct
<1>5. OthersTyped'
  <2>1. StoredTyped'
      BY <1>1, <1>2, <1>3, SavedTyped DEF SaveDashboard, OthersTyped
  <2> QED BY <1>1, <1>2, <2>1, SameOthers DEF OthersTyped
<1>6. /\ SamePanel(graph) /\ (graph.ds = "unmounted" <=> 0 \notin d.panels)
      /\ (0 \in inEditor => 0 \in d.panels) /\ 0 \notin inEditor' /\ dashIn.ds # "unmounted"
    BY <1>1, <1>2, <1>4 DEF SamePanel, DInv, OnlyBoardsAct, NoEditor
<1>7. /\ PageTyped' /\ OnlyBoardsAct' /\ OnBoard' /\ dashIn' = dashIn /\ graph'.ds = graph.ds
      /\ AskedForPanel' /\ PassesAreCurrent' /\ ResolvedChainHolds'
    BY <1>1, <1>2, <1>3, <1>5, <1>6, RenderKeepsDInv
<1>8. CachedIsThere' /\ StatusOnItsWay'
    BY <1>1, <1>7 DEF DInv, CachedIsThere, StatusOnItsWay
<1> QED BY <1>7, <1>8 DEF DInv

\* The dashboard and its panel hear of the status they wait for.
LEMMA GiveStatusKeeps ==
    ASSUME DInv, NEW from \in {"waiting", "cached"}, NEW s \in {"configured", "not_configured"},
           GiveStatus(from, s), OthersTyped', UNCHANGED <<place, inEditor>>
    PROVE  /\ PageTyped' /\ OnlyBoardsAct'
           /\ AskedForPanel' /\ PassesAreCurrent' /\ ResolvedChainHolds'
           /\ dashIn'.ds = Take(dashIn.ds, from, s) /\ graph'.ds = Take(graph.ds, from, s)
<1>1. CASE ~OnBoard
  <2>1. UNCHANGED <<dash, dashIn, offered, passes, graph, panelAsked>>
      BY <1>1 DEF GiveStatus
  <2>2. dashIn.ds = "unmounted" /\ graph.ds = "unmounted" /\ inEditor' = NoEditor
      BY <1>1 DEF DInv, OnlyBoardsAct, NoPanel
  <2>3. Take(dashIn.ds, from, s) = dashIn.ds /\ Take(graph.ds, from, s) = graph.ds
      BY <2>2 DEF Take
  <2> QED BY <1>1, <2>1, <2>2, <2>3, SameScreen
<1>2. CASE OnBoard
  <2> PICK a : a = Take(dashIn.ds, from, s)
      OBVIOUS
  <2> PICK b : b = Take(graph.ds, from, s)
      OBVIOUS
  <2> PICK in : in = [dashIn EXCEPT !.ds = a]
      OBVIOUS
  <2> PICK p : p = [graph EXCEPT !.ds = b]
      OBVIOUS
  <2>1. Render(dash, in, offered, passes, p, panelAsked)
      BY <1>2 DEF GiveStatus
  <2>2. /\ IsBoard(dash) /\ InputsTyped_(dashIn) /\ PanelTyped(graph)
        /\ dashIn.ds # "unmounted" /\ (graph.ds = "unmounted" <=> 0 \notin dash.panels)
        /\ (0 \in inEditor => 0 \in dash.panels)
      BY <1>2, OnBoardIs DEF DInv, PageTyped, OnlyBoardsAct
  <2>3. /\ a = (IF dashIn.ds = from THEN s ELSE dashIn.ds)
        /\ b = (IF graph.ds = from THEN s ELSE graph.ds)
      BY DEF Take
  <2>4. InputsTyped_(in) /\ in.ds = a /\ a # "unmounted"
    <3>1. in = [ds |-> a, range |-> dashIn.range, cluster |-> dashIn.cluster]
        BY <2>2 DEF InputsTyped_
    <3> QED BY <2>2, <2>3, <3>1 DEF InputsTyped_
  <2>5. /\ PanelTyped(p) /\ SamePanel(p) /\ p.ds = b
        /\ (p.ds = "unmounted" <=> 0 \notin dash.panels)
    <3>1. p = [ds |-> b, fetch |-> graph.fetch, key |-> graph.key]
        BY <2>2 DEF PanelTyped
    <3> QED BY <2>2, <2>3, <3>1 DEF PanelTyped, SamePanel
  <2>6. /\ PageTyped' /\ OnlyBoardsAct' /\ OnBoard' /\ dashIn' = in /\ graph'.ds = p.ds
        /\ AskedForPanel' /\ PassesAreCurrent' /\ ResolvedChainHolds'
      BY <1>2, <2>1, <2>2, <2>4, <2>5, RenderKeepsDInv
  <2> QED BY <2>4, <2>5, <2>6
<1> QED BY <1>1, <1>2

LEMMA StatusKeepsDInv ==
    ASSUME DInv, DashStatusAnswered \/ CachedStatusTaken
    PROVE  DInv'
<1>1. OthersTyped /\ UNCHANGED <<stored, cached, counter, place, inEditor, edits>>
    BY PageOthers DEF DInv, DashStatusAnswered, CachedStatusTaken
<1>2. StoredTyped'
    BY <1>1, SameStored
<1>3. CASE DashStatusAnswered
  <2> PICK s \in {"configured", "not_configured"} : statusCache' = s
      BY <1>3 DEF DashStatusAnswered
  <2>1. /\ statusAsked = 1 /\ statusAsked' = 0 /\ GiveStatus("waiting", s)
    <3>1. /\ statusAsked > 0 /\ statusAsked' = statusAsked - 1 /\ GiveStatus("waiting", statusCache')
        BY <1>3 DEF DashStatusAnswered
    <3>2. statusAsked \in Nat /\ statusAsked <= 1
        BY DEF DInv, PageTyped, StatusOnItsWay
    <3> QED BY <3>1, <3>2
  <2>2. OthersTyped'
      BY <1>1, <1>2, <2>1 DEF OthersTyped, NotRead
  <2>3. /\ PageTyped' /\ OnlyBoardsAct'
        /\ AskedForPanel' /\ PassesAreCurrent' /\ ResolvedChainHolds'
        /\ dashIn'.ds = Take(dashIn.ds, "waiting", s) /\ graph'.ds = Take(graph.ds, "waiting", s)
      BY <1>1, <2>1, <2>2, GiveStatusKeeps
  <2>4. CachedIsThere' /\ StatusOnItsWay'
      BY <2>1, <2>3 DEF CachedIsThere, StatusOnItsWay, Take
  <2> QED BY <2>3, <2>4 DEF DInv
<1>4. CASE CachedStatusTaken
  <2>1. /\ GiveStatus("cached", statusCache) /\ UNCHANGED <<statusCache, statusAsked>>
        /\ "cached" \in {dashIn.ds, graph.ds}
      BY <1>4 DEF CachedStatusTaken
  <2>2. statusCache \in {"configured", "not_configured"}
      BY <2>1 DEF DInv, CachedIsThere, PageTyped
  <2>3. OthersTyped'
      BY <1>1, <1>2, <2>1 DEF OthersTyped, NotRead
  <2>4. /\ PageTyped' /\ OnlyBoardsAct'
        /\ AskedForPanel' /\ PassesAreCurrent' /\ ResolvedChainHolds'
        /\ dashIn'.ds = Take(dashIn.ds, "cached", statusCache)
        /\ graph'.ds = Take(graph.ds, "cached", statusCache)
      BY <1>1, <2>1, <2>2, <2>3, GiveStatusKeeps
  <2>5. CachedIsThere' /\ StatusOnItsWay'
      BY <2>1, <2>2, <2>4 DEF DInv, CachedIsThere, StatusOnItsWay, Take
  <2> QED BY <2>4, <2>5 DEF DInv
<1> QED BY <1>3, <1>4

LEMMA RefreshKeepsDInv ==
    ASSUME DInv, RefreshNow
    PROVE  DInv'
<1> PICK n \in Nat : n = edits
    BY DEF DInv, PageTyped
<1>1. /\ OnBoard /\ inEditor = NoEditor /\ edits' \in Nat
      /\ graph' = MountedPanel(dash) /\ panelAsked' = Cancel(panelAsked)
      /\ UNCHANGED <<stored, cached, counter, place, dash, dashIn, offered, passes, statusCache,
                     inEditor>>
    BY DEF RefreshNow, UserActs
<1>2. /\ 0 \in dash.panels => statusAsked' = IF statusCache # "none" \/ statusAsked > 0
                                            THEN statusAsked ELSE statusAsked + 1
      /\ 0 \notin dash.panels => statusAsked' = statusAsked
    BY DEF RefreshNow, GetDatasourceStatus
<1>3. /\ statusAsked' \in Nat /\ statusAsked' <= 1 /\ (statusAsked = 1 => statusAsked' = 1)
      /\ 0 \in dash.panels /\ statusCache = "none" => statusAsked' = 1
    BY <1>2 DEF DInv, PageTyped, StatusOnItsWay
<1>4. /\ Promised \in {"waiting", "cached"} /\ (Promised = "cached" <=> statusCache # "none")
      /\ graph' = [ds |-> graph'.ds, fetch |-> "idle", key |-> <<>>]
      /\ graph'.ds = IF 0 \in dash.panels THEN Promised ELSE "unmounted"
    BY <1>1 DEF MountedPanel, NoPanel, Promised
<1>5. /\ \A r \in panelAsked' : r = [key |-> r.key, cancelled |-> r.cancelled] /\ r.cancelled
  <2>1. \A q \in panelAsked : \A b \in BOOLEAN :
            [q EXCEPT !.cancelled = b] = [key |-> q.key, cancelled |-> b]
      BY DEF DInv, PageTyped
  <2> QED BY <1>1, <2>1 DEF Cancel
<1>6. OthersTyped'
  <2>1. OthersTyped /\ StoredTyped'
      BY <1>1, PageOthers, SameStored DEF DInv
  <2> QED BY <1>1, <1>3, <2>1 DEF OthersTyped, NotRead
<1>7. OnBoard' /\ (IsBoard(dash))' /\ (InputsTyped_(dashIn))' /\ place' # List
    BY <1>1, OnBoardIs DEF DInv, OnBoard, IsBoard, InputsTyped_, PageTyped
<1>8. (PanelTyped(graph))'
    BY <1>4 DEF PanelTyped
<1>9. PageTyped'
    BY <1>1, <1>5, <1>6, <1>7, <1>8 DEF DInv, PageTyped, OthersTyped, StoredTyped
<1>10. OnlyBoardsAct'
    BY <1>1, <1>4, <1>7 DEF DInv, OnlyBoardsAct, NoEditor
<1>11. CachedIsThere' /\ StatusOnItsWay'
    BY <1>1, <1>3, <1>4 DEF DInv, CachedIsThere, StatusOnItsWay
<1>12. AskedForPanel'
    BY <1>4, <1>5 DEF AskedForPanel
<1>13. PassesAreCurrent'
  <2>1. \A q : ResolvedSoFar(q)' = ResolvedSoFar(q)
      BY DEF ResolvedSoFar
  <2> QED BY <1>1, <2>1 DEF DInv, PassesAreCurrent, Currents
<1>14. ResolvedChainHolds'
    BY <1>1 DEF DInv, ResolvedChainHolds, Resolving, OnBoard, LabelAnswers, Currents, Has, LabelOptions
<1> QED BY <1>9, <1>10, <1>11, <1>12, <1>13, <1>14 DEF DInv

\* The panel shows the data of an answer.
LEMMA DataShown ==
    ASSUME NEW g, PanelTyped(g), NEW k
    PROVE  [g EXCEPT !.fetch = "loaded", !.key = k] = [ds |-> g.ds, fetch |-> "loaded", key |-> k]
<1>1. DOMAIN g = {"ds", "fetch", "key"}
    BY DEF PanelTyped
<1> PICK h : h = [g EXCEPT !.fetch = "loaded"]
    OBVIOUS
<1>2. h = [f \in {"ds", "fetch", "key"} |-> IF f = "fetch" THEN "loaded" ELSE g[f]]
    BY <1>1
<1>3. [h EXCEPT !.key = k] = [f \in {"ds", "fetch", "key"} |-> IF f = "key" THEN k ELSE h[f]]
    BY <1>2
<1>4. \A f \in {"ds", "fetch", "key"} :
          (IF f = "key" THEN k ELSE h[f])
              = IF f = "ds" THEN g.ds ELSE IF f = "fetch" THEN "loaded" ELSE k
    BY <1>2
<1>5. [ds |-> g.ds, fetch |-> "loaded", key |-> k]
          = [f \in {"ds", "fetch", "key"} |->
                IF f = "ds" THEN g.ds ELSE IF f = "fetch" THEN "loaded" ELSE k]
    OBVIOUS
<1>6. [g EXCEPT !.fetch = "loaded", !.key = k] = [h EXCEPT !.key = k]
    OBVIOUS
<1> QED BY <1>3, <1>4, <1>5, <1>6

LEMMA PanelAnswerKeepsDInv ==
    ASSUME DInv, PanelAnswered
    PROVE  DInv'
<1>1. UNCHANGED <<stored, cached, counter, place, dash, dashIn, offered, passes,
                   statusCache, statusAsked, inEditor, edits>>
    BY DEF PanelAnswered
<1>2. PICK r \in panelAsked :
         /\ panelAsked' = panelAsked \ {r}
         /\ graph' \in IF r.cancelled THEN {graph}
                       ELSE {[graph EXCEPT !.fetch = "loaded", !.key = r.key],
                             [graph EXCEPT !.fetch = "errored"]}
    BY DEF PanelAnswered
<1>3. OnBoard /\ OnBoard'
    BY <1>1, <1>2 DEF DInv, OnlyBoardsAct, OnBoard
<1>4. PanelTyped(graph) /\ place # List /\ IsBoard(dash)
    BY <1>3, OnBoardIs DEF DInv, PageTyped
<1>5. /\ graph' = [ds |-> graph.ds, fetch |-> graph'.fetch, key |-> graph'.key]
      /\ graph'.fetch \in {"idle", "loading", "loaded", "errored"}
      /\ \/ graph' = graph
         \/ graph'.fetch = "errored"
         \/ ~r.cancelled /\ graph'.key = r.key
  <2>1. [graph EXCEPT !.fetch = "errored"] = [ds |-> graph.ds, fetch |-> "errored", key |-> graph.key]
      BY <1>4 DEF PanelTyped
  <2>2. \A k : [graph EXCEPT !.fetch = "loaded", !.key = k] = [ds |-> graph.ds, fetch |-> "loaded", key |-> k]
      BY <1>4, DataShown
  <2> QED BY <1>2, <1>4, <2>1, <2>2 DEF PanelTyped
<1>6. (PanelTyped(graph))'
    BY <1>4, <1>5 DEF PanelTyped
<1>7. PageTyped'
  <2>1. OthersTyped'
      BY <1>1, PageOthers, SameOthers DEF DInv, PageTyped
  <2>2. (IsBoard(dash))' /\ (InputsTyped_(dashIn))'
      BY <1>1, <1>4 DEF IsBoard, InputsTyped_, DInv, PageTyped
  <2> QED BY <1>1, <1>2, <1>4, <1>6, <2>1, <2>2 DEF DInv, PageTyped, OthersTyped, StoredTyped
<1>8. OnlyBoardsAct'
    BY <1>1, <1>3, <1>5 DEF DInv, OnlyBoardsAct
<1>9. CachedIsThere' /\ StatusOnItsWay'
    BY <1>1, <1>5 DEF DInv, CachedIsThere, StatusOnItsWay
<1>10. AskedForPanel'
    BY <1>1, <1>2, <1>5 DEF DInv, AskedForPanel, PanelKey, Currents
<1>11. PassesAreCurrent'
  <2>1. \A q : ResolvedSoFar(q)' = ResolvedSoFar(q)
      BY DEF ResolvedSoFar
  <2> QED BY <1>1, <2>1 DEF DInv, PassesAreCurrent, Currents
<1>12. ResolvedChainHolds'
    BY <1>1 DEF DInv, ResolvedChainHolds, Resolving, OnBoard, LabelAnswers, Currents, Has, LabelOptions
<1> QED BY <1>7, <1>8, <1>9, <1>10, <1>11, <1>12 DEF DInv

-----------------------------------------------------------------------------
(* Passes *)

\* There is always an option to fall back on.
LEMMA SomeOption ==
    ASSUME NEW c \in DashCluster, NEW before, NEW values \in LabelAnswers(c, before), NEW current
    PROVE  LET options == LabelOptions(values) IN Has(options, Effective(current, options))
<1> PICK options : options = LabelOptions(values)
    OBVIOUS
<1>1. PICK vs : IsSeq(vs) /\ (values = <<>> \/ values = vs \/ values = <<AllValue>> \o vs)
  <2> PICK vs : vs = IF before \in DOMAIN Labels[c] THEN Labels[c][before] ELSE <<>>
      OBVIOUS
  <2>1. IsSeq(vs)
    <3>1. CASE before \in DOMAIN Labels[c]
      <4>1. vs = Labels[c][before]
          BY <3>1
      <4>2. Labels[c][before] \in Seq({Labels[c][before][k] : k \in DOMAIN Labels[c][before]})
          BY <3>1
      <4> QED BY <4>1, <4>2 DEF IsSeq
    <3>2. CASE before \notin DOMAIN Labels[c]
        BY <3>2, EmptySeq DEF IsSeq
    <3> QED BY <3>1, <3>2
  <2>2. values = <<>> \/ values = vs \/ values = <<AllValue>> \o vs
      BY DEF LabelAnswers
  <2> QED BY <2>1, <2>2
<1>2. 1 \in DOMAIN options
  <2>1. CASE values = <<>>
    <3>1. options = <<AllValue>>
        BY <2>1 DEF LabelOptions, Static
    <3> QED BY <3>1
  <2>2. CASE values # <<>> /\ values = vs
    <3>1. options = vs
        BY <2>2 DEF LabelOptions
    <3> PICK S : vs \in Seq(S)
        BY <1>1 DEF IsSeq
    <3>2. Len(vs) \in Nat /\ DOMAIN vs = 1..Len(vs) /\ Len(vs) # 0
        BY <2>2, LenProperties, EmptySeq
    <3> QED BY <3>1, <3>2
  <2>3. CASE values # <<>> /\ values = <<AllValue>> \o vs
    <3>1. options = <<AllValue>> \o vs
        BY <2>3 DEF LabelOptions
    <3> PICK S : S = {vs[k] : k \in DOMAIN vs} \cup {AllValue}
        OBVIOUS
    <3>2. vs \in Seq(S)
      <4>1. vs \in Seq({vs[k] : k \in DOMAIN vs})
          BY <1>1 DEF IsSeq
      <4> PICK n \in Nat : vs \in [1..n -> {vs[k] : k \in DOMAIN vs}]
          BY <4>1, SeqDef
      <4>2. vs \in [1..n -> S]
          OBVIOUS
      <4> QED BY <4>2, SeqDef
    <3>3. <<AllValue>> \in Seq(S) /\ Len(<<AllValue>>) = 1
        OBVIOUS
    <3>4. options \in Seq(S) /\ Len(options) = 1 + Len(vs) /\ Len(vs) \in Nat
        BY <3>1, <3>2, <3>3, ConcatProperties, LenProperties
    <3>5. DOMAIN options = 1..(1 + Len(vs))
        BY <3>4, LenProperties
    <3> QED BY <3>4, <3>5
  <2> QED BY <1>1, <2>1, <2>2, <2>3
<1>3. Has(options, Effective(current, options))
    BY <1>2 DEF Has, Effective
<1> QED BY <1>3

\* The next variable of a pass.
LEMMA NextResolved ==
    ASSUME NEW q, ResolvedSoFar(q), Len(q.cascade) < Len(q.vars),
           NEW values \in LabelAnswers(q.cluster, q.cascade),
           NEW options, options = LabelOptions(values), NEW n \in Nat, n = Len(q.cascade),
           NEW e, e = Effective(q.vars[n + 1], options),
           NEW r, r = [vars |-> q.vars, cluster |-> q.cluster, cascade |-> Append(q.cascade, e),
                       options |-> Append(q.options, options)]
    PROVE  ResolvedSoFar(r)
<1>1. /\ IsSeq(q.vars) /\ IsSeq(q.cascade) /\ IsSeq(q.options) /\ Len(q.options) = n
      /\ \A i \in 1..n :
         /\ q.cascade[i] = Effective(q.vars[i], q.options[i])
         /\ \E v \in LabelAnswers(q.cluster, SubSeq(q.cascade, 1, i - 1)) :
              q.options[i] = LabelOptions(v)
    BY DEF ResolvedSoFar
<1> PICK a, b : a = Append(q.cascade, e) /\ b = Append(q.options, options)
    OBVIOUS
<1>2. /\ IsSeq(a) /\ Len(a) = n + 1
      /\ \A i \in 1..n : a[i] = q.cascade[i] /\ SubSeq(a, 1, i - 1) = SubSeq(q.cascade, 1, i - 1)
      /\ a[n + 1] = e /\ SubSeq(a, 1, (n + 1) - 1) = q.cascade
    BY <1>1, AppendAny
<1>3. IsSeq(b) /\ Len(b) = n + 1 /\ (\A i \in 1..n : b[i] = q.options[i]) /\ b[n + 1] = options
    BY <1>1, AppendAny
<1>4. Len(q.vars) \in Nat
    BY <1>1, LenProperties DEF IsSeq
<1>5. ASSUME NEW i \in 1..(n + 1)
      PROVE  /\ a[i] = Effective(q.vars[i], b[i])
             /\ \E v \in LabelAnswers(q.cluster, SubSeq(a, 1, i - 1)) : b[i] = LabelOptions(v)
  <2>1. CASE i \in 1..n
    <3>1. a[i] = q.cascade[i] /\ SubSeq(a, 1, i - 1) = SubSeq(q.cascade, 1, i - 1)
        BY <1>2, <2>1
    <3>2. b[i] = q.options[i]
        BY <1>3, <2>1
    <3>3. /\ q.cascade[i] = Effective(q.vars[i], q.options[i])
          /\ \E v \in LabelAnswers(q.cluster, SubSeq(q.cascade, 1, i - 1)) :
               q.options[i] = LabelOptions(v)
        BY <1>1, <2>1
    <3> PICK v \in LabelAnswers(q.cluster, SubSeq(q.cascade, 1, i - 1)) :
               q.options[i] = LabelOptions(v)
        BY <3>3
    <3>4. v \in LabelAnswers(q.cluster, SubSeq(a, 1, i - 1))
        BY <3>1
    <3>5. a[i] = Effective(q.vars[i], b[i])
        BY <3>1, <3>2, <3>3
    <3>6. b[i] = LabelOptions(v)
        BY <3>2
    <3> QED BY <3>4, <3>5, <3>6
  <2>2. CASE i = n + 1
    <3>1. SubSeq(a, 1, i - 1) = q.cascade /\ a[i] = e /\ b[i] = options
        BY <1>2, <1>3, <2>2
    <3>2. \E v \in LabelAnswers(q.cluster, SubSeq(a, 1, i - 1)) : b[i] = LabelOptions(v)
      <4>1. values \in LabelAnswers(q.cluster, SubSeq(a, 1, i - 1))
          BY <3>1
      <4>2. b[i] = LabelOptions(values)
          BY <3>1
      <4> QED BY <4>1, <4>2, Zenon
    <3>3. a[i] = Effective(q.vars[i], b[i])
        BY <2>2, <3>1
    <3> QED BY <3>2, <3>3
  <2>3. i \in 1..n \/ i = n + 1
      OBVIOUS
  <2> QED BY <2>1, <2>2, <2>3
<1>6. /\ r = [vars |-> r.vars, cluster |-> r.cluster, cascade |-> r.cascade, options |-> r.options]
      /\ r.vars = q.vars /\ r.cluster = q.cluster /\ r.cascade = a /\ r.options = b
    OBVIOUS
<1>7. Len(a) = Len(b) /\ Len(a) <= Len(q.vars)
    BY <1>2, <1>3, <1>4
<1> QED BY <1>1, <1>2, <1>3, <1>5, <1>6, <1>7 DEF ResolvedSoFar

Extended(q, a, b) == [q EXCEPT !.cascade = a, !.options = b]

LEMMA PassExtended ==
    ASSUME NEW q, ResolvedSoFar(q), NEW a, NEW b,
           NEW r, r = [vars |-> q.vars, cluster |-> q.cluster, cascade |-> a, options |-> b]
    PROVE  Extended(q, a, b) = r
<1>1. DOMAIN q = {"vars", "cluster", "cascade", "options"}
    BY DEF ResolvedSoFar
<1> PICK h : h = [q EXCEPT !.cascade = a]
    OBVIOUS
<1>2. h = [f \in {"vars", "cluster", "cascade", "options"} |-> IF f = "cascade" THEN a ELSE q[f]]
    BY <1>1
<1>3. [h EXCEPT !.options = b]
        = [f \in {"vars", "cluster", "cascade", "options"} |-> IF f = "options" THEN b ELSE h[f]]
    BY <1>2
<1>4. \A f \in {"vars", "cluster", "cascade", "options"} :
          (IF f = "options" THEN b ELSE h[f])
              = IF f = "options" THEN b ELSE IF f = "cascade" THEN a ELSE q[f]
    BY <1>2
<1>5. [vars |-> q.vars, cluster |-> q.cluster, cascade |-> a, options |-> b]
          = [f \in {"vars", "cluster", "cascade", "options"} |->
               IF f = "options" THEN b ELSE IF f = "cascade" THEN a ELSE q[f]]
    OBVIOUS
<1>6. [q EXCEPT !.cascade = a, !.options = b] = [h EXCEPT !.options = b]
    OBVIOUS
<1> QED BY <1>3, <1>4, <1>5, <1>6 DEF Extended

LEMMA LabelsKeepDInv ==
    ASSUME DInv, LabelsAnswered
    PROVE  DInv'
<1>1. UNCHANGED <<stored, cached, counter, place, dash, dashIn, offered, graph, panelAsked,
                  statusCache, statusAsked, inEditor, edits>>
    BY DEF LabelsAnswered
<1>2. PICK q \in passes : Len(q.cascade) < Len(q.vars) /\
         \E values \in LabelAnswers(q.cluster, q.cascade) :
           passes' = (passes \ {q}) \cup
             {[q EXCEPT !.cascade = Append(@, Effective(q.vars[Len(@) + 1], LabelOptions(values))),
                        !.options = Append(@, LabelOptions(values))]}
    BY DEF LabelsAnswered
<1>3. PICK values \in LabelAnswers(q.cluster, q.cascade) :
           passes' = (passes \ {q}) \cup
             {[q EXCEPT !.cascade = Append(q.cascade, Effective(q.vars[Len(q.cascade) + 1], LabelOptions(values))),
                        !.options = Append(q.options, LabelOptions(values))]}
    BY <1>2
<1> PICK options : options = LabelOptions(values)
    OBVIOUS
<1>4. /\ ResolvedSoFar(q) /\ dashIn.ds = "configured" /\ q.vars = Currents(dash)
      /\ q.cluster = dashIn.cluster
    BY DEF DInv, PassesAreCurrent
<1>5. Len(q.cascade) \in Nat
    BY <1>4, LenProperties DEF ResolvedSoFar, IsSeq
<1> PICK n \in Nat : n = Len(q.cascade)
    BY <1>5
<1> PICK e : e = Effective(q.vars[n + 1], options)
    OBVIOUS
<1> PICK r : r = [vars |-> q.vars, cluster |-> q.cluster, cascade |-> Append(q.cascade, e),
                  options |-> Append(q.options, options)]
    OBVIOUS
<1>6. passes' = (passes \ {q}) \cup {r}
  <2> PICK a, b : a = Append(q.cascade, e) /\ b = Append(q.options, options)
      OBVIOUS
  <2>1. [q EXCEPT !.cascade = a, !.options = b] = r
    <3>1. r = [vars |-> q.vars, cluster |-> q.cluster, cascade |-> a, options |-> b]
        OBVIOUS
    <3>2. Extended(q, a, b) = r
      <4>1. ResolvedSoFar(q)
          BY <1>4
      <4> QED BY ONLY <3>1, <4>1, PassExtended, Zenon
    <3> QED BY <3>2 DEF Extended
  <2>2. passes' = (passes \ {q}) \cup {[q EXCEPT !.cascade = a, !.options = b]}
      BY <1>3
  <2> QED BY <2>1, <2>2
<1>7. ResolvedSoFar(r)
    BY <1>2, <1>4, NextResolved
<1>8. OnBoard /\ OnBoard'
    BY <1>1 DEF DInv, OnlyBoardsAct, OnBoard
<1>9. PageTyped'
  <2>1. OthersTyped'
      BY <1>1, PageOthers, SameOthers DEF DInv, PageTyped
  <2>2. (IsBoard(dash))' /\ (InputsTyped_(dashIn))' /\ (PanelTyped(graph))' /\ place # List
      BY <1>1, <1>8, OnBoardIs DEF IsBoard, InputsTyped_, PanelTyped, DInv, PageTyped
  <2> QED BY <1>1, <2>1, <2>2 DEF DInv, PageTyped, OthersTyped, StoredTyped
<1>10. OnlyBoardsAct'
    BY <1>1, <1>8 DEF DInv, OnlyBoardsAct
<1>11. CachedIsThere' /\ StatusOnItsWay'
    BY <1>1 DEF DInv, CachedIsThere, StatusOnItsWay
<1>12. AskedForPanel'
    BY <1>1 DEF DInv, AskedForPanel, PanelKey, Currents
<1>13. PassesAreCurrent'
  <2>1. \A x : ResolvedSoFar(x)' = ResolvedSoFar(x)
      BY DEF ResolvedSoFar
  <2>2. ASSUME NEW x \in passes'
        PROVE  /\ ResolvedSoFar(x)
               /\ dashIn.ds = "configured"
               /\ x.vars = Currents(dash) /\ x.cluster = dashIn.cluster
    <3>1. CASE x \in passes
        BY <3>1 DEF DInv, PassesAreCurrent
    <3>2. CASE x = r
      <4>1. r.vars = q.vars /\ r.cluster = q.cluster
          OBVIOUS
      <4> QED BY <1>4, <1>7, <3>2, <4>1
    <3> QED BY <1>6, <3>1, <3>2
  <2> QED BY <1>1, <2>1, <2>2 DEF PassesAreCurrent, Currents
<1>14. ResolvedChainHolds'
    BY <1>6 DEF ResolvedChainHolds, Resolving
<1> QED BY <1>9, <1>10, <1>11, <1>12, <1>13, <1>14 DEF DInv

\* What a pass that ends writes back is what it resolved.
LEMMA WrittenBackIsCascade ==
    ASSUME IsBoard(dash), dashIn.ds = "configured",
           NEW q, ResolvedSoFar(q), q.vars = Currents(dash), Len(q.cascade) = Len(q.vars)
    PROVE  LET new == WrittenBack(dash, [options |-> q.options, currents |-> q.cascade], dashIn)
           IN  /\ \A i \in DOMAIN dash.vars : new.vars[i].current = q.cascade[i]
               /\ Currents(new) = q.cascade
               /\ DOMAIN dash.vars = 1..Len(q.cascade)
<1> PICK off : off = [options |-> q.options, currents |-> q.cascade]
    OBVIOUS
<1> PICK new : new = WrittenBack(dash, off, dashIn)
    OBVIOUS
<1>1. /\ DOMAIN new.vars = DOMAIN dash.vars /\ IsBoard(new)
      /\ \A i \in DOMAIN dash.vars : new.vars[i].current = ResolvedCurrent(dash, off, i)
    BY WrittenBackIsBoard
<1>2. Len(q.cascade) \in Nat /\ DOMAIN dash.vars = 1..Len(q.cascade)
    BY CurrentsAreSeq
<1>3. ASSUME NEW i \in DOMAIN dash.vars PROVE new.vars[i].current = q.cascade[i]
  <2>1. q.cascade[i] = Effective(q.vars[i], q.options[i]) /\ q.vars[i] = dash.vars[i].current
      BY <1>2 DEF ResolvedSoFar, Currents
  <2>2. off.options[i] = q.options[i] /\ off.currents[i] = q.cascade[i]
      OBVIOUS
  <2>3. ResolvedCurrent(dash, off, i) = IF Has(q.options[i], dash.vars[i].current)
                                        THEN dash.vars[i].current ELSE q.cascade[i]
      BY <2>2 DEF ResolvedCurrent
  <2> QED BY <1>1, <2>1, <2>3 DEF Effective
<1>4. Currents(new) = q.cascade
  <2> PICK n \in Nat : n = Len(q.cascade)
      BY <1>2
  <2>1. q.cascade = [i \in 1..n |-> q.cascade[i]]
    <3>1. PICK S : q.cascade \in Seq(S)
        BY DEF ResolvedSoFar, IsSeq
    <3> PICK m \in Nat : q.cascade \in [1..m -> S]
        BY <3>1, SeqDef
    <3>2. DOMAIN q.cascade = 1..n
        BY <3>1, LenProperties
    <3> QED BY <3>2
  <2>2. Currents(new) = [i \in 1..n |-> new.vars[i].current]
      BY <1>1, <1>2 DEF Currents
  <2> QED BY <1>2, <1>3, <2>1, <2>2
<1> QED BY <1>2, <1>3, <1>4

LEMMA PassEndsKeepsDInv ==
    ASSUME DInv, PassEnds
    PROVE  DInv'
<1>1. PICK q \in passes : Len(q.cascade) = Len(q.vars) /\
         Render(dash, dashIn, [options |-> q.options, currents |-> q.cascade],
                passes \ {q}, graph, panelAsked)
    BY DEF PassEnds
<1>2. UNCHANGED <<stored, cached, counter, place, statusCache, statusAsked, inEditor, edits>>
    BY DEF PassEnds
<1> PICK off : off = [options |-> q.options, currents |-> q.cascade]
    OBVIOUS
<1>3. OnBoard
    BY <1>1 DEF DInv, OnlyBoardsAct
<1>4. /\ IsBoard(dash) /\ InputsTyped_(dashIn) /\ PanelTyped(graph) /\ OthersTyped /\ place # List
      /\ dashIn.ds # "unmounted" /\ (graph.ds = "unmounted" <=> 0 \notin dash.panels)
      /\ (0 \in inEditor => 0 \in dash.panels) /\ (0 \in inEditor' => 0 \in dash.panels)
      /\ SamePanel(graph)
    BY <1>2, <1>3, OnBoardIs, PageOthers DEF DInv, PageTyped, OnlyBoardsAct, SamePanel
<1>5. OthersTyped'
    BY <1>2, <1>4, SameOthers DEF OthersTyped
<1>6. PageTyped' /\ OnlyBoardsAct' /\ OnBoard'
    BY <1>1, <1>2, <1>4, <1>5, RenderKeepsTyped DEF DInv
<1>7. dashIn' = dashIn /\ graph'.ds = graph.ds /\ offered' = off /\ DOMAIN dash'.vars = DOMAIN dash.vars
    BY <1>1, <1>4, RenderKeepsPage DEF DInv
<1>8. CachedIsThere' /\ StatusOnItsWay'
    BY <1>2, <1>7 DEF DInv, CachedIsThere, StatusOnItsWay
<1>9. AskedForPanel'
    BY <1>1, <1>4, RenderKeepsAsked DEF DInv
<1>10. PassesAreCurrent'
    BY <1>1, <1>4, RenderPasses DEF DInv, PassesAreCurrent
<1>11. /\ ResolvedSoFar(q) /\ dashIn.ds = "configured" /\ q.vars = Currents(dash)
       /\ q.cluster = dashIn.cluster /\ dashIn.cluster \in DashCluster
    BY <1>4 DEF DInv, PassesAreCurrent, InputsTyped_
<1>12. /\ \A i \in DOMAIN dash.vars : dash'.vars[i].current = q.cascade[i]
       /\ Currents(dash') = q.cascade
       /\ DOMAIN dash.vars = 1..Len(q.cascade)
    BY <1>1, <1>4, <1>11, WrittenBackIsCascade DEF Render
<1>13. ASSUME NEW i \in DOMAIN dash'.vars
       PROVE  /\ Has(off.options[i], dash'.vars[i].current)
              /\ \E values \in LabelAnswers(dashIn.cluster, SubSeq(Currents(dash'), 1, i - 1)) :
                   off.options[i] = LabelOptions(values)
  <2>1. /\ q.cascade[i] = Effective(q.vars[i], q.options[i])
        /\ \E values \in LabelAnswers(q.cluster, SubSeq(q.cascade, 1, i - 1)) :
              q.options[i] = LabelOptions(values)
      BY <1>7, <1>11, <1>12 DEF ResolvedSoFar
  <2>2. PICK values \in LabelAnswers(q.cluster, SubSeq(q.cascade, 1, i - 1)) :
              q.options[i] = LabelOptions(values)
      BY <2>1
  <2>3. Has(q.options[i], q.cascade[i])
      BY <1>11, <2>1, <2>2, SomeOption
  <2> QED BY <1>7, <1>11, <1>12, <2>2, <2>3
<1>14. ResolvedChainHolds'
    BY <1>7, <1>13 DEF ResolvedChainHolds, Resolving, LabelAnswers, Currents, Has, LabelOptions
<1> QED BY <1>6, <1>8, <1>9, <1>10, <1>14 DEF DInv

-----------------------------------------------------------------------------
(* Theorems *)

LEMMA DashKeepsDInv ==
    ASSUME DInv, [DashNext]_dashVars
    PROVE  DInv'
<1>1. CASE UNCHANGED dashVars
  <2>1. /\ UNCHANGED <<place, dash, dashIn, offered, passes, graph, panelAsked>>
        /\ UNCHANGED <<stored, cached, counter, statusCache, statusAsked, inEditor, edits>>
      BY <1>1 DEF dashVars
  <2>2. OthersTyped'
      BY <2>1, PageOthers, SameOthers DEF DInv, PageTyped
  <2>3. /\ PageTyped' /\ OnlyBoardsAct'
        /\ AskedForPanel' /\ PassesAreCurrent' /\ ResolvedChainHolds'
      BY <2>1, <2>2, SameScreen DEF DInv, OnlyBoardsAct
  <2>4. CachedIsThere' /\ StatusOnItsWay'
      BY <2>1 DEF DInv, CachedIsThere, StatusOnItsWay
  <2> QED BY <2>3, <2>4 DEF DInv
<1>2. CASE Gesture
    BY <1>2, LeavingKeepsDInv, ListKeepsDInv, BackgroundKeepsDInv, ChangesKeepDInv,
       PanelSaveKeepsDInv DEF Gesture
<1>3. CASE ReloadPage \/ \E b \in Board \cup {List} : OpenBoard(b)
    BY <1>3, LeavingKeepsDInv
<1>4. CASE \/ Loaded \/ DashStatusAnswered \/ CachedStatusTaken \/ StatusExpires
           \/ ChooseRange \/ PickCluster \/ RefreshNow \/ EditPanel \/ EditorCancelled
    BY <1>4, ListKeepsDInv, StatusKeepsDInv, BackgroundKeepsDInv, ChangesKeepDInv, RefreshKeepsDInv
<1>5. CASE LabelsAnswered \/ PassEnds \/ PanelAnswered
    BY <1>5, LabelsKeepDInv, PassEndsKeepsDInv, PanelAnswerKeepsDInv
<1> QED BY <1>1, <1>2, <1>3, <1>4, <1>5 DEF DashNext

LEMMA DInvIsTyped ==
    ASSUME DInv
    PROVE  DashTypeOK
<1>1. /\ \A b \in Board : stored[b] = NoBoard \/ DOMAIN stored[b].vars \subseteq Vars
      /\ OnBoard => \A i \in DOMAIN dash.vars : dash.vars[i].by \in {"file", "user", "runtime"}
  <2>1. ASSUME NEW d, IsBoard(d)
        PROVE  /\ DOMAIN d.vars \subseteq Vars
               /\ \A i \in DOMAIN d.vars : d.vars[i].by \in {"file", "user", "runtime"}
    <3> PICK n \in {0, 2} : DOMAIN d.vars = 1..n
        BY <2>1 DEF IsBoard
    <3>1. 1..n \subseteq 1..2
        OBVIOUS
    <3> QED BY <2>1, <3>1 DEF IsBoard, Vars
  <2> QED BY <2>1, OnBoardIs DEF DInv, PageTyped
<1>2. \A q \in passes : Len(q.cascade) = Len(q.options) /\ Len(q.cascade) <= Len(q.vars)
    BY DEF DInv, PassesAreCurrent, ResolvedSoFar
<1>3. PanelStatus \in {"loading", "live", "error", "not_configured", "unmounted"}
    BY DEF DInv, PageTyped, PanelTyped, PanelStatus
<1> QED BY <1>1, <1>2, <1>3 DEF DInv, PageTyped, OnlyBoardsAct, DashTypeOK

LEMMA DInvIsCurrent ==
    ASSUME DInv
    PROVE  PanelIsCurrent
<1>1. PanelStatus = "live" => graph.ds = "configured" /\ graph.fetch = "loaded"
    BY DEF DInv, PageTyped, PanelTyped, PanelStatus
<1> QED BY <1>1 DEF DInv, AskedForPanel, PanelIsCurrent

LEMMA DashInductive == DashSpec => []DInv
<1>1. DashInit => DInv
    BY InitDInv
<1>2. DInv /\ [DashNext]_dashVars => DInv'
    BY DashKeepsDInv
<1> QED BY <1>1, <1>2, PTL DEF DashSpec

-----------------------------------------------------------------------------
\* The type invariant holds for every dashboard, stored, built in or imported.
THEOREM DashTypeCorrect == DashSpec => []DashTypeOK
<1>1. DInv => DashTypeOK
    BY DInvIsTyped
<1> QED BY <1>1, DashInductive, PTL

\* There is never a second request for the datasource's status, and whoever
\* waits for it waits for one that is on its way, however often pages are left
\* and cached answers expire.
THEOREM StatusComes == DashSpec => []StatusOnItsWay
<1>1. DInv => StatusOnItsWay
    BY DEF DInv
<1> QED BY <1>1, DashInductive, PTL

\* Once no pass is on its way each variable has one of its options, and these
\* were looked up with the values that the variables before it have now.
THEOREM ResolvedHolds == DashSpec => []ResolvedChainHolds
<1>1. DInv => ResolvedChainHolds
    BY DEF DInv
<1> QED BY <1>1, DashInductive, PTL

\* usePanelData: a panel that shows data shows those of the cluster, the range
\* and the variables now selected, whatever was cancelled before.
THEOREM PanelsAreCurrent == DashSpec => []PanelIsCurrent
<1>1. DInv => PanelIsCurrent
    BY DInvIsCurrent
<1> QED BY <1>1, DashInductive, PTL

LEMMA OthersDoNotWrite ==
    ASSUME DashNext, ~Gesture
    PROVE  stored' = stored
<1>1. CASE ReloadPage \/ \E b \in Board \cup {List} : OpenBoard(b)
    BY <1>1 DEF ReloadPage, OpenBoard
<1>2. CASE Loaded
    BY <1>2 DEF Loaded
<1>3. CASE DashStatusAnswered \/ CachedStatusTaken \/ StatusExpires
    BY <1>3 DEF DashStatusAnswered, CachedStatusTaken, StatusExpires
<1>4. CASE LabelsAnswered \/ PassEnds \/ PanelAnswered
    BY <1>4 DEF LabelsAnswered, PassEnds, PanelAnswered
<1>5. CASE ChooseRange \/ PickCluster \/ RefreshNow \/ EditPanel \/ EditorCancelled
    BY <1>5 DEF ChooseRange, PickCluster, RefreshNow, EditPanel, EditorCancelled
<1> QED BY <1>1, <1>2, <1>3, <1>4, <1>5 DEF DashNext

\* Only what a user does writes localStorage: opening a dashboard, resolving
\* its variables and refreshing it do not.
THEOREM GesturesWrite == DashSpec => OnlyGesturesWrite
<1>1. [DashNext]_dashVars => [stored' # stored => Gesture]_dashVars
    BY OthersDoNotWrite
<1> QED BY <1>1, PTL DEF DashSpec, OnlyGesturesWrite
=============================================================================
