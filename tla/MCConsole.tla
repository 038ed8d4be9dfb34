----------------------------- MODULE MCConsole -----------------------------
(* One screen at a time for TLC: what the other modules hold is pinned, as *)
(* it never moves.                                                         *)
EXTENDS Console, MCDashboards

ZoneOfDef == [n \in Name |-> IF n = "a1" THEN "a" ELSE "b"]

\* Grants that a concurrent save can have left: full access beside a list.
HeldAtFirst ==
    LET p == CHOOSE q \in Person : TRUE
    IN  [q \in Person |-> IF q = p THEN [c \in Zone |-> NamesOf(c) \cup IF c = "a" THEN {Full} ELSE {}]
                                   ELSE NoAccess]

MetricsDef == "all" :> {"up", "cpu"} @@ "east" :> {"up", "cpu"} @@ "west" :> {"cpu"}

Idle_ ==
    /\ screen # "list" => listPage = Uptime /\ rows = {}
    /\ ticket.assignee = Unassigned
    /\ screen # "ticket" => ticket.status = CHOOSE s \in Status : TRUE
    /\ screen # "live" => liveView = Badge /\ storedCluster = All
    /\ screen # "dashboards" => place = List

ConsoleStart ==
    /\ screen \in Screen
    /\ ListInit /\ TicketInit
    /\ held = HeldAtFirst /\ EditorInit
    /\ LiveInit /\ DashStart
    /\ Idle_

\* Bound: saves overlap while only cluster a has been clicked on, and another
\* administrator saves while the panel is open for the first time and gives
\* nothing on cluster b that is not held.
OverlapsAreSmall ==
    (rivals > 0 \/ Cardinality(puts) > 1) =>
        /\ touched \cup expanded \subseteq {"a"}
        /\ rivals > 0 => opens <= 1
        /\ \A p \in puts : ~p.mine /\ p.stage = "sent" => p.access["b"] \subseteq held[p.user]["b"]

ConsoleSafety == ConsoleStart /\ [][ConsoleNext /\ OverlapsAreSmall']_consoleVars
ConsoleLive == ConsoleStart /\ [][ConsoleNext]_consoleVars /\ ConsoleFairness
=============================================================================
