---------------------------- MODULE MCDashboards ----------------------------
(* Two variables, as in job and node: the values of the second depend on   *)
(* the first, and the clusters' values differ.                             *)
EXTENDS Dashboards, TLC

LabelsDef ==
    "east" :> (<<>> :> <<"x", "y">> @@ <<"x">> :> <<"p">> @@ <<"y">> :> <<"p", "q">>) @@
    "west" :> (<<>> :> <<"y">> @@ <<"y">> :> <<"q">>)

\* Open by its URL with one cluster chosen and nothing stored, or the list.
DashStart ==
    /\ DashInit
    /\ stored = [b \in Board |-> NoBoard]
    /\ dashIn.cluster = "east" /\ place \notin Own

DashboardsSpec == DashStart /\ [][DashNext]_dashVars /\ DashFairness
=============================================================================
