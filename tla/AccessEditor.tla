---------------------------- MODULE AccessEditor ----------------------------
(***************************************************************************)
(* The panel on the users page that edits one user's access grants         *)
(* (app/admin/users/AccessEditor).  It loads the grants into a map from    *)
(* clusters to choices, edits the map, and saves the whole map at once.    *)
(* The page renders the panel without a key: another user's "Access"       *)
(* button changes the props of the same component and leaves its state.    *)
(* Other administrators save the same users' access, and saves overlap in  *)
(* the service.  (That users and clusters are deleted is left out.)        *)
(***************************************************************************)
EXTENDS Naturals, Sequences, FiniteSets, SequencesExt

CONSTANTS
    Person,         \* users whose access can be edited
    Nobody,         \* the panel is closed
    Zone,           \* clusters
    Name,           \* namespaces
    ZoneOf,         \* the cluster of each namespace
    Full,           \* the namespaceId null: every namespace
    Opens,          \* bound: how often an "Access" button is clicked
    Clicks,         \* bound: edits, and rows expanded or collapsed
    Saves,          \* bound: PUTs in flight when somebody saves
    Rivals          \* bound: saves of other administrators

ASSUME EditorAssumption ==
    /\ Nobody \notin Person /\ Full \notin Name
    /\ IsFiniteSet(Zone) /\ IsFiniteSet(Name)
    /\ ZoneOf \in [Name -> Zone]
    /\ Opens \in Nat /\ Clicks \in Nat /\ Saves \in Nat /\ Rivals \in Nat

VARIABLES
    held,           \* access_grants: the choices stored for each person
    editing,        \* userId of the panel
    access,         \* AccessState; a cluster absent from the map has {}
    editorLoad,     \* LoadState
    grantReads,     \* GETs of grants, those of cancelled effects included
    expanded, namespaces,   \* expanded clusters, state of their lists
    saving, saved,
    puts,           \* PUTs in flight
    opens, clicks, rivals,
    loadedFrom,     \* history: the person and choices of the last load
    touched,        \* history: clusters edited since then
    edited,         \* history: an edit or a switch since "Save access"
    strayed         \* history: persons whose access a PUT that the panel does
                    \* not await has saved since the panel's last one began

panel == <<expanded, namespaces, saving, saved>>
editorVars == <<held, editing, access, editorLoad, grantReads, panel, puts,
                opens, clicks, rivals, loadedFrom, touched, edited, strayed>>

Choice == Name \cup {Full}
NoAccess == [c \in Zone |-> {}]
NamesOf(c) == {n \in Name : ZoneOf[n] = c}

\* What choices on one cluster let their holder reach.
Reach(choices) == IF Full \in choices THEN {Full} ELSE choices

-----------------------------------------------------------------------------
\* What the panel shows: rows only once loaded; a list of namespaces only in
\* an expanded row whose checkbox is not set.
EditorView == editorLoad
ClusterRow(c) ==
    CASE c \notin expanded -> "closed"
      [] c \in expanded /\ Full \in access[c] -> "full"
      [] OTHER -> namespaces[c]
Available(c) == NamesOf(c) \ access[c]
Granted(c) == NamesOf(c) \cap access[c]
Draggable == UNION {Available(c) \cup Granted(c) : c \in {d \in Zone : ClusterRow(d) = "list"}}

\* Mutant: AddGrant in which a namespace replaces full access.
AddGrantLastWins(acc, g) ==
    IF g[2] = Full \/ Full \in acc[g[1]]
    THEN [acc EXCEPT ![g[1]] = {g[2]}]
    ELSE [acc EXCEPT ![g[1]] = @ \cup {g[2]}]

\* One row of the answer: full access absorbs the namespaces of its cluster,
\* whichever comes first.
AddGrant(acc, g) ==
    IF g[2] = Full \/ Full \in acc[g[1]]
    THEN [acc EXCEPT ![g[1]] = {Full}]
    ELSE [acc EXCEPT ![g[1]] = @ \cup {g[2]}]

GrantRows(choices) == {g \in Zone \X Choice : g[2] \in choices[g[1]]}
AccessOf(rows) == FoldLeft(AddGrant, NoAccess, rows)

-----------------------------------------------------------------------------
ReadOf(u) == [user |-> u, answer |-> "none", held |-> NoAccess, cancelled |-> FALSE]

FreshPanel ==
    /\ expanded = {} /\ namespaces = [c \in Zone |-> "absent"]
    /\ saving = FALSE /\ saved = FALSE
    /\ access = NoAccess /\ editorLoad = "loading"

EditorInit ==
    /\ held \in [Person -> [Zone -> SUBSET Choice]]
    /\ \A u \in Person, c \in Zone : held[u][c] \subseteq NamesOf(c) \cup {Full}
    /\ editing = Nobody /\ grantReads = {} /\ puts = {} /\ opens = 0 /\ clicks = 0 /\ rivals = 0
    /\ loadedFrom = [user |-> Nobody, held |-> NoAccess]
    /\ touched = {} /\ edited = FALSE /\ strayed = {}
    /\ FreshPanel

\* "Access" of a user: the effect on [userId] runs, and the clean-up of the
\* previous one cancels its GET.  An open panel keeps everything else.
OpenEditor ==
    /\ opens < Opens /\ opens' = opens + 1
    /\ \E u \in Person \ {editing} :
         /\ editing' = u
         /\ grantReads' = {[r EXCEPT !.cancelled = TRUE] : r \in grantReads} \cup {ReadOf(u)}
    /\ edited' = TRUE
    /\ UNCHANGED <<held, access, editorLoad, panel, puts, clicks, rivals, loadedFrom, touched, strayed>>

\* onClose unmounts the panel: its state is gone, its PUT is not.
CloseEditor ==
    /\ editing # Nobody /\ editing' = Nobody
    /\ grantReads' = {}
    /\ expanded' = {} /\ namespaces' = [c \in Zone |-> "absent"]
    /\ saving' = FALSE /\ saved' = FALSE
    /\ access' = NoAccess /\ editorLoad' = "loading"
    /\ puts' = {[p EXCEPT !.mine = FALSE] : p \in puts}
    /\ loadedFrom' = [user |-> Nobody, held |-> NoAccess] /\ touched' = {}
    /\ edited' = FALSE
    /\ UNCHANGED <<held, opens, clicks, rivals, strayed>>

\* Promise.all of the cluster list and the grants; either may fail.
ServeGrants ==
    /\ \E r \in grantReads, a \in {"ok", "error"} :
         /\ r.answer = "none"
         /\ grantReads' = (grantReads \ {r}) \cup
              {[r EXCEPT !.answer = a, !.held = IF a = "ok" THEN held[r.user] ELSE NoAccess]}
    /\ UNCHANGED <<held, editing, access, editorLoad, panel, puts, opens, clicks, rivals,
                   loadedFrom, touched, edited, strayed>>

ShowGrants(r) ==
    /\ r.answer # "none" /\ grantReads' = grantReads \ {r}
    /\ \/ /\ r.answer = "ok"
          /\ \E rows \in SetToSeqs(GrantRows(r.held)) : access' = AccessOf(rows)
          /\ editorLoad' = "loaded"
          /\ loadedFrom' = [user |-> r.user, held |-> r.held]
          /\ touched' = {} /\ edited' = TRUE
       \/ /\ r.answer = "error"
          /\ editorLoad' = "error"
          /\ UNCHANGED <<access, loadedFrom, touched, edited>>
    /\ UNCHANGED <<held, editing, panel, puts, opens, clicks, rivals, strayed>>

\* The answer shows its rows, unless the effect was cancelled.
GrantsAnswered == \E r \in grantReads : ~r.cancelled /\ ShowGrants(r)

GrantsDropped ==
    /\ \E r \in grantReads :
         r.cancelled /\ r.answer # "none" /\ grantReads' = grantReads \ {r}
    /\ UNCHANGED <<held, editing, access, editorLoad, panel, puts, opens, clicks, rivals,
                   loadedFrom, touched, edited, strayed>>

-----------------------------------------------------------------------------
Rows == editing # Nobody /\ EditorView = "loaded"

\* Every edit replaces the choices on one cluster.
EditCluster(c, choices) ==
    /\ clicks < Clicks /\ clicks' = clicks + 1
    /\ access' = [access EXCEPT ![c] = choices]
    /\ touched' = touched \cup {c} /\ edited' = TRUE
    /\ UNCHANGED <<held, editing, editorLoad, grantReads, panel, puts, opens, rivals,
                   loadedFrom, strayed>>

\* toggleFull: the checkbox of a cluster drops a list of namespaces.
ToggleFull ==
    /\ Rows
    /\ \E c \in Zone : EditCluster(c, IF Full \in access[c] THEN {} ELSE {Full})

\* handleDrop on "Granted": a namespace from a column of any cluster.
AddNamespace ==
    /\ Rows
    /\ \E c \in Zone, n \in Draggable :
         ClusterRow(c) = "list" /\ EditCluster(c, access[c] \cup {n})

\* handleDrop on "Available".
RemoveNamespace ==
    /\ Rows
    /\ \E c \in Zone, n \in Draggable :
         ClusterRow(c) = "list" /\ EditCluster(c, access[c] \ {n})

\* toggleExpanded: the first time it asks for the list.  "error" counts as an
\* answer and is never asked again.
ToggleExpanded ==
    /\ Rows /\ clicks < Clicks /\ clicks' = clicks + 1
    /\ \E c \in Zone :
         IF c \in expanded
         THEN expanded' = expanded \ {c} /\ UNCHANGED namespaces
         ELSE /\ expanded' = expanded \cup {c}
              /\ namespaces' = IF namespaces[c] = "absent"
                               THEN [namespaces EXCEPT ![c] = "loading"] ELSE namespaces
    /\ UNCHANGED <<held, editing, access, editorLoad, grantReads, saving,
                   saved, puts, opens, rivals, loadedFrom, touched, edited, strayed>>

\* The list arrives, or an error, whoever is edited by then.
NamespacesAnswered ==
    /\ \E c \in Zone, s \in {"list", "error"} :
         namespaces[c] = "loading" /\ namespaces' = [namespaces EXCEPT ![c] = s]
    /\ UNCHANGED <<held, editing, access, editorLoad, grantReads, expanded, saving,
                   saved, puts, opens, clicks, rivals, loadedFrom, touched, edited, strayed>>

-----------------------------------------------------------------------------
Put(u, acc, mine) ==
    [user |-> u, access |-> acc, saw |-> NoAccess, stage |-> "sent", mine |-> mine]

\* handleSave up to its await: a PUT of the map to the user of this render.
ClickSave ==
    /\ Rows /\ ~saving /\ Cardinality(puts) < Saves
    /\ puts' = puts \cup {Put(editing, access, TRUE)}
    /\ saving' = TRUE /\ saved' = FALSE
    /\ edited' = FALSE
    /\ UNCHANGED <<held, editing, access, editorLoad, grantReads, expanded, namespaces,
                   opens, clicks, rivals, loadedFrom, touched, strayed>>

\* Another administrator saves what another panel can hold.
OthersSave ==
    /\ rivals < Rivals /\ rivals' = rivals + 1 /\ Cardinality(puts) < Saves
    /\ \E u \in Person, acc \in [Zone -> {{Full}} \cup SUBSET Name] :
         /\ \A c \in Zone : acc[c] \subseteq NamesOf(c) \cup {Full}
         /\ puts' = puts \cup {Put(u, acc, FALSE)}
    /\ UNCHANGED <<held, editing, access, editorLoad, grantReads, panel, opens, clicks,
                   loadedFrom, touched, edited, strayed>>

\* handlePutUserAccess checks the namespaces and begins: the DELETE will take
\* away the rows that it sees now.
BeginPut(p) ==
    /\ p.stage = "sent"
    /\ \A c \in Zone : p.access[c] \subseteq NamesOf(c) \cup {Full}
    /\ puts' = (puts \ {p}) \cup {[p EXCEPT !.stage = "begun", !.saw = held[p.user]]}
    /\ strayed' = IF p.mine THEN strayed \ {p.user} ELSE strayed
    /\ UNCHANGED held

\* What a save of p leaves for the DELETE of a save q that has begun: a row
\* that p has deleted, and may have inserted anew, is not the one q saw.
LessSeen(q, p) ==
    IF q.user = p.user /\ q.stage = "begun"
    THEN [q EXCEPT !.saw = [c \in Zone |-> q.saw[c] \ p.saw[c]]] ELSE q

\* The commit: the INSERTs add the map to the rows that the DELETE left, which
\* may not hold any of it (the unique indexes).  Overlapping saves leave more
\* than either sent (see AccessGrants).
CommitPut(p) ==
    LET left == [c \in Zone |-> held[p.user][c] \ p.saw[c]]
    IN  /\ p.stage = "begun"
        /\ \A c \in Zone : left[c] \cap p.access[c] = {}
        /\ held' = [held EXCEPT ![p.user] = [c \in Zone |-> left[c] \cup p.access[c]]]
        /\ puts' = {LessSeen(q, p) : q \in puts \ {p}}
                       \cup {[p EXCEPT !.stage = "done", !.saw = NoAccess]}
        /\ strayed' = IF p.mine THEN strayed ELSE strayed \cup {p.user}

\* A namespace of another cluster, a row that is there already, or a failure.
RefusePut(p) ==
    /\ p.stage \in {"sent", "begun"}
    /\ puts' = (puts \ {p}) \cup {[p EXCEPT !.stage = "refused", !.saw = NoAccess]}
    /\ UNCHANGED <<held, strayed>>

ServePut ==
    /\ \E p \in puts : BeginPut(p) \/ CommitPut(p) \/ RefusePut(p)
    /\ UNCHANGED <<editing, access, editorLoad, grantReads, panel, opens, clicks, rivals,
                   loadedFrom, touched, edited>>

Ended(p) == p.stage \in {"done", "refused"}

\* Mutant: PutAnswered that does not look at res.ok.
PutAnsweredAnyStatus ==
    /\ \E p \in puts :
         p.mine /\ Ended(p) /\ puts' = puts \ {p} /\ saved' = TRUE
    /\ saving' = FALSE
    /\ UNCHANGED <<held, editing, access, editorLoad, grantReads, expanded, namespaces,
                   opens, clicks, rivals, loadedFrom, touched, edited, strayed>>

\* handleSave after its await.
PutAnswered ==
    /\ \E p \in puts :
         /\ p.mine /\ Ended(p) /\ puts' = puts \ {p}
         /\ saved' = (saved \/ p.stage = "done")
    /\ saving' = FALSE
    /\ UNCHANGED <<held, editing, access, editorLoad, grantReads, expanded, namespaces,
                   opens, clicks, rivals, loadedFrom, touched, edited, strayed>>

\* "Could not reach the server": the PUT may have taken effect, or still may.
PutLost ==
    /\ \E p \in puts :
         /\ p.mine
         /\ \/ puts' = puts \ {p}
            \/ ~Ended(p) /\ puts' = (puts \ {p}) \cup {[p EXCEPT !.mine = FALSE]}
    /\ saving' = FALSE
    /\ UNCHANGED <<held, editing, access, editorLoad, grantReads, expanded, namespaces,
                   saved, opens, clicks, rivals, loadedFrom, touched, edited, strayed>>

PutDropped ==
    /\ \E p \in puts : ~p.mine /\ Ended(p) /\ puts' = puts \ {p}
    /\ UNCHANGED <<held, editing, access, editorLoad, grantReads, panel, opens, clicks, rivals,
                   loadedFrom, touched, edited, strayed>>

PutEnds == PutAnswered \/ PutLost
EditorNext ==
    \/ OpenEditor \/ CloseEditor
    \/ ServeGrants \/ GrantsAnswered \/ GrantsDropped
    \/ ToggleFull \/ AddNamespace \/ RemoveNamespace
    \/ ToggleExpanded \/ NamespacesAnswered
    \/ ClickSave \/ OthersSave \/ ServePut \/ PutEnds \/ PutDropped
EditorSpec == EditorInit /\ [][EditorNext]_editorVars /\ WF_editorVars(PutEnds)

-----------------------------------------------------------------------------
AccessMap == [Zone -> SUBSET Choice]
EditorTypeOK ==
    /\ held \in [Person -> AccessMap] /\ access \in AccessMap
    /\ editing \in Person \cup {Nobody}
    /\ editorLoad \in {"loading", "error", "loaded"}
    /\ grantReads \subseteq [user : Person, answer : {"none", "ok", "error"},
                             held : AccessMap, cancelled : BOOLEAN]
    /\ editing = Nobody => access = NoAccess /\ grantReads = {} /\ ~saving
    /\ expanded \subseteq Zone
    /\ namespaces \in [Zone -> {"absent", "loading", "error", "list"}]
    /\ {saving, saved, edited} \subseteq BOOLEAN
    /\ puts \subseteq [user : Person, access : AccessMap, saw : AccessMap,
                       stage : {"sent", "begun", "done", "refused"}, mine : BOOLEAN]
    /\ opens \in 0..Opens /\ clicks \in 0..Clicks /\ rivals \in 0..Rivals
    /\ loadedFrom \in [user : Person \cup {Nobody}, held : AccessMap]
    /\ touched \subseteq Zone /\ strayed \subseteq Person

\* The panel shows one user's grants under another's name only as long as the
\* GET for the user named is in flight: late answers for users left behind
\* never replace the right ones.
ForeignGrantsOnlyWhileLoading ==
    (Rows /\ loadedFrom.user # editing)
        => \E r \in grantReads : r.user = editing /\ ~r.cancelled

\* Loading and editing keep the reach of every cluster that the administrator
\* did not touch, also when the grants loaded hold full access beside a list,
\* as two concurrent saves can leave them.
UntouchedClustersKeepReach ==
    Rows => \A c \in Zone \ touched : Reach(access[c]) = Reach(loadedFrom.held[c])

\* "Saved." tells the truth: as long as nobody edits or changes user, what the
\* service holds is what the panel shows, unless another save of the same user
\* took effect after this one had begun: another administrator's, or one of
\* this tab that a closed panel or a broken connection gave up.
SavedMeansStored ==
    (saved /\ ~edited /\ editing \notin strayed) => held[editing] = access

\* The spinner of "Save access" stands for one PUT that will still be answered.
SavingMeansPut ==
    saving <=> Cardinality({p \in puts : p.mine}) = 1
=============================================================================
