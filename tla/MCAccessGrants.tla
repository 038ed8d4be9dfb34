--------------------------- MODULE MCAccessGrants ---------------------------
(* Small instances of AccessGrants for TLC. *)
EXTENDS AccessGrants, TLC

CONSTANTS c1, c2, n1

Full(c) == [cluster |-> c, ns |-> AllNamespaces]
Only(c, n) == [cluster |-> c, ns |-> n]

\* Lists an API client may send: empty, one entry, both orders of two
\* entries, a repeated entry, and a namespace with the wrong cluster.
ApiPayloads ==
    {<<>>, <<Only(c2, n1)>>,
     <<Full(c1), Only(c1, n1)>>, <<Only(c1, n1), Full(c1)>>,
     <<Full(c1), Full(c1)>>}

\* Lists AccessEditor.handleSave builds: per cluster either the null
\* namespace or the selected ones.
EditorPayloads == {<<>>, <<Full(c1)>>, <<Only(c1, n1)>>}

\* Two entries in both orders: enough for two saves to wait for each other.
OrderPayloads == {<<Full(c1), Only(c1, n1)>>, <<Only(c1, n1), Full(c1)>>}

Symmetry ==
    Permutations(Request) \cup Permutations(Tenant) \cup Permutations(User)
=============================================================================
