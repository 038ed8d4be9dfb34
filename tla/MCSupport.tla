----------------------------- MODULE MCSupport -----------------------------
(* Small instances of Support for TLC. *)
EXTENDS Support, TLC

CONSTANTS a1

\* One field stands for status and priority, which are treated alike.
NewTicket == [status |-> "open", assignedTo |-> Null]

Triage == {"status" :> "closed", "assignedTo" :> a1, "assignedTo" :> Null}

NoPatches == {}

Symmetry ==
    Permutations(Tenant) \cup Permutations(User) \cup Permutations(Ticket)
        \cup Permutations(CommentRequest) \cup Permutations(PatchRequest)
=============================================================================
