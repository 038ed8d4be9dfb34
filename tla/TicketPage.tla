----------------------------- MODULE TicketPage -----------------------------
(***************************************************************************)
(* The staff's ticket page (app/platform/tickets/[id]): a copy of one      *)
(* ticket, three Selects that PATCH one field each as soon as they change, *)
(* and a form that posts comments.  Every success loads the ticket again;  *)
(* nothing is cancelled, and requests and answers may overtake each other  *)
(* or be lost.  The customer and other staff write the same ticket, and    *)
(* nothing tells the page (that it goes with a deleted user is left out).  *)
(* Status and priority are treated alike and are one field; comments are   *)
(* counted, and only texts that are not blank are sent.                    *)
(***************************************************************************)
EXTENDS Naturals, Sequences, SequencesExt

CONSTANTS
    Status,         \* values of the status field
    Admin,          \* the staff a ticket can be assigned to
    Unassigned,     \* null in the service, "" in the Select
    NoTicket,       \* what the page holds while it loads or shows an error
    Comments,       \* bound: comments written
    Pending         \* bound: requests in flight when the user acts

ASSUME TicketAssumption ==
    /\ Unassigned \notin Admin
    /\ NoTicket \notin [status : Status, assignee : Admin \cup {Unassigned}, comments : 0..Comments]
    /\ Comments \in Nat /\ Pending \in Nat

VARIABLES
    ticket,         \* the ticket's row and the number of its comments
    view,           \* useState<DetailState>
    loads,          \* GETs in the order they were sent
    patches,        \* PATCHes in the order they were sent
    draft,          \* assigneeDraft
    savingAssignee, patchError,
    post,           \* the POST of a comment: "none" or its stage
    postingComment,
    ticketMoved     \* history: since the last GET was served the ticket has
                    \* changed, or may have, and nobody will tell the page

pageVars == <<view, draft, savingAssignee, patchError, postingComment>>
ticketVars == <<ticket, view, loads, patches, draft, savingAssignee, patchError,
                post, postingComment, ticketMoved>>

Assignee == Admin \cup {Unassigned}
Ticket == [status : Status, assignee : Assignee, comments : 0..Comments]

Spinner == [status |-> "loading", ticket |-> NoTicket, overtaken |-> FALSE]
Get == [answer |-> "none", ticket |-> NoTicket, late |-> FALSE]

TicketInit ==
    /\ ticket \in [status : Status, assignee : Assignee, comments : {0}]
    /\ view = Spinner /\ loads = <<Get>> /\ patches = <<>>
    /\ draft = Unassigned /\ savingAssignee = FALSE /\ patchError = FALSE
    /\ post = "none" /\ postingComment = FALSE
    /\ ticketMoved = FALSE

InFlightNow == Len(loads) + Len(patches) + (IF post = "none" THEN 0 ELSE 1)
MayAct == view.status = "loaded" /\ InFlightNow < Pending

\* What the page lets its user do: the ticket and its controls are there once
\* loaded, and two of them are disabled while they wait.
TicketView ==
    {c \in {"status", "assignee", "comment"} :
        /\ MayAct
        /\ c = "assignee" => ~savingAssignee
        /\ c = "comment" => ~postingComment}

\* load()
LoadTicket ==
    /\ view' = Spinner
    /\ loads' = Append(loads, Get)

\* The service answers a GET, or it fails somewhere.
ServeTicket ==
    /\ \E i \in DOMAIN loads :
         /\ loads[i].answer = "none"
         /\ \/ /\ loads' = [loads EXCEPT ![i].answer = "ok", ![i].ticket = ticket]
               /\ ticketMoved' = (ticketMoved /\ i # Len(loads))
            \/ loads' = [loads EXCEPT ![i].answer = "error"] /\ UNCHANGED ticketMoved
    /\ UNCHANGED <<ticket, pageVars, patches, post>>

\* Mutant: TicketLoaded that leaves the draft alone.
TicketLoadedKeepsDraft ==
    /\ \E i \in DOMAIN loads :
         /\ loads[i].answer # "none"
         /\ view' = [status |-> IF loads[i].answer = "ok" THEN "loaded" ELSE "error",
                     ticket |-> loads[i].ticket, overtaken |-> loads[i].late]
         /\ loads' = RemoveAt([j \in DOMAIN loads |->
                        IF j < i THEN [loads[j] EXCEPT !.late = TRUE] ELSE loads[j]], i)
    /\ UNCHANGED <<ticket, patches, draft, savingAssignee, patchError, post,
                   postingComment, ticketMoved>>

\* The answer: the ticket, and with it the assignee's draft.
TicketLoaded ==
    /\ \E i \in DOMAIN loads :
         /\ loads[i].answer # "none"
         /\ view' = [status |-> IF loads[i].answer = "ok" THEN "loaded" ELSE "error",
                     ticket |-> loads[i].ticket, overtaken |-> loads[i].late]
         /\ draft' = IF loads[i].answer = "ok" THEN loads[i].ticket.assignee ELSE draft
         /\ loads' = RemoveAt([j \in DOMAIN loads |->
                        IF j < i THEN [loads[j] EXCEPT !.late = TRUE] ELSE loads[j]], i)
    /\ UNCHANGED <<ticket, patches, savingAssignee, patchError, post,
                   postingComment, ticketMoved>>

-----------------------------------------------------------------------------
\* patch(fields) up to its await.
SendPatch(field, value) ==
    /\ patchError' = FALSE
    /\ patches' = Append(patches, [field |-> field, value |-> value, stage |-> "sent", mine |-> TRUE])

\* The status and priority Selects stay enabled while their PATCH is in flight.
PickStatus ==
    /\ "status" \in TicketView
    /\ \E s \in Status : SendPatch("status", s)
    /\ UNCHANGED <<ticket, view, loads, draft, savingAssignee, post,
                   postingComment, ticketMoved>>

\* handleAssigneeChange: the Select shows the choice at once and is disabled
\* until the PATCH is answered.
PickAssignee ==
    /\ "assignee" \in TicketView
    /\ \E a \in Assignee : draft' = a /\ SendPatch("assignee", a)
    /\ savingAssignee' = TRUE
    /\ UNCHANGED <<ticket, view, loads, post, postingComment, ticketMoved>>

\* The service applies the one field, or refuses.
ServePatch ==
    /\ \E i \in DOMAIN patches :
         /\ patches[i].stage = "sent"
         /\ \/ /\ ticket' = IF patches[i].field = "status"
                            THEN [ticket EXCEPT !.status = patches[i].value]
                            ELSE [ticket EXCEPT !.assignee = patches[i].value]
               /\ patches' = [patches EXCEPT ![i].stage = "done"]
               /\ ticketMoved' = (ticketMoved \/ ~patches[i].mine)
            \/ /\ patches' = [patches EXCEPT ![i].stage = "refused"]
               /\ UNCHANGED <<ticket, ticketMoved>>
    /\ UNCHANGED <<pageVars, loads, post>>

Released(i) == IF patches[i].field = "assignee" THEN FALSE ELSE savingAssignee

\* patch after its await, and handleAssigneeChange after it.
PatchAnswered ==
    /\ \E i \in DOMAIN patches :
         /\ patches[i].mine /\ patches[i].stage # "sent"
         /\ patches' = RemoveAt(patches, i)
         /\ savingAssignee' = Released(i)
         /\ \/ /\ patches[i].stage = "refused"
               /\ patchError' = TRUE /\ UNCHANGED <<view, loads>>
            \/ patches[i].stage = "done" /\ LoadTicket /\ UNCHANGED patchError
    /\ UNCHANGED <<ticket, draft, post, postingComment, ticketMoved>>

\* No answer: the page cannot know whether the PATCH took or takes effect.
PatchLost ==
    /\ \E i \in DOMAIN patches :
         /\ patches[i].mine
         /\ savingAssignee' = Released(i)
         /\ \/ patches' = RemoveAt(patches, i)
            \/ patches[i].stage = "sent" /\ patches' = [patches EXCEPT ![i].mine = FALSE]
         /\ ticketMoved' = (ticketMoved \/ patches[i].stage = "done")
    /\ patchError' = TRUE
    /\ UNCHANGED <<ticket, view, loads, draft, post, postingComment>>

PatchDropped ==
    /\ \E i \in DOMAIN patches :
         ~patches[i].mine /\ patches[i].stage # "sent" /\ patches' = RemoveAt(patches, i)
    /\ UNCHANGED <<ticket, pageVars, loads, post, ticketMoved>>

-----------------------------------------------------------------------------
\* handleCommentSubmit up to its await, with a text that is not blank.
SubmitComment ==
    /\ "comment" \in TicketView
    /\ ticket.comments < Comments /\ post = "none"
    /\ post' = "sent" /\ postingComment' = TRUE
    /\ UNCHANGED <<ticket, view, loads, patches, draft, savingAssignee, patchError, ticketMoved>>

ServeComment ==
    /\ post = "sent"
    /\ \/ ticket' = [ticket EXCEPT !.comments = @ + 1] /\ post' = "done"
       \/ post' = "refused" /\ UNCHANGED ticket
    /\ UNCHANGED <<pageVars, loads, patches, ticketMoved>>

\* Mutant: CommentAnswered that returns from a refusal without the finally.
CommentAnsweredNoFinally ==
    /\ post \in {"done", "refused"} /\ post' = "none"
    /\ IF post = "done"
       THEN LoadTicket /\ postingComment' = FALSE
       ELSE UNCHANGED <<view, loads, postingComment>>
    /\ UNCHANGED <<ticket, patches, draft, savingAssignee, patchError, ticketMoved>>

\* handleCommentSubmit after its await: a refusal is shown with the text left
\* in the box, a success loads the ticket.
CommentAnswered ==
    /\ post \in {"done", "refused"} /\ post' = "none"
    /\ IF post = "done" THEN LoadTicket ELSE UNCHANGED <<view, loads>>
    /\ postingComment' = FALSE
    /\ UNCHANGED <<ticket, patches, draft, savingAssignee, patchError, ticketMoved>>

\* The answer is lost; a comment that was posted stays in the box.
CommentLost ==
    /\ post # "none"
    /\ postingComment' = FALSE /\ post' = "none"
    /\ ticketMoved' = (ticketMoved \/ post = "done")
    /\ UNCHANGED <<ticket, view, loads, patches, draft, savingAssignee, patchError>>

\* The customer comments; other staff comment, triage and assign
\* (support-service).  Room is left for the comment on its way.
OthersWriteTicket ==
    /\ \/ \E s \in Status \ {ticket.status} : ticket' = [ticket EXCEPT !.status = s]
       \/ \E a \in Assignee \ {ticket.assignee} : ticket' = [ticket EXCEPT !.assignee = a]
       \/ /\ post # "sent" /\ ticket.comments < Comments
          /\ ticket' = [ticket EXCEPT !.comments = @ + 1]
    /\ ticketMoved' = TRUE
    /\ UNCHANGED <<pageVars, loads, patches, post>>

PatchEnds == PatchAnswered \/ PatchLost
AssignmentEnds == PatchEnds /\ savingAssignee' # savingAssignee
CommentEnds == CommentAnswered \/ CommentLost
TicketNext ==
    \/ ServeTicket \/ TicketLoaded
    \/ PickStatus \/ PickAssignee \/ ServePatch \/ PatchEnds \/ PatchDropped
    \/ SubmitComment \/ ServeComment \/ CommentEnds
    \/ OthersWriteTicket

\* Requests are answered or fail in the end, an assignment also while others
\* keep coming.
TicketFairness ==
    /\ WF_ticketVars(ServeTicket) /\ WF_ticketVars(TicketLoaded)
    /\ WF_ticketVars(CommentEnds)
    /\ WF_ticketVars(PatchEnds) /\ WF_ticketVars(AssignmentEnds)
TicketSpec == TicketInit /\ [][TicketNext]_ticketVars /\ TicketFairness

-----------------------------------------------------------------------------
TicketTypeOK ==
    /\ ticket \in Ticket
    /\ view \in [status : {"loading", "loaded", "error"}, ticket : Ticket \cup {NoTicket}, overtaken : BOOLEAN]
    /\ view.status = "loading" => loads # <<>>
    /\ draft \in Assignee
    /\ \A i \in DOMAIN loads :
         loads[i] \in [answer : {"none", "ok", "error"}, ticket : Ticket \cup {NoTicket}, late : BOOLEAN]
    /\ \A i \in DOMAIN patches :
         patches[i] \in [field : {"status", "assignee"}, value : Status \cup Assignee,
                         stage : {"sent", "done", "refused"}, mine : BOOLEAN]
    /\ post \in {"none", "sent", "done", "refused"}
    /\ {savingAssignee, patchError, postingComment, ticketMoved} \subseteq BOOLEAN

Quiet == loads = <<>> /\ patches = <<>> /\ post = "none"

\* The assignee's Select shows a local draft, not the ticket.  Once nothing is
\* in flight, either an error is on display or the draft is the assignee of
\* the ticket shown, in whatever order patches and loads were answered.
DraftIsTicketsAssignee ==
    (Quiet /\ view.status = "loaded" /\ ~patchError) => draft = view.ticket.assignee

\* Once nothing is in flight, the ticket shown is the ticket stored, whatever
\* mixture of this page's own requests and answers led there.  Two things
\* excuse it: a GET that was overtaken by a later one, and a change after the
\* last GET was served that nobody tells the page of, by the customer or other
\* staff, or by a request of its own whose answer was lost.
SettledTicketIsTrue ==
    (Quiet /\ view.status = "loaded" /\ ~view.overtaken /\ ~ticketMoved) => view.ticket = ticket

\* The disabled Select and the Post button's spinner stand for a request on
\* its way, and at most one assignment is.
ControlsMatchRequests ==
    LET assigning == {i \in DOMAIN patches : patches[i].mine /\ patches[i].field = "assignee"}
    IN  /\ savingAssignee <=> assigning # {}
        /\ \A i, j \in assigning : i = j
        /\ postingComment <=> post # "none"
=============================================================================
