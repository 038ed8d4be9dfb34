------------------------------ MODULE Console ------------------------------
(***************************************************************************)
(* A browser tab on one screen of the console: a list page, a ticket, the  *)
(* editor of a user's access, a live view, or the dashboards.  Only the    *)
(* page of the URL is mounted and pages share no state in the browser, so  *)
(* that the tab moves as its screen does.  (localStorage and the service   *)
(* behind a page are part of its module.)                                  *)
(***************************************************************************)
EXTENDS ListPages, TicketPage, AccessEditor, LiveViews, Dashboards

VARIABLE screen

consoleVars == <<screen, listVars, ticketVars, editorVars, liveVars, dashVars>>
Screen == {"list", "ticket", "editor", "live", "dashboards"}

ConsoleInit ==
    /\ screen \in Screen
    /\ ListInit /\ TicketInit /\ EditorInit /\ LiveInit /\ DashInit

\* The app router renders the page of the URL: the others stand still.
On(s, Action) ==
    /\ screen = s /\ Action /\ UNCHANGED screen
    /\ s # "list" => UNCHANGED listVars
    /\ s # "ticket" => UNCHANGED ticketVars
    /\ s # "editor" => UNCHANGED editorVars
    /\ s # "live" => UNCHANGED liveVars
    /\ s # "dashboards" => UNCHANGED dashVars

ConsoleNext ==
    \/ On("list", ListNext) \/ On("ticket", TicketNext) \/ On("editor", EditorNext)
    \/ On("live", LiveNext) \/ On("dashboards", DashNext)

\* What was sent is answered or fails, and the page hears of it; users owe
\* nothing.
ConsoleFairness ==
    /\ WF_consoleVars(On("list", ServeRead)) /\ WF_consoleVars(On("list", ReadAnswered))
    /\ WF_consoleVars(On("list", CreateEnds)) /\ WF_consoleVars(On("list", DeleteEnds))
    /\ WF_consoleVars(On("ticket", PatchEnds)) /\ WF_consoleVars(On("ticket", AssignmentEnds))
    /\ WF_consoleVars(On("ticket", CommentEnds))
    /\ WF_consoleVars(On("editor", PutEnds))
    /\ WF_consoleVars(On("live", StatusAnswered)) /\ WF_consoleVars(On("live", Answered))
    /\ WF_consoleVars(On("dashboards", Loaded))
    /\ WF_consoleVars(On("dashboards", DashStatusAnswered))
    /\ WF_consoleVars(On("dashboards", LabelsAnswered))
    /\ WF_consoleVars(On("dashboards", PassEnds))

ConsoleSpec == ConsoleInit /\ [][ConsoleNext]_consoleVars /\ ConsoleFairness

-----------------------------------------------------------------------------
ConsoleTypeOK ==
    screen \in Screen /\ ListTypeOK /\ TicketTypeOK /\ EditorTypeOK /\ LiveTypeOK /\ DashTypeOK

\* What says that it is waiting is waiting: spinners, disabled buttons and
\* loading states stand for a request that will still be answered, and none
\* of them is there without one, whatever was refused, lost or overtaken.  One
\* exception is part of LoadingIsTrue: the loading flag of a view whose query
\* is blank, which keeps what a cancelled request left in it.
WaitingIsReal == BusyButtonsAreBusy /\ ControlsMatchRequests /\ SavingMeansPut /\ LoadingIsTrue

\* Once nothing is in flight a list and a ticket are what the service holds,
\* and the assignee's draft is the ticket's, with the exceptions that their own
\* comments name: a GET that a later one overtook, and what the page was never
\* told, other people's changes first of all.
SettledPagesAreTrue == SettledPageIsTrue /\ SettledTicketIsTrue /\ DraftIsTicketsAssignee

\* Grants, query results, options and panels on display belong to the user,
\* the query, the cluster and the variables that the page names, or the right
\* ones are on their way: a late answer never stays in their place.
DisplayIsCurrent == ForeignGrantsOnlyWhileLoading /\ StaleOnlyWhileFetching /\ PanelIsCurrent

\* Loading states and disabled controls end, whatever becomes of the request:
\* of the lists (load() has a catch, the handlers a finally), of a ticket's
\* assignee and comment, of Save in the editor, of a live view whose query is
\* not blank, and of a dashboard or the list of them, whichever built-in files
\* fail to load.
LoadingEnds ==
    /\ (screen = "list" /\ list.status = "loading") ~> (list.status # "loading")
    /\ (screen = "list" /\ creating) ~> ~creating
    /\ (screen = "list" /\ deleting # NoRow) ~> (deleting = NoRow)
    /\ (screen = "ticket" /\ savingAssignee) ~> ~savingAssignee
    /\ (screen = "ticket" /\ postingComment) ~> ~postingComment
    /\ (screen = "editor" /\ saving) ~> ~saving
    /\ (screen = "live" /\ fetching) ~> (~fetching \/ ~Sends("data", inputs))
    /\ (screen = "dashboards" /\ dash = Loading_) ~> (dash # Loading_)

\* The variables of a dashboard come to rest: writing a resolved value back,
\* which starts another pass, does not go on for ever.
VariablesSettle == (screen = "dashboards" /\ Resolving) ~> ~Resolving
=============================================================================
