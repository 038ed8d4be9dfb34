------------------------------ MODULE Sessions ------------------------------
(***************************************************************************)
(* Signing up, in and out.  Browser tabs share one cookie jar and load     *)
(* pages through the middleware; the two portals, the tenants' and the     *)
(* staff's, have a cookie each.  The Next.js routes relay requests to      *)
(* auth-service, whose signup is a transaction on the tables tenants and   *)
(* users, and to platform-admin-service.  A person stands for an email and *)
(* its password; all companies have the same name, so that slugs collide.  *)
(* A tab has at most one form or logout request in flight.                 *)
(***************************************************************************)
EXTENDS Naturals, FiniteSets

CONSTANTS
    Tab,
    Person,         \* email and password of a client
    Staff,          \* of a platform admin (seeded)
    Attempts        \* bound: steps of users

ASSUME SessionAssumption == Person \cap Staff = {} /\ Attempts \in Nat

VARIABLES
    tenants,        \* committed rows: id and slug
    users,          \* committed rows: tenant and email
    removed,        \* history: rows that were committed and then deleted
    jar,            \* the cookie of each portal, or NoToken
    tab,            \* page, portal, state of its form and of useSession
    request,        \* the request in flight of each tab
    attempts

sessionVars == <<tenants, users, removed, jar, tab, request, attempts>>
accounts == <<tenants, users, removed>>

Client == "tenant"
Platform == "platform"
Portal == {Client, Platform}
NoToken == [who |-> "nobody", tenant |-> 0, valid |-> FALSE]
Nobody_ == "nobody"
Page_ == {"home", "login", "signup", "app"}
NoRequest == [kind |-> "none", portal |-> Client, who |-> Nobody_, stage |-> "none", slug |-> 0,
              token |-> NoToken]

-----------------------------------------------------------------------------
\* The page that a visit ends on: cookies are looked at, never verified.
Middleware(portal, page) ==
    CASE page = "home" /\ jar[Client] # NoToken -> "app"
      [] page = "app" /\ jar[portal] = NoToken -> "login"
      [] OTHER -> page

\* The shells mount their sidebar, which asks who is signed in, on the pages
\* of the app only.  A visit that ends on the page it started from keeps
\* what is mounted there: a form whose session ends before its push to the
\* app stays "pushed", its button disabled.
AppShell(old, portal, page) ==
    LET kept == old.page = page /\ old.portal = portal IN
    [portal |-> portal, page |-> page,
     form |-> IF kept THEN old.form ELSE "idle",
     me |-> IF page # "app" THEN Nobody_ ELSE IF kept THEN old.me ELSE "loading"]
NewTab == [page |-> "none"]
GoToPage(t, old, portal, page) ==
    tab' = [tab EXCEPT ![t] = AppShell(old, portal, Middleware(portal, page))]

SessionInit ==
    /\ tenants = {} /\ users = {} /\ removed = {}
    /\ jar = [p \in Portal |-> NoToken]
    /\ tab = [t \in Tab |-> AppShell(NewTab, Client, "home")]
    /\ request = [t \in Tab |-> NoRequest]
    /\ attempts = 0

UserDoes == attempts < Attempts /\ attempts' = attempts + 1

Pages(portal) == IF portal = Client THEN Page_ ELSE {"login", "app"}
Links(portal, page) ==
    CASE page = "app" -> {"app"}
      [] page = "home" -> {"login", "signup"}
      [] OTHER -> Pages(portal) \cap ({"login", "signup"} \ {page})

\* A link keeps the shell of the page and the request in flight.
FollowLink(t) ==
    /\ UserDoes
    /\ \E page \in Links(tab[t].portal, tab[t].page) : GoToPage(t, tab[t], tab[t].portal, page)
    /\ UNCHANGED <<accounts, jar, request>>

\* The address bar, or a reload, with no request in flight.
EnterAddress(t) ==
    /\ UserDoes /\ request[t] = NoRequest
    /\ \E portal \in Portal : \E page \in Pages(portal) :
         tab' = [tab EXCEPT ![t] = AppShell(NewTab, portal, Middleware(portal, page))]
    /\ UNCHANGED <<accounts, jar, request>>

Send(t, kind, portal, who) ==
    request' = [request EXCEPT ![t] =
        [NoRequest EXCEPT !.kind = kind, !.portal = portal, !.who = who, !.stage = "sent"]]

\* handleSubmit of the login forms and of the signup form, whose passwords
\* match.
SubmitLogin(t) ==
    /\ UserDoes /\ tab[t].page = "login" /\ tab[t].form = "idle" /\ request[t] = NoRequest
    /\ \E who \in Person \cup Staff : Send(t, "login", tab[t].portal, who)
    /\ tab' = [tab EXCEPT ![t].form = "submitting"]
    /\ UNCHANGED <<accounts, jar>>

SubmitSignup(t) ==
    /\ UserDoes /\ tab[t].page = "signup" /\ tab[t].form = "idle" /\ request[t] = NoRequest
    /\ \E who \in Person : Send(t, "signup", Client, who)
    /\ tab' = [tab EXCEPT ![t].form = "submitting"]
    /\ UNCHANGED <<accounts, jar>>

\* The sidebars' handleLogout; the button is there for a known user.
ClickLogout(t) ==
    /\ UserDoes /\ tab[t].page = "app" /\ tab[t].me \notin {"loading", Nobody_}
    /\ request[t] = NoRequest
    /\ Send(t, "logout", tab[t].portal, Nobody_)
    /\ UNCHANGED <<accounts, jar, tab>>

-----------------------------------------------------------------------------
At(t, kind, stage) == request[t].kind = kind /\ request[t].stage = stage
Answer(t, token) == request' = [request EXCEPT ![t].stage = "answered", ![t].token = token]
Token(who, tenant) == [who |-> who, tenant |-> tenant, valid |-> TRUE]

\* handleLogin: some row with the email, in whichever tenant it is.
HandleLogin(t) ==
    /\ At(t, "login", "sent") /\ request[t].portal = Client
    /\ \/ \E u \in users : u.email = request[t].who /\ Answer(t, Token(u.email, u.tenant))
       \/ (\A u \in users : u.email # request[t].who) /\ Answer(t, NoToken)
    /\ UNCHANGED <<accounts, jar, tab, attempts>>

PlatformLogin(t) ==
    /\ At(t, "login", "sent") /\ request[t].portal = Platform
    /\ Answer(t, IF request[t].who \in Staff THEN Token(request[t].who, 0) ELSE NoToken)
    /\ UNCHANGED <<accounts, jar, tab, attempts>>

\* handleSignup looks for a free slug, among the rows committed by then: the
\* company's, then with a suffix -2, -4 and so on.
FindSlug(t) ==
    /\ At(t, "signup", "sent")
    /\ LET taken == \E n \in tenants : n.slug = request[t].slug IN
       request' = IF taken THEN [request EXCEPT ![t].slug = @ + 2]
                  ELSE [request EXCEPT ![t].stage = "insert"]
    /\ UNCHANGED <<accounts, jar, tab, attempts>>

\* Mutant: InsertTenant with no unique index on slugs.
InsertTenantNoIndex(t) ==
    /\ At(t, "signup", "insert")
    /\ request' = [request EXCEPT ![t].stage = "commit"]
    /\ UNCHANGED <<accounts, jar, tab, attempts>>

\* Inserting tenant and user: a committed row with the slug fails it, one of
\* a transaction under way holds it up.
InsertTenant(t) ==
    /\ At(t, "signup", "insert")
    /\ \A o \in Tab : At(o, "signup", "commit") => request[o].slug # request[t].slug
    /\ IF \E n \in tenants : n.slug = request[t].slug
       THEN Answer(t, NoToken)
       ELSE request' = [request EXCEPT ![t].stage = "commit"]
    /\ UNCHANGED <<accounts, jar, tab, attempts>>

NextTenant == Cardinality(tenants) + 1

\* Mutant: CommitSignup of the tenant in a transaction of its own.
CommitSignupTenantOnly(t) ==
    /\ At(t, "signup", "commit")
    /\ tenants' = tenants \cup {[id |-> NextTenant, slug |-> request[t].slug]}
    /\ \/ /\ users' = users \cup {[tenant |-> NextTenant, email |-> request[t].who]}
          /\ request' = [request EXCEPT ![t].stage = "token", ![t].token = Token(@.who, NextTenant)]
       \/ Answer(t, NoToken) /\ UNCHANGED users
    /\ UNCHANGED <<removed, jar, tab, attempts>>

\* Mutant: CommitSignup that issues the token whether or not it commits.
CommitSignupTokenFirst(t) ==
    /\ At(t, "signup", "commit")
    /\ \/ /\ tenants' = tenants \cup {[id |-> NextTenant, slug |-> request[t].slug]}
          /\ users' = users \cup {[tenant |-> NextTenant, email |-> request[t].who]}
       \/ UNCHANGED <<tenants, users>>
    /\ Answer(t, Token(request[t].who, NextTenant))
    /\ UNCHANGED <<removed, jar, tab, attempts>>

\* Both rows are there, or none after a failure of an insert or the commit.
CommitSignup(t) ==
    /\ At(t, "signup", "commit")
    /\ \/ /\ tenants' = tenants \cup {[id |-> NextTenant, slug |-> request[t].slug]}
          /\ users' = users \cup {[tenant |-> NextTenant, email |-> request[t].who]}
          /\ request' = [request EXCEPT ![t].stage = "token",
                                        ![t].token = Token(request[t].who, NextTenant)]
       \/ Answer(t, NoToken) /\ UNCHANGED <<tenants, users>>
    /\ UNCHANGED <<removed, jar, tab, attempts>>

\* "account created, but could not start a session" is an answer too.
IssueToken(t) ==
    /\ At(t, "signup", "token")
    /\ \/ Answer(t, request[t].token)
       \/ Answer(t, NoToken)
    /\ UNCHANGED <<accounts, jar, tab, attempts>>

\* The logout routes clear the cookie themselves if the service does not.
HandleLogout(t) ==
    /\ At(t, "logout", "sent")
    /\ jar' = [jar EXCEPT ![request[t].portal] = NoToken]
    /\ request' = [request EXCEPT ![t].stage = "answered"]
    /\ UNCHANGED <<accounts, tab, attempts>>

\* The answer reaches the browser, which takes its cookie, whatever the tab
\* shows by then.
CookieSet(t) ==
    /\ At(t, "login", "answered") \/ At(t, "signup", "answered")
    /\ jar' = IF request[t].token = NoToken THEN jar
              ELSE [jar EXCEPT ![request[t].portal] = request[t].token]
    /\ request' = [request EXCEPT ![t].stage = "received"]
    /\ UNCHANGED <<accounts, tab, attempts>>

\* A service or the network fails: 502, or a rejected fetch.  What was
\* committed stays, and its cookie never arrives.
Lost(t) ==
    /\ request[t].stage = "answered" \/ (request[t].stage = "sent" /\ request[t].slug = 0)
    /\ request' = [request EXCEPT ![t].stage = "received", ![t].token = NoToken]
    /\ UNCHANGED <<accounts, jar, tab, attempts>>

PushOn(t) == GoToPage(t, [tab[t] EXCEPT !.form = "pushed"], request[t].portal, "app")

\* Mutant: a form that a failure leaves submitting.
FormAnsweredNoReset(t) ==
    /\ request[t].kind \in {"login", "signup"} /\ request[t].stage = "received"
    /\ IF request[t].token # NoToken THEN PushOn(t) ELSE UNCHANGED tab
    /\ request' = [request EXCEPT ![t] = NoRequest]
    /\ UNCHANGED <<accounts, jar, attempts>>

\* The rest of handleSubmit: on success on to the app, through the
\* middleware, from wherever the tab is; else the form can be sent again.
FormAnswered(t) ==
    /\ request[t].kind \in {"login", "signup"} /\ request[t].stage = "received"
    /\ IF request[t].token # NoToken THEN PushOn(t)
       ELSE tab' = [tab EXCEPT ![t].form = "idle"]
    /\ request' = [request EXCEPT ![t] = NoRequest]
    /\ UNCHANGED <<accounts, jar, attempts>>

\* The rest of handleLogout: on to the login page, also after a failure.
LogoutAnswered(t) ==
    /\ At(t, "logout", "answered") \/ At(t, "logout", "received")
    /\ GoToPage(t, tab[t], request[t].portal, "login")
    /\ request' = [request EXCEPT ![t] = NoRequest]
    /\ UNCHANGED <<accounts, jar, attempts>>

-----------------------------------------------------------------------------
\* useSession and usePlatformSession: a token that is missing, invalid or
\* not answered for is nobody.
MeAnswered(t) ==
    /\ tab[t].me = "loading"
    /\ \E me \in {Nobody_, jar[tab[t].portal].who} :
         /\ jar[tab[t].portal].valid \/ me = Nobody_
         /\ tab' = [tab EXCEPT ![t].me = me]
    /\ UNCHANGED <<accounts, jar, request, attempts>>

\* After twelve hours the browser drops the cookie; a token whose signature
\* the services no longer accept stays.
TokenExpires ==
    /\ UserDoes
    /\ \E p \in Portal :
         /\ jar[p].valid
         /\ \/ jar' = [jar EXCEPT ![p] = NoToken]
            \/ jar' = [jar EXCEPT ![p].valid = FALSE]
    /\ UNCHANGED <<accounts, tab, request>>

\* rbac-service: administrators, in whichever browser, add users to their
\* tenant and delete any of it, themselves included.  A token stays what it is.
CreateUser ==
    /\ UserDoes
    /\ \E n \in tenants, who \in Person : users' = users \cup {[tenant |-> n.id, email |-> who]}
    /\ UNCHANGED <<tenants, removed, jar, tab, request>>

DeleteUser ==
    /\ UserDoes
    /\ \E u \in users : users' = users \ {u} /\ removed' = removed \cup {u}
    /\ UNCHANGED <<tenants, jar, tab, request>>

Serve(t) ==
    \/ HandleLogin(t) \/ PlatformLogin(t) \/ FindSlug(t) \/ InsertTenant(t) \/ CommitSignup(t)
    \/ IssueToken(t) \/ HandleLogout(t)
Receive(t) == CookieSet(t) \/ FormAnswered(t) \/ LogoutAnswered(t)

SessionNext ==
    \/ TokenExpires \/ CreateUser \/ DeleteUser
    \/ \E t \in Tab :
         \/ FollowLink(t) \/ EnterAddress(t) \/ SubmitLogin(t) \/ SubmitSignup(t) \/ ClickLogout(t)
         \/ Serve(t) \/ Receive(t) \/ Lost(t) \/ MeAnswered(t)

\* Services answer and the browser handles answers; users owe nothing.
SessionFairness ==
    \A t \in Tab : WF_sessionVars(Serve(t)) /\ WF_sessionVars(Receive(t))

SessionSpec == SessionInit /\ [][SessionNext]_sessionVars /\ SessionFairness

-----------------------------------------------------------------------------
SessionTypeOK ==
    /\ \A n \in tenants : n.slug \in Nat
    /\ \A u \in users : u.email \in Person
    /\ \A p \in Portal : jar[p] = NoToken \/ jar[p].who \in Person \cup Staff
    /\ \A t \in Tab : tab[t].page \in Page_ /\ tab[t].form \in {"idle", "submitting", "pushed"}
    /\ \A t \in Tab : tab[t].form = "submitting" => request[t] # NoRequest

\* A tenant is created with its first admin or not at all, whatever fails
\* and however signups with the same company name overlap: there is none that
\* never had a user, and no user of a tenant that is not there.
SignupAllOrNothing ==
    {n.id : n \in tenants} = {u.tenant : u \in users \cup removed}

\* No two tenants share a slug, although a slug found free may be taken
\* before it is inserted.
SlugsUnique == \A a, b \in tenants : a.slug = b.slug => a = b

\* A session is one of an account that was committed, with the tenant it was
\* committed in; it may have been deleted since, for handleMe reads the token
\* alone and a token lives for twelve hours (jwt.go:34).
SessionsWereCommitted ==
    \A p \in Portal : jar[p] # NoToken =>
        IF p = Platform THEN jar[p].who \in Staff
        ELSE \E u \in users \cup removed : u.email = jar[p].who /\ u.tenant = jar[p].tenant

\* A form that was sent leads to the app or can be sent again, with one
\* exception: if the session it opened has ended by the time it pushes on to
\* the app, the middleware sends the push back to the login page, where the
\* form stays "pushed" and its button disabled (login/page.tsx:34-36).
FormsRecover ==
    \A t \in Tab : tab[t].form = "submitting" ~>
        \/ tab[t].form = "idle" \/ tab[t].page = "app"
        \/ tab[t].form = "pushed" /\ jar[tab[t].portal] = NoToken
=============================================================================
