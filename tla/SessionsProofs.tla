--------------------------- MODULE SessionsProofs ---------------------------
(***************************************************************************)
(* Safety of Sessions for any tabs, people, staff and number of attempts.  *)
(* IInv says what a signup in its transaction relies on: the unique index  *)
(* keeps its slug for it until it commits.  And that every token under way *)
(* is one of an account that was committed already.                        *)
(***************************************************************************)
EXTENDS Sessions, FiniteSetTheorems, TLAPS

USE SessionAssumption DEF accounts

Who == Person \cup Staff \cup {Nobody_}
TokenType == [who: Who, tenant: Nat, valid: BOOLEAN]
Kind == {"none", "login", "signup", "logout"}
Stage == {"none", "sent", "insert", "commit", "token", "answered", "received"}
RequestType ==
    [kind: Kind, portal: Portal, who: Who, stage: Stage, slug: Nat, token: TokenType]
Form == {"idle", "submitting", "pushed"}
TabType == [portal: Portal, page: Page_, form: Form, me: Who \cup {"loading"}]

Typed ==
    /\ tenants \subseteq [id: Nat, slug: Nat] /\ IsFiniteSet(tenants)
    /\ users \cup removed \subseteq [tenant: Nat, email: Person]
    /\ jar \in [Portal -> TokenType]
    /\ tab \in [Tab -> TabType]
    /\ request \in [Tab -> RequestType]

\* Who sends what: people sign up, with the tenants' portal; a form that is
\* submitting has its request, and a tab without a request has none.
RequestsMatch ==
    \A t \in Tab :
        /\ request[t].kind = "signup" =>
              request[t].portal = Client /\ request[t].who \in Person
        /\ request[t].stage \in {"insert", "commit", "token"} =>
              request[t].kind = "signup"
        /\ tab[t].form = "submitting" => request[t].kind \in {"login", "signup"}

\* The account a token stands for, if it was deleted since too.
AccountOf(portal, token) ==
    IF portal = Platform THEN token.who \in Staff
    ELSE \E u \in users \cup removed : u.email = token.who /\ u.tenant = token.tenant

TokensHaveAccounts ==
    \A t \in Tab :
        request[t].token # NoToken => AccountOf(request[t].portal, request[t].token)

\* The unique index: a row inserted and not yet committed keeps its slug.
SlugHeld ==
    \A t \in Tab : At(t, "signup", "commit") =>
        /\ \A n \in tenants : n.slug # request[t].slug
        /\ \A o \in Tab \ {t} : At(o, "signup", "commit") => request[o].slug # request[t].slug

IInv == /\ Typed
        /\ RequestsMatch
        /\ TokensHaveAccounts
        /\ SlugHeld
        /\ SignupAllOrNothing
        /\ SlugsUnique
        /\ SessionsWereCommitted

-----------------------------------------------------------------------------
(* Types *)

LEMMA NoTokenTyped == NoToken \in TokenType
BY DEF NoToken, TokenType, Who, Nobody_

LEMMA NoRequestTyped == NoRequest \in RequestType
BY NoTokenTyped DEF NoRequest, RequestType, Kind, Portal, Client, Who, Nobody_, Stage

LEMMA PlatformIsNotClient == Platform # Client /\ Platform \in Portal /\ Client \in Portal
BY DEF Platform, Client, Portal

\* A visit ends on a page.
LEMMA MiddlewarePage ==
    ASSUME NEW portal \in Portal, NEW page \in Page_
    PROVE  Middleware(portal, page) \in Page_
BY Zenon DEF Middleware, Page_

LEMMA LinkedPage ==
    ASSUME NEW portal \in Portal, NEW page \in Page_, NEW linked \in Links(portal, page)
    PROVE  linked \in Page_
<1>1. Links(portal, page) \subseteq Page_
  <2>1. {"app"} \subseteq Page_ /\ {"login", "signup"} \subseteq Page_
      BY DEF Page_
  <2>2. Pages(portal) \cap ({"login", "signup"} \ {page}) \subseteq Page_
      BY <2>1
  <2> QED BY <2>1, <2>2, Zenon DEF Links
<1> QED BY <1>1

\* What a visit mounts is a tab, its form one that was there or a fresh one.
LEMMA ShellKept ==
    ASSUME NEW old \in TabType, NEW portal \in Portal, NEW page \in Page_
    PROVE  /\ AppShell(old, portal, page) \in TabType
           /\ AppShell(old, portal, page).form \in {"idle", old.form}
<1>1. old.form \in Form /\ old.me \in Who \cup {"loading"}
    BY DEF TabType
<1>2. CASE old.page = page /\ old.portal = portal
    BY <1>1, <1>2 DEF AppShell, TabType, Form, Who
<1>3. CASE ~(old.page = page /\ old.portal = portal)
    BY <1>3 DEF AppShell, TabType, Form, Who
<1> QED BY <1>2, <1>3

LEMMA ShellFresh ==
    ASSUME NEW portal \in Portal, NEW page \in Page_
    PROVE  /\ AppShell(NewTab, portal, page) \in TabType
           /\ AppShell(NewTab, portal, page).form = "idle"
<1>1. NewTab.page # page
    BY DEF NewTab, Page_
<1>2. AppShell(NewTab, portal, page) =
        [portal |-> portal, page |-> page, form |-> "idle",
         me |-> IF page # "app" THEN Nobody_ ELSE "loading"]
    BY <1>1 DEF AppShell
<1> QED BY <1>2 DEF TabType, Form, Who, Nobody_

LEMMA InitIInv == SessionInit => IInv
<1> SUFFICES ASSUME SessionInit PROVE IInv
    OBVIOUS
<1>1. tab \in [Tab -> TabType] /\ \A t \in Tab : tab[t].form = "idle"
  <2>1. Client \in Portal /\ "home" \in Page_
      BY DEF Client, Portal, Page_
  <2> QED BY <2>1, ShellFresh DEF SessionInit
<1>2. Typed
    BY <1>1, NoTokenTyped, NoRequestTyped, FS_EmptySet DEF SessionInit, Typed
<1>3. RequestsMatch /\ TokensHaveAccounts /\ SlugHeld
    BY <1>1 DEF SessionInit, RequestsMatch, TokensHaveAccounts, SlugHeld, At, NoRequest
<1>4. SignupAllOrNothing /\ SlugsUnique /\ SessionsWereCommitted
    BY DEF SessionInit, SignupAllOrNothing, SlugsUnique, SessionsWereCommitted
<1> QED BY <1>2, <1>3, <1>4 DEF IInv

-----------------------------------------------------------------------------
(* Steps that commit nothing *)

\* A request as IInv wants it, for one of tab t.
Sound(t, rq) ==
    /\ rq \in RequestType
    /\ rq.kind = "signup" => rq.portal = Client /\ rq.who \in Person
    /\ rq.stage \in {"insert", "commit", "token"} => rq.kind = "signup"
    /\ rq.token # NoToken => AccountOf(rq.portal, rq.token)
    /\ (rq.kind = "signup" /\ rq.stage = "commit") =>
          /\ \A n \in tenants : n.slug # rq.slug
          /\ \A o \in Tab \ {t} : At(o, "signup", "commit") => request[o].slug # rq.slug

LEMMA RequestsSound ==
    ASSUME IInv, NEW t \in Tab
    PROVE  Sound(t, request[t])
BY DEF IInv, Typed, RequestsMatch, TokensHaveAccounts, SlugHeld, Sound, At

\* No form waits for a request that is not there.
FormsMatch ==
    \A t \in Tab : tab[t].form = "submitting" => request[t].kind \in {"login", "signup"}

\* A step that gives one tab a sound request and commits nothing.
LEMMA RequestStep ==
    ASSUME IInv, NEW t \in Tab, NEW rq, Sound(t, rq),
           request' = [request EXCEPT ![t] = rq],
           UNCHANGED <<tenants, users, removed>>,
           jar' \in [Portal -> TokenType], SessionsWereCommitted',
           tab' \in [Tab -> TabType], FormsMatch'
    PROVE  IInv'
<1>1. /\ request \in [Tab -> RequestType] /\ rq \in RequestType
      /\ request'[t] = rq /\ \A o \in Tab \ {t} : request'[o] = request[o]
    BY DEF IInv, Typed, Sound
<1>2. Typed'
    BY <1>1 DEF IInv, Typed
<1>3. RequestsMatch'
    BY <1>1 DEF IInv, RequestsMatch, FormsMatch, Sound
<1>4. TokensHaveAccounts'
    BY <1>1 DEF IInv, TokensHaveAccounts, AccountOf, Sound
<1>5. SlugHeld'
  <2> SUFFICES ASSUME NEW s \in Tab, At(s, "signup", "commit")'
               PROVE  /\ \A n \in tenants : n.slug # request'[s].slug
                      /\ \A o \in Tab \ {s} : At(o, "signup", "commit")' =>
                             request'[o].slug # request'[s].slug
      BY DEF SlugHeld
  <2>1. CASE s = t
      BY <2>1, <1>1 DEF Sound, At
  <2>2. CASE s # t
    <3>1. At(s, "signup", "commit") /\ request'[s] = request[s]
        BY <2>2, <1>1 DEF At
    <3>2. /\ \A n \in tenants : n.slug # request[s].slug
          /\ \A o \in Tab \ {s} : At(o, "signup", "commit") =>
                 request[o].slug # request[s].slug
        BY <3>1 DEF IInv, SlugHeld
    <3>3. At(t, "signup", "commit")' => request'[t].slug # request[s].slug
        BY <3>1, <2>2, <1>1 DEF Sound, At
    <3> QED BY <3>1, <3>2, <3>3, <1>1 DEF At
  <2> QED BY <2>1, <2>2
<1>6. SignupAllOrNothing' /\ SlugsUnique'
    BY DEF IInv, SignupAllOrNothing, SlugsUnique
<1> QED BY <1>2, <1>3, <1>4, <1>5, <1>6 DEF IInv

LEMMA JarKept ==
    ASSUME IInv, UNCHANGED <<users, removed, jar>>
    PROVE  jar' \in [Portal -> TokenType] /\ SessionsWereCommitted'
BY DEF IInv, Typed, SessionsWereCommitted

LEMMA TabKept ==
    ASSUME IInv, NEW t \in Tab, NEW rq, request' = [request EXCEPT ![t] = rq],
           rq.kind = request[t].kind, UNCHANGED tab
    PROVE  tab' \in [Tab -> TabType] /\ FormsMatch'
BY DEF IInv, Typed, RequestsMatch, FormsMatch

\* A step of a tab alone.
LEMMA TabStep ==
    ASSUME IInv, UNCHANGED <<tenants, users, removed, jar, request>>, tab' \in [Tab -> TabType],
           \A t \in Tab : tab'[t].form \in {"idle", tab[t].form}
    PROVE  IInv'
<1>1. Typed'
    BY DEF IInv, Typed
<1>2. RequestsMatch'
    BY DEF IInv, RequestsMatch
<1> QED BY <1>1, <1>2 DEF IInv, TokensHaveAccounts, AccountOf, SlugHeld, At, SignupAllOrNothing,
              SlugsUnique, SessionsWereCommitted

LEMMA GoToPageKeepsForm ==
    ASSUME IInv, NEW t \in Tab, NEW old \in TabType, NEW portal \in Portal, NEW page \in Page_,
           GoToPage(t, old, portal, page)
    PROVE  /\ tab' \in [Tab -> TabType]
           /\ tab'[t].form \in {"idle", old.form}
           /\ \A o \in Tab \ {t} : tab'[o] = tab[o]
<1>1. tab \in [Tab -> TabType]
    BY DEF IInv, Typed
<1>2. Middleware(portal, page) \in Page_
    BY MiddlewarePage
<1> QED BY <1>1, <1>2, ShellKept DEF GoToPage

LEMMA TabsTyped ==
    ASSUME IInv, NEW t \in Tab
    PROVE  /\ tab \in [Tab -> TabType] /\ tab[t] \in TabType
           /\ tab[t].portal \in Portal /\ tab[t].page \in Page_ /\ tab[t].form \in Form
           /\ tab[t].me \in Who \cup {"loading"}
BY DEF IInv, Typed, TabType

LEMMA UserKeepsIInv ==
    ASSUME IInv, NEW t \in Tab,
           \/ FollowLink(t) \/ EnterAddress(t) \/ SubmitLogin(t) \/ SubmitSignup(t)
           \/ ClickLogout(t) \/ MeAnswered(t)
    PROVE  IInv'
<1>1. CASE FollowLink(t)
  <2>1. PICK page \in Links(tab[t].portal, tab[t].page) :
             GoToPage(t, tab[t], tab[t].portal, page)
      BY <1>1 DEF FollowLink
  <2>2. page \in Page_
      BY TabsTyped, LinkedPage
  <2>3. /\ tab' \in [Tab -> TabType]
        /\ \A o \in Tab : tab'[o].form \in {"idle", tab[o].form}
      BY <2>1, <2>2, TabsTyped, GoToPageKeepsForm
  <2> QED BY <2>3, <1>1, TabStep DEF FollowLink
<1>2. CASE EnterAddress(t)
  <2>1. PICK portal \in Portal : \E page \in Pages(portal) :
             tab' = [tab EXCEPT ![t] = AppShell(NewTab, portal, Middleware(portal, page))]
      BY <1>2 DEF EnterAddress
  <2>2. PICK page \in Page_ :
             tab' = [tab EXCEPT ![t] = AppShell(NewTab, portal, Middleware(portal, page))]
      BY <2>1 DEF Pages, Page_
  <2>3. /\ tab' \in [Tab -> TabType]
        /\ \A o \in Tab : tab'[o].form \in {"idle", tab[o].form}
      BY <2>2, TabsTyped, MiddlewarePage, ShellFresh
  <2> QED BY <2>3, <1>2, TabStep DEF EnterAddress
<1>3. CASE SubmitLogin(t) \/ SubmitSignup(t) \/ ClickLogout(t)
  <2>1. PICK kind \in {"login", "signup", "logout"}, portal \in Portal, who \in Who :
          /\ Send(t, kind, portal, who)
          /\ kind = "signup" => portal = Client /\ who \in Person
          /\ kind = "logout" => tab' = tab /\ tab[t].form # "submitting"
          /\ kind # "logout" => tab' = [tab EXCEPT ![t].form = "submitting"]
    <3>1. CASE SubmitLogin(t)
        BY <3>1, TabsTyped DEF SubmitLogin, Who
    <3>2. CASE SubmitSignup(t)
        BY <3>2, PlatformIsNotClient DEF SubmitSignup, Who
    <3>3. CASE ClickLogout(t)
      <4>1. request[t] = NoRequest
          BY <3>3 DEF ClickLogout
      <4>2. tab[t].form # "submitting"
          BY <4>1 DEF IInv, RequestsMatch, NoRequest
      <4> QED BY <3>3, <4>2, TabsTyped DEF ClickLogout, Who
    <3> QED BY <1>3, <3>1, <3>2, <3>3
  <2> DEFINE rq == [NoRequest EXCEPT !.kind = kind, !.portal = portal, !.who = who,
                                     !.stage = "sent"]
  <2>2. /\ rq \in RequestType
        /\ rq.kind = kind /\ rq.portal = portal /\ rq.who = who /\ rq.stage = "sent"
        /\ rq.token = NoToken
      BY NoRequestTyped DEF RequestType, Kind, Stage, NoRequest
  <2>3. Sound(t, rq)
      BY <2>1, <2>2 DEF Sound
  <2>4. request' = [request EXCEPT ![t] = rq]
      BY <2>1 DEF Send
  <2>5. tab' \in [Tab -> TabType] /\ FormsMatch'
    <3>1. tab' \in [Tab -> TabType]
        BY <2>1, TabsTyped DEF TabType, Form
    <3>2. \A o \in Tab \ {t} : tab'[o] = tab[o] /\ request'[o] = request[o]
        BY <2>1, <2>4, TabsTyped DEF IInv, Typed
    <3>3. request'[t].kind = kind /\ (kind = "logout" => tab'[t].form # "submitting")
        BY <2>1, <2>2, <2>4 DEF IInv, Typed
    <3> HIDE DEF rq
    <3> QED BY <3>1, <3>2, <3>3 DEF IInv, RequestsMatch, FormsMatch
  <2>6. UNCHANGED <<tenants, users, removed, jar>>
      BY <1>3 DEF SubmitLogin, SubmitSignup, ClickLogout
  <2> HIDE DEF rq
  <2> QED BY <2>3, <2>4, <2>5, <2>6, JarKept, RequestStep
<1>4. CASE MeAnswered(t)
  <2>1. PICK me \in {Nobody_, jar[tab[t].portal].who} : tab' = [tab EXCEPT ![t].me = me]
      BY <1>4 DEF MeAnswered
  <2>2. me \in Who
      BY TabsTyped DEF IInv, Typed, TokenType, Who
  <2>3. /\ tab' \in [Tab -> TabType]
        /\ \A o \in Tab : tab'[o].form \in {"idle", tab[o].form}
      BY <2>1, <2>2, TabsTyped DEF TabType
  <2> QED BY <2>3, <1>4, TabStep DEF MeAnswered
<1> QED BY <1>1, <1>2, <1>3, <1>4

LEMMA RequestTyped ==
    ASSUME IInv, NEW t \in Tab
    PROVE  /\ request \in [Tab -> RequestType] /\ request[t] \in RequestType
           /\ request[t].portal \in Portal /\ request[t].who \in Who
           /\ request[t].slug \in Nat /\ request[t].token \in TokenType
BY DEF IInv, Typed, RequestType

\* An answer with no token, or with one of an account, is sound.
LEMMA AnswerSound ==
    ASSUME IInv, NEW t \in Tab, NEW token \in TokenType,
           NEW stage \in {"answered", "received"},
           token # NoToken => AccountOf(request[t].portal, token)
    PROVE  Sound(t, [request[t] EXCEPT !.stage = stage, !.token = token])
BY RequestTyped, RequestsSound DEF Sound, RequestType, Stage

LEMMA LoginKeepsIInv ==
    ASSUME IInv, NEW t \in Tab, HandleLogin(t) \/ PlatformLogin(t)
    PROVE  IInv'
<1>1. PICK token \in TokenType :
         Answer(t, token) /\ (token # NoToken => AccountOf(request[t].portal, token))
  <2>1. CASE HandleLogin(t)
    <3>1. request[t].portal # Platform
        BY <2>1, PlatformIsNotClient DEF HandleLogin
    <3>2. ASSUME NEW u \in users, u.email = request[t].who, Answer(t, Token(u.email, u.tenant))
          PROVE  /\ Token(u.email, u.tenant) \in TokenType
                 /\ AccountOf(request[t].portal, Token(u.email, u.tenant))
        BY <3>1, <3>2 DEF Token, TokenType, AccountOf, IInv, Typed, Who
    <3> QED BY <2>1, <3>2, NoTokenTyped DEF HandleLogin
  <2>2. CASE PlatformLogin(t)
    <3>1. Token(request[t].who, 0) \in TokenType
        BY RequestTyped DEF Token, TokenType
    <3>2. request[t].who \in Staff => AccountOf(request[t].portal, Token(request[t].who, 0))
        BY <2>2 DEF PlatformLogin, AccountOf, Token
    <3> QED BY <2>2, <3>1, <3>2, NoTokenTyped DEF PlatformLogin
  <2> QED BY <2>1, <2>2
<1> DEFINE rq == [request[t] EXCEPT !.stage = "answered", !.token = token]
<1>2. Sound(t, rq) /\ rq.kind = request[t].kind
    BY <1>1, AnswerSound, RequestTyped DEF RequestType
<1>3. request' = [request EXCEPT ![t] = rq]
    BY <1>1, RequestTyped DEF Answer
<1>4. UNCHANGED <<tenants, users, removed, jar, tab>>
    BY DEF HandleLogin, PlatformLogin
<1> HIDE DEF rq
<1> QED BY <1>2, <1>3, <1>4, JarKept, TabKept, RequestStep

LEMMA FindSlugKeepsIInv ==
    ASSUME IInv, NEW t \in Tab, FindSlug(t)
    PROVE  IInv'
<1>1. PICK rq \in {[request[t] EXCEPT !.slug = @ + 2], [request[t] EXCEPT !.stage = "insert"]} :
         request' = [request EXCEPT ![t] = rq]
    BY RequestTyped DEF FindSlug
<1>2. request[t].kind = "signup" /\ request[t].stage = "sent"
    BY DEF FindSlug, At
<1>3. Sound(t, rq) /\ rq.kind = request[t].kind
    BY <1>1, <1>2, RequestTyped, RequestsSound DEF Sound, RequestType, Stage
<1>4. UNCHANGED <<tenants, users, removed, jar, tab>>
    BY DEF FindSlug
<1> QED BY <1>1, <1>3, <1>4, JarKept, TabKept, RequestStep

\* The index lets a row in only when neither a committed row nor one of
\* another transaction has its slug.
LEMMA InsertTenantKeepsIInv ==
    ASSUME IInv, NEW t \in Tab, InsertTenant(t)
    PROVE  IInv'
<1>1. UNCHANGED <<tenants, users, removed, jar, tab>> /\ At(t, "signup", "insert")
    BY DEF InsertTenant
<1>2. CASE \E n \in tenants : n.slug = request[t].slug
  <2> DEFINE rq == [request[t] EXCEPT !.stage = "answered", !.token = NoToken]
  <2>1. Sound(t, rq) /\ rq.kind = request[t].kind
      BY AnswerSound, NoTokenTyped, RequestTyped DEF RequestType
  <2>2. request' = [request EXCEPT ![t] = rq]
      BY <1>2, RequestTyped DEF InsertTenant, Answer
  <2> HIDE DEF rq
  <2> QED BY <1>1, <2>1, <2>2, JarKept, TabKept, RequestStep
<1>3. CASE \A n \in tenants : n.slug # request[t].slug
  <2> DEFINE rq == [request[t] EXCEPT !.stage = "commit"]
  <2>1. request' = [request EXCEPT ![t] = rq]
      BY <1>3, RequestTyped DEF InsertTenant
  <2>2. /\ rq \in RequestType
        /\ rq.kind = request[t].kind /\ rq.portal = request[t].portal /\ rq.who = request[t].who
        /\ rq.slug = request[t].slug /\ rq.token = request[t].token
      BY RequestTyped DEF RequestType, Stage
  <2>3. \A o \in Tab : At(o, "signup", "commit") => request[o].slug # request[t].slug
      BY DEF InsertTenant
  <2> HIDE DEF rq
  <2>4. Sound(t, rq)
      BY <1>1, <1>3, <2>2, <2>3, RequestsSound DEF Sound, At
  <2> QED BY <1>1, <2>1, <2>2, <2>4, JarKept, TabKept, RequestStep
<1> QED BY <1>2, <1>3

LEMMA IssueTokenKeepsIInv ==
    ASSUME IInv, NEW t \in Tab, IssueToken(t)
    PROVE  IInv'
<1>1. PICK token \in {request[t].token, NoToken} : Answer(t, token)
    BY DEF IssueToken
<1>2. token \in TokenType /\ (token # NoToken => AccountOf(request[t].portal, token))
    BY <1>1, NoTokenTyped, RequestTyped, RequestsSound DEF Sound
<1> DEFINE rq == [request[t] EXCEPT !.stage = "answered", !.token = token]
<1>3. Sound(t, rq) /\ rq.kind = request[t].kind
    BY <1>2, AnswerSound, RequestTyped DEF RequestType
<1>4. request' = [request EXCEPT ![t] = rq]
    BY <1>1, RequestTyped DEF Answer
<1>5. UNCHANGED <<tenants, users, removed, jar, tab>>
    BY DEF IssueToken
<1> HIDE DEF rq
<1> QED BY <1>3, <1>4, <1>5, JarKept, TabKept, RequestStep

LEMMA LostKeepsIInv ==
    ASSUME IInv, NEW t \in Tab, Lost(t)
    PROVE  IInv'
<1> DEFINE rq == [request[t] EXCEPT !.stage = "received", !.token = NoToken]
<1>1. Sound(t, rq) /\ rq.kind = request[t].kind
    BY AnswerSound, NoTokenTyped, RequestTyped DEF RequestType
<1>2. request' = [request EXCEPT ![t] = rq]
    BY RequestTyped DEF Lost
<1>3. UNCHANGED <<tenants, users, removed, jar, tab>>
    BY DEF Lost
<1> HIDE DEF rq
<1> QED BY <1>1, <1>2, <1>3, JarKept, TabKept, RequestStep

\* The cookies: cleared, dropped, or set to the token of the answer.
LEMMA HandleLogoutKeepsIInv ==
    ASSUME IInv, NEW t \in Tab, HandleLogout(t)
    PROVE  IInv'
<1> DEFINE rq == [request[t] EXCEPT !.stage = "answered"]
<1>1. Sound(t, rq) /\ rq.kind = request[t].kind
    BY RequestTyped, RequestsSound DEF Sound, RequestType, Stage
<1>2. request' = [request EXCEPT ![t] = rq]
    BY RequestTyped DEF HandleLogout
<1>3. UNCHANGED <<tenants, users, removed, tab>> /\ jar' = [jar EXCEPT ![request[t].portal] = NoToken]
    BY DEF HandleLogout
<1>4. jar' \in [Portal -> TokenType] /\ SessionsWereCommitted'
    BY <1>3, RequestTyped, NoTokenTyped DEF IInv, Typed, SessionsWereCommitted
<1> HIDE DEF rq
<1> QED BY <1>1, <1>2, <1>3, <1>4, TabKept, RequestStep

LEMMA CookieSetKeepsIInv ==
    ASSUME IInv, NEW t \in Tab, CookieSet(t)
    PROVE  IInv'
<1> DEFINE rq == [request[t] EXCEPT !.stage = "received"]
<1>1. Sound(t, rq) /\ rq.kind = request[t].kind
    BY RequestTyped, RequestsSound DEF Sound, RequestType, Stage
<1>2. request' = [request EXCEPT ![t] = rq]
    BY RequestTyped DEF CookieSet
<1>3. UNCHANGED <<tenants, users, removed, tab>>
    BY DEF CookieSet
<1>4. jar' \in [Portal -> TokenType] /\ SessionsWereCommitted'
  <2>1. CASE request[t].token = NoToken
      BY <2>1, <1>3, JarKept DEF CookieSet
  <2>2. CASE request[t].token # NoToken
    <3>1. AccountOf(request[t].portal, request[t].token)
        BY <2>2, RequestsSound DEF Sound
    <3>2. jar' = [jar EXCEPT ![request[t].portal] = request[t].token]
        BY <2>2 DEF CookieSet
    <3> QED BY <1>3, <3>1, <3>2, RequestTyped
            DEF IInv, Typed, SessionsWereCommitted, AccountOf
  <2> QED BY <2>1, <2>2
<1> HIDE DEF rq
<1> QED BY <1>1, <1>2, <1>3, <1>4, TabKept, RequestStep

LEMMA TokenExpiresKeepsIInv ==
    ASSUME IInv, TokenExpires
    PROVE  IInv'
<1>1. UNCHANGED <<tenants, users, removed, tab, request>>
    BY DEF TokenExpires
<1>2. PICK p \in Portal : /\ jar[p].valid
                          /\ \/ jar' = [jar EXCEPT ![p] = NoToken]
                             \/ jar' = [jar EXCEPT ![p].valid = FALSE]
    BY DEF TokenExpires
<1>3. jar \in [Portal -> TokenType]
    BY DEF IInv, Typed
<1>4. jar' \in [Portal -> TokenType]
    BY <1>2, <1>3, NoTokenTyped DEF TokenType
<1>5. \A q \in Portal : jar'[q] # NoToken =>
         jar[q] # NoToken /\ jar'[q].who = jar[q].who /\ jar'[q].tenant = jar[q].tenant
  <2>1. jar[p] # NoToken
      BY <1>2 DEF NoToken
  <2>2. \A q \in Portal \ {p} : jar'[q] = jar[q]
      BY <1>2, <1>3
  <2>3. CASE jar' = [jar EXCEPT ![p] = NoToken]
      BY <2>2, <2>3, <1>3
  <2>4. CASE jar' = [jar EXCEPT ![p].valid = FALSE]
    <3>1. jar[p] \in TokenType /\ jar'[p] = [jar[p] EXCEPT !.valid = FALSE]
        BY <2>4, <1>3
    <3>2. jar'[p].who = jar[p].who /\ jar'[p].tenant = jar[p].tenant
        BY <3>1 DEF TokenType
    <3> QED BY <2>1, <2>2, <3>2
  <2> QED BY <2>3, <2>4, <1>2
<1>6. SessionsWereCommitted'
    BY <1>1, <1>5 DEF IInv, SessionsWereCommitted
<1>7. Typed'
    BY <1>1, <1>4 DEF IInv, Typed
<1> QED BY <1>1, <1>6, <1>7 DEF IInv, RequestsMatch, TokensHaveAccounts, AccountOf, SlugHeld, At,
              SignupAllOrNothing, SlugsUnique

LEMMA NoRequestSound ==
    ASSUME NEW t \in Tab
    PROVE  Sound(t, NoRequest)
BY NoRequestTyped DEF Sound, NoRequest

\* The tab takes its answer: the form does not stay submitting.
LEMMA AnswerTakenKeepsIInv ==
    ASSUME IInv, NEW t \in Tab, FormAnswered(t) \/ LogoutAnswered(t)
    PROVE  IInv'
<1>1. UNCHANGED <<tenants, users, removed, jar>> /\ request' = [request EXCEPT ![t] = NoRequest]
    BY DEF FormAnswered, LogoutAnswered
<1>2. /\ tab' \in [Tab -> TabType]
      /\ tab'[t].form # "submitting" /\ \A o \in Tab \ {t} : tab'[o] = tab[o]
  <2>1. CASE FormAnswered(t) /\ request[t].token # NoToken
    <3> DEFINE old == [tab[t] EXCEPT !.form = "pushed"]
    <3>1. old \in TabType /\ old.form = "pushed"
        BY TabsTyped DEF TabType, Form
    <3>2. GoToPage(t, old, request[t].portal, "app")
        BY <2>1 DEF FormAnswered, PushOn
    <3>3. "app" \in Page_
        BY DEF Page_
    <3> HIDE DEF old
    <3> QED BY <3>1, <3>2, <3>3, RequestTyped, GoToPageKeepsForm
  <2>2. CASE FormAnswered(t) /\ request[t].token = NoToken
      BY <2>2, TabsTyped DEF FormAnswered, TabType, Form
  <2>3. CASE LogoutAnswered(t)
    <3>1. tab[t].form # "submitting"
        BY <2>3 DEF LogoutAnswered, At, IInv, RequestsMatch
    <3>2. GoToPage(t, tab[t], request[t].portal, "login")
        BY <2>3 DEF LogoutAnswered
    <3>3. "login" \in Page_
        BY DEF Page_
    <3> QED BY <3>1, <3>2, <3>3, TabsTyped, RequestTyped, GoToPageKeepsForm
  <2> QED BY <2>1, <2>2, <2>3
<1>3. FormsMatch'
    BY <1>1, <1>2, RequestTyped DEF IInv, RequestsMatch, FormsMatch
<1> QED BY <1>1, <1>2, <1>3, NoRequestSound, JarKept, RequestStep

-----------------------------------------------------------------------------
(* The commit of a signup *)

LEMMA CommitSignupKeepsIInv ==
    ASSUME IInv, NEW t \in Tab, CommitSignup(t)
    PROVE  IInv'
<1>1. CASE Answer(t, NoToken) /\ UNCHANGED <<tenants, users, removed>>
  <2> DEFINE rq == [request[t] EXCEPT !.stage = "answered", !.token = NoToken]
  <2>1. Sound(t, rq) /\ rq.kind = request[t].kind
      BY AnswerSound, NoTokenTyped, RequestTyped DEF RequestType
  <2>2. request' = [request EXCEPT ![t] = rq]
      BY <1>1, RequestTyped DEF Answer
  <2>3. UNCHANGED <<tenants, users, removed, jar, tab>>
      BY <1>1 DEF CommitSignup
  <2> HIDE DEF rq
  <2> QED BY <2>1, <2>2, <2>3, JarKept, TabKept, RequestStep
<1>2. CASE
         /\ tenants' = tenants \cup {[id |-> NextTenant, slug |-> request[t].slug]}
         /\ users' = users \cup {[tenant |-> NextTenant, email |-> request[t].who]}
         /\ request' = [request EXCEPT ![t].stage = "token",
                                       ![t].token = Token(request[t].who, NextTenant)]
  <2>1. NextTenant \in Nat /\ IsFiniteSet(tenants')
    <3>1. IsFiniteSet(tenants)
        BY DEF IInv, Typed
    <3>2. Cardinality(tenants) \in Nat
        BY <3>1, FS_CardinalityType
    <3>3. IsFiniteSet(tenants \cup {[id |-> NextTenant, slug |-> request[t].slug]})
        BY <3>1, FS_AddElement
    <3> QED BY <1>2, <3>2, <3>3 DEF NextTenant
  <2>2. /\ At(t, "signup", "commit")
        /\ request[t].portal = Client /\ request[t].who \in Person
        /\ request[t].slug \in Nat /\ UNCHANGED <<removed, jar, tab>>
      BY RequestsSound, RequestTyped DEF CommitSignup, Sound, At
  <2>3. PICK token \in TokenType :
           /\ token = Token(request[t].who, NextTenant)
           /\ token.who = request[t].who /\ token.tenant = NextTenant
    <3>1. Token(request[t].who, NextTenant) \in TokenType
        BY <2>1, RequestTyped DEF Token, TokenType
    <3> QED BY <3>1 DEF Token
  <2>4. PICK tenant \in [id: Nat, slug: Nat], user \in [tenant: Nat, email: Person] :
           /\ tenant.id = NextTenant /\ tenant.slug = request[t].slug
           /\ user.tenant = NextTenant /\ user.email = request[t].who
           /\ tenants' = tenants \cup {tenant} /\ users' = users \cup {user}
      BY <1>2, <2>1, <2>2
  <2> DEFINE rq == [request[t] EXCEPT !.stage = "token", !.token = token]
  <2>5. /\ rq \in RequestType
        /\ rq.kind = "signup" /\ rq.portal = Client /\ rq.who \in Person
        /\ rq.stage = "token" /\ rq.token = token
      BY <2>2, <2>3, RequestTyped DEF RequestType, Stage, At
  <2>6. request' = [request EXCEPT ![t] = rq]
      BY <1>2, <2>3, RequestTyped
  <2> HIDE DEF rq
  <2>7. request'[t] = rq /\ \A o \in Tab \ {t} : request'[o] = request[o]
      BY <2>6, RequestTyped
  <2>8. Typed'
      BY <2>1, <2>2, <2>4, <2>5, <2>6, RequestTyped DEF IInv, Typed
  <2>9. RequestsMatch'
      BY <2>2, <2>5, <2>7 DEF IInv, RequestsMatch
  <2>10. TokensHaveAccounts'
    <3> SUFFICES ASSUME NEW o \in Tab, request'[o].token # NoToken
                 PROVE  AccountOf(request[o].portal, request[o].token)'
        BY DEF TokensHaveAccounts
    <3>1. CASE o = t
        BY <3>1, <2>3, <2>4, <2>5, <2>7, PlatformIsNotClient DEF AccountOf
    <3>2. CASE o # t
        BY <3>2, <2>2, <2>4, <2>7 DEF IInv, TokensHaveAccounts, AccountOf
    <3> QED BY <3>1, <3>2
  <2>11. SlugHeld'
    <3> SUFFICES ASSUME NEW s \in Tab, At(s, "signup", "commit")'
                 PROVE  /\ \A n \in tenants' : n.slug # request'[s].slug
                        /\ \A o \in Tab \ {s} : At(o, "signup", "commit")' =>
                               request'[o].slug # request'[s].slug
        BY DEF SlugHeld
    <3>1. s # t /\ request'[s] = request[s] /\ At(s, "signup", "commit")
        BY <2>5, <2>7 DEF At
    <3>2. tenant.slug # request[s].slug
        BY <3>1, <2>2, <2>4 DEF IInv, SlugHeld
    <3>3. ASSUME NEW o \in Tab \ {s}, At(o, "signup", "commit")'
          PROVE  request'[o].slug # request'[s].slug
      <4>1. o # t /\ request'[o] = request[o] /\ At(o, "signup", "commit")
          BY <3>3, <2>5, <2>7 DEF At
      <4> QED BY <4>1, <3>1 DEF IInv, SlugHeld
    <3> QED BY <3>1, <3>2, <3>3, <2>4 DEF IInv, SlugHeld
  <2>12. SignupAllOrNothing'
    <3>1. {n.id : n \in tenants} = {u.tenant : u \in users \cup removed}
        BY DEF IInv, SignupAllOrNothing
    <3>2. {n.id : n \in tenants \cup {tenant}} = {n.id : n \in tenants} \cup {tenant.id}
        OBVIOUS
    <3>3. {u.tenant : u \in (users \cup {user}) \cup removed} =
             {u.tenant : u \in users \cup removed} \cup {user.tenant}
        OBVIOUS
    <3> QED BY <3>1, <3>2, <3>3, <1>2, <2>2, <2>4 DEF SignupAllOrNothing, CommitSignup
  <2>13. SlugsUnique'
    <3>1. \A n \in tenants : n.slug # tenant.slug
        BY <2>2, <2>4 DEF IInv, SlugHeld
    <3> QED BY <3>1, <2>4 DEF IInv, SlugsUnique
  <2>14. SessionsWereCommitted'
      BY <2>2, <2>4 DEF IInv, SessionsWereCommitted
  <2> QED BY <2>8, <2>9, <2>10, <2>11, <2>12, <2>13, <2>14 DEF IInv
<1> QED BY <1>1, <1>2 DEF CommitSignup

-----------------------------------------------------------------------------
(* Administrators *)

\* Whoever is added is of a tenant that is there, and whoever is deleted is
\* not forgotten.
LEMMA PeopleKeepIInv ==
    ASSUME IInv, CreateUser \/ DeleteUser
    PROVE  IInv'
<1>1. UNCHANGED <<tenants, jar, tab, request>>
    BY DEF CreateUser, DeleteUser
<1>2. /\ users' \cup removed' \subseteq [tenant: Nat, email: Person]
      /\ users \cup removed \subseteq users' \cup removed'
      /\ SignupAllOrNothing'
  <2>1. CASE CreateUser
    <3>1. PICK n \in tenants, who \in Person :
             users' = users \cup {[tenant |-> n.id, email |-> who]} /\ removed' = removed
        BY <2>1 DEF CreateUser
    <3>2. PICK user \in [tenant: Nat, email: Person] :
             user.tenant = n.id /\ users' = users \cup {user}
        BY <3>1 DEF IInv, Typed
    <3>3. {u.tenant : u \in (users \cup {user}) \cup removed} =
             {u.tenant : u \in users \cup removed} \cup {user.tenant}
        OBVIOUS
    <3>4. {u.tenant : u \in users \cup removed} = {m.id : m \in tenants}
        BY DEF IInv, SignupAllOrNothing
    <3>5. user.tenant \in {m.id : m \in tenants}
        BY <3>2
    <3> QED BY <1>1, <3>1, <3>2, <3>3, <3>4, <3>5 DEF IInv, Typed, SignupAllOrNothing
  <2>2. CASE DeleteUser
    <3>1. PICK u \in users : users' = users \ {u} /\ removed' = removed \cup {u}
        BY <2>2 DEF DeleteUser
    <3>2. users' \cup removed' = users \cup removed
        BY <3>1
    <3> QED BY <1>1, <3>2 DEF IInv, Typed, SignupAllOrNothing
  <2> QED BY <2>1, <2>2
<1>3. Typed' /\ RequestsMatch' /\ SlugHeld' /\ SlugsUnique'
    BY <1>1, <1>2 DEF IInv, Typed, RequestsMatch, SlugHeld, At, SlugsUnique
<1>4. TokensHaveAccounts' /\ SessionsWereCommitted'
    BY <1>1, <1>2 DEF IInv, TokensHaveAccounts, AccountOf, SessionsWereCommitted
<1> QED BY <1>2, <1>3, <1>4 DEF IInv

-----------------------------------------------------------------------------
(* The theorems *)

LEMMA NextCases ==
    ASSUME SessionNext
    PROVE  \/ TokenExpires \/ CreateUser \/ DeleteUser
           \/ \E t \in Tab :
                \/ FollowLink(t) \/ EnterAddress(t) \/ SubmitLogin(t) \/ SubmitSignup(t)
                \/ ClickLogout(t) \/ MeAnswered(t)
                \/ HandleLogin(t) \/ PlatformLogin(t) \/ FindSlug(t) \/ InsertTenant(t)
                \/ CommitSignup(t) \/ IssueToken(t) \/ HandleLogout(t)
                \/ CookieSet(t) \/ Lost(t) \/ FormAnswered(t) \/ LogoutAnswered(t)
BY DEF SessionNext, Serve, Receive

LEMMA NextIInv ==
    ASSUME IInv, [SessionNext]_sessionVars
    PROVE  IInv'
<1>1. CASE UNCHANGED sessionVars
    BY <1>1 DEF sessionVars, IInv, Typed, RequestsMatch, TokensHaveAccounts, AccountOf, SlugHeld,
         At, SignupAllOrNothing, SlugsUnique, SessionsWereCommitted
<1>2. CASE TokenExpires
    BY <1>2, TokenExpiresKeepsIInv
<1>6. CASE CreateUser \/ DeleteUser
    BY <1>6, PeopleKeepIInv
<1>3. ASSUME NEW t \in Tab,
             \/ FollowLink(t) \/ EnterAddress(t) \/ SubmitLogin(t) \/ SubmitSignup(t)
             \/ ClickLogout(t) \/ MeAnswered(t)
      PROVE  IInv'
    BY <1>3, UserKeepsIInv
<1>4. ASSUME NEW t \in Tab,
             \/ HandleLogin(t) \/ PlatformLogin(t) \/ FindSlug(t) \/ InsertTenant(t)
             \/ CommitSignup(t) \/ IssueToken(t) \/ HandleLogout(t)
      PROVE  IInv'
    BY <1>4, LoginKeepsIInv, FindSlugKeepsIInv, InsertTenantKeepsIInv, CommitSignupKeepsIInv,
       IssueTokenKeepsIInv, HandleLogoutKeepsIInv
<1>5. ASSUME NEW t \in Tab, CookieSet(t) \/ Lost(t) \/ FormAnswered(t) \/ LogoutAnswered(t)
      PROVE  IInv'
    BY <1>5, CookieSetKeepsIInv, LostKeepsIInv, AnswerTakenKeepsIInv
<1> QED BY <1>1, <1>2, <1>3, <1>4, <1>5, <1>6, NextCases

LEMMA Inductive == SessionSpec => []IInv
<1>1. IInv /\ [SessionNext]_sessionVars => IInv'
    BY NextIInv
<1> QED BY InitIInv, <1>1, PTL DEF SessionSpec

\* Rows, cookies, tabs and requests keep their types, and a form that is
\* submitting has a request it waits for (login and signup handleSubmit).
THEOREM TypeCorrect == SessionSpec => []SessionTypeOK
<1>1. ASSUME IInv PROVE SessionTypeOK
  <2>1. \A n \in tenants : n.slug \in Nat
      BY <1>1 DEF IInv, Typed
  <2>2. \A u \in users \cup removed : u.email \in Person
      BY <1>1 DEF IInv, Typed
  <2>3. \A p \in Portal : jar[p] = NoToken \/ jar[p].who \in Person \cup Staff
      BY <1>1, <2>2 DEF IInv, SessionsWereCommitted
  <2>4. \A t \in Tab : tab[t].page \in Page_ /\ tab[t].form \in {"idle", "submitting", "pushed"}
      BY <1>1 DEF IInv, Typed, TabType, Form
  <2>5. \A t \in Tab : tab[t].form = "submitting" => request[t] # NoRequest
      BY <1>1 DEF IInv, RequestsMatch, NoRequest
  <2> QED BY <2>1, <2>2, <2>3, <2>4, <2>5 DEF SessionTypeOK
<1> QED BY <1>1, Inductive, PTL

\* A tenant is there with its first admin or not at all (handleSignup's
\* transaction), whichever step fails.
THEOREM SignupAtomic == SessionSpec => []SignupAllOrNothing
<1>1. IInv => SignupAllOrNothing
    BY DEF IInv
<1> QED BY <1>1, Inductive, PTL

\* The unique index makes up for a slug that was free when handleSignup
\* looked and is taken when it inserts.
THEOREM SlugsStayUnique == SessionSpec => []SlugsUnique
<1>1. IInv => SlugsUnique
    BY DEF IInv
<1> QED BY <1>1, Inductive, PTL

\* A cookie set by a late answer, in whatever portal and page the tab shows
\* by then, is that of an account that was committed, whoever is deleted
\* while the answer is under way and after it.
THEOREM SessionsSound == SessionSpec => []SessionsWereCommitted
<1>1. IInv => SessionsWereCommitted
    BY DEF IInv
<1> QED BY <1>1, Inductive, PTL
=============================================================================
