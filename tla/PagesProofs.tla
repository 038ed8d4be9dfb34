---------------------------- MODULE PagesProofs ----------------------------
(***************************************************************************)
(* Safety of the console's pages that keep a copy of what the service      *)
(* holds and change it: ListPages, TicketPage and AccessEditor, for any    *)
(* rows, staff, users and numbers of requests.  Each has an invariant that *)
(* says what the requests in flight will tell the page.                    *)
(*   TInv, PInv  the last GET, or once it is answered the page itself, has *)
(*               what the service holds now, unless the page was not told    *)
(*   EInv        whom the requests of the editor are for, and what the one *)
(*               PUT that the panel waits for carries, sees and leaves     *)
(* What the editor shows is a fold over the rows of an answer, in any      *)
(* order: what it computes is proved by induction on its length.           *)
(***************************************************************************)
EXTENDS ListPages, TicketPage, AccessEditor, SequenceTheorems, FiniteSetTheorems,
        WellFoundedInduction, TLAPS

-----------------------------------------------------------------------------
(* Requests in the order they were sent *)

LEMMA CutBefore ==
    ASSUME NEW S, NEW s \in Seq(S), NEW i \in 1..Len(s)
    PROVE  /\ SubSeq(s, 1, i - 1) \in Seq(S)
           /\ Len(SubSeq(s, 1, i - 1)) = i - 1
           /\ \A j \in 1..(i - 1) : SubSeq(s, 1, i - 1)[j] = s[j]
<1>1. Len(s) \in Nat /\ \A j \in 1..Len(s) : s[j] \in S
    BY LenProperties, ElementOfSeq
<1>2. i - 1 \in Int /\ \A j \in 1..(i - 1) : s[j] \in S
    BY <1>1
<1>3. /\ SubSeq(s, 1, i - 1) \in Seq(S)
      /\ Len(SubSeq(s, 1, i - 1)) = IF 1 <= i - 1 THEN (i - 1) - 1 + 1 ELSE 0
      /\ \A j \in 1..((i - 1) - 1 + 1) : SubSeq(s, 1, i - 1)[j] = s[1 + j - 1]
    BY <1>2, SubSeqProperties
<1>4. (i - 1) - 1 + 1 = i - 1 /\ (1 <= i - 1 \/ i - 1 = 0) /\ \A j \in 1..(i - 1) : 1 + j - 1 = j
    BY <1>1
<1> QED BY <1>3, <1>4

LEMMA CutAfter ==
    ASSUME NEW S, NEW s \in Seq(S), NEW i \in 1..Len(s)
    PROVE  /\ SubSeq(s, i + 1, Len(s)) \in Seq(S)
           /\ Len(SubSeq(s, i + 1, Len(s))) = Len(s) - i
           /\ \A j \in 1..(Len(s) - i) : SubSeq(s, i + 1, Len(s))[j] = s[j + i]
<1>1. Len(s) \in Nat /\ \A j \in 1..Len(s) : s[j] \in S
    BY LenProperties, ElementOfSeq
<1> PICK n \in Nat : n = Len(s)
    BY <1>1
<1>2. i + 1 \in Int /\ n \in Int /\ \A j \in (i + 1)..n : s[j] \in S
    BY <1>1
<1>3. /\ SubSeq(s, i + 1, n) \in Seq(S)
      /\ Len(SubSeq(s, i + 1, n)) = IF i + 1 <= n THEN n - (i + 1) + 1 ELSE 0
      /\ \A j \in 1..(n - (i + 1) + 1) : SubSeq(s, i + 1, n)[j] = s[i + 1 + j - 1]
    BY <1>2, SubSeqProperties
<1>4. /\ n - (i + 1) + 1 = n - i /\ (i + 1 <= n \/ n - i = 0)
      /\ \A j \in 1..(n - i) : i + 1 + j - 1 = j + i
    BY <1>1
<1> QED BY <1>3, <1>4

LEMMA RemoveOne ==
    ASSUME NEW S, NEW s \in Seq(S), NEW i \in 1..Len(s)
    PROVE  /\ RemoveAt(s, i) \in Seq(S)
           /\ Len(RemoveAt(s, i)) = Len(s) - 1
           /\ DOMAIN RemoveAt(s, i) = 1..(Len(s) - 1)
           /\ \A j \in 1..(Len(s) - 1) : RemoveAt(s, i)[j] = IF j < i THEN s[j] ELSE s[j + 1]
<1>1. Len(s) \in Nat
    BY LenProperties
<1>2. \E a, b \in Seq(S) :
         /\ RemoveAt(s, i) = a \o b
         /\ Len(a) = i - 1 /\ \A j \in 1..(i - 1) : a[j] = s[j]
         /\ Len(b) = Len(s) - i /\ \A j \in 1..(Len(s) - i) : b[j] = s[j + i]
  <2>1. /\ SubSeq(s, 1, i - 1) \in Seq(S) /\ Len(SubSeq(s, 1, i - 1)) = i - 1
        /\ \A j \in 1..(i - 1) : SubSeq(s, 1, i - 1)[j] = s[j]
      BY CutBefore
  <2>2. /\ SubSeq(s, i + 1, Len(s)) \in Seq(S) /\ Len(SubSeq(s, i + 1, Len(s))) = Len(s) - i
        /\ \A j \in 1..(Len(s) - i) : SubSeq(s, i + 1, Len(s))[j] = s[j + i]
      BY CutAfter
  <2>3. RemoveAt(s, i) = SubSeq(s, 1, i - 1) \o SubSeq(s, i + 1, Len(s))
      BY DEF RemoveAt
  <2> QED BY <2>1, <2>2, <2>3, Zenon
<1> PICK n \in Nat : n = Len(s)
    BY <1>1
<1>3. PICK a \in Seq(S), b \in Seq(S) :
         /\ RemoveAt(s, i) = a \o b
         /\ Len(a) = i - 1 /\ \A j \in 1..(i - 1) : a[j] = s[j]
         /\ Len(b) = n - i /\ \A j \in 1..(n - i) : b[j] = s[j + i]
    BY <1>2
<1> PICK c : c = a \o b
    OBVIOUS
<1>4. /\ c \in Seq(S) /\ Len(c) = n - 1 /\ DOMAIN c = 1..(n - 1)
      /\ \A j \in 1..(n - 1) : c[j] = IF j < i THEN a[j] ELSE b[j - (i - 1)]
  <2>1. Len(a) = i - 1 /\ Len(a) + Len(b) = n - 1
      BY <1>3
  <2>2. /\ c \in Seq(S) /\ Len(c) = Len(a) + Len(b)
        /\ \A j \in 1..(Len(a) + Len(b)) : c[j] = IF j <= Len(a) THEN a[j] ELSE b[j - Len(a)]
      BY ConcatProperties
  <2>3. DOMAIN c = 1..(n - 1)
      BY <2>1, <2>2, LenProperties
  <2>4. \A j \in 1..(n - 1) : j <= i - 1 <=> j < i
      OBVIOUS
  <2> QED BY <2>1, <2>2, <2>3, <2>4
<1>5. ASSUME NEW j \in 1..(n - 1)
      PROVE  c[j] = IF j < i THEN s[j] ELSE s[j + 1]
  <2>1. j < i => j \in 1..(i - 1)
      OBVIOUS
  <2>2. ~(j < i) => j - (i - 1) \in 1..(n - i) /\ (j - (i - 1)) + i = j + 1
      OBVIOUS
  <2> QED BY <1>3, <1>4, <2>1, <2>2
<1> QED BY <1>3, <1>4, <1>5

\* An answer overtakes the requests sent before.
LEMMA OvertakeEarlier ==
    ASSUME NEW S, NEW s \in Seq(S), NEW i \in DOMAIN s,
           \A x \in S : [x EXCEPT !.late = TRUE] \in S /\ [x EXCEPT !.late = TRUE].late
    PROVE  LET t == RemoveAt([j \in DOMAIN s |->
                       IF j < i THEN [s[j] EXCEPT !.late = TRUE] ELSE s[j]], i)
           IN  /\ t \in Seq(S) /\ Len(t) = Len(s) - 1 /\ DOMAIN t = 1..Len(t)
               /\ i = Len(s) => \A j \in DOMAIN t : t[j].late
               /\ i # Len(s) => Len(t) \in DOMAIN t /\ t[Len(t)] = s[Len(s)]
               /\ (\A j \in DOMAIN s : s[j].late) => \A j \in DOMAIN t : t[j].late
<1> DEFINE m == [j \in DOMAIN s |-> IF j < i THEN [s[j] EXCEPT !.late = TRUE] ELSE s[j]]
           t == RemoveAt(m, i)
<1> PICK n \in Nat : n = Len(s) /\ DOMAIN s = 1..n /\ \A j \in 1..n : s[j] \in S
    BY LenProperties, ElementOfSeq
<1>1. \A j \in 1..n : /\ m[j] \in S
                      /\ j < i => m[j].late
                      /\ ~(j < i) => m[j] = s[j]
    OBVIOUS
<1>2. m \in [1..n -> S] /\ i \in 1..n
    BY <1>1
<1> HIDE DEF m
<1>3. m \in Seq(S) /\ Len(m) = n
  <2>1. m \in Seq(S)
      BY <1>2, SeqDef
  <2> QED BY <1>2, <2>1, LenProperties
<1>4. /\ t \in Seq(S) /\ Len(t) = n - 1 /\ DOMAIN t = 1..(n - 1)
      /\ \A j \in 1..(n - 1) : t[j] = IF j < i THEN m[j] ELSE m[j + 1]
    BY <1>2, <1>3, RemoveOne
<1> HIDE DEF t
<1>5. ASSUME i = n, NEW j \in DOMAIN t PROVE t[j].late
  <2>1. j \in 1..(n - 1) /\ j \in 1..n /\ j < i
      BY <1>4, <1>5
  <2> QED BY <1>1, <1>4, <2>1
<1>6. ASSUME i # n PROVE Len(t) \in DOMAIN t /\ t[Len(t)] = s[n]
  <2>1. n - 1 \in 1..(n - 1) /\ ~(n - 1 < i) /\ (n - 1) + 1 = n /\ ~(n < i) /\ n \in 1..n
      BY <1>2, <1>6
  <2> QED BY <1>1, <1>4, <2>1
<1>8. ASSUME \A j \in DOMAIN s : s[j].late, NEW j \in DOMAIN t PROVE t[j].late
  <2>1. j \in 1..n /\ j + 1 \in 1..n /\ \A k \in 1..n : m[k].late
      BY <1>1, <1>4, <1>8
  <2> QED BY <1>4, <2>1
<1>7. /\ t \in Seq(S) /\ Len(t) = Len(s) - 1 /\ DOMAIN t = 1..Len(t)
      /\ i = Len(s) => \A j \in DOMAIN t : t[j].late
      /\ i # Len(s) => Len(t) \in DOMAIN t /\ t[Len(t)] = s[Len(s)]
      /\ (\A j \in DOMAIN s : s[j].late) => \A j \in DOMAIN t : t[j].late
    BY <1>4, <1>5, <1>6, <1>8
<1> QED BY <1>7 DEF t, m


\* What stays when a request is answered.
LEMMA RemovedFrom ==
    ASSUME NEW S, NEW s \in Seq(S), NEW i \in DOMAIN s, NEW t, t = RemoveAt(s, i)
    PROVE  /\ t \in Seq(S)
           /\ \A j \in DOMAIN t : \E k \in DOMAIN s : k # i /\ t[j] = s[k]
           /\ \A k \in DOMAIN s : k # i => \E j \in DOMAIN t : t[j] = s[k]
           /\ \A j1, j2 \in DOMAIN t : j1 # j2 =>
                \E k1, k2 \in DOMAIN s : k1 # i /\ k2 # i /\ k1 # k2 /\ t[j1] = s[k1] /\ t[j2] = s[k2]
<1> PICK n \in Nat : n = Len(s) /\ DOMAIN s = 1..n
    BY LenProperties
<1>1. /\ t \in Seq(S) /\ DOMAIN t = 1..(n - 1)
      /\ \A j \in 1..(n - 1) : t[j] = IF j < i THEN s[j] ELSE s[j + 1]
    BY RemoveOne
<1> DEFINE From(j) == IF j < i THEN j ELSE j + 1
<1>2. /\ \A j \in 1..(n - 1) : From(j) \in 1..n /\ From(j) # i /\ t[j] = s[From(j)]
      /\ \A j1, j2 \in 1..(n - 1) : j1 # j2 => From(j1) # From(j2)
    BY <1>1
<1>3. \A k \in 1..n : k # i => \E j \in 1..(n - 1) : From(j) = k
  <2> SUFFICES ASSUME NEW k \in 1..n, k # i PROVE \E j \in 1..(n - 1) : From(j) = k
      OBVIOUS
  <2>1. CASE k < i
      BY <2>1
  <2>2. CASE k > i
    <3>1. k - 1 \in 1..(n - 1) /\ From(k - 1) = k
        BY <2>2
    <3> QED BY <3>1
  <2> QED BY <2>1, <2>2
<1> HIDE DEF From
<1>4. \A k \in 1..n : k # i => \E j \in 1..(n - 1) : t[j] = s[k]
    BY <1>2, <1>3
<1>5. \A j \in DOMAIN t : \E k \in DOMAIN s : k # i /\ t[j] = s[k]
    BY <1>1, <1>2
<1>6. \A j1, j2 \in DOMAIN t : j1 # j2 =>
          \E k1, k2 \in DOMAIN s : k1 # i /\ k2 # i /\ k1 # k2 /\ t[j1] = s[k1] /\ t[j2] = s[k2]
    BY <1>1, <1>2
<1>7. \A k \in DOMAIN s : k # i => \E j \in DOMAIN t : t[j] = s[k]
    BY <1>1, <1>4
<1>8. t \in Seq(S)
    BY <1>1
<1> QED BY <1>5, <1>6, <1>7, <1>8

LEMMA Replaced ==
    ASSUME NEW S, NEW s \in Seq(S), NEW i \in DOMAIN s, NEW e \in S, NEW t, t = [s EXCEPT ![i] = e]
    PROVE  /\ t \in Seq(S) /\ DOMAIN t = DOMAIN s /\ Len(t) = Len(s) /\ t[i] = e
           /\ \A j \in DOMAIN s : j # i => t[j] = s[j]
<1>1. i \in 1..Len(s)
    BY LenProperties
<1>2. t \in Seq(S) /\ Len(t) = Len(s) /\ \A j \in 1..Len(s) : t[j] = IF j = i THEN e ELSE s[j]
    BY <1>1, ExceptSeq
<1>3. DOMAIN s = 1..Len(s) /\ DOMAIN t = 1..Len(t)
    BY <1>2, LenProperties
<1> QED BY <1>2, <1>3

LEMMA Appended ==
    ASSUME NEW S, NEW s \in Seq(S), NEW e \in S, NEW t, t = Append(s, e)
    PROVE  /\ t \in Seq(S) /\ t # <<>> /\ Len(t) \in DOMAIN t /\ t[Len(t)] = e
           /\ \A j \in DOMAIN s : j \in DOMAIN t /\ j # Len(t) /\ t[j] = s[j]
           /\ \A j \in DOMAIN t : j = Len(t) \/ j \in DOMAIN s
<1> PICK n \in Nat : n = Len(s) /\ DOMAIN s = 1..n
    BY LenProperties
<1>1. /\ t \in Seq(S) /\ t # <<>> /\ Len(t) = n + 1
      /\ (\A j \in 1..n : t[j] = s[j]) /\ t[n + 1] = e
    BY AppendProperties
<1>2. DOMAIN t = 1..(n + 1)
    BY <1>1, LenProperties
<1>3. /\ n + 1 \in 1..(n + 1)
      /\ \A j \in 1..n : j \in 1..(n + 1) /\ j # n + 1
      /\ \A j \in 1..(n + 1) : j = n + 1 \/ j \in 1..n
    OBVIOUS
<1> QED BY <1>1, <1>2, <1>3

LEMMA InSeq ==
    ASSUME NEW S, NEW s \in Seq(S)
    PROVE  /\ \A i \in DOMAIN s : s[i] \in S
           /\ s # <<>> => Len(s) \in DOMAIN s
           /\ \A i \in DOMAIN s : s # <<>>
<1>1. Len(s) \in Nat /\ DOMAIN s = 1..Len(s)
    BY LenProperties
<1>2. s # <<>> => Len(s) # 0
    BY EmptySeq
<1>3. \A i \in DOMAIN s : s[i] \in S
    BY <1>1, ElementOfSeq
<1>4. \A i \in DOMAIN s : s # <<>>
    BY <1>1
<1> QED BY <1>1, <1>2, <1>3, <1>4

-----------------------------------------------------------------------------
(* The ticket page *)

USE TicketAssumption

GetTyped == {r \in [answer : {"none", "ok", "error"}, ticket : Ticket \cup {NoTicket}, late : BOOLEAN] :
               r.answer = "ok" => r.ticket \in Ticket}
PatchTyped == {p \in [field : {"status", "assignee"}, value : Status \cup Assignee,
                      stage : {"sent", "done", "refused"}, mine : BOOLEAN] :
                 p.value \in IF p.field = "status" THEN Status ELSE Assignee}

TicketTyped ==
    /\ ticket \in Ticket /\ draft \in Assignee
    /\ view \in [status : {"loading", "loaded", "error"}, ticket : Ticket \cup {NoTicket},
                 overtaken : BOOLEAN]
    /\ view.status = "loading" => loads # <<>>
    /\ view.status = "loaded" => view.ticket \in Ticket
    /\ loads \in Seq(GetTyped) /\ patches \in Seq(PatchTyped)
    /\ post \in {"none", "sent", "done", "refused"}
    /\ post = "sent" => ticket.comments < Comments
    /\ savingAssignee \in BOOLEAN /\ patchError \in BOOLEAN
    /\ postingComment \in BOOLEAN /\ ticketMoved \in BOOLEAN

\* The page will be told of a change, and load the ticket.
ToBeTold == post = "done" \/ \E i \in DOMAIN patches : patches[i].mine /\ patches[i].stage = "done"

\* Nothing has changed the ticket since a GET was served.
TicketKnown == ~ticketMoved /\ ~ToBeTold

\* The last GET, or once no GET is left the page, has the ticket as it is.
LastGetIsTrue ==
    \/ /\ loads # <<>> /\ ~loads[Len(loads)].late
       /\ TicketKnown /\ loads[Len(loads)].answer = "ok" => loads[Len(loads)].ticket = ticket
    \/ /\ \A i \in DOMAIN loads : loads[i].late
       /\ TicketKnown /\ loads = <<>> /\ view.status = "loaded" /\ ~view.overtaken =>
              view.ticket = ticket

\* A draft that is not the assignee on display awaits its answer.
DraftAwaits ==
    view.status = "loaded" /\ ~patchError =>
        draft = view.ticket.assignee \/ \E i \in DOMAIN patches : patches[i].mine

\* ControlsMatchRequests, request by request.
Assigns(p) == p.mine /\ p.field = "assignee"
ControlsMatch ==
    /\ savingAssignee <=> \E i \in DOMAIN patches : Assigns(patches[i])
    /\ \A i, j \in DOMAIN patches : Assigns(patches[i]) /\ Assigns(patches[j]) => i = j
    /\ postingComment <=> post # "none"

TInv == /\ TicketTyped
        /\ LastGetIsTrue /\ DraftAwaits
        /\ ControlsMatch

LEMMA InitTInv ==
    ASSUME TicketInit
    PROVE  TInv
<1>1. Get \in GetTyped /\ Get.answer = "none" /\ ~Get.late
    BY DEF Get, GetTyped
<1>2. loads \in Seq(GetTyped) /\ Len(loads) = 1 /\ loads[1] = Get /\ loads # <<>>
    BY <1>1 DEF TicketInit
<1>3. patches \in Seq(PatchTyped) /\ patches = <<>> /\ DOMAIN patches = {}
    BY DEF TicketInit
<1>4. ticket \in Ticket /\ view = Spinner /\ draft \in Assignee
    BY DEF TicketInit, Ticket, Assignee
<1>5. TicketTyped
  <2>1. /\ view \in [status : {"loading", "loaded", "error"}, ticket : Ticket \cup {NoTicket},
                      overtaken : BOOLEAN]
        /\ view.status = "loading"
      BY <1>4 DEF Spinner
  <2>2. post = "none" /\ savingAssignee = FALSE /\ patchError = FALSE
        /\ postingComment = FALSE /\ ticketMoved = FALSE
      BY DEF TicketInit
  <2> QED BY <1>2, <1>3, <1>4, <2>1, <2>2 DEF TicketTyped
<1>6. LastGetIsTrue
    BY <1>1, <1>2 DEF LastGetIsTrue
<1>7. DraftAwaits /\ ControlsMatch
    BY <1>3, <1>4 DEF DraftAwaits, ControlsMatch, TicketInit, Spinner
<1> QED BY <1>5, <1>6, <1>7 DEF TInv

LEMMA GetFacts ==
    ASSUME NEW g \in GetTyped
    PROVE  /\ g = [answer |-> g.answer, ticket |-> g.ticket, late |-> g.late]
           /\ g.late \in BOOLEAN /\ g.answer \in {"none", "ok", "error"}
           /\ g.ticket \in Ticket \cup {NoTicket}
           /\ g.answer = "ok" => g.ticket \in Ticket
           /\ [g EXCEPT !.late = TRUE] \in GetTyped /\ [g EXCEPT !.late = TRUE].late
BY DEF GetTyped

LEMMA PatchFacts ==
    ASSUME NEW p \in PatchTyped
    PROVE  /\ p.mine \in BOOLEAN /\ p.stage \in {"sent", "done", "refused"}
           /\ p.field \in {"status", "assignee"}
           /\ p.value \in IF p.field = "status" THEN Status ELSE Assignee
           /\ \A st \in {"sent", "done", "refused"} :
                /\ [p EXCEPT !.stage = st] \in PatchTyped
                /\ [p EXCEPT !.stage = st].stage = st
                /\ [p EXCEPT !.stage = st].mine = p.mine
                /\ [p EXCEPT !.stage = st].field = p.field
           /\ [p EXCEPT !.mine = FALSE] \in PatchTyped
           /\ [p EXCEPT !.mine = FALSE].mine = FALSE
           /\ [p EXCEPT !.mine = FALSE].stage = p.stage
BY DEF PatchTyped

\* While nothing loads, the ticket moves only as is known to be unknown.
LEMMA LastGetKept ==
    ASSUME LastGetIsTrue, UNCHANGED <<view, loads>>,
           TicketKnown' => TicketKnown /\ UNCHANGED ticket
    PROVE  LastGetIsTrue'
BY DEF LastGetIsTrue

LEMMA LoadTicketIsTrue ==
    ASSUME TicketTyped, LoadTicket
    PROVE  /\ LastGetIsTrue' /\ DraftAwaits'
           /\ loads' \in Seq(GetTyped) /\ loads' # <<>>
           /\ view' \in [status : {"loading", "loaded", "error"}, ticket : Ticket \cup {NoTicket},
                           overtaken : BOOLEAN]
           /\ view'.status = "loading"
<1>1. Get \in GetTyped /\ Get.answer = "none" /\ ~Get.late
    BY DEF Get, GetTyped
<1>2. loads \in Seq(GetTyped) /\ loads' = Append(loads, Get) /\ view' = Spinner
    BY DEF LoadTicket, TicketTyped
<1>3. loads' \in Seq(GetTyped) /\ loads' # <<>> /\ loads'[Len(loads')] = Get
    BY <1>1, <1>2, Appended
<1>4. LastGetIsTrue'
    BY <1>1, <1>3 DEF LastGetIsTrue
<1> QED BY <1>2, <1>3, <1>4 DEF DraftAwaits, Spinner

\* A GET that is answered with the ticket, or fails.
GetServed(s, i, t, u) ==
    \/ u = [s EXCEPT ![i].answer = "ok", ![i].ticket = t]
    \/ u = [s EXCEPT ![i].answer = "error"]

LEMMA GetAnswered ==
    ASSUME NEW s \in Seq(GetTyped), NEW i \in DOMAIN s, NEW t \in Ticket, NEW u,
           GetServed(s, i, t, u)
    PROVE  \E g \in GetTyped :
             /\ u = [s EXCEPT ![i] = g]
             /\ g.late = s[i].late
             /\ g.answer = "ok" => g.ticket = t
<1>1. s[i] \in GetTyped
    BY InSeq
<1> PICK a, k, l : a = s[i].answer /\ k = s[i].ticket /\ l = s[i].late
    OBVIOUS
<1>2. s[i] = [answer |-> a, ticket |-> k, late |-> l] /\ l \in BOOLEAN /\ k \in Ticket \cup {NoTicket}
    BY <1>1, GetFacts
<1>3. /\ [answer |-> "ok", ticket |-> t, late |-> l] \in GetTyped
      /\ [answer |-> "error", ticket |-> k, late |-> l] \in GetTyped
    BY <1>2 DEF GetTyped
<1>4. \A b : [s EXCEPT ![i].answer = b] = [s EXCEPT ![i] = [answer |-> b, ticket |-> k, late |-> l]]
  <2>1. \A b : [s[i] EXCEPT !.answer = b] = [answer |-> b, ticket |-> k, late |-> l]
      BY <1>2
  <2> QED BY <2>1
<1>5. [s EXCEPT ![i].answer = "ok", ![i].ticket = t] =
          [s EXCEPT ![i] = [answer |-> "ok", ticket |-> t, late |-> l]]
  <2> PICK v : v = [s EXCEPT ![i] = [answer |-> "ok", ticket |-> k, late |-> l]]
      OBVIOUS
  <2>1. DOMAIN v = DOMAIN s /\ v[i] = [answer |-> "ok", ticket |-> k, late |-> l]
      OBVIOUS
  <2>2. [v EXCEPT ![i].ticket = t] = [v EXCEPT ![i] = [answer |-> "ok", ticket |-> t, late |-> l]]
    <3>1. [v[i] EXCEPT !.ticket = t] = [answer |-> "ok", ticket |-> t, late |-> l]
        BY <2>1
    <3> QED BY <3>1
  <2>3. \A e : [v EXCEPT ![i] = e] = [s EXCEPT ![i] = e]
      OBVIOUS
  <2> QED BY <1>4, <2>2, <2>3
<1>6. CASE u = [s EXCEPT ![i].answer = "ok", ![i].ticket = t]
    BY <1>3, <1>5, <1>6
<1>7. CASE u = [s EXCEPT ![i].answer = "error"]
    BY <1>3, <1>4, <1>7
<1> QED BY <1>6, <1>7 DEF GetServed

LEMMA ServeTicketKeeps ==
    ASSUME TInv, ServeTicket
    PROVE  TInv'
<1>1. UNCHANGED <<ticket, pageVars, patches, post>>
    BY DEF ServeTicket
<1>2. UNCHANGED <<ticket, view, draft, savingAssignee, patchError, postingComment, patches, post>>
    BY <1>1 DEF pageVars
<1>3. \A t : t \in Ticket => t \in Ticket \cup {NoTicket}
    OBVIOUS
<1>4. PICK i \in DOMAIN loads :
         /\ loads[i].answer = "none"
         /\ \/ /\ loads' = [loads EXCEPT ![i].answer = "ok", ![i].ticket = ticket]
               /\ ticketMoved' = (ticketMoved /\ i # Len(loads))
            \/ loads' = [loads EXCEPT ![i].answer = "error"] /\ UNCHANGED ticketMoved
    BY DEF ServeTicket
<1>5. loads \in Seq(GetTyped) /\ loads[i] \in GetTyped /\ ticket \in Ticket
    BY InSeq DEF TInv, TicketTyped
<1>6. PICK g \in GetTyped :
         /\ loads' = [loads EXCEPT ![i] = g]
         /\ g.late = loads[i].late
         /\ g.answer = "ok" => g.ticket = ticket
  <2>1. GetServed(loads, i, ticket, loads')
      BY <1>4 DEF GetServed
  <2> QED BY <1>5, <2>1, GetAnswered
<1>7. /\ loads' \in Seq(GetTyped) /\ DOMAIN loads' = DOMAIN loads /\ Len(loads') = Len(loads)
      /\ loads'[i] = g /\ \A j \in DOMAIN loads : j # i => loads'[j] = loads[j]
    BY <1>5, <1>6, Replaced
<1>8. loads # <<>> /\ loads' # <<>> /\ Len(loads) \in DOMAIN loads
    BY <1>5, <1>7, InSeq
<1>9. \A j \in DOMAIN loads : loads'[j].late = loads[j].late
    BY <1>6, <1>7
<1>10. ticketMoved' \in BOOLEAN /\ (i # Len(loads) => (ticketMoved' <=> ticketMoved))
  <2>1. ticketMoved' = (ticketMoved /\ i # Len(loads)) \/ ticketMoved' = ticketMoved
      BY <1>4, Zenon
  <2>2. ticketMoved \in BOOLEAN
      BY DEF TInv, TicketTyped
  <2>3. CASE ticketMoved' = (ticketMoved /\ i # Len(loads))
      BY <2>2, <2>3, Zenon
  <2>4. CASE ticketMoved' = ticketMoved
      BY <2>2, <2>4, Zenon
  <2> QED BY <2>1, <2>3, <2>4, Zenon
<1>11. TicketTyped'
    BY <1>2, <1>7, <1>8, <1>10 DEF TInv, TicketTyped
<1>12. ToBeTold' <=> ToBeTold
    BY <1>2 DEF ToBeTold
<1>13. LastGetIsTrue'
  <2>1. CASE /\ ~loads[Len(loads)].late
             /\ TicketKnown /\ loads[Len(loads)].answer = "ok" => loads[Len(loads)].ticket = ticket
    <3>1. ~loads'[Len(loads')].late
        BY <1>7, <1>8, <1>9, <2>1
    <3>2. TicketKnown' /\ loads'[Len(loads')].answer = "ok" => loads'[Len(loads')].ticket = ticket
      <4>1. CASE i = Len(loads)
          BY <1>6, <1>7, <4>1
      <4>2. CASE i # Len(loads)
        <5>1. loads'[Len(loads')] = loads[Len(loads)]
            BY <1>7, <1>8, <4>2
        <5>2. TicketKnown' => TicketKnown
            BY <1>10, <1>12, <4>2 DEF TicketKnown
        <5> QED BY <2>1, <5>1, <5>2
      <4> QED BY <4>1, <4>2
    <3> QED BY <1>2, <1>8, <3>1, <3>2 DEF LastGetIsTrue
  <2>2. CASE \A j \in DOMAIN loads : loads[j].late
      BY <1>7, <1>8, <1>9, <2>2 DEF LastGetIsTrue
  <2> QED BY <2>1, <2>2 DEF TInv, LastGetIsTrue
<1>14. DraftAwaits' /\ ControlsMatch'
    BY <1>2 DEF TInv, DraftAwaits, ControlsMatch, Assigns
<1> QED BY <1>11, <1>13, <1>14 DEF TInv

LEMMA TicketLoadedKeeps ==
    ASSUME TInv, TicketLoaded
    PROVE  TInv'
<1>1. UNCHANGED <<ticket, patches, savingAssignee, patchError, post, postingComment, ticketMoved>>
    BY DEF TicketLoaded
<1>2. PICK i \in DOMAIN loads :
         /\ loads[i].answer # "none"
         /\ view' = [status |-> IF loads[i].answer = "ok" THEN "loaded" ELSE "error",
                     ticket |-> loads[i].ticket, overtaken |-> loads[i].late]
         /\ draft' = IF loads[i].answer = "ok" THEN loads[i].ticket.assignee ELSE draft
         /\ loads' = RemoveAt([j \in DOMAIN loads |->
                        IF j < i THEN [loads[j] EXCEPT !.late = TRUE] ELSE loads[j]], i)
    BY DEF TicketLoaded
<1>3. loads \in Seq(GetTyped) /\ loads[i] \in GetTyped /\ Len(loads) \in DOMAIN loads
    BY InSeq DEF TInv, TicketTyped
<1>4. \A x \in GetTyped : [x EXCEPT !.late = TRUE] \in GetTyped /\ [x EXCEPT !.late = TRUE].late
    BY GetFacts
<1>5. /\ loads' \in Seq(GetTyped)
      /\ i = Len(loads) => \A j \in DOMAIN loads' : loads'[j].late
      /\ i # Len(loads) => Len(loads') \in DOMAIN loads' /\ loads'[Len(loads')] = loads[Len(loads)]
      /\ (\A j \in DOMAIN loads : loads[j].late) => \A j \in DOMAIN loads' : loads'[j].late
    BY <1>2, <1>3, <1>4, OvertakeEarlier
<1>6. PICK g : g = loads[i]
    OBVIOUS
<1>7. /\ view' \in [status : {"loading", "loaded", "error"}, ticket : Ticket \cup {NoTicket},
                    overtaken : BOOLEAN]
      /\ view'.status # "loading" /\ view'.overtaken = g.late
      /\ view'.status = "loaded" => g.answer = "ok" /\ view'.ticket = g.ticket
                                    /\ g.ticket \in Ticket /\ draft' = g.ticket.assignee
      /\ draft' \in Assignee
  <2>1. g \in GetTyped /\ (g.answer = "ok" => g.ticket \in Ticket)
      BY <1>3, <1>6, GetFacts
  <2>2. view' = [status |-> IF g.answer = "ok" THEN "loaded" ELSE "error",
                 ticket |-> g.ticket, overtaken |-> g.late]
        /\ draft' = IF g.answer = "ok" THEN g.ticket.assignee ELSE draft
      BY <1>2, <1>6
  <2>3. g.late \in BOOLEAN /\ g.ticket \in Ticket \cup {NoTicket}
      BY <2>1, GetFacts
  <2>4. \A t \in Ticket : t.assignee \in Assignee
      BY DEF Ticket
  <2> QED BY <2>1, <2>2, <2>3, <2>4 DEF TInv, TicketTyped
<1>8. TicketTyped'
    BY <1>1, <1>5, <1>7 DEF TInv, TicketTyped
<1>9. TicketKnown' <=> TicketKnown
    BY <1>1 DEF TicketKnown, ToBeTold
<1>10. LastGetIsTrue'
  <2>1. CASE /\ ~loads[Len(loads)].late
             /\ TicketKnown /\ loads[Len(loads)].answer = "ok" => loads[Len(loads)].ticket = ticket
    <3>1. CASE i = Len(loads)
        BY <1>1, <1>5, <1>6, <1>7, <1>9, <2>1, <3>1 DEF LastGetIsTrue
    <3>2. CASE i # Len(loads)
      <4>1. loads' # <<>>
          BY <1>5, <3>2, InSeq
      <4> QED BY <1>1, <1>5, <1>9, <2>1, <3>2, <4>1 DEF LastGetIsTrue
    <3> QED BY <3>1, <3>2
  <2>2. CASE \A j \in DOMAIN loads : loads[j].late
      BY <1>5, <1>6, <1>7, <2>2 DEF LastGetIsTrue
  <2> QED BY <2>1, <2>2 DEF TInv, LastGetIsTrue
<1>11. DraftAwaits'
    BY <1>7 DEF DraftAwaits
<1>12. ControlsMatch'
    BY <1>1 DEF TInv, ControlsMatch, Assigns
<1> QED BY <1>8, <1>10, <1>11, <1>12 DEF TInv

\* The user's two Selects: one more PATCH, on its way and the page's own.
LEMMA PatchSent ==
    ASSUME TInv, NEW field \in {"status", "assignee"}, NEW value,
           value \in IF field = "status" THEN Status ELSE Assignee, SendPatch(field, value)
    PROVE  /\ patches' \in Seq(PatchTyped) /\ patchError' = FALSE
           /\ \A i \in DOMAIN patches : i \in DOMAIN patches' /\ patches'[i] = patches[i]
           /\ \A i \in DOMAIN patches' :
                \/ i \in DOMAIN patches
                \/ i = Len(patches') /\ patches'[i].stage = "sent" /\ patches'[i].field = field
           /\ Len(patches') \in DOMAIN patches' /\ Len(patches') \notin DOMAIN patches
           /\ patches'[Len(patches')].mine /\ patches'[Len(patches')].field = field
<1> PICK p : p = [field |-> field, value |-> value, stage |-> "sent", mine |-> TRUE]
    OBVIOUS
<1>1. p \in PatchTyped /\ p.stage = "sent" /\ p.field = field /\ p.mine
    BY DEF PatchTyped
<1>2. patches \in Seq(PatchTyped) /\ patches' = Append(patches, p) /\ patchError' = FALSE
    BY DEF TInv, TicketTyped, SendPatch
<1>3. /\ patches' \in Seq(PatchTyped) /\ Len(patches') \in DOMAIN patches'
      /\ patches'[Len(patches')] = p
      /\ \A j \in DOMAIN patches : j \in DOMAIN patches' /\ j # Len(patches') /\ patches'[j] = patches[j]
      /\ \A j \in DOMAIN patches' : j = Len(patches') \/ j \in DOMAIN patches
    BY <1>1, <1>2, Appended
<1> QED BY <1>1, <1>2, <1>3

LEMMA PickStatusKeeps ==
    ASSUME TInv, PickStatus
    PROVE  TInv'
<1>1. UNCHANGED <<ticket, view, loads, draft, savingAssignee, post, postingComment, ticketMoved>>
    BY DEF PickStatus
<1>2. PICK s \in Status : SendPatch("status", s)
    BY DEF PickStatus
<1>3. /\ patches' \in Seq(PatchTyped) /\ patchError' = FALSE
      /\ \A i \in DOMAIN patches : i \in DOMAIN patches' /\ patches'[i] = patches[i]
      /\ \A i \in DOMAIN patches' :
           \/ i \in DOMAIN patches
           \/ i = Len(patches') /\ patches'[i].stage = "sent" /\ patches'[i].field = "status"
      /\ Len(patches') \in DOMAIN patches' /\ patches'[Len(patches')].mine
    BY <1>2, PatchSent
<1>4. TicketTyped'
    BY <1>1, <1>3 DEF TInv, TicketTyped
<1>5. TicketKnown' => TicketKnown /\ UNCHANGED ticket
    BY <1>1, <1>3 DEF TicketKnown, ToBeTold
<1>6. LastGetIsTrue'
    BY <1>1, <1>5, LastGetKept DEF TInv
<1>7. DraftAwaits'
    BY <1>3 DEF DraftAwaits
<1>8. ControlsMatch'
    BY <1>1, <1>3 DEF TInv, ControlsMatch, Assigns
<1> QED BY <1>4, <1>5, <1>6, <1>7, <1>8 DEF TInv

LEMMA PickAssigneeKeeps ==
    ASSUME TInv, PickAssignee
    PROVE  TInv'
<1>1. /\ UNCHANGED <<ticket, view, loads, post, postingComment, ticketMoved>>
      /\ savingAssignee' = TRUE /\ savingAssignee = FALSE
    BY DEF PickAssignee, TicketView, TInv, TicketTyped
<1>2. PICK a \in Assignee : draft' = a /\ SendPatch("assignee", a)
    BY DEF PickAssignee
<1>3. /\ patches' \in Seq(PatchTyped) /\ patchError' = FALSE
      /\ \A i \in DOMAIN patches : i \in DOMAIN patches' /\ patches'[i] = patches[i]
      /\ \A i \in DOMAIN patches' :
           \/ i \in DOMAIN patches
           \/ i = Len(patches') /\ patches'[i].stage = "sent"
      /\ Len(patches') \in DOMAIN patches' /\ patches'[Len(patches')].mine
      /\ patches'[Len(patches')].field = "assignee"
    BY <1>2, PatchSent
<1>4. TicketTyped'
    BY <1>1, <1>2, <1>3 DEF TInv, TicketTyped
<1>5. TicketKnown' => TicketKnown /\ UNCHANGED ticket
    BY <1>1, <1>3 DEF TicketKnown, ToBeTold
<1>6. LastGetIsTrue'
    BY <1>1, <1>5, LastGetKept DEF TInv
<1>7. DraftAwaits'
    BY <1>3 DEF DraftAwaits
<1>8. ControlsMatch'
  <2>1. \A i \in DOMAIN patches : ~Assigns(patches[i])
      BY <1>1 DEF TInv, ControlsMatch
  <2>2. \A i \in DOMAIN patches' : Assigns(patches'[i]) => i = Len(patches')
      BY <1>3, <2>1
  <2> QED BY <1>1, <1>3, <2>2 DEF TInv, ControlsMatch, Assigns
<1> QED BY <1>4, <1>5, <1>6, <1>7, <1>8 DEF TInv

LEMMA ServePatchKeeps ==
    ASSUME TInv, ServePatch
    PROVE  TInv'
<1>1. UNCHANGED <<view, draft, savingAssignee, patchError, postingComment, loads, post>>
    BY DEF ServePatch, pageVars
<1>2. PICK i \in DOMAIN patches :
         /\ patches[i].stage = "sent"
         /\ \/ /\ ticket' = IF patches[i].field = "status"
                            THEN [ticket EXCEPT !.status = patches[i].value]
                            ELSE [ticket EXCEPT !.assignee = patches[i].value]
               /\ patches' = [patches EXCEPT ![i].stage = "done"]
               /\ ticketMoved' = (ticketMoved \/ ~patches[i].mine)
            \/ /\ patches' = [patches EXCEPT ![i].stage = "refused"]
               /\ UNCHANGED <<ticket, ticketMoved>>
    BY DEF ServePatch
<1>3. patches \in Seq(PatchTyped) /\ patches[i] \in PatchTyped /\ ticket \in Ticket /\ ticketMoved \in BOOLEAN
    BY InSeq DEF TInv, TicketTyped
<1> PICK p : p = patches[i]
    OBVIOUS
<1>4. PICK st \in {"done", "refused"} :
         /\ patches' = [patches EXCEPT ![i] = [p EXCEPT !.stage = st]]
         /\ st = "done" => /\ ticket' = IF p.field = "status" THEN [ticket EXCEPT !.status = p.value]
                                                              ELSE [ticket EXCEPT !.assignee = p.value]
                           /\ ticketMoved' = (ticketMoved \/ ~p.mine)
         /\ st = "refused" => UNCHANGED <<ticket, ticketMoved>>
    BY <1>2
<1> PICK q : q = [p EXCEPT !.stage = st]
    OBVIOUS
<1>5. /\ q \in PatchTyped /\ q.stage = st /\ q.mine = p.mine /\ q.field = p.field
      /\ p.mine \in BOOLEAN /\ p.field \in {"status", "assignee"}
      /\ p.value \in IF p.field = "status" THEN Status ELSE Assignee
  <2>1. p \in PatchTyped
      BY <1>3
  <2>2. \E f, v, m : p = [field |-> f, value |-> v, stage |-> "sent", mine |-> m]
      BY <1>2, <2>1 DEF PatchTyped
  <2> PICK f, v, m : p = [field |-> f, value |-> v, stage |-> "sent", mine |-> m]
      BY <2>2
  <2>3. q = [field |-> f, value |-> v, stage |-> st, mine |-> m]
      OBVIOUS
  <2>4. q.stage = st /\ q.mine = p.mine /\ q.field = p.field
      BY <2>3
  <2>5. /\ p.mine \in BOOLEAN /\ p.field \in {"status", "assignee"}
        /\ p.value \in IF p.field = "status" THEN Status ELSE Assignee
      BY <2>1, PatchFacts
  <2>6. q \in PatchTyped
      BY <2>1, <2>3 DEF PatchTyped
  <2> QED BY <2>4, <2>5, <2>6
<1>6. /\ patches' \in Seq(PatchTyped) /\ DOMAIN patches' = DOMAIN patches /\ patches'[i] = q
      /\ \A j \in DOMAIN patches : j # i => patches'[j] = patches[j]
    BY <1>3, <1>4, <1>5, Replaced
<1>7. ticket' \in Ticket /\ ticket'.comments = ticket.comments /\ ticketMoved' \in BOOLEAN
  <2>1. CASE st = "refused"
      BY <1>3, <1>4, <2>1
  <2>2. CASE st = "done"
    <3>1. ticketMoved' \in BOOLEAN
        BY <1>3, <1>4, <1>5, <2>2
    <3> PICK v : v = p.value
        OBVIOUS
    <3>2. CASE p.field = "status"
      <4>1. ticket' = [ticket EXCEPT !.status = v] /\ v \in Status
          BY <1>4, <1>5, <2>2, <3>2
      <4> QED BY <1>3, <3>1, <4>1 DEF Ticket
    <3>3. CASE p.field # "status"
      <4>1. ticket' = [ticket EXCEPT !.assignee = v] /\ v \in Assignee
          BY <1>4, <1>5, <2>2, <3>3
      <4> QED BY <1>3, <3>1, <4>1 DEF Ticket
    <3> QED BY <3>2, <3>3
  <2> QED BY <2>1, <2>2
<1>8. TicketTyped'
    BY <1>1, <1>6, <1>7 DEF TInv, TicketTyped
<1>9. TicketKnown' => TicketKnown /\ UNCHANGED ticket
  <2>1. CASE st = "done"
    <3>1. ticketMoved' \/ ToBeTold'
        BY <1>4, <1>5, <1>6, <2>1 DEF ToBeTold
    <3> QED BY <3>1 DEF TicketKnown
  <2>2. CASE st = "refused"
    <3>1. ASSUME NEW k \in DOMAIN patches, patches[k].mine, patches[k].stage = "done"
          PROVE  k \in DOMAIN patches' /\ patches'[k].mine /\ patches'[k].stage = "done"
        BY <1>2, <1>6, <3>1
    <3>2. ToBeTold => ToBeTold'
        BY <1>1, <3>1 DEF ToBeTold
    <3> QED BY <1>4, <2>2, <3>2 DEF TicketKnown
  <2> QED BY <2>1, <2>2
<1>10. LastGetIsTrue'
    BY <1>1, <1>9, LastGetKept DEF TInv
<1>11. \A j \in DOMAIN patches : /\ patches'[j].mine = patches[j].mine
                                /\ patches'[j].field = patches[j].field
    BY <1>5, <1>6
<1>12. DraftAwaits'
    BY <1>1, <1>6, <1>11 DEF TInv, DraftAwaits
<1>13. ControlsMatch'
    BY <1>1, <1>6, <1>11 DEF TInv, ControlsMatch, Assigns
<1> QED BY <1>8, <1>10, <1>12, <1>13 DEF TInv

\* What is left when the page, or nobody, has heard of a PATCH.
LEMMA PatchRemoved ==
    ASSUME TInv, NEW i \in DOMAIN patches, patches' = RemoveAt(patches, i)
    PROVE  /\ patches' \in Seq(PatchTyped)
           /\ \A j \in DOMAIN patches' : \E k \in DOMAIN patches : k # i /\ patches'[j] = patches[k]
           /\ \A k \in DOMAIN patches : k # i => \E j \in DOMAIN patches' : patches'[j] = patches[k]
           /\ \A j1, j2 \in DOMAIN patches' :
                Assigns(patches'[j1]) /\ Assigns(patches'[j2]) => j1 = j2
           /\ (\E j \in DOMAIN patches' : Assigns(patches'[j])) <=>
                  IF Assigns(patches[i]) THEN FALSE ELSE savingAssignee
<1>1. patches \in Seq(PatchTyped) /\ savingAssignee \in BOOLEAN
    BY DEF TInv, TicketTyped
<1>2. /\ patches' \in Seq(PatchTyped)
      /\ \A j \in DOMAIN patches' : \E k \in DOMAIN patches : k # i /\ patches'[j] = patches[k]
      /\ \A k \in DOMAIN patches : k # i => \E j \in DOMAIN patches' : patches'[j] = patches[k]
      /\ \A j1, j2 \in DOMAIN patches' : j1 # j2 =>
           \E k1, k2 \in DOMAIN patches :
             k1 # i /\ k2 # i /\ k1 # k2 /\ patches'[j1] = patches[k1] /\ patches'[j2] = patches[k2]
    BY <1>1, RemovedFrom
<1>3. /\ savingAssignee <=> \E k \in DOMAIN patches : Assigns(patches[k])
      /\ \A k1, k2 \in DOMAIN patches : Assigns(patches[k1]) /\ Assigns(patches[k2]) => k1 = k2
    BY DEF TInv, ControlsMatch
<1>4. \A j1, j2 \in DOMAIN patches' :
          Assigns(patches'[j1]) /\ Assigns(patches'[j2]) => j1 = j2
    BY <1>2, <1>3
<1>5. CASE Assigns(patches[i])
  <2>1. \A k \in DOMAIN patches : Assigns(patches[k]) => k = i
      BY <1>3, <1>5
  <2>2. \A j \in DOMAIN patches' : ~Assigns(patches'[j])
      BY <1>2, <2>1
  <2> QED BY <1>2, <1>4, <1>5, <2>2 DEF TInv
<1>6. CASE ~Assigns(patches[i])
  <2>1. (\E j \in DOMAIN patches' : Assigns(patches'[j])) <=> savingAssignee
      BY <1>2, <1>3, <1>6
  <2> QED BY <1>2, <1>4, <1>6, <2>1 DEF TInv
<1> QED BY <1>5, <1>6

LEMMA PatchAnsweredKeeps ==
    ASSUME TInv, PatchAnswered
    PROVE  TInv'
<1>1. UNCHANGED <<ticket, draft, post, postingComment, ticketMoved>>
    BY DEF PatchAnswered
<1>2. PICK i \in DOMAIN patches :
         /\ patches[i].mine /\ patches[i].stage # "sent"
         /\ patches' = RemoveAt(patches, i)
         /\ savingAssignee' = Released(i)
         /\ \/ /\ patches[i].stage = "refused"
               /\ patchError' = TRUE /\ UNCHANGED <<view, loads>>
            \/ patches[i].stage = "done" /\ LoadTicket /\ UNCHANGED patchError
    BY DEF PatchAnswered
<1>3. /\ patches' \in Seq(PatchTyped)
      /\ \A k \in DOMAIN patches : k # i => \E j \in DOMAIN patches' : patches'[j] = patches[k]
      /\ \A j1, j2 \in DOMAIN patches' :
           Assigns(patches'[j1]) /\ Assigns(patches'[j2]) => j1 = j2
      /\ (\E j \in DOMAIN patches' : Assigns(patches'[j])) <=>
             IF Assigns(patches[i]) THEN FALSE ELSE savingAssignee
    BY <1>1, <1>2, PatchRemoved
<1>4. savingAssignee' \in BOOLEAN /\ (savingAssignee' <=> \E j \in DOMAIN patches' : Assigns(patches'[j]))
    BY <1>2, <1>3 DEF Released, Assigns, TInv, TicketTyped
<1>5. ControlsMatch'
    BY <1>1, <1>3, <1>4 DEF TInv, ControlsMatch
<1>6. CASE patches[i].stage = "refused" /\ patchError' = TRUE /\ UNCHANGED <<view, loads>>
  <2>1. TicketTyped'
      BY <1>1, <1>3, <1>4, <1>6 DEF TInv, TicketTyped
  <2>2. TicketKnown' => TicketKnown /\ UNCHANGED ticket
      BY <1>1, <1>3, <1>6 DEF TicketKnown, ToBeTold
  <2>3. LastGetIsTrue'
      BY <1>1, <1>6, <2>2, LastGetKept DEF TInv
  <2>4. DraftAwaits'
      BY <1>6 DEF DraftAwaits
  <2> QED BY <1>3, <1>5, <2>1, <2>3, <2>4 DEF TInv
<1>7. CASE patches[i].stage = "done" /\ LoadTicket /\ UNCHANGED patchError
  <2>1. /\ LastGetIsTrue' /\ DraftAwaits'
        /\ loads' \in Seq(GetTyped) /\ loads' # <<>>
        /\ view' \in [status : {"loading", "loaded", "error"}, ticket : Ticket \cup {NoTicket},
                       overtaken : BOOLEAN]
        /\ view'.status = "loading"
      BY <1>7, LoadTicketIsTrue DEF TInv
  <2>2. TicketTyped'
      BY <1>1, <1>3, <1>4, <1>7, <2>1 DEF TInv, TicketTyped
  <2> QED BY <1>3, <1>5, <2>1, <2>2 DEF TInv
<1> QED BY <1>2, <1>6, <1>7

LEMMA PatchLostKeeps ==
    ASSUME TInv, PatchLost
    PROVE  TInv'
<1>1. UNCHANGED <<ticket, view, loads, draft, post, postingComment>> /\ patchError' = TRUE
    BY DEF PatchLost
<1>2. PICK i \in DOMAIN patches :
         /\ patches[i].mine
         /\ savingAssignee' = Released(i)
         /\ \/ patches' = RemoveAt(patches, i)
            \/ patches[i].stage = "sent" /\ patches' = [patches EXCEPT ![i].mine = FALSE]
         /\ ticketMoved' = (ticketMoved \/ patches[i].stage = "done")
    BY DEF PatchLost
<1>3. patches \in Seq(PatchTyped) /\ patches[i] \in PatchTyped /\ ticketMoved \in BOOLEAN /\ ticketMoved' \in BOOLEAN
    BY <1>2, InSeq DEF TInv, TicketTyped
<1>4. /\ patches' \in Seq(PatchTyped)
      /\ \A k \in DOMAIN patches : k # i => \E j \in DOMAIN patches' : patches'[j] = patches[k]
      /\ \A j1, j2 \in DOMAIN patches' :
           Assigns(patches'[j1]) /\ Assigns(patches'[j2]) => j1 = j2
      /\ (\E j \in DOMAIN patches' : Assigns(patches'[j])) <=>
             IF Assigns(patches[i]) THEN FALSE ELSE savingAssignee
  <2>1. CASE patches' = RemoveAt(patches, i)
      BY <2>1, PatchRemoved
  <2>2. CASE patches[i].stage = "sent" /\ patches' = [patches EXCEPT ![i].mine = FALSE]
    <3> PICK q : q = [patches[i] EXCEPT !.mine = FALSE]
        OBVIOUS
    <3>1. q \in PatchTyped /\ q.mine = FALSE /\ q.stage = "sent"
        BY <1>3, <2>2, PatchFacts
    <3>2. patches' = [patches EXCEPT ![i] = q]
        BY <2>2
    <3>3. /\ patches' \in Seq(PatchTyped) /\ DOMAIN patches' = DOMAIN patches /\ patches'[i] = q
          /\ \A j \in DOMAIN patches : j # i => patches'[j] = patches[j]
        BY <1>3, <3>1, <3>2, Replaced
    <3>5. ~Assigns(q) /\ \A j \in DOMAIN patches' : Assigns(patches'[j]) => Assigns(patches[j]) /\ j # i
        BY <3>1, <3>3 DEF Assigns
    <3>6. /\ savingAssignee <=> \E k \in DOMAIN patches : Assigns(patches[k])
          /\ \A k1, k2 \in DOMAIN patches : Assigns(patches[k1]) /\ Assigns(patches[k2]) => k1 = k2
        BY DEF TInv, ControlsMatch
    <3>7. (\E j \in DOMAIN patches' : Assigns(patches'[j])) <=>
             IF Assigns(patches[i]) THEN FALSE ELSE savingAssignee
      <4>1. CASE Assigns(patches[i])
          BY <3>3, <3>5, <3>6, <4>1
      <4>2. CASE ~Assigns(patches[i])
          BY <3>3, <3>5, <3>6, <4>2
      <4> QED BY <4>1, <4>2
    <3> QED BY <3>3, <3>5, <3>6, <3>7
  <2> QED BY <1>2, <2>1, <2>2
<1>5. savingAssignee' \in BOOLEAN /\ (savingAssignee' <=> \E j \in DOMAIN patches' : Assigns(patches'[j]))
    BY <1>2, <1>4 DEF Released, Assigns, TInv, TicketTyped
<1>6. ControlsMatch'
    BY <1>1, <1>4, <1>5 DEF TInv, ControlsMatch
<1>7. TicketTyped'
    BY <1>1, <1>3, <1>4, <1>5 DEF TInv, TicketTyped
<1>8. TicketKnown' => TicketKnown /\ UNCHANGED ticket
    BY <1>1, <1>2, <1>4 DEF TicketKnown, ToBeTold
<1>9. LastGetIsTrue'
    BY <1>1, <1>8, LastGetKept DEF TInv
<1>10. DraftAwaits'
    BY <1>1 DEF DraftAwaits
<1> QED BY <1>4, <1>6, <1>7, <1>9, <1>10 DEF TInv

LEMMA PatchDroppedKeeps ==
    ASSUME TInv, PatchDropped
    PROVE  TInv'
<1>1. UNCHANGED <<ticket, view, draft, savingAssignee, patchError, postingComment, loads, post, ticketMoved>>
    BY DEF PatchDropped, pageVars
<1>2. PICK i \in DOMAIN patches :
         ~patches[i].mine /\ patches[i].stage # "sent" /\ patches' = RemoveAt(patches, i)
    BY DEF PatchDropped
<1>3. /\ patches' \in Seq(PatchTyped)
      /\ \A k \in DOMAIN patches : k # i => \E j \in DOMAIN patches' : patches'[j] = patches[k]
      /\ \A j1, j2 \in DOMAIN patches' :
           Assigns(patches'[j1]) /\ Assigns(patches'[j2]) => j1 = j2
      /\ (\E j \in DOMAIN patches' : Assigns(patches'[j])) <=>
             IF Assigns(patches[i]) THEN FALSE ELSE savingAssignee
    BY <1>1, <1>2, PatchRemoved
<1>4. TicketTyped'
    BY <1>1, <1>3 DEF TInv, TicketTyped
<1>5. LastGetIsTrue'
  <2>1. TicketKnown' => TicketKnown /\ UNCHANGED ticket
      BY <1>1, <1>2, <1>3 DEF TicketKnown, ToBeTold
  <2> QED BY <1>1, <2>1, LastGetKept DEF TInv
<1>6. DraftAwaits'
    BY <1>1, <1>2, <1>3 DEF TInv, DraftAwaits
<1>7. ControlsMatch'
    BY <1>1, <1>2, <1>3 DEF TInv, ControlsMatch, Assigns
<1> QED BY <1>3, <1>4, <1>5, <1>6, <1>7 DEF TInv

\* Comments.
LEMMA SubmitCommentKeeps ==
    ASSUME TInv, SubmitComment
    PROVE  TInv'
<1>1. /\ UNCHANGED <<ticket, view, loads, patches, draft, savingAssignee, patchError, ticketMoved>>
      /\ ticket.comments < Comments /\ post = "none" /\ post' = "sent" /\ postingComment' = TRUE
    BY DEF SubmitComment
<1>2. TicketTyped'
    BY <1>1 DEF TInv, TicketTyped
<1>3. TicketKnown' => TicketKnown /\ UNCHANGED ticket
    BY <1>1 DEF TicketKnown, ToBeTold
<1>4. LastGetIsTrue'
    BY <1>1, <1>3, LastGetKept DEF TInv
<1>5. DraftAwaits' /\ ControlsMatch'
    BY <1>1 DEF TInv, DraftAwaits, ControlsMatch, Assigns
<1> QED BY <1>2, <1>4, <1>5 DEF TInv

LEMMA ServeCommentKeeps ==
    ASSUME TInv, ServeComment
    PROVE  TInv'
<1>1. /\ UNCHANGED <<view, draft, savingAssignee, patchError, postingComment, loads, patches, ticketMoved>>
      /\ post = "sent"
      /\ \/ ticket' = [ticket EXCEPT !.comments = @ + 1] /\ post' = "done"
         \/ post' = "refused" /\ UNCHANGED ticket
    BY DEF ServeComment, pageVars
<1>2. ticket' \in Ticket
  <2>1. ticket \in Ticket /\ ticket.comments < Comments
      BY <1>1 DEF TInv, TicketTyped
  <2> PICK c : c = ticket.comments + 1
      OBVIOUS
  <2>2. c \in 0..Comments
      BY <2>1 DEF Ticket
  <2>3. ticket' = [ticket EXCEPT !.comments = c] \/ ticket' = ticket
      BY <1>1
  <2> QED BY <2>1, <2>2, <2>3 DEF Ticket
<1>3. TicketTyped'
    BY <1>1, <1>2 DEF TInv, TicketTyped
<1>4. LastGetIsTrue'
  <2>1. TicketKnown' => TicketKnown /\ UNCHANGED ticket
      BY <1>1 DEF TicketKnown, ToBeTold
  <2> QED BY <1>1, <2>1, LastGetKept DEF TInv
<1>5. DraftAwaits' /\ ControlsMatch'
    BY <1>1 DEF TInv, DraftAwaits, ControlsMatch, Assigns
<1> QED BY <1>3, <1>4, <1>5 DEF TInv

LEMMA CommentAnsweredKeeps ==
    ASSUME TInv, CommentAnswered
    PROVE  TInv'
<1>1. /\ UNCHANGED <<ticket, patches, draft, savingAssignee, patchError, ticketMoved>>
      /\ post \in {"done", "refused"} /\ post' = "none" /\ postingComment' = FALSE
    BY DEF CommentAnswered
<1>2. ControlsMatch'
    BY <1>1 DEF TInv, ControlsMatch, Assigns
<1>3. CASE post = "done"
  <2>1. LoadTicket
      BY <1>3 DEF CommentAnswered
  <2>2. /\ LastGetIsTrue' /\ DraftAwaits'
        /\ loads' \in Seq(GetTyped) /\ loads' # <<>>
        /\ view' \in [status : {"loading", "loaded", "error"}, ticket : Ticket \cup {NoTicket},
                       overtaken : BOOLEAN]
        /\ view'.status = "loading"
      BY <2>1, LoadTicketIsTrue DEF TInv
  <2>3. TicketTyped'
      BY <1>1, <2>2 DEF TInv, TicketTyped
  <2> QED BY <1>2, <2>2, <2>3 DEF TInv
<1>4. CASE post # "done"
  <2>1. UNCHANGED <<view, loads>>
      BY <1>4 DEF CommentAnswered
  <2>2. TicketTyped'
      BY <1>1, <2>1 DEF TInv, TicketTyped
  <2>3. TicketKnown' => TicketKnown /\ UNCHANGED ticket
      BY <1>1, <1>4 DEF TicketKnown, ToBeTold
  <2>4. LastGetIsTrue'
      BY <1>1, <2>1, <2>3, LastGetKept DEF TInv
  <2>5. DraftAwaits'
      BY <1>1, <2>1 DEF TInv, DraftAwaits
  <2> QED BY <1>2, <2>2, <2>4, <2>5 DEF TInv
<1> QED BY <1>3, <1>4

LEMMA CommentLostKeeps ==
    ASSUME TInv, CommentLost
    PROVE  TInv'
<1>1. /\ UNCHANGED <<ticket, view, loads, patches, draft, savingAssignee, patchError>>
      /\ post' = "none" /\ postingComment' = FALSE /\ ticketMoved' = (ticketMoved \/ post = "done")
    BY DEF CommentLost
<1>2. TicketTyped'
    BY <1>1 DEF TInv, TicketTyped
<1>3. TicketKnown' => TicketKnown /\ UNCHANGED ticket
    BY <1>1 DEF TicketKnown, ToBeTold
<1>4. LastGetIsTrue'
    BY <1>1, <1>3, LastGetKept DEF TInv
<1>5. DraftAwaits' /\ ControlsMatch'
    BY <1>1 DEF TInv, DraftAwaits, ControlsMatch, Assigns
<1> QED BY <1>2, <1>4, <1>5 DEF TInv

\* Others write the ticket.
LEMMA OthersWriteTicketKeeps ==
    ASSUME TInv, OthersWriteTicket
    PROVE  TInv'
<1>1. /\ UNCHANGED <<view, draft, savingAssignee, patchError, postingComment, loads, patches, post>>
      /\ ticketMoved' = TRUE
    BY DEF OthersWriteTicket, pageVars
<1>2. ticket \in Ticket
    BY DEF TInv, TicketTyped
<1>3. ticket' \in Ticket /\ (post = "sent" => ticket'.comments = ticket.comments)
  <2>1. CASE \E s \in Status \ {ticket.status} : ticket' = [ticket EXCEPT !.status = s]
      BY <1>2, <2>1 DEF Ticket
  <2>2. CASE \E a \in Assignee \ {ticket.assignee} : ticket' = [ticket EXCEPT !.assignee = a]
      BY <1>2, <2>2 DEF Ticket
  <2>3. CASE /\ post # "sent" /\ ticket.comments < Comments
             /\ ticket' = [ticket EXCEPT !.comments = @ + 1]
    <3> PICK c : c = ticket.comments + 1
        OBVIOUS
    <3>1. c \in 0..Comments
        BY <1>2, <2>3 DEF Ticket
    <3>2. ticket' = [ticket EXCEPT !.comments = c]
        BY <2>3
    <3> QED BY <1>2, <2>3, <3>1, <3>2 DEF Ticket
  <2> QED BY <2>1, <2>2, <2>3 DEF OthersWriteTicket
<1>4. TicketTyped'
    BY <1>1, <1>3 DEF TInv, TicketTyped
<1>5. LastGetIsTrue'
    BY <1>1, LastGetKept DEF TInv, TicketKnown
<1>6. DraftAwaits' /\ ControlsMatch'
    BY <1>1 DEF TInv, DraftAwaits, ControlsMatch, Assigns
<1> QED BY <1>4, <1>5, <1>6 DEF TInv

LEMMA TicketKeepsTInv ==
    ASSUME TInv, [TicketNext]_ticketVars
    PROVE  TInv'
<1>1. CASE UNCHANGED ticketVars
  <2>1. UNCHANGED <<ticket, view, loads, patches, draft, savingAssignee, patchError, post,
                    postingComment, ticketMoved>>
      BY <1>1 DEF ticketVars
  <2>2. TicketTyped'
      BY <2>1 DEF TInv, TicketTyped
  <2>3. LastGetIsTrue' /\ DraftAwaits' /\ ControlsMatch'
      BY <2>1 DEF TInv, LastGetIsTrue, TicketKnown, ToBeTold, DraftAwaits, ControlsMatch, Assigns
  <2> QED BY <2>2, <2>3 DEF TInv
<1> QED BY <1>1, ServeTicketKeeps, TicketLoadedKeeps, PickStatusKeeps, PickAssigneeKeeps,
           ServePatchKeeps, PatchAnsweredKeeps, PatchLostKeeps, PatchDroppedKeeps,
           SubmitCommentKeeps, ServeCommentKeeps, CommentAnsweredKeeps, CommentLostKeeps,
           OthersWriteTicketKeeps
        DEF TicketNext, PatchEnds, CommentEnds

LEMMA TInvImplies ==
    ASSUME TInv
    PROVE  TicketTypeOK /\ SettledTicketIsTrue /\ DraftIsTicketsAssignee /\ ControlsMatchRequests
<1>1. /\ \A i \in DOMAIN loads : loads[i] \in GetTyped
      /\ \A i \in DOMAIN patches : patches[i] \in PatchTyped
    BY InSeq DEF TInv, TicketTyped
<1>2. TicketTypeOK
    BY <1>1 DEF TInv, TicketTyped, TicketTypeOK, GetTyped, PatchTyped
<1>3. Quiet => DOMAIN loads = {} /\ DOMAIN patches = {} /\ ~ToBeTold
    BY DEF Quiet, ToBeTold
<1>4. SettledTicketIsTrue
    BY <1>3 DEF TInv, LastGetIsTrue, TicketKnown, SettledTicketIsTrue, Quiet
<1>5. DraftIsTicketsAssignee
    BY <1>3 DEF TInv, DraftAwaits, DraftIsTicketsAssignee
<1>6. ControlsMatchRequests
    BY DEF TInv, ControlsMatch, Assigns, ControlsMatchRequests
<1> QED BY <1>2, <1>4, <1>5, <1>6

-----------------------------------------------------------------------------
(* The list pages *)

USE ListAssumption

ReadTyped == [filter : Filter, answer : {"none", "ok", "error"}, rows : SUBSET Row, late : BOOLEAN]
WriteTyped == [op : {"create", "delete"}, row : Row, stage : {"sent", "done", "refused"},
               mine : BOOLEAN]
ListTyped ==
    /\ listPage \in Page /\ rows \subseteq Row /\ gone \subseteq Row /\ closed \subseteq Row
    /\ tableMoved \in BOOLEAN
    /\ list \in [status : {"loading", "loaded", "error"}, rows : SUBSET Row, overtaken : BOOLEAN]
    /\ list.status = "loading" => reads # <<>>
    /\ reads \in Seq(ReadTyped) /\ writes \subseteq WriteTyped
    /\ filter \in Filter /\ creating \in BOOLEAN /\ showForm \in BOOLEAN
    /\ formError \in {"none", "refused", "unreachable"}
    /\ deleting \in Row \cup {NoRow} /\ created \in Row \cup {NoRow}
    /\ visits \in 1..Visits

\* The page will be told of a change, and load the table.
OwnWriteDone == \E w \in writes : w.mine /\ w.stage = "done"

\* Nothing has changed the table since a GET was served.
TableKnown == ~tableMoved /\ ~OwnWriteDone

\* The last GET, or once no GET is left the page, has the table as it is.
LastReadIsTrue ==
    \/ /\ reads # <<>> /\ ~reads[Len(reads)].late /\ reads[Len(reads)].filter = filter
       /\ TableKnown /\ reads[Len(reads)].answer = "ok" => reads[Len(reads)].rows = Matching(filter)
    \/ /\ \A i \in DOMAIN reads : reads[i].late
       /\ TableKnown /\ reads = <<>> /\ list.status = "loaded" /\ ~list.overtaken =>
              list.rows = Matching(filter)

\* The form waits for one request, a button for that of its row.
FormWaits ==
    /\ creating <=> \E w \in writes : w.op = "create" /\ w.mine
    /\ \A v, w \in writes : v.op = "create" /\ w.op = "create" /\ v.mine /\ w.mine => v = w
    /\ deleting # NoRow => \E w \in writes : w.op = "delete" /\ w.mine /\ w.row = deleting

PInv == /\ ListTyped
        /\ LastReadIsTrue
        /\ FormWaits

LEMMA ReadFacts ==
    ASSUME NEW r \in ReadTyped
    PROVE  /\ r = [filter |-> r.filter, answer |-> r.answer, rows |-> r.rows, late |-> r.late]
           /\ r.filter \in Filter /\ r.answer \in {"none", "ok", "error"}
           /\ r.rows \subseteq Row /\ r.late \in BOOLEAN
           /\ [r EXCEPT !.late = TRUE] \in ReadTyped /\ [r EXCEPT !.late = TRUE].late
BY DEF ReadTyped

LEMMA NewRead ==
    ASSUME NEW f \in Filter
    PROVE  /\ Read(f) \in ReadTyped /\ Read(f).answer = "none" /\ ~Read(f).late
           /\ Read(f).filter = f
BY DEF Read, ReadTyped

LEMMA WriteFacts ==
    ASSUME NEW w \in WriteTyped
    PROVE  /\ w.op \in {"create", "delete"} /\ w.row \in Row
           /\ w.stage \in {"sent", "done", "refused"} /\ w.mine \in BOOLEAN
           /\ \A st \in {"sent", "done", "refused"} :
                /\ [w EXCEPT !.stage = st] \in WriteTyped
                /\ [w EXCEPT !.stage = st].stage = st
                /\ [w EXCEPT !.stage = st].op = w.op
                /\ [w EXCEPT !.stage = st].row = w.row
                /\ [w EXCEPT !.stage = st].mine = w.mine
           /\ [w EXCEPT !.mine = FALSE] \in WriteTyped
           /\ [w EXCEPT !.mine = FALSE].mine = FALSE
           /\ [w EXCEPT !.mine = FALSE].op = w.op
           /\ [w EXCEPT !.mine = FALSE].row = w.row
           /\ [w EXCEPT !.mine = FALSE].stage = w.stage
BY DEF WriteTyped

LEMMA InitPInv ==
    ASSUME ListInit
    PROVE  PInv
<1>1. /\ listPage \in Page /\ rows \subseteq Row /\ gone = {} /\ closed \subseteq Row
      /\ writes = {} /\ tableMoved = FALSE /\ visits = 1
      /\ list = Loading /\ filter = "all" /\ reads = <<Read("all")>>
      /\ creating = FALSE /\ formError = "none" /\ deleting = NoRow /\ created = NoRow
      /\ showForm \in BOOLEAN
    BY DEF ListInit, Fresh
<1>2. /\ list \in [status : {"loading", "loaded", "error"}, rows : SUBSET Row, overtaken : BOOLEAN]
      /\ filter \in Filter
    BY <1>1 DEF Loading, Filter
<1>3. Read("all") \in ReadTyped /\ Read("all").answer = "none" /\ ~Read("all").late
      /\ Read("all").filter = "all"
    BY <1>1, <1>2, NewRead
<1>4. reads \in Seq(ReadTyped) /\ Len(reads) = 1 /\ reads[1] = Read("all") /\ reads # <<>>
    BY <1>1, <1>3
<1>5. ListTyped
  <2>1. visits \in 1..Visits
      BY <1>1
  <2>2. deleting \in Row \cup {NoRow} /\ created \in Row \cup {NoRow} /\ gone \subseteq Row
        /\ writes \subseteq WriteTyped /\ creating \in BOOLEAN
      BY <1>1
  <2> QED BY <1>1, <1>2, <1>4, <2>1, <2>2 DEF ListTyped
<1>6. LastReadIsTrue
    BY <1>1, <1>3, <1>4 DEF LastReadIsTrue
<1> QED BY <1>1, <1>5, <1>6 DEF PInv, FormWaits

\* While nothing loads, the table moves only as is known to be unknown.
LEMMA LastReadKept ==
    ASSUME LastReadIsTrue, UNCHANGED <<list, reads, filter>>,
           TableKnown' => TableKnown /\ UNCHANGED <<rows, closed>>
    PROVE  LastReadIsTrue'
<1>1. TableKnown' => TableKnown /\ Matching(filter)' = Matching(filter)
    BY DEF Matching
<1> QED BY <1>1 DEF LastReadIsTrue

LEMMA LoadIsTrue ==
    ASSUME ListTyped, NEW f \in Filter, Load(f), filter' = f
    PROVE  /\ LastReadIsTrue'
           /\ reads' \in Seq(ReadTyped) /\ reads' # <<>>
           /\ list' \in [status : {"loading", "loaded", "error"}, rows : SUBSET Row,
                         overtaken : BOOLEAN]
<1>1. Read(f) \in ReadTyped /\ Read(f).answer = "none" /\ ~Read(f).late /\ Read(f).filter = f
    BY NewRead
<1>2. reads \in Seq(ReadTyped) /\ reads' = Append(reads, Read(f)) /\ list' = Loading
    BY DEF Load, ListTyped
<1>3. reads' \in Seq(ReadTyped) /\ reads' # <<>> /\ reads'[Len(reads')] = Read(f)
    BY <1>1, <1>2, Appended
<1>4. LastReadIsTrue'
    BY <1>1, <1>3 DEF LastReadIsTrue
<1> QED BY <1>2, <1>3, <1>4 DEF Loading

\* A GET that is answered with the rows of its filter, or fails.
ReadServed(s, i, found, u) ==
    \/ u = [s EXCEPT ![i].answer = "ok", ![i].rows = found]
    \/ u = [s EXCEPT ![i].answer = "error"]

LEMMA ReadIsServed ==
    ASSUME NEW s \in Seq(ReadTyped), NEW i \in DOMAIN s, NEW found \in SUBSET Row, NEW u,
           ReadServed(s, i, found, u)
    PROVE  \E g \in ReadTyped :
             /\ u = [s EXCEPT ![i] = g]
             /\ g.late = s[i].late /\ g.filter = s[i].filter
             /\ g.answer = "ok" => g.rows = found
<1>1. s[i] \in ReadTyped
    BY InSeq
<1> PICK f, a, k, l : f = s[i].filter /\ a = s[i].answer /\ k = s[i].rows /\ l = s[i].late
    OBVIOUS
<1>2. s[i] = [filter |-> f, answer |-> a, rows |-> k, late |-> l]
      /\ l \in BOOLEAN /\ k \subseteq Row /\ f \in Filter
    BY <1>1, ReadFacts
<1>3. /\ [filter |-> f, answer |-> "ok", rows |-> found, late |-> l] \in ReadTyped
      /\ [filter |-> f, answer |-> "error", rows |-> k, late |-> l] \in ReadTyped
    BY <1>2 DEF ReadTyped
<1>4. \A b : [s EXCEPT ![i].answer = b] =
                 [s EXCEPT ![i] = [filter |-> f, answer |-> b, rows |-> k, late |-> l]]
  <2>1. \A b : [s[i] EXCEPT !.answer = b] = [filter |-> f, answer |-> b, rows |-> k, late |-> l]
      BY <1>2
  <2> QED BY <2>1
<1>5. [s EXCEPT ![i].answer = "ok", ![i].rows = found] =
          [s EXCEPT ![i] = [filter |-> f, answer |-> "ok", rows |-> found, late |-> l]]
  <2> PICK v : v = [s EXCEPT ![i] = [filter |-> f, answer |-> "ok", rows |-> k, late |-> l]]
      OBVIOUS
  <2>1. DOMAIN v = DOMAIN s /\ v[i] = [filter |-> f, answer |-> "ok", rows |-> k, late |-> l]
      OBVIOUS
  <2>2. [v EXCEPT ![i].rows = found] =
            [v EXCEPT ![i] = [filter |-> f, answer |-> "ok", rows |-> found, late |-> l]]
    <3>1. [v[i] EXCEPT !.rows = found] = [filter |-> f, answer |-> "ok", rows |-> found, late |-> l]
        BY <2>1
    <3> QED BY <3>1
  <2>3. \A e : [v EXCEPT ![i] = e] = [s EXCEPT ![i] = e]
      OBVIOUS
  <2> QED BY <1>4, <2>2, <2>3
<1>6. CASE u = [s EXCEPT ![i].answer = "ok", ![i].rows = found]
    BY <1>3, <1>5, <1>6
<1>7. CASE u = [s EXCEPT ![i].answer = "error"]
    BY <1>3, <1>4, <1>7
<1> QED BY <1>6, <1>7 DEF ReadServed

LEMMA ServeReadKeeps ==
    ASSUME PInv, ServeRead
    PROVE  PInv'
<1>1. UNCHANGED <<listPage, visits, rows, gone, closed, list, writes, filter, creating, formError,
                  showForm, deleting, created>>
    BY DEF ServeRead, table, form
<1>2. PICK i \in DOMAIN reads :
         /\ ReadServed(reads, i, Matching(reads[i].filter), reads')
         /\ tableMoved' \in {tableMoved, tableMoved /\ i # Len(reads)}
         /\ reads' = [reads EXCEPT ![i].answer = "error"] \/ tableMoved' = (tableMoved /\ i # Len(reads))
    BY DEF ServeRead, ReadServed
<1>3. reads \in Seq(ReadTyped) /\ rows \subseteq Row
    BY DEF PInv, ListTyped
<1>4. PICK found \in SUBSET Row : found = Matching(reads[i].filter)
    BY <1>3 DEF Matching
<1>5. PICK g \in ReadTyped :
         /\ reads' = [reads EXCEPT ![i] = g]
         /\ g.late = reads[i].late /\ g.filter = reads[i].filter
         /\ g.answer = "ok" => g.rows = found
    BY <1>2, <1>3, <1>4, ReadIsServed
<1>6. /\ reads' \in Seq(ReadTyped) /\ DOMAIN reads' = DOMAIN reads /\ Len(reads') = Len(reads)
      /\ reads'[i] = g /\ \A j \in DOMAIN reads : j # i => reads'[j] = reads[j]
    BY <1>3, <1>5, Replaced
<1>7. reads # <<>> /\ reads' # <<>> /\ Len(reads) \in DOMAIN reads
    BY <1>3, <1>6, InSeq
<1>8. tableMoved' \in BOOLEAN /\ (i # Len(reads) => (tableMoved' <=> tableMoved))
    BY <1>2 DEF PInv, ListTyped
<1>9. ListTyped'
    BY <1>1, <1>6, <1>7, <1>8 DEF PInv, ListTyped
<1>10. (OwnWriteDone' <=> OwnWriteDone) /\ Matching(filter)' = Matching(filter)
    BY <1>1 DEF OwnWriteDone, Matching
<1>11. LastReadIsTrue'
  <2>1. CASE /\ ~reads[Len(reads)].late /\ reads[Len(reads)].filter = filter
             /\ TableKnown /\ reads[Len(reads)].answer = "ok" =>
                    reads[Len(reads)].rows = Matching(filter)
    <3>1. ~reads'[Len(reads')].late /\ reads'[Len(reads')].filter = filter
        BY <1>5, <1>6, <1>7, <2>1
    <3>2. TableKnown' /\ reads'[Len(reads')].answer = "ok" => reads'[Len(reads')].rows = Matching(filter)
      <4>1. CASE i = Len(reads)
          BY <1>4, <1>5, <1>6, <2>1, <4>1
      <4>2. CASE i # Len(reads)
        <5>1. reads'[Len(reads')] = reads[Len(reads)]
            BY <1>6, <1>7, <4>2
        <5>2. TableKnown' => TableKnown
            BY <1>8, <1>10, <4>2 DEF TableKnown
        <5> QED BY <2>1, <5>1, <5>2
      <4> QED BY <4>1, <4>2
    <3> QED BY <1>1, <1>7, <1>10, <3>1, <3>2 DEF LastReadIsTrue
  <2>2. CASE \A j \in DOMAIN reads : reads[j].late
    <3>1. \A j \in DOMAIN reads' : reads'[j].late
        BY <1>5, <1>6, <2>2
    <3> QED BY <1>7, <3>1 DEF LastReadIsTrue
  <2> QED BY <2>1, <2>2 DEF PInv, LastReadIsTrue
<1>12. FormWaits'
    BY <1>1 DEF PInv, FormWaits
<1> QED BY <1>9, <1>11, <1>12 DEF PInv

LEMMA ReadAnsweredKeeps ==
    ASSUME PInv, ReadAnswered
    PROVE  PInv'
<1>1. UNCHANGED <<listPage, visits, rows, gone, closed, writes, filter, creating, formError, showForm,
                  deleting, created, tableMoved>>
    BY DEF ReadAnswered, table, form
<1>2. PICK i \in DOMAIN reads :
         /\ list' = [status |-> IF reads[i].answer = "ok" THEN "loaded" ELSE "error",
                     rows |-> reads[i].rows, overtaken |-> reads[i].late]
         /\ reads' = RemoveAt([j \in DOMAIN reads |->
                        IF j < i THEN [reads[j] EXCEPT !.late = TRUE] ELSE reads[j]], i)
    BY DEF ReadAnswered
<1>3. reads \in Seq(ReadTyped) /\ reads[i] \in ReadTyped /\ Len(reads) \in DOMAIN reads
    BY InSeq DEF PInv, ListTyped
<1>4. \A x \in ReadTyped : [x EXCEPT !.late = TRUE] \in ReadTyped /\ [x EXCEPT !.late = TRUE].late
    BY ReadFacts
<1>5. /\ reads' \in Seq(ReadTyped)
      /\ i = Len(reads) => \A j \in DOMAIN reads' : reads'[j].late
      /\ i # Len(reads) => Len(reads') \in DOMAIN reads' /\ reads'[Len(reads')] = reads[Len(reads)]
      /\ (\A j \in DOMAIN reads : reads[j].late) => \A j \in DOMAIN reads' : reads'[j].late
    BY <1>2, <1>3, <1>4, OvertakeEarlier
<1> PICK g : g = reads[i]
    OBVIOUS
<1>6. /\ list' \in [status : {"loading", "loaded", "error"}, rows : SUBSET Row, overtaken : BOOLEAN]
      /\ list'.status # "loading" /\ list'.overtaken = g.late /\ list'.rows = g.rows
      /\ list'.status = "loaded" => g.answer = "ok"
  <2>1. g.late \in BOOLEAN /\ g.rows \subseteq Row
      BY <1>3, ReadFacts
  <2>2. list' = [status |-> IF g.answer = "ok" THEN "loaded" ELSE "error",
                 rows |-> g.rows, overtaken |-> g.late]
      BY <1>2
  <2> QED BY <2>1, <2>2
<1>7. ListTyped'
    BY <1>1, <1>5, <1>6 DEF PInv, ListTyped
<1>8. (TableKnown' <=> TableKnown) /\ Matching(filter)' = Matching(filter)
    BY <1>1 DEF TableKnown, OwnWriteDone, Matching
<1>9. LastReadIsTrue'
  <2>1. CASE /\ ~reads[Len(reads)].late /\ reads[Len(reads)].filter = filter
             /\ TableKnown /\ reads[Len(reads)].answer = "ok" =>
                    reads[Len(reads)].rows = Matching(filter)
    <3>1. CASE i = Len(reads)
        BY <1>1, <1>5, <1>6, <1>8, <2>1, <3>1 DEF LastReadIsTrue
    <3>2. CASE i # Len(reads)
      <4>1. reads' # <<>>
          BY <1>5, <3>2, InSeq
      <4> QED BY <1>1, <1>5, <1>8, <2>1, <3>2, <4>1 DEF LastReadIsTrue
    <3> QED BY <3>1, <3>2
  <2>2. CASE \A j \in DOMAIN reads : reads[j].late
      BY <1>5, <1>6, <2>2 DEF LastReadIsTrue
  <2> QED BY <2>1, <2>2 DEF PInv, LastReadIsTrue
<1>10. FormWaits'
    BY <1>1 DEF PInv, FormWaits
<1> QED BY <1>7, <1>9, <1>10 DEF PInv

LEMMA RemountKeeps ==
    ASSUME PInv, Remount
    PROVE  PInv'
<1>1. /\ UNCHANGED <<listPage, rows, gone, closed, tableMoved>> /\ visits' \in 1..Visits
      /\ list' = Loading /\ filter' = "all" /\ reads' = <<Read("all")>>
      /\ creating' = FALSE /\ formError' = "none" /\ deleting' = NoRow /\ created' = NoRow
      /\ showForm' \in BOOLEAN
      /\ writes' = {[w EXCEPT !.mine = FALSE] : w \in writes}
    BY DEF Remount, table, PInv, ListTyped
<1>2. /\ list' \in [status : {"loading", "loaded", "error"}, rows : SUBSET Row, overtaken : BOOLEAN]
      /\ filter' \in Filter
    BY <1>1 DEF Loading, Filter
<1>3. Read("all") \in ReadTyped /\ Read("all").answer = "none" /\ ~Read("all").late
      /\ Read("all").filter = "all"
    BY <1>1, <1>2, NewRead
<1>4. reads' \in Seq(ReadTyped) /\ Len(reads') = 1 /\ reads'[1] = Read("all") /\ reads' # <<>>
    BY <1>1, <1>3
<1>5. \A w \in writes' : w \in WriteTyped /\ w.mine = FALSE
  <2>1. \A v \in writes : v \in WriteTyped
      BY DEF PInv, ListTyped
  <2>2. \A v \in writes : [v EXCEPT !.mine = FALSE] \in WriteTyped /\ [v EXCEPT !.mine = FALSE].mine = FALSE
      BY <2>1, WriteFacts
  <2>3. \A w \in writes' : \E v \in writes : w = [v EXCEPT !.mine = FALSE]
      BY <1>1
  <2> QED BY <2>2, <2>3, Zenon
<1>6. ListTyped'
  <2>1. writes' \subseteq WriteTyped /\ deleting' \in Row \cup {NoRow} /\ created' \in Row \cup {NoRow}
      BY <1>1, <1>5
  <2> QED BY <1>1, <1>2, <1>4, <2>1 DEF PInv, ListTyped
<1>7. LastReadIsTrue'
    BY <1>1, <1>3, <1>4 DEF LastReadIsTrue
<1>8. FormWaits'
    BY <1>1, <1>5 DEF FormWaits
<1> QED BY <1>6, <1>7, <1>8 DEF PInv

LEMMA ChooseFilterKeeps ==
    ASSUME PInv, ChooseFilter
    PROVE  PInv'
<1>1. UNCHANGED <<listPage, visits, rows, gone, closed, writes, creating, formError, showForm,
                  deleting, created, tableMoved>>
    BY DEF ChooseFilter, table, form
<1>2. PICK f \in Filter : filter' = f /\ Load(f)
    BY DEF ChooseFilter
<1>3. /\ LastReadIsTrue'
      /\ reads' \in Seq(ReadTyped) /\ reads' # <<>>
      /\ list' \in [status : {"loading", "loaded", "error"}, rows : SUBSET Row, overtaken : BOOLEAN]
    BY <1>2, LoadIsTrue DEF PInv
<1>4. ListTyped'
    BY <1>1, <1>2, <1>3 DEF PInv, ListTyped
<1>5. FormWaits'
    BY <1>1 DEF PInv, FormWaits
<1> QED BY <1>3, <1>4, <1>5 DEF PInv

\* No page offers its form while a create is in flight, nor a button for what
\* is not on display.
LEMMA OfferedSoundly ==
    ASSUME PInv
    PROVE  (Offered.submit => ~creating) /\ Offered.delete \subseteq Row
<1>1. Shown \subseteq Row
    BY DEF Shown, PInv, ListTyped
<1>2. listPage \in Page /\ creating \in BOOLEAN /\ showForm \in BOOLEAN
    BY DEF PInv, ListTyped
<1>3. Offered \in {UptimeView, UsersView, AdminClustersView, ClustersView, TicketsView, TenantsView,
                   TenantView}
    BY <1>2 DEF Offered, Page, Uptime, Users, AdminClusters, Clusters, Tickets, Tenants, Tenant
<1>4. /\ \A s, d, k : Offer(s, d, k).submit = s /\ Offer(s, d, k).delete = d
    BY DEF Offer
<1>5. /\ UptimeView.submit = ~creating /\ UptimeView.delete \subseteq Row
      /\ UsersView.submit = ~creating /\ UsersView.delete \subseteq Row
      /\ AdminClustersView.submit = ~creating /\ AdminClustersView.delete \subseteq Row
    BY <1>1, <1>4 DEF UptimeView, UsersView, AdminClustersView
<1>7. (ClustersView.submit => ~creating) /\ ClustersView.delete \subseteq Row
  <2>1. ClustersView.delete = Shown \ {deleting}
      BY DEF ClustersView, Offer
  <2>2. ClustersView.submit = (showForm /\ ~creating)
      BY Zenon DEF ClustersView, Offer
  <2> QED BY <1>1, <2>1, <2>2
<1>6. /\ TicketsView.submit = FALSE /\ TicketsView.delete \subseteq Row
      /\ TenantsView.submit = FALSE /\ TenantsView.delete \subseteq Row
      /\ TenantView.submit = FALSE /\ TenantView.delete \subseteq Row
    BY DEF TicketsView, TenantsView, TenantView, Offer
<1> QED BY <1>2, <1>3, <1>5, <1>6, <1>7

LEMMA SubmitFormKeeps ==
    ASSUME PInv, SubmitForm
    PROVE  PInv'
<1>1. /\ UNCHANGED <<listPage, visits, rows, gone, closed, list, reads, filter, showForm, deleting, created, tableMoved>>
      /\ creating' = TRUE /\ formError' = "none" /\ creating = FALSE
    BY OfferedSoundly DEF SubmitForm, table, PInv, ListTyped
<1>2. PICK r \in Row : writes' = writes \cup {Write("create", r)}
    BY DEF SubmitForm
<1> PICK u : u = Write("create", r)
    OBVIOUS
<1>3. u \in WriteTyped /\ u.op = "create" /\ u.stage = "sent" /\ u.mine /\ writes' = writes \cup {u}
    BY <1>2 DEF Write, WriteTyped
<1>4. ListTyped'
    BY <1>1, <1>3 DEF PInv, ListTyped
<1>6. LastReadIsTrue'
  <2>1. TableKnown' => TableKnown /\ UNCHANGED <<rows, closed>>
      BY <1>1, <1>3 DEF TableKnown, OwnWriteDone
  <2> QED BY <1>1, <2>1, LastReadKept DEF PInv
<1>7. FormWaits'
    BY <1>1, <1>3 DEF PInv, FormWaits
<1> QED BY <1>4, <1>6, <1>7 DEF PInv

LEMMA ClickDeleteKeeps ==
    ASSUME PInv, ClickDelete
    PROVE  PInv'
<1>1. UNCHANGED <<listPage, visits, rows, gone, closed, list, reads, filter, creating, formError, showForm,
                  created, tableMoved>>
    BY DEF ClickDelete, table, form
<1>2. PICK r \in Row : deleting' = r /\ writes' = writes \cup {Write("delete", r)}
    BY OfferedSoundly DEF ClickDelete
<1> PICK u : u = Write("delete", r)
    OBVIOUS
<1>3. /\ u \in WriteTyped /\ u.op = "delete" /\ u.stage = "sent" /\ u.mine /\ u.row = r
      /\ writes' = writes \cup {u}
    BY <1>2 DEF Write, WriteTyped
<1>4. ListTyped'
    BY <1>1, <1>2, <1>3 DEF PInv, ListTyped
<1>6. LastReadIsTrue'
  <2>1. TableKnown' => TableKnown /\ UNCHANGED <<rows, closed>>
      BY <1>1, <1>3 DEF TableKnown, OwnWriteDone
  <2> QED BY <1>1, <2>1, LastReadKept DEF PInv
<1>7. FormWaits'
    BY <1>1, <1>2, <1>3 DEF PInv, FormWaits
<1> QED BY <1>4, <1>6, <1>7 DEF PInv

LEMMA ToggleOrDismissKeeps ==
    ASSUME PInv, ToggleForm \/ Dismiss
    PROVE  PInv'
<1>1. /\ UNCHANGED <<listPage, visits, rows, gone, closed, list, reads, writes, filter, creating,
                     formError, deleting, tableMoved>>
      /\ showForm' \in BOOLEAN /\ created' \in Row \cup {NoRow}
    BY DEF ToggleForm, Dismiss, table, form, PInv, ListTyped
<1>2. ListTyped'
    BY <1>1 DEF PInv, ListTyped
<1>3. LastReadIsTrue'
  <2>1. TableKnown' => TableKnown /\ UNCHANGED <<rows, closed>>
      BY <1>1 DEF TableKnown, OwnWriteDone
  <2> QED BY <1>1, <2>1, LastReadKept DEF PInv
<1>4. FormWaits'
    BY <1>1 DEF PInv, FormWaits
<1> QED BY <1>2, <1>3, <1>4 DEF PInv

LEMMA ServeWriteKeeps ==
    ASSUME PInv, ServeWrite
    PROVE  PInv'
<1>1. UNCHANGED <<listPage, visits, closed, list, reads, filter, creating, formError, showForm, deleting, created>>
    BY DEF ServeWrite, form
<1>2. PICK w \in writes :
         /\ w.stage = "sent"
         /\ \/ /\ \/ w.op = "create" /\ rows' = rows \cup {w.row} /\ UNCHANGED gone
                  \/ /\ w.op = "delete" /\ w.row \in rows
                     /\ rows' = rows \ {w.row} /\ gone' = gone \cup {w.row}
               /\ writes' = (writes \ {w}) \cup {[w EXCEPT !.stage = "done"]}
               /\ tableMoved' = (tableMoved \/ ~w.mine)
            \/ /\ writes' = (writes \ {w}) \cup {[w EXCEPT !.stage = "refused"]}
               /\ UNCHANGED <<rows, gone, tableMoved>>
    BY DEF ServeWrite
<1>3. /\ w \in WriteTyped /\ writes \subseteq WriteTyped /\ rows \subseteq Row /\ gone \subseteq Row
      /\ tableMoved \in BOOLEAN
    BY DEF PInv, ListTyped
<1>4. w.row \in Row /\ w.mine \in BOOLEAN
    BY <1>3, WriteFacts
<1>5. PICK u \in WriteTyped :
         /\ writes' = (writes \ {w}) \cup {u} /\ u.op = w.op /\ u.row = w.row /\ u.mine = w.mine
         /\ rows' \subseteq Row /\ gone' \subseteq Row
         /\ \/ u.stage = "done" /\ tableMoved' = (tableMoved \/ ~w.mine)
            \/ u.stage = "refused" /\ rows' = rows /\ tableMoved' = tableMoved
  <2> PICK d, r : d = [w EXCEPT !.stage = "done"] /\ r = [w EXCEPT !.stage = "refused"]
      OBVIOUS
  <2>1. /\ d \in WriteTyped /\ d.op = w.op /\ d.row = w.row /\ d.mine = w.mine /\ d.stage = "done"
        /\ r \in WriteTyped /\ r.op = w.op /\ r.row = w.row /\ r.mine = w.mine /\ r.stage = "refused"
      BY <1>3, WriteFacts
  <2>2. CASE writes' = (writes \ {w}) \cup {d} /\ tableMoved' = (tableMoved \/ ~w.mine)
    <3>1. rows' \subseteq Row /\ gone' \subseteq Row
        BY <1>2, <1>3, <1>4
    <3> QED BY <2>1, <2>2, <3>1, Zenon
  <2>3. CASE writes' = (writes \ {w}) \cup {r} /\ UNCHANGED <<rows, gone, tableMoved>>
      BY <1>3, <2>1, <2>3
  <2> QED BY <1>2, <2>2, <2>3
<1>6. ListTyped'
  <2>1. writes' \subseteq WriteTyped /\ tableMoved' \in BOOLEAN
      BY <1>3, <1>4, <1>5
  <2> QED BY <1>1, <1>5, <2>1 DEF PInv, ListTyped
<1>7. TableKnown' => TableKnown /\ UNCHANGED <<rows, closed>>
  <2>1. CASE u.stage = "done"
    <3>1. tableMoved' \/ OwnWriteDone'
        BY <1>4, <1>5, <2>1 DEF OwnWriteDone
    <3> QED BY <3>1 DEF TableKnown
  <2>2. CASE rows' = rows /\ tableMoved' = tableMoved
    <3>1. \A v \in writes : v.stage = "done" => v \in writes'
        BY <1>2, <1>5
    <3> QED BY <1>1, <2>2, <3>1 DEF TableKnown, OwnWriteDone
  <2> QED BY <1>5, <2>1, <2>2
<1>8. LastReadIsTrue'
    BY <1>1, <1>7, LastReadKept DEF PInv
<1>9. FormWaits'
  <2>1. \A v \in writes' : v = u \/ v \in writes \ {w}
      BY <1>5
  <2>2. u \in writes' /\ \A v \in writes : v = w \/ v \in writes'
      BY <1>5
  <2>3. creating <=> \E v \in writes' : v.op = "create" /\ v.mine
      BY <1>5, <2>1, <2>2 DEF PInv, FormWaits
  <2>4. \A v, x \in writes' : v.op = "create" /\ x.op = "create" /\ v.mine /\ x.mine => v = x
      BY <1>5, <2>1 DEF PInv, FormWaits
  <2>5. deleting # NoRow => \E v \in writes' : v.op = "delete" /\ v.mine /\ v.row = deleting
      BY <1>5, <2>2 DEF PInv, FormWaits
  <2> QED BY <1>1, <2>3, <2>4, <2>5 DEF FormWaits
<1> QED BY <1>6, <1>8, <1>9 DEF PInv

\* A create that ends leaves the form free and the delete buttons as they are.
LEMMA FormReleased ==
    ASSUME PInv, NEW w \in writes, w.op = "create", w.mine,
           \/ writes' = writes \ {w}
           \/ \E u : writes' = (writes \ {w}) \cup {u} /\ ~u.mine,
           creating' = FALSE, deleting' = deleting
    PROVE  FormWaits'
<1>1. \A v \in writes' : v.mine => v \in writes /\ v # w
    OBVIOUS
<1>2. ~ \E v \in writes' : v.op = "create" /\ v.mine
    BY <1>1 DEF PInv, FormWaits
<1>3. \A v \in writes : v.op = "delete" => v \in writes'
    OBVIOUS
<1>4. deleting # NoRow => \E v \in writes' : v.op = "delete" /\ v.mine /\ v.row = deleting
    BY <1>3 DEF PInv, FormWaits
<1> QED BY <1>2, <1>4 DEF FormWaits

\* A delete that ends leaves the form as it is.
LEMMA ButtonReleased ==
    ASSUME PInv, NEW w \in writes, w.op = "delete",
           \/ writes' = writes \ {w}
           \/ \E u : writes' = (writes \ {w}) \cup {u} /\ ~u.mine,
           creating' = creating, deleting' = NoRow
    PROVE  FormWaits'
<1>1. \A v \in writes' : v.mine => v \in writes
    OBVIOUS
<1>2. \A v \in writes : v.op = "create" => v \in writes'
    OBVIOUS
<1>3. creating <=> \E v \in writes' : v.op = "create" /\ v.mine
    BY <1>1, <1>2 DEF PInv, FormWaits
<1>4. \A v, x \in writes' : v.op = "create" /\ x.op = "create" /\ v.mine /\ x.mine => v = x
    BY <1>1 DEF PInv, FormWaits
<1> QED BY <1>3, <1>4 DEF FormWaits

LEMMA AnswerCreateKeeps ==
    ASSUME PInv, NEW page, NEW showsToken, NEW closesForm,
           AnswerCreate(page, showsToken, closesForm)
    PROVE  PInv'
<1>1. UNCHANGED <<listPage, visits, rows, gone, closed, filter, deleting, tableMoved>> /\ creating' = FALSE
    BY DEF AnswerCreate, table
<1>2. PICK w \in writes :
         /\ w.op = "create" /\ w.mine /\ w.stage # "sent"
         /\ writes' = writes \ {w}
         /\ \/ /\ w.stage = "refused"
               /\ formError' = "refused"
               /\ UNCHANGED <<list, reads, showForm, created>>
            \/ /\ w.stage = "done"
               /\ created' = IF showsToken THEN w.row ELSE created
               /\ showForm' = (showForm /\ ~closesForm)
               /\ Load(filter)
               /\ UNCHANGED formError
    BY DEF AnswerCreate
<1>3. w \in WriteTyped /\ w.row \in Row
    BY WriteFacts DEF PInv, ListTyped
<1>4. writes' \subseteq WriteTyped
    BY <1>2 DEF PInv, ListTyped
<1>6. FormWaits'
    BY <1>1, <1>2, FormReleased
<1>7. CASE w.stage = "refused" /\ formError' = "refused" /\ UNCHANGED <<list, reads, showForm, created>>
  <2>1. ListTyped'
      BY <1>1, <1>4, <1>7 DEF PInv, ListTyped
  <2>2. TableKnown' => TableKnown /\ UNCHANGED <<rows, closed>>
    <3>1. \A v \in writes : v.stage = "done" => v \in writes'
        BY <1>2, <1>7
    <3> QED BY <1>1, <3>1 DEF TableKnown, OwnWriteDone
  <2>3. LastReadIsTrue'
      BY <1>1, <1>7, <2>2, LastReadKept DEF PInv
  <2> QED BY <1>6, <2>1, <2>3 DEF PInv
<1>8. CASE /\ created' = IF showsToken THEN w.row ELSE created
           /\ showForm' = (showForm /\ ~closesForm)
           /\ Load(filter)
           /\ UNCHANGED formError
  <2>1. /\ LastReadIsTrue'
        /\ reads' \in Seq(ReadTyped) /\ reads' # <<>>
        /\ list' \in [status : {"loading", "loaded", "error"}, rows : SUBSET Row, overtaken : BOOLEAN]
    <3>1. filter \in Filter /\ ListTyped
        BY DEF PInv, ListTyped
    <3> QED BY <1>1, <1>8, <3>1, LoadIsTrue
  <2>2. created' \in Row \cup {NoRow} /\ showForm' \in BOOLEAN
      BY <1>3, <1>8 DEF PInv, ListTyped
  <2>3. ListTyped'
      BY <1>1, <1>4, <1>8, <2>1, <2>2 DEF PInv, ListTyped
  <2> QED BY <1>6, <2>1, <2>3 DEF PInv
<1> QED BY <1>2, <1>7, <1>8

LEMMA DeleteAnsweredKeeps ==
    ASSUME PInv, DeleteAnswered
    PROVE  PInv'
<1>1. /\ UNCHANGED <<listPage, visits, rows, gone, closed, filter, creating, formError, showForm, created, tableMoved>>
      /\ deleting' = NoRow /\ Load(filter)
    BY DEF DeleteAnswered, table, form
<1>2. PICK w \in writes : w.op = "delete" /\ w.mine /\ writes' = writes \ {w}
    BY DEF DeleteAnswered
<1>3. /\ LastReadIsTrue'
      /\ reads' \in Seq(ReadTyped) /\ reads' # <<>>
      /\ list' \in [status : {"loading", "loaded", "error"}, rows : SUBSET Row, overtaken : BOOLEAN]
  <2>1. filter \in Filter /\ ListTyped
      BY DEF PInv, ListTyped
  <2> QED BY <1>1, <2>1, LoadIsTrue
<1>4. ListTyped'
    BY <1>1, <1>2, <1>3 DEF PInv, ListTyped
<1>6. FormWaits'
    BY <1>1, <1>2, ButtonReleased
<1> QED BY <1>3, <1>4, <1>6 DEF PInv

\* A write whose answer is lost.
LEMMA LoseKeeps ==
    ASSUME PInv, NEW w \in writes, Lose(w),
           UNCHANGED <<listPage, visits, rows, gone, closed, list, reads, filter, showForm, created>>,
           creating' \in BOOLEAN, formError' \in {"none", "refused", "unreachable"},
           deleting' \in Row \cup {NoRow}
    PROVE  /\ ListTyped' /\ LastReadIsTrue'
           /\ \/ writes' = writes \ {w}
              \/ \E u : writes' = (writes \ {w}) \cup {u} /\ ~u.mine
<1>1. w \in WriteTyped /\ writes \subseteq WriteTyped /\ tableMoved \in BOOLEAN
    BY WriteFacts DEF PInv, ListTyped
<1> PICK u : u = [w EXCEPT !.mine = FALSE]
    OBVIOUS
<1>2. u \in WriteTyped /\ u.mine = FALSE /\ u.row = w.row /\ u.stage = w.stage
    BY <1>1, WriteFacts
<1>3. /\ \/ writes' = writes \ {w}
         \/ w.stage = "sent" /\ writes' = (writes \ {w}) \cup {u}
      /\ tableMoved' = (tableMoved \/ w.stage = "done")
    BY DEF Lose
<1>4. ListTyped'
  <2>1. writes' \subseteq WriteTyped /\ tableMoved' \in BOOLEAN
      BY <1>1, <1>2, <1>3
  <2> QED BY <2>1 DEF PInv, ListTyped
<1>6. LastReadIsTrue'
  <2>1. \A v \in writes : v # w => v \in writes'
      BY <1>3
  <2>2. TableKnown' => TableKnown /\ UNCHANGED <<rows, closed>>
      BY <1>3, <2>1 DEF TableKnown, OwnWriteDone
  <2> QED BY <2>2, LastReadKept DEF PInv
<1> QED BY <1>2, <1>3, <1>4, <1>6

LEMMA CreateLostKeeps ==
    ASSUME PInv, CreateLost
    PROVE  PInv'
<1>1. /\ UNCHANGED <<listPage, visits, rows, gone, closed, list, reads, filter, deleting, showForm, created>>
      /\ creating' = FALSE /\ formError' = "unreachable"
    BY DEF CreateLost, table
<1>2. PICK w \in writes : w.op = "create" /\ w.mine /\ Lose(w)
    BY DEF CreateLost
<1>3. deleting \in Row \cup {NoRow}
    BY DEF PInv, ListTyped
<1>4. /\ ListTyped' /\ LastReadIsTrue'
      /\ \/ writes' = writes \ {w}
         \/ \E u : writes' = (writes \ {w}) \cup {u} /\ ~u.mine
    BY <1>1, <1>2, <1>3, LoseKeeps
<1>5. FormWaits'
    BY <1>1, <1>2, <1>4, FormReleased
<1> QED BY <1>4, <1>5 DEF PInv

LEMMA DeleteLostKeeps ==
    ASSUME PInv, DeleteLost
    PROVE  PInv'
<1>1. /\ UNCHANGED <<listPage, visits, rows, gone, closed, list, reads, filter, creating, formError, showForm, created>>
      /\ deleting' = NoRow
    BY DEF DeleteLost, table, form
<1>2. PICK w \in writes : w.op = "delete" /\ w.mine /\ Lose(w)
    BY DEF DeleteLost
<1>3. creating \in BOOLEAN /\ formError \in {"none", "refused", "unreachable"}
    BY DEF PInv, ListTyped
<1>4. /\ ListTyped' /\ LastReadIsTrue'
      /\ \/ writes' = writes \ {w}
         \/ \E u : writes' = (writes \ {w}) \cup {u} /\ ~u.mine
    BY <1>1, <1>2, <1>3, LoseKeeps
<1>5. FormWaits'
    BY <1>1, <1>2, <1>4, ButtonReleased
<1> QED BY <1>4, <1>5 DEF PInv

LEMMA WriteDroppedKeeps ==
    ASSUME PInv, WriteDropped
    PROVE  PInv'
<1>1. UNCHANGED <<listPage, visits, rows, gone, closed, list, reads, filter, creating, formError, showForm,
                  deleting, created, tableMoved>>
    BY DEF WriteDropped, table, form
<1>2. PICK w \in writes : ~w.mine /\ w.stage # "sent" /\ writes' = writes \ {w}
    BY DEF WriteDropped
<1>3. ListTyped'
    BY <1>1, <1>2 DEF PInv, ListTyped
<1>5. LastReadIsTrue'
  <2>1. TableKnown' => TableKnown /\ UNCHANGED <<rows, closed>>
      BY <1>1, <1>2 DEF TableKnown, OwnWriteDone
  <2> QED BY <1>1, <2>1, LastReadKept DEF PInv
<1>6. FormWaits'
  <2>1. \A v \in writes : v.mine <=> v \in writes' /\ v.mine
      BY <1>2
  <2>2. \A v \in writes' : v \in writes
      BY <1>2
  <2> QED BY <1>1, <2>1, <2>2 DEF PInv, FormWaits
<1> QED BY <1>3, <1>5, <1>6 DEF PInv

\* Other people write the table.
LEMMA OthersWriteKeeps ==
    ASSUME PInv, OthersWrite
    PROVE  PInv'
<1>1. /\ UNCHANGED <<listPage, visits, list, reads, writes, filter, creating, formError, showForm,
                     deleting, created>>
      /\ tableMoved' = TRUE
    BY DEF OthersWrite, form
<1>2. rows' \subseteq Row /\ gone' \subseteq Row /\ closed' \subseteq Row
    BY DEF OthersWrite, PInv, ListTyped
<1>3. ListTyped'
    BY <1>1, <1>2 DEF PInv, ListTyped
<1>4. LastReadIsTrue'
    BY <1>1, LastReadKept DEF PInv, TableKnown
<1>5. FormWaits'
    BY <1>1 DEF PInv, FormWaits
<1> QED BY <1>3, <1>4, <1>5 DEF PInv

LEMMA ListKeepsPInv ==
    ASSUME PInv, [ListNext]_listVars
    PROVE  PInv'
<1>1. CASE UNCHANGED listVars
  <2>1. UNCHANGED <<listPage, rows, gone, closed, list, reads, writes, filter, creating,
                    formError, showForm, deleting, created, tableMoved, visits>>
      BY <1>1 DEF listVars
  <2>2. ListTyped'
      BY <2>1 DEF PInv, ListTyped
  <2>3. LastReadIsTrue'
    <3>1. TableKnown' => TableKnown /\ UNCHANGED <<rows, closed>>
        BY <2>1 DEF TableKnown, OwnWriteDone
    <3> QED BY <2>1, <3>1, LastReadKept DEF PInv
  <2>4. FormWaits'
      BY <2>1 DEF PInv, FormWaits
  <2> QED BY <2>2, <2>3, <2>4 DEF PInv
<1>2. CreateEnds => PInv'
    BY AnswerCreateKeeps, CreateLostKeeps
       DEF CreateEnds, UptimeCreated, UserCreated, AdminClusterCreated, ClusterCreated
<1> QED BY <1>1, <1>2, ServeReadKeeps, ReadAnsweredKeeps, ServeWriteKeeps, DeleteAnsweredKeeps,
           DeleteLostKeeps, WriteDroppedKeeps, OthersWriteKeeps, RemountKeeps, ChooseFilterKeeps,
           SubmitFormKeeps, ClickDeleteKeeps, ToggleOrDismissKeeps
        DEF ListNext, DeleteEnds

LEMMA PInvImplies ==
    ASSUME PInv
    PROVE  ListTypeOK /\ SettledPageIsTrue /\ BusyButtonsAreBusy
<1>1. ListTypeOK
  <2>1. \A i \in DOMAIN reads : reads[i] \in ReadTyped
      BY InSeq DEF PInv, ListTyped
  <2> QED BY <2>1 DEF PInv, ListTyped, ListTypeOK, ReadTyped, WriteTyped
<1>2. SettledPageIsTrue
  <2>1. reads = <<>> => DOMAIN reads = {}
      OBVIOUS
  <2>2. (\A w \in writes : ~w.mine) => ~OwnWriteDone
      BY DEF OwnWriteDone
  <2> QED BY <2>1, <2>2 DEF PInv, LastReadIsTrue, TableKnown, SettledPageIsTrue
<1>3. BusyButtonsAreBusy
  <2>1. \A op, r : r \in Awaited(op) <=> \E w \in writes : w.op = op /\ w.mine /\ w.row = r
      BY DEF Awaited
  <2>2. creating <=> Awaited("create") # {}
      BY <2>1 DEF PInv, FormWaits
  <2>3. deleting # NoRow => deleting \in Awaited("delete")
      BY <2>1 DEF PInv, FormWaits
  <2>4. Cardinality(Awaited("create")) <= 1
    <3>1. CASE Awaited("create") = {}
        BY <3>1, FS_EmptySet
    <3>2. CASE Awaited("create") # {}
      <4>1. PICK r : r \in Awaited("create")
          BY <3>2
      <4>2. Awaited("create") = {r}
          BY <2>1, <4>1 DEF PInv, FormWaits
      <4>3. Cardinality({r}) = 1
          BY FS_Singleton
      <4> QED BY <4>2, <4>3
    <3> QED BY <3>1, <3>2
  <2> QED BY <2>2, <2>3, <2>4 DEF BusyButtonsAreBusy
<1> QED BY <1>1, <1>2, <1>3

-----------------------------------------------------------------------------
(* The access editor *)

USE EditorAssumption

-----------------------------------------------------------------------------
(* Loading: the fold over the rows *)

\* A set of numbers has a least element, and induction for such a set.
LEMMA LeastNumber ==
    ASSUME NEW S \in SUBSET Nat, S # {}
    PROVE  \E k \in S : \A j \in S : k <= j
<1> DEFINE R == {ss \in Nat \X Nat : ss[1] < ss[2]}
<1>1. IsWellFoundedOn(R, Nat)
    BY NatLessThanWellFounded DEF OpToRel
<1>2. PICK k \in S : \A j \in S : <<j, k>> \notin R
  <2> HIDE DEF R
  <2> QED BY <1>1, WFMin
<1>3. \A j \in S : ~(j < k)
    BY <1>2
<1> QED BY <1>3

LEMMA InductionOnNat ==
    ASSUME NEW S \in SUBSET Nat, 0 \in S, \A k \in S : k + 1 \in S
    PROVE  S = Nat
<1>1. SUFFICES ASSUME Nat \ S # {} PROVE FALSE
    OBVIOUS
<1>2. PICK k \in Nat \ S : \A j \in Nat \ S : k <= j
    BY <1>1, LeastNumber
<1>3. k - 1 \in Nat /\ ~(k <= k - 1)
    BY <1>2
<1>4. k - 1 \in S
    BY <1>2, <1>3
<1>5. (k - 1) + 1 \in S
    BY <1>4
<1>6. (k - 1) + 1 = k
    BY <1>2
<1> QED BY <1>5, <1>6

\* One step of FoldLeft, which folds the indices of the rows from the last.
FoldStep(acc, given, s) ==
    IF s = {} THEN NoAccess ELSE AddGrant(acc[s \ {Max(s)}], given[Max(s)])
IsFold(acc, given, S) == acc = [s \in SUBSET S |-> FoldStep(acc, given, s)]

LEMMA AccessOfIsFold ==
    ASSUME NEW given
    PROVE  AccessOf(given) = (CHOOSE acc : IsFold(acc, given, DOMAIN given))[DOMAIN given]
BY DEF AccessOf, FoldLeft, MapThenFoldSet, FoldStep, IsFold

LEMMA MaxOfPrefix ==
    ASSUME NEW k \in Nat, NEW s \in SUBSET (1..k), s # {}
    PROVE  /\ Max(s) \in s
           /\ s \ {Max(s)} \in SUBSET (1..(k - 1))
           /\ s = 1..k => Max(s) = k
<1> DEFINE Gaps == {gap \in Nat : k - gap \in s}
<1>1. Gaps # {}
  <2>1. PICK i \in s : TRUE
      OBVIOUS
  <2>2. i \in Nat /\ i <= k /\ k - i \in Nat /\ k - (k - i) = i
      BY <2>1
  <2> QED BY <2>1, <2>2
<1>2. PICK gap \in Gaps : \A other \in Gaps : gap <= other
    BY <1>1, LeastNumber
<1>3. ASSUME NEW i \in s PROVE k - gap >= i
  <2>1. i \in Nat /\ k - i \in Nat /\ k - (k - i) = i
      OBVIOUS
  <2>2. gap <= k - i
      BY <1>2, <2>1
  <2> QED BY <2>1, <2>2
<1>4. Max(s) \in s /\ \A i \in s : Max(s) >= i
    BY <1>2, <1>3 DEF Max
<1>5. s \ {Max(s)} \in SUBSET (1..(k - 1))
  <2> SUFFICES ASSUME NEW i \in s, i # Max(s) PROVE i \in 1..(k - 1)
      OBVIOUS
  <2>1. i \in 1..k /\ Max(s) \in 1..k /\ Max(s) >= i
      BY <1>4
  <2> QED BY <2>1
<1>6. ASSUME s = 1..k PROVE Max(s) = k
  <2>1. k \in s
      BY <1>6
  <2>2. Max(s) \in 1..k /\ Max(s) >= k
      BY <1>4, <2>1
  <2> QED BY <2>2
<1> QED BY <1>4, <1>5, <1>6

\* The recursive definition of FoldLeft has a solution.
LEMMA FoldExists ==
    ASSUME NEW given, NEW n \in Nat
    PROVE  \E acc : IsFold(acc, given, 1..n)
<1> DEFINE Solved == {k \in Nat : \E acc : IsFold(acc, given, 1..k)}
<1>1. 0 \in Solved
  <2> DEFINE acc == [s \in SUBSET (1..0) |-> NoAccess]
  <2>1. \A s \in SUBSET (1..0) : s = {}
      OBVIOUS
  <2>2. IsFold(acc, given, 1..0)
      BY <2>1 DEF IsFold, FoldStep
  <2> QED BY <2>2
<1>2. ASSUME NEW k \in Solved PROVE k + 1 \in Solved
  <2>1. PICK acc : IsFold(acc, given, 1..k)
      OBVIOUS
  <2> DEFINE more == [s \in SUBSET (1..(k + 1)) |-> FoldStep(acc, given, s)]
  <2>2. ASSUME NEW s \in SUBSET (1..k) PROVE more[s] = acc[s]
      BY <2>1 DEF IsFold
  <2>3. ASSUME NEW s \in SUBSET (1..(k + 1))
        PROVE  FoldStep(acc, given, s) = FoldStep(more, given, s)
    <3>1. CASE s = {}
        BY <3>1 DEF FoldStep
    <3>2. CASE s # {}
      <4>1. s \ {Max(s)} \in SUBSET (1..k)
          BY <3>2, MaxOfPrefix
      <4>2. more[s \ {Max(s)}] = acc[s \ {Max(s)}]
          BY <4>1, <2>2
      <4> HIDE DEF more
      <4> QED BY <4>2 DEF FoldStep
    <3> QED BY <3>1, <3>2
  <2>4. more = [s \in SUBSET (1..(k + 1)) |-> FoldStep(more, given, s)]
      BY <2>3
  <2>5. IsFold(more, given, 1..(k + 1))
      BY <2>4 DEF IsFold
  <2> QED BY <2>5
<1> HIDE DEF Solved
<1>3. Solved \in SUBSET Nat
    BY DEF Solved
<1>4. Solved = Nat
    BY <1>1, <1>2, <1>3, InductionOnNat
<1> QED BY <1>4 DEF Solved

\* The choices on a cluster in the first k rows of an answer.
Seen(given, k, c) == {x \in Choice : \E i \in 1..k : given[i] = <<c, x>>}

LEMMA FoldShows ==
    ASSUME NEW n \in Nat, NEW given \in [1..n -> Zone \X Choice]
    PROVE  AccessOf(given) = [c \in Zone |-> Reach(Seen(given, n, c))]
<1> DEFINE acc == CHOOSE a : IsFold(a, given, 1..n)
           SoFar(k) == [c \in Zone |-> Reach(Seen(given, k, c))]
           Right == {k \in Nat : k <= n => acc[1..k] = SoFar(k)}
<1>1. IsFold(acc, given, 1..n)
    BY FoldExists
<1>2. ASSUME NEW k \in 0..n
      PROVE  acc[1..k] = FoldStep(acc, given, 1..k)
  <2>1. 1..k \in SUBSET (1..n)
      OBVIOUS
  <2> HIDE DEF acc
  <2> QED BY <2>1, <1>1 DEF IsFold
<1> HIDE DEF acc
<1>3. 0 \in Right
  <2>1. 0 \in 0..n /\ 1..0 = {}
      OBVIOUS
  <2>4. acc[1..0] = NoAccess
      BY <1>2, <2>1 DEF FoldStep
  <2>2. \A c \in Zone : Seen(given, 0, c) = {}
      BY DEF Seen
  <2>3. SoFar(0) = NoAccess
      BY <2>2 DEF NoAccess, Reach
  <2> QED BY <2>3, <2>4
<1>4. ASSUME NEW k \in Right PROVE k + 1 \in Right
  <2> SUFFICES ASSUME k + 1 <= n PROVE acc[1..(k + 1)] = SoFar(k + 1)
      OBVIOUS
  <2> DEFINE row == given[k + 1]
  <2>1. acc[1..k] = SoFar(k)
      OBVIOUS
  <2>2. row \in Zone \X Choice /\ row = <<row[1], row[2]>>
      OBVIOUS
  <2>3. acc[1..(k + 1)] = AddGrant(acc[1..k], row)
    <3>1. k + 1 \in Nat /\ k + 1 \in 1..(k + 1)
        OBVIOUS
    <3>2. Max(1..(k + 1)) = k + 1
        BY <3>1, MaxOfPrefix
    <3>3. (1..(k + 1)) \ {k + 1} = 1..k
        OBVIOUS
    <3>4. acc[1..(k + 1)] = FoldStep(acc, given, 1..(k + 1))
        BY <1>2
    <3> QED BY <3>1, <3>2, <3>3, <3>4 DEF FoldStep
  <2>4. ASSUME NEW c \in Zone
        PROVE  Seen(given, k + 1, c) = IF row[1] = c THEN Seen(given, k, c) \cup {row[2]}
                                      ELSE Seen(given, k, c)
    <3>1. 1..(k + 1) = 1..k \cup {k + 1}
        OBVIOUS
    <3> HIDE DEF row
    <3>2. \A x : row = <<c, x>> <=> row[1] = c /\ row[2] = x
        BY <2>2
    <3> QED BY <2>2, <3>1, <3>2 DEF Seen, row
  <2> HIDE DEF row
  <2>5. ASSUME NEW c \in Zone
        PROVE  AddGrant(SoFar(k), row)[c] = Reach(Seen(given, k + 1, c))
      BY <2>2, <2>4 DEF AddGrant, Reach
  <2>6. AddGrant(SoFar(k), row) = [c \in Zone |-> AddGrant(SoFar(k), row)[c]]
      BY DEF AddGrant
  <2> QED BY <2>1, <2>3, <2>5, <2>6
<1>5. n \in Right
  <2>1. Right \in SUBSET Nat
      OBVIOUS
  <2> HIDE DEF Right
  <2> QED BY <1>3, <1>4, <2>1, InductionOnNat
<1>6. AccessOf(given) = acc[1..n]
    BY AccessOfIsFold DEF acc
<1> QED BY <1>5, <1>6

\* Loading shows the reach of what the service answered, in whatever order
\* its rows came.
LEMMA LoadingKeepsReach ==
    ASSUME NEW choices \in AccessMap, NEW given \in SetToSeqs(GrantRows(choices))
    PROVE  /\ AccessOf(given) \in AccessMap
           /\ \A c \in Zone : Reach(AccessOf(given)[c]) = Reach(choices[c])
<1> DEFINE S == GrantRows(choices)
           n == Cardinality(S)
<1>1. S \subseteq Zone \X Choice
    BY DEF GrantRows
<1>2. IsFiniteSet(S) /\ n \in Nat
  <2>1. IsFiniteSet(Choice)
      BY FS_AddElement DEF Choice
  <2>2. IsFiniteSet(Zone \X Choice)
      BY <2>1, FS_Product
  <2> QED BY <1>1, <2>2, FS_Subset, FS_CardinalityType
<1>3. /\ given \in [1..n -> S]
      /\ \A i, j \in 1..n : i # j => given[i] # given[j]
    BY DEF SetToSeqs
<1>4. \A g \in S : \E i \in 1..n : given[i] = g
  <2> HIDE DEF S, n
  <2>1. given \in Injection(1..n, S)
      BY <1>3 DEF Injection, IsInjective
  <2>2. Cardinality(1..n) = n
      BY <1>2, FS_Interval
  <2>3. given \in Surjection(1..n, S)
      BY <1>2, <2>1, <2>2, FS_Injection DEF n
  <2> QED BY <2>3 DEF Surjection
<1>5. given \in [1..n -> Zone \X Choice]
    BY <1>1, <1>3
<1>6. AccessOf(given) = [c \in Zone |-> Reach(Seen(given, n, c))]
  <2> HIDE DEF n
  <2> QED BY <1>2, <1>5, FoldShows
<1>7. ASSUME NEW c \in Zone PROVE Seen(given, n, c) = choices[c]
  <2>1. choices[c] \subseteq Choice
      BY DEF AccessMap
  <2>2. ASSUME NEW x \in Choice
        PROVE  x \in choices[c] <=> \E i \in 1..n : given[i] = <<c, x>>
    <3>1. x \in choices[c] <=> <<c, x>> \in S
        BY DEF GrantRows
    <3> HIDE DEF S, n
    <3> QED BY <3>1, <1>3, <1>4
  <2> QED BY <2>1, <2>2 DEF Seen
<1>8. \A c \in Zone : AccessOf(given)[c] = Reach(choices[c])
    BY <1>6, <1>7
<1>9. \A c \in Zone : Reach(choices[c]) \in SUBSET Choice
                      /\ Reach(Reach(choices[c])) = Reach(choices[c])
    BY DEF AccessMap, Reach, Choice
<1>10. AccessOf(given) \in AccessMap
    BY <1>6, <1>7, <1>9 DEF AccessMap
<1> QED BY <1>8, <1>9, <1>10

-----------------------------------------------------------------------------
(* The panel *)

\* Only the GET of the user named may still be shown.
ReadsForEditing == \A r \in grantReads : ~r.cancelled => r.user = editing

ReachKept ==
    editorLoad = "loaded" =>
        \A c \in Zone \ touched : Reach(access[c]) = Reach(loadedFrom.held[c])

\* The panel waits for at most one PUT, and forgets the last "Saved." first.
OnePut ==
    /\ saving => ~saved /\ \E p \in puts : p.mine
    /\ \A p \in puts : p.mine => saving
    /\ \A p, q \in puts : p.mine /\ q.mine => p = q

\* That PUT carries what is on display until the panel is edited.  Its DELETE
\* sees all that the service holds, and once it is done it is what the service
\* holds, unless another save of its user took effect since it began.
PutIsShown ==
    \A p \in puts : p.mine /\ ~edited => p.user = editing /\ p.access = access
PutTellsHeld ==
    \A p \in puts : p.mine /\ p.user \notin strayed =>
        /\ p.stage = "begun" => p.saw = held[p.user]
        /\ p.stage = "done" => held[p.user] = p.access

EInv == /\ EditorTypeOK
        /\ ReadsForEditing /\ ForeignGrantsOnlyWhileLoading
        /\ ReachKept
        /\ OnePut /\ PutIsShown /\ PutTellsHeld /\ SavedMeansStored

LEMMA NoAccessTyped == NoAccess \in AccessMap
BY DEF NoAccess, AccessMap

ReadSet == [user : Person, answer : {"none", "ok", "error"}, held : AccessMap,
            cancelled : BOOLEAN]
PutSet == [user : Person, access : AccessMap, saw : AccessMap,
           stage : {"sent", "begun", "done", "refused"}, mine : BOOLEAN]

LEMMA CancelRead ==
    ASSUME NEW r \in ReadSet
    PROVE  [r EXCEPT !.cancelled = TRUE] \in ReadSet
BY DEF ReadSet

LEMMA DisownPut ==
    ASSUME NEW p \in PutSet
    PROVE  [p EXCEPT !.mine = FALSE] \in PutSet /\ [p EXCEPT !.mine = FALSE].mine = FALSE
BY DEF PutSet

\* The conjuncts, from variables alone.
LEMMA SameEditor ==
    ASSUME EInv, UNCHANGED editorVars
    PROVE  EInv'
BY DEF EInv, editorVars, panel, EditorTypeOK, ReadsForEditing, ForeignGrantsOnlyWhileLoading,
   Rows, EditorView, ReachKept, OnePut, PutIsShown, PutTellsHeld, SavedMeansStored

LEMMA InitEInv ==
    ASSUME EditorInit
    PROVE  EInv
<1>1. EditorTypeOK
  <2>1. held \in [Person -> AccessMap] /\ access \in AccessMap
      BY NoAccessTyped DEF EditorInit, FreshPanel, AccessMap
  <2>2. loadedFrom \in [user : Person \cup {Nobody}, held : AccessMap]
      BY NoAccessTyped DEF EditorInit
  <2>3. namespaces \in [Zone -> {"absent", "loading", "error", "list"}]
      BY DEF EditorInit, FreshPanel
  <2>4. opens \in 0..Opens /\ clicks \in 0..Clicks /\ rivals \in 0..Rivals
      BY DEF EditorInit
  <2> QED BY <2>1, <2>2, <2>3, <2>4 DEF EditorInit, FreshPanel, EditorTypeOK
<1>2. ReadsForEditing /\ ForeignGrantsOnlyWhileLoading /\ ReachKept
    BY DEF EditorInit, FreshPanel, ReadsForEditing, ForeignGrantsOnlyWhileLoading,
       Rows, EditorView, ReachKept
<1>3. OnePut /\ PutIsShown /\ PutTellsHeld /\ SavedMeansStored
    BY DEF EditorInit, FreshPanel, OnePut, PutIsShown, PutTellsHeld, SavedMeansStored
<1> QED BY <1>1, <1>2, <1>3 DEF EInv

LEMMA OpenEditorKeepsEInv ==
    ASSUME EInv, OpenEditor
    PROVE  EInv'
<1> PICK u \in Person :
       /\ editing' = u
       /\ grantReads' = {[r EXCEPT !.cancelled = TRUE] : r \in grantReads} \cup {ReadOf(u)}
    BY DEF OpenEditor
<1>1. ReadOf(u) \in grantReads' /\ ReadOf(u).user = u /\ ~ReadOf(u).cancelled
    BY DEF ReadOf
<1>2. \A r \in grantReads' : ~r.cancelled => r.user = u
    BY DEF ReadOf, EInv, EditorTypeOK
<1>3. EditorTypeOK'
  <2>1. grantReads' \subseteq ReadSet
    <3>1. grantReads \subseteq ReadSet
        BY DEF EInv, EditorTypeOK, ReadSet
    <3>2. ReadOf(u) \in ReadSet
        BY NoAccessTyped DEF ReadOf, ReadSet
    <3> QED BY <3>1, <3>2, CancelRead
  <2>2. opens' \in 0..Opens
      BY DEF OpenEditor, EInv, EditorTypeOK
  <2> QED BY <2>1, <2>2 DEF OpenEditor, EInv, EditorTypeOK, panel, ReadSet
<1>4. ReadsForEditing' /\ ForeignGrantsOnlyWhileLoading'
    BY <1>1, <1>2 DEF ReadsForEditing, ForeignGrantsOnlyWhileLoading
<1>5. ReachKept' /\ OnePut' /\ PutIsShown' /\ PutTellsHeld' /\ SavedMeansStored'
    BY DEF OpenEditor, panel, EInv, ReachKept, OnePut, PutIsShown, PutTellsHeld, SavedMeansStored
<1> QED BY <1>3, <1>4, <1>5 DEF EInv

LEMMA CloseEditorKeepsEInv ==
    ASSUME EInv, CloseEditor
    PROVE  EInv'
<1>1. \A p \in puts' : p.mine = FALSE
    BY DEF CloseEditor, EInv, EditorTypeOK
<1>2. EditorTypeOK'
  <2>1. puts' \subseteq PutSet
    <3>1. puts \subseteq PutSet
        BY DEF EInv, EditorTypeOK, PutSet
    <3> QED BY <3>1, DisownPut DEF CloseEditor
  <2> QED BY <2>1, NoAccessTyped DEF CloseEditor, EInv, EditorTypeOK, PutSet
<1>3. ReadsForEditing' /\ ForeignGrantsOnlyWhileLoading' /\ ReachKept'
    BY DEF CloseEditor, ReadsForEditing, ForeignGrantsOnlyWhileLoading, Rows, EditorView, ReachKept
<1>4. OnePut' /\ PutIsShown' /\ PutTellsHeld' /\ SavedMeansStored'
    BY <1>1 DEF CloseEditor, OnePut, PutIsShown, PutTellsHeld, SavedMeansStored
<1> QED BY <1>2, <1>3, <1>4 DEF EInv

\* A GET is answered, or the answer of a cancelled effect dropped.
LEMMA ReadsKeepEInv ==
    ASSUME EInv, ServeGrants \/ GrantsDropped
    PROVE  EInv'
<1>1. /\ UNCHANGED <<held, editing, access, editorLoad, panel, puts, opens, clicks, rivals,
                     loadedFrom, touched, edited, strayed>>
    BY DEF ServeGrants, GrantsDropped
<1>2. /\ grantReads' \subseteq [user : Person, answer : {"none", "ok", "error"},
                                held : AccessMap, cancelled : BOOLEAN]
      /\ \A r \in grantReads' : \E q \in grantReads : r.user = q.user /\ r.cancelled = q.cancelled
      /\ \A q \in grantReads : ~q.cancelled =>
            \E r \in grantReads' : r.user = q.user /\ r.cancelled = q.cancelled
  <2>1. CASE ServeGrants
    <3> PICK r \in grantReads, a \in {"ok", "error"} :
           grantReads' = (grantReads \ {r}) \cup
             {[r EXCEPT !.answer = a, !.held = IF a = "ok" THEN held[r.user] ELSE NoAccess]}
        BY <2>1 DEF ServeGrants
    <3> DEFINE h == IF a = "ok" THEN held[r.user] ELSE NoAccess
    <3>1. r \in [user : Person, answer : {"none", "ok", "error"}, held : AccessMap,
                 cancelled : BOOLEAN]
        BY DEF EInv, EditorTypeOK
    <3>2. h \in AccessMap
        BY <3>1, NoAccessTyped DEF EInv, EditorTypeOK
    <3>3. PICK s : s = [r EXCEPT !.answer = a, !.held = h]
        OBVIOUS
    <3> HIDE DEF h
    <3>4. s \in [user : Person, answer : {"none", "ok", "error"}, held : AccessMap,
                 cancelled : BOOLEAN] /\ s.user = r.user /\ s.cancelled = r.cancelled
        BY <3>1, <3>2, <3>3
    <3>5. grantReads' = (grantReads \ {r}) \cup {s}
        BY <3>3 DEF h
    <3> QED BY <3>4, <3>5 DEF EInv, EditorTypeOK
  <2>2. CASE GrantsDropped
      BY <2>2 DEF GrantsDropped, EInv, EditorTypeOK
  <2> QED BY <2>1, <2>2
<1>3. editing = Nobody => grantReads' = {}
    BY DEF EInv, EditorTypeOK, ServeGrants, GrantsDropped
<1>4. EditorTypeOK'
    BY <1>1, <1>2, <1>3 DEF EInv, EditorTypeOK, panel
<1>5. ReadsForEditing' /\ ForeignGrantsOnlyWhileLoading'
    BY <1>1, <1>2 DEF EInv, ReadsForEditing, ForeignGrantsOnlyWhileLoading, Rows, EditorView
<1>6. ReachKept' /\ OnePut' /\ PutIsShown' /\ PutTellsHeld' /\ SavedMeansStored'
    BY <1>1 DEF panel, EInv, ReachKept, OnePut, PutIsShown, PutTellsHeld, SavedMeansStored
<1> QED BY <1>4, <1>5, <1>6 DEF EInv

LEMMA GrantsAnsweredKeepsEInv ==
    ASSUME EInv, GrantsAnswered
    PROVE  EInv'
<1> PICK r \in grantReads : ~r.cancelled /\ ShowGrants(r)
    BY DEF GrantsAnswered
<1>1. /\ UNCHANGED <<held, editing, panel, puts, opens, clicks, rivals, strayed>>
      /\ grantReads' = grantReads \ {r} /\ r.user = editing
      /\ r \in [user : Person, answer : {"none", "ok", "error"}, held : AccessMap,
                cancelled : BOOLEAN]
      /\ editing # Nobody
    BY DEF ShowGrants, EInv, ReadsForEditing, EditorTypeOK
<1>2. CASE r.answer = "ok"
  <2>1. PICK given \in SetToSeqs(GrantRows(r.held)) : access' = AccessOf(given)
      BY <1>2 DEF ShowGrants
  <2>2. /\ editorLoad' = "loaded" /\ loadedFrom' = [user |-> r.user, held |-> r.held]
        /\ touched' = {} /\ edited' = TRUE
      BY <1>2 DEF ShowGrants
  <2>3. access' \in AccessMap /\ \A c \in Zone : Reach(access'[c]) = Reach(r.held[c])
      BY <1>1, <2>1, LoadingKeepsReach
  <2>4. EditorTypeOK'
      BY <1>1, <2>2, <2>3 DEF EInv, EditorTypeOK, panel
  <2>5. ReadsForEditing' /\ ForeignGrantsOnlyWhileLoading' /\ ReachKept'
      BY <1>1, <2>2, <2>3 DEF EInv, ReadsForEditing, ForeignGrantsOnlyWhileLoading, ReachKept
  <2>6. OnePut' /\ PutIsShown' /\ PutTellsHeld' /\ SavedMeansStored'
      BY <1>1, <2>2 DEF EInv, OnePut, PutIsShown, PutTellsHeld, SavedMeansStored, panel
  <2> QED BY <2>4, <2>5, <2>6 DEF EInv
<1>3. CASE r.answer # "ok"
  <2>1. editorLoad' = "error" /\ UNCHANGED <<access, loadedFrom, touched, edited>>
      BY <1>3 DEF ShowGrants
  <2>2. EditorTypeOK'
      BY <1>1, <2>1 DEF EInv, EditorTypeOK, panel
  <2>3. ReadsForEditing' /\ ForeignGrantsOnlyWhileLoading' /\ ReachKept'
      BY <1>1, <2>1 DEF EInv, ReadsForEditing, ForeignGrantsOnlyWhileLoading, Rows,
         EditorView, ReachKept
  <2>4. OnePut' /\ PutIsShown' /\ PutTellsHeld' /\ SavedMeansStored'
      BY <1>1, <2>1 DEF EInv, OnePut, PutIsShown, PutTellsHeld, SavedMeansStored, panel
  <2> QED BY <2>2, <2>3, <2>4 DEF EInv
<1> QED BY <1>2, <1>3

\* The three edits replace the choices on one cluster.
LEMMA EditsKeepEInv ==
    ASSUME EInv, ToggleFull \/ AddNamespace \/ RemoveNamespace
    PROVE  EInv'
<1>1. PICK c \in Zone, choices \in SUBSET Choice : Rows /\ EditCluster(c, choices)
  <2>1. \A c \in Zone : access[c] \in SUBSET Choice /\ Full \in Choice
      BY DEF EInv, EditorTypeOK, AccessMap, Choice
  <2>2. Draggable \subseteq Choice
      BY DEF Draggable, Available, Granted, NamesOf, Choice
  <2>3. CASE ToggleFull
      BY <2>1, <2>3 DEF ToggleFull
  <2>4. CASE AddNamespace
    <3> PICK c \in Zone, n \in Draggable : EditCluster(c, access[c] \cup {n})
        BY <2>4 DEF AddNamespace
    <3>1. access[c] \cup {n} \in SUBSET Choice
        BY <2>1, <2>2
    <3> QED BY <2>4, <3>1 DEF AddNamespace
  <2>5. CASE RemoveNamespace
    <3> PICK c \in Zone, n \in Draggable : EditCluster(c, access[c] \ {n})
        BY <2>5 DEF RemoveNamespace
    <3>1. access[c] \ {n} \in SUBSET Choice
        BY <2>1
    <3> QED BY <2>5, <3>1 DEF RemoveNamespace
  <2> QED BY <2>3, <2>4, <2>5
<1>2. EditorTypeOK'
  <2>1. access' \in AccessMap
      BY <1>1 DEF EditCluster, EInv, EditorTypeOK, AccessMap
  <2>2. clicks' \in 0..Clicks
      BY <1>1 DEF EditCluster, EInv, EditorTypeOK
  <2>3. touched' \subseteq Zone
      BY <1>1 DEF EditCluster, EInv, EditorTypeOK
  <2> QED BY <1>1, <2>1, <2>2, <2>3 DEF EditCluster, EInv, EditorTypeOK, panel, Rows
<1>3. ReadsForEditing' /\ ForeignGrantsOnlyWhileLoading'
    BY <1>1 DEF EditCluster, EInv, ReadsForEditing, ForeignGrantsOnlyWhileLoading, Rows, EditorView
<1>4. ReachKept'
  <2>1. \A d \in Zone : d # c => access'[d] = access[d]
      BY <1>1 DEF EditCluster, EInv, EditorTypeOK, AccessMap
  <2> QED BY <1>1, <2>1 DEF EditCluster, EInv, ReachKept
<1>5. OnePut' /\ PutIsShown' /\ PutTellsHeld' /\ SavedMeansStored'
    BY <1>1 DEF EditCluster, panel, EInv, OnePut, PutIsShown, PutTellsHeld, SavedMeansStored
<1> QED BY <1>2, <1>3, <1>4, <1>5 DEF EInv

LEMMA RowsOpenKeepEInv ==
    ASSUME EInv, ToggleExpanded \/ NamespacesAnswered
    PROVE  EInv'
<1>1. /\ UNCHANGED <<held, editing, access, editorLoad, grantReads, saving, saved, puts, opens, rivals,
                     loadedFrom, touched, edited, strayed>>
    BY DEF ToggleExpanded, NamespacesAnswered
<1>2. EditorTypeOK'
  <2>1. expanded' \subseteq Zone
      BY DEF ToggleExpanded, NamespacesAnswered, EInv, EditorTypeOK
  <2>2. namespaces' \in [Zone -> {"absent", "loading", "error", "list"}]
      BY DEF ToggleExpanded, NamespacesAnswered, EInv, EditorTypeOK
  <2>3. clicks' \in 0..Clicks
      BY DEF ToggleExpanded, NamespacesAnswered, EInv, EditorTypeOK
  <2> QED BY <1>1, <2>1, <2>2, <2>3 DEF EInv, EditorTypeOK
<1>3. ReadsForEditing' /\ ForeignGrantsOnlyWhileLoading' /\ ReachKept'
    BY <1>1 DEF EInv, ReadsForEditing, ForeignGrantsOnlyWhileLoading, Rows, EditorView, ReachKept
<1>4. OnePut' /\ PutIsShown' /\ PutTellsHeld' /\ SavedMeansStored'
    BY <1>1 DEF EInv, OnePut, PutIsShown, PutTellsHeld, SavedMeansStored
<1> QED BY <1>2, <1>3, <1>4 DEF EInv

LEMMA ClickSaveKeepsEInv ==
    ASSUME EInv, ClickSave
    PROVE  EInv'
<1> PICK sent : sent = Put(editing, access, TRUE)
    OBVIOUS
<1>1. /\ puts' = puts \cup {sent} /\ saving' = TRUE /\ saved' = FALSE /\ edited' = FALSE
      /\ UNCHANGED <<held, editing, access, editorLoad, grantReads, expanded, namespaces,
                     opens, clicks, rivals, loadedFrom, touched, strayed>>
      /\ editing # Nobody /\ \A p \in puts : ~p.mine
    BY DEF ClickSave, Rows, EInv, OnePut
<1>2. sent.user = editing /\ sent.access = access /\ sent.stage = "sent" /\ sent.mine
    BY DEF Put
<1>3. EditorTypeOK'
  <2>1. puts' \subseteq PutSet
    <3>1. puts \subseteq PutSet
        BY DEF EInv, EditorTypeOK, PutSet
    <3>2. sent \in PutSet
        BY <1>1, NoAccessTyped DEF EInv, EditorTypeOK, PutSet, Put
    <3> QED BY <1>1, <3>1, <3>2
  <2> QED BY <1>1, <2>1 DEF EInv, EditorTypeOK, PutSet
<1>4. ReadsForEditing' /\ ForeignGrantsOnlyWhileLoading' /\ ReachKept'
    BY <1>1 DEF EInv, ReadsForEditing, ForeignGrantsOnlyWhileLoading, Rows, EditorView, ReachKept
<1>5. OnePut' /\ PutIsShown' /\ PutTellsHeld' /\ SavedMeansStored'
    BY <1>1, <1>2 DEF OnePut, PutIsShown, PutTellsHeld, SavedMeansStored
<1> QED BY <1>3, <1>4, <1>5 DEF EInv

LEMMA OthersSaveKeepsEInv ==
    ASSUME EInv, OthersSave
    PROVE  EInv'
<1>1. UNCHANGED <<held, editing, access, editorLoad, grantReads, panel, opens, clicks, loadedFrom,
                  touched, edited, strayed>>
    BY DEF OthersSave
<1>2. PICK u \in Person, acc \in [Zone -> {{Full}} \cup SUBSET Name] :
         puts' = puts \cup {Put(u, acc, FALSE)}
    BY DEF OthersSave
<1> PICK q : q = Put(u, acc, FALSE)
    OBVIOUS
<1>3. q \in PutSet /\ q.mine = FALSE
  <2>1. acc \in AccessMap
      BY DEF AccessMap, Choice
  <2> QED BY <2>1, NoAccessTyped DEF Put, PutSet
<1>4. rivals' \in 0..Rivals
    BY DEF OthersSave, EInv, EditorTypeOK
<1>5. EditorTypeOK'
  <2>1. puts' \subseteq PutSet
      BY <1>2, <1>3 DEF EInv, EditorTypeOK, PutSet
  <2> QED BY <1>1, <1>4, <2>1 DEF EInv, EditorTypeOK, PutSet, panel
<1>6. ReadsForEditing' /\ ForeignGrantsOnlyWhileLoading' /\ ReachKept'
    BY <1>1 DEF EInv, ReadsForEditing, ForeignGrantsOnlyWhileLoading, Rows, EditorView, ReachKept
<1>7. \A p \in puts' : p.mine => p \in puts
    BY <1>2, <1>3
<1>8. OnePut' /\ PutIsShown' /\ PutTellsHeld' /\ SavedMeansStored'
    BY <1>1, <1>2, <1>7 DEF EInv, panel, OnePut, PutIsShown, PutTellsHeld, SavedMeansStored
<1> QED BY <1>5, <1>6, <1>8 DEF EInv

\* What a step of the service on one PUT leaves: f is what it makes of the others.
LEMMA PutServed ==
    ASSUME EInv, NEW p \in puts, NEW q \in PutSet, NEW f \in [puts -> PutSet],
           q.user = p.user, q.access = p.access, q.mine = p.mine,
           \A r \in puts : f[r].user = r.user /\ f[r].access = r.access /\ f[r].mine = r.mine,
           puts' = {f[r] : r \in puts \ {p}} \cup {q},
           held' \in [Person -> AccessMap], strayed' \subseteq Person,
           UNCHANGED <<editing, access, editorLoad, grantReads, panel, opens, clicks, rivals,
                       loadedFrom, touched, edited>>
    PROVE  /\ EditorTypeOK' /\ ReadsForEditing' /\ ForeignGrantsOnlyWhileLoading' /\ ReachKept'
           /\ OnePut' /\ PutIsShown'
<1>1. EditorTypeOK'
  <2>1. puts' \subseteq PutSet
      OBVIOUS
  <2> QED BY <2>1 DEF EInv, EditorTypeOK, PutSet, panel
<1>2. ReadsForEditing' /\ ForeignGrantsOnlyWhileLoading' /\ ReachKept'
    BY DEF EInv, ReadsForEditing, ForeignGrantsOnlyWhileLoading, Rows, EditorView, ReachKept
<1>3. \A r \in puts' : r = q \/ \E o \in puts : o # p /\ r = f[o]
    OBVIOUS
<1>4. UNCHANGED <<saving, saved, editing, access, edited>>
    BY DEF panel
<1>5. /\ saving => ~saved /\ \E r \in puts : r.mine
      /\ \A r \in puts : r.mine => saving
      /\ \A r, o \in puts : r.mine /\ o.mine => r = o
    BY DEF EInv, OnePut
<1>6. saving => \E r \in puts' : r.mine
  <2> SUFFICES ASSUME saving PROVE \E r \in puts' : r.mine
      OBVIOUS
  <2> PICK r \in puts : r.mine
      BY <1>5
  <2>1. CASE r = p
      BY <2>1
  <2>2. CASE r # p
    <3>1. f[r] \in puts' /\ f[r].mine
        BY <2>2
    <3> QED BY <3>1
  <2> QED BY <2>1, <2>2
<1>7. \A r \in puts' : r.mine => saving
    BY <1>3, <1>5
<1>8. ASSUME NEW r1 \in puts', NEW r2 \in puts', r1.mine, r2.mine
      PROVE  r1 = r2
  <2>1. CASE p.mine
    <3>1. \A o \in puts : o # p => ~f[o].mine
        BY <1>5, <2>1
    <3> QED BY <1>3, <1>8, <3>1
  <2>2. CASE ~p.mine
    <3>1. PICK o1 \in puts, o2 \in puts : r1 = f[o1] /\ r2 = f[o2]
        BY <1>3, <1>8, <2>2
    <3> QED BY <1>5, <1>8, <3>1
  <2> QED BY <2>1, <2>2
<1>9. OnePut'
    BY <1>4, <1>5, <1>6, <1>7, <1>8 DEF OnePut
<1>10. PutIsShown'
    BY <1>3, <1>4 DEF EInv, PutIsShown
<1> QED BY <1>1, <1>2, <1>9, <1>10

\* A PUT that begins, or is refused: nothing is held yet, and what is seen is held.
LEMMA BeginOrRefuseKeepsEInv ==
    ASSUME EInv, NEW p \in puts, BeginPut(p) \/ RefusePut(p),
           UNCHANGED <<editing, access, editorLoad, grantReads, panel, opens, clicks, rivals,
                       loadedFrom, touched, edited>>
    PROVE  EInv'
<1>1. p \in PutSet /\ puts \subseteq PutSet /\ held[p.user] \in AccessMap /\ strayed \subseteq Person
  <2>1. p \in PutSet /\ puts \subseteq PutSet
      BY DEF EInv, EditorTypeOK, PutSet
  <2> QED BY <2>1 DEF EInv, EditorTypeOK, PutSet
<1>2. PICK q \in PutSet :
         /\ q.user = p.user /\ q.access = p.access /\ q.mine = p.mine
         /\ puts' = (puts \ {p}) \cup {q} /\ held' = held
         /\ \/ /\ q.stage = "begun" /\ q.saw = held[p.user]
               /\ strayed' = IF p.mine THEN strayed \ {p.user} ELSE strayed
            \/ q.stage = "refused" /\ strayed' = strayed
  <2>1. CASE BeginPut(p)
    <3> PICK acc \in AccessMap : acc = held[p.user]
        BY <1>1
    <3> PICK q : q = [p EXCEPT !.stage = "begun", !.saw = acc]
        OBVIOUS
    <3>1. /\ q \in PutSet /\ q.stage = "begun" /\ q.saw = acc
          /\ q.user = p.user /\ q.access = p.access /\ q.mine = p.mine
        BY <1>1 DEF PutSet
    <3> QED BY <2>1, <3>1 DEF BeginPut
  <2>2. CASE RefusePut(p)
    <3> PICK acc \in AccessMap : acc = NoAccess
        BY NoAccessTyped
    <3> PICK q : q = [p EXCEPT !.stage = "refused", !.saw = acc]
        OBVIOUS
    <3>1. /\ q \in PutSet /\ q.stage = "refused"
          /\ q.user = p.user /\ q.access = p.access /\ q.mine = p.mine
        BY <1>1 DEF PutSet
    <3> QED BY <2>2, <3>1 DEF RefusePut
  <2> QED BY <2>1, <2>2
<1>3. PICK f : f = [r \in puts |-> r]
    OBVIOUS
<1>4. /\ f \in [puts -> PutSet] /\ puts' = {f[r] : r \in puts \ {p}} \cup {q}
      /\ \A r \in puts : f[r].user = r.user /\ f[r].access = r.access /\ f[r].mine = r.mine
    BY <1>1, <1>2, <1>3
<1>5. held' \in [Person -> AccessMap] /\ strayed' \subseteq Person
    BY <1>1, <1>2 DEF EInv, EditorTypeOK
<1>6. /\ EditorTypeOK' /\ ReadsForEditing' /\ ForeignGrantsOnlyWhileLoading' /\ ReachKept'
      /\ OnePut' /\ PutIsShown'
    BY <1>2, <1>4, <1>5, PutServed
<1>7. PutTellsHeld'
  <2> SUFFICES ASSUME NEW r \in puts', r.mine, r.user \notin strayed'
               PROVE  /\ r.stage = "begun" => r.saw = held[r.user]
                      /\ r.stage = "done" => held[r.user] = r.access
      BY <1>2 DEF PutTellsHeld
  <2>1. CASE r = q
      BY <1>2, <2>1
  <2>2. CASE r \in puts /\ r # p
    <3>1. strayed' = strayed
        BY <1>2, <2>2 DEF EInv, OnePut
    <3> QED BY <2>2, <3>1 DEF EInv, PutTellsHeld
  <2> QED BY <1>2, <2>1, <2>2
<1>8. SavedMeansStored'
  <2>1. saved => ~p.mine
      BY DEF EInv, OnePut
  <2> QED BY <1>2, <2>1 DEF EInv, SavedMeansStored, panel
<1> QED BY <1>6, <1>7, <1>8 DEF EInv

\* The commit of a PUT that nobody here awaits marks its user; the one awaited
\* is the only one.
LEMMA CommitPutKeepsEInv ==
    ASSUME EInv, NEW p \in puts, CommitPut(p),
           UNCHANGED <<editing, access, editorLoad, grantReads, panel, opens, clicks, rivals,
                       loadedFrom, touched, edited>>
    PROVE  EInv'
<1> DEFINE now == [c \in Zone |-> (held[p.user][c] \ p.saw[c]) \cup p.access[c]]
<1>1. /\ p.stage = "begun" /\ held' = [held EXCEPT ![p.user] = now]
      /\ puts' = {LessSeen(r, p) : r \in puts \ {p}} \cup {[p EXCEPT !.stage = "done", !.saw = NoAccess]}
      /\ strayed' = IF p.mine THEN strayed ELSE strayed \cup {p.user}
    BY DEF CommitPut
<1>2. /\ p \in PutSet /\ puts \subseteq PutSet /\ p.user \in Person
      /\ held \in [Person -> AccessMap] /\ strayed \subseteq Person
      /\ p.access \in AccessMap /\ p.saw \in AccessMap
  <2>1. p \in PutSet /\ puts \subseteq PutSet
      BY DEF EInv, EditorTypeOK, PutSet
  <2> QED BY <2>1 DEF EInv, EditorTypeOK, PutSet
<1>3. now \in AccessMap
    BY <1>2 DEF AccessMap
<1>4. p.saw = held[p.user] => now = p.access
    BY <1>2 DEF AccessMap
<1> HIDE DEF now
<1>5. /\ held' \in [Person -> AccessMap] /\ held'[p.user] = now
      /\ \A u \in Person : u # p.user => held'[u] = held[u]
      /\ strayed' \subseteq Person /\ strayed \subseteq strayed'
      /\ ~p.mine => p.user \in strayed'
    BY <1>1, <1>2, <1>3
<1> PICK acc \in AccessMap : acc = NoAccess
    BY NoAccessTyped
<1> PICK q : q = [p EXCEPT !.stage = "done", !.saw = acc]
    OBVIOUS
<1>6. /\ q \in PutSet /\ q.stage = "done"
      /\ q.user = p.user /\ q.access = p.access /\ q.mine = p.mine
    BY <1>2 DEF PutSet
<1>7. ASSUME NEW r \in puts
      PROVE  /\ LessSeen(r, p) \in PutSet /\ LessSeen(r, p).user = r.user
             /\ LessSeen(r, p).access = r.access /\ LessSeen(r, p).mine = r.mine
             /\ r.user # p.user => LessSeen(r, p) = r
  <2> PICK less : less = [c \in Zone |-> r.saw[c] \ p.saw[c]]
      OBVIOUS
  <2>1. r \in PutSet
      BY <1>2
  <2>2. less \in AccessMap
      BY <1>2, <2>1 DEF PutSet, AccessMap
  <2>3. LessSeen(r, p) = IF r.user = p.user /\ r.stage = "begun" THEN [r EXCEPT !.saw = less] ELSE r
      BY DEF LessSeen
  <2> QED BY <2>1, <2>2, <2>3 DEF PutSet
<1>8. PICK f : f = [r \in puts |-> LessSeen(r, p)]
    OBVIOUS
<1>9. /\ f \in [puts -> PutSet] /\ puts' = {f[r] : r \in puts \ {p}} \cup {q}
      /\ \A r \in puts : f[r].user = r.user /\ f[r].access = r.access /\ f[r].mine = r.mine
      /\ \A r \in puts : r.user # p.user => f[r] = r
    BY <1>1, <1>7, <1>8
<1>10. /\ EditorTypeOK' /\ ReadsForEditing' /\ ForeignGrantsOnlyWhileLoading' /\ ReachKept'
       /\ OnePut' /\ PutIsShown'
    BY <1>5, <1>6, <1>9, PutServed
<1>11. PutTellsHeld'
  <2> SUFFICES ASSUME NEW r \in puts', r.mine, r.user \notin strayed'
               PROVE  /\ r.stage = "begun" => r.saw = held'[r.user]
                      /\ r.stage = "done" => held'[r.user] = r.access
      BY DEF PutTellsHeld
  <2>1. CASE r = q
    <3>1. p.mine /\ p.user \notin strayed
        BY <1>5, <1>6, <2>1
    <3>2. p.saw = held[p.user]
        BY <1>1, <3>1 DEF EInv, PutTellsHeld
    <3> QED BY <1>4, <1>5, <1>6, <2>1, <3>2
  <2>2. CASE r # q
    <3>1. PICK o \in puts : o # p /\ r = f[o]
        BY <1>9, <2>2
    <3>2. o.mine /\ o.user = r.user
        BY <1>9, <3>1
    <3>3. ~p.mine
        BY <3>1, <3>2 DEF EInv, OnePut
    <3>4. o.user # p.user /\ o.user \notin strayed /\ o.user \in Person
        BY <1>2, <1>5, <3>2, <3>3 DEF PutSet
    <3>5. r = o /\ held'[r.user] = held[r.user]
        BY <1>5, <1>9, <3>1, <3>4
    <3> QED BY <3>2, <3>4, <3>5 DEF EInv, PutTellsHeld
  <2> QED BY <2>1, <2>2
<1>12. SavedMeansStored'
  <2> SUFFICES ASSUME saved, ~edited, editing \notin strayed'
               PROVE  held'[editing] = access
      BY DEF SavedMeansStored, panel
  <2>1. ~p.mine
      BY DEF EInv, OnePut
  <2>2. editing # p.user /\ editing \notin strayed
      BY <1>5, <2>1
  <2>3. held'[editing] = held[editing]
      BY <1>1, <1>2, <2>2
  <2> QED BY <2>2, <2>3 DEF EInv, SavedMeansStored
<1> QED BY <1>10, <1>11, <1>12 DEF EInv

LEMMA ServePutKeepsEInv ==
    ASSUME EInv, ServePut
    PROVE  EInv'
BY BeginOrRefuseKeepsEInv, CommitPutKeepsEInv DEF ServePut

LEMMA PutAnsweredKeepsEInv ==
    ASSUME EInv, PutAnswered
    PROVE  EInv'
<1> PICK p \in puts :
       /\ p.mine /\ Ended(p) /\ puts' = puts \ {p}
       /\ saved' = (saved \/ p.stage = "done")
    BY DEF PutAnswered
<1>1. /\ saving' = FALSE
      /\ UNCHANGED <<held, editing, access, editorLoad, grantReads, expanded, namespaces, opens,
                     clicks, rivals, loadedFrom, touched, edited, strayed>>
    BY DEF PutAnswered
<1>2. saving /\ ~saved /\ \A q \in puts' : ~q.mine
    BY DEF EInv, OnePut
<1>3. EditorTypeOK'
    BY <1>1, <1>2 DEF EInv, EditorTypeOK
<1>4. ReadsForEditing' /\ ForeignGrantsOnlyWhileLoading' /\ ReachKept'
    BY <1>1 DEF EInv, ReadsForEditing, ForeignGrantsOnlyWhileLoading, Rows, EditorView, ReachKept
<1>5. OnePut' /\ PutIsShown' /\ PutTellsHeld'
    BY <1>1, <1>2 DEF OnePut, PutIsShown, PutTellsHeld
<1>6. SavedMeansStored'
    BY <1>1, <1>2 DEF EInv, PutIsShown, PutTellsHeld, SavedMeansStored
<1> QED BY <1>3, <1>4, <1>5, <1>6 DEF EInv

LEMMA PutLostKeepsEInv ==
    ASSUME EInv, PutLost
    PROVE  EInv'
<1> PICK p \in puts :
       /\ p.mine
       /\ \/ puts' = puts \ {p}
          \/ puts' = (puts \ {p}) \cup {[p EXCEPT !.mine = FALSE]}
    BY DEF PutLost
<1>1. /\ saving' = FALSE
      /\ UNCHANGED <<held, editing, access, editorLoad, grantReads, expanded, namespaces, saved,
                     opens, clicks, rivals, loadedFrom, touched, edited, strayed>>
    BY DEF PutLost
<1>2. puts \subseteq PutSet /\ [p EXCEPT !.mine = FALSE] \in PutSet
      /\ ~[p EXCEPT !.mine = FALSE].mine
  <2>1. puts \subseteq PutSet
      BY DEF EInv, EditorTypeOK, PutSet
  <2> QED BY <2>1, DisownPut DEF PutSet
<1>3. saving /\ ~saved /\ \A q \in puts' : ~q.mine
    BY <1>2 DEF EInv, OnePut
<1>4. EditorTypeOK'
  <2>1. puts' \subseteq PutSet
      BY <1>2
  <2> QED BY <1>1, <2>1 DEF EInv, EditorTypeOK, PutSet
<1>5. ReadsForEditing' /\ ForeignGrantsOnlyWhileLoading' /\ ReachKept'
    BY <1>1 DEF EInv, ReadsForEditing, ForeignGrantsOnlyWhileLoading, Rows, EditorView, ReachKept
<1>6. OnePut' /\ PutIsShown' /\ PutTellsHeld' /\ SavedMeansStored'
    BY <1>1, <1>3 DEF OnePut, PutIsShown, PutTellsHeld, SavedMeansStored
<1> QED BY <1>4, <1>5, <1>6 DEF EInv

LEMMA PutDroppedKeepsEInv ==
    ASSUME EInv, PutDropped
    PROVE  EInv'
<1> PICK p \in puts : ~p.mine /\ puts' = puts \ {p}
    BY DEF PutDropped
<1>1. UNCHANGED <<held, editing, access, editorLoad, grantReads, panel, opens, clicks, rivals,
                  loadedFrom, touched, edited, strayed>>
    BY DEF PutDropped
<1>2. EditorTypeOK' /\ ReadsForEditing' /\ ForeignGrantsOnlyWhileLoading' /\ ReachKept'
    BY <1>1 DEF EInv, EditorTypeOK, panel, ReadsForEditing, ForeignGrantsOnlyWhileLoading, Rows,
       EditorView, ReachKept
<1>3. OnePut' /\ PutIsShown' /\ PutTellsHeld' /\ SavedMeansStored'
    BY <1>1 DEF EInv, panel, OnePut, PutIsShown, PutTellsHeld, SavedMeansStored
<1> QED BY <1>2, <1>3 DEF EInv

-----------------------------------------------------------------------------
(* The theorems *)

LEMMA EditorKeepsEInv ==
    ASSUME EInv, [EditorNext]_editorVars
    PROVE  EInv'
<1>1. CASE UNCHANGED editorVars
    BY <1>1, SameEditor
<1>2. CASE EditorNext
    BY <1>2, OpenEditorKeepsEInv, CloseEditorKeepsEInv, ReadsKeepEInv, GrantsAnsweredKeepsEInv,
       EditsKeepEInv, RowsOpenKeepEInv, ClickSaveKeepsEInv, OthersSaveKeepsEInv, ServePutKeepsEInv,
       PutAnsweredKeepsEInv, PutLostKeepsEInv, PutDroppedKeepsEInv DEF EditorNext, PutEnds
<1> QED BY <1>1, <1>2

LEMMA EditorInductive == EditorSpec => []EInv
<1>1. EditorInit => EInv
    BY InitEInv
<1>2. EInv /\ [EditorNext]_editorVars => EInv'
    BY EditorKeepsEInv
<1> QED BY <1>1, <1>2, PTL DEF EditorSpec

\* The panel's state and its requests stay well-formed.
THEOREM EditorTypeCorrect == EditorSpec => []EditorTypeOK
<1>1. EInv => EditorTypeOK
    BY DEF EInv
<1> QED BY <1>1, EditorInductive, PTL

\* Late answers for users left behind never replace the grants of the user
\* named (the clean-up of the effect on [userId]).
THEOREM GrantsOfTheUserNamed == EditorSpec => []ForeignGrantsOnlyWhileLoading
<1>1. EInv => ForeignGrantsOnlyWhileLoading
    BY DEF EInv
<1> QED BY <1>1, EditorInductive, PTL

\* Loading, in whatever order the rows come, and editing keep what every
\* cluster that was not touched lets its holder reach.
THEOREM UntouchedKeep == EditorSpec => []UntouchedClustersKeepReach
<1>1. EInv => UntouchedClustersKeepReach
    BY DEF EInv, ReachKept, UntouchedClustersKeepReach, Rows, EditorView
<1> QED BY <1>1, EditorInductive, PTL

\* "Saved." is there only while the service holds what the panel shows, or
\* another save of the same user took effect since the one it speaks of began.
THEOREM SavedIsTrue == EditorSpec => []SavedMeansStored
<1>1. EInv => SavedMeansStored
    BY DEF EInv
<1> QED BY <1>1, EditorInductive, PTL

\* The spinner of "Save access" stands for one PUT that will be answered.
LEMMA SpinnerOfEInv ==
    ASSUME EInv
    PROVE  SavingMeansPut
<1> DEFINE Mine == {p \in puts : p.mine}
<1>1. CASE saving
  <2>1. PICK p \in puts : p.mine
      BY <1>1 DEF EInv, OnePut
  <2>2. Mine = {p}
      BY <2>1 DEF EInv, OnePut
  <2>3. Cardinality(Mine) = 1
      BY <2>2, FS_Singleton
  <2> QED BY <1>1, <2>3 DEF SavingMeansPut
<1>2. CASE ~saving
  <2>1. Mine = {}
      BY <1>2 DEF EInv, OnePut
  <2>2. Cardinality(Mine) = 0
      BY <2>1, FS_EmptySet
  <2> QED BY <1>2, <2>2 DEF SavingMeansPut
<1> QED BY <1>1, <1>2

\* The spinner of "Save access" stands for one PUT of the panel's own.
THEOREM SpinnerIsTrue == EditorSpec => []SavingMeansPut
<1>1. EInv => SavingMeansPut
    BY SpinnerOfEInv
<1> QED BY <1>1, EditorInductive, PTL
=============================================================================
