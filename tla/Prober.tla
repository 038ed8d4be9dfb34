------------------------------- MODULE Prober -------------------------------
(***************************************************************************)
(* blackbox-service: the registry of synthetic checks and the goroutine    *)
(* that probes them.  A ticker whose channel holds one tick wakes the      *)
(* loop; a tick loads every check and probes the due ones one after the    *)
(* other, each with a bounded GET and a bounded push to Mimir.             *)
(*                                                                         *)
(* Time is discrete.  Instants are kept as their distance to the present:  *)
(* `since[c]` is how long ago lastProbed[c] lies and `elapsed` how long    *)
(* ago the running tick took its `now`.  Distances stop growing where      *)
(* nothing can tell them apart any more.                                   *)
(***************************************************************************)
EXTENDS Naturals, FiniteSets, FiniteSetsExt

CONSTANTS
    Tenant, Check,
    NoTenant, NoCheck, Never,
    RequestedIntervals,     \* intervalSeconds of POST /checks bodies
    DefaultInterval, MinInterval, SchedulerTick, ProbeTimeout,
    Restarts                \* bound: crashes of the service

Intervals ==
    {IF i = 0 THEN DefaultInterval ELSE i : i \in RequestedIntervals}
        \ 0..(MinInterval - 1)

ASSUME ProberAssumption ==
    /\ IsFiniteSet(Check)
    /\ NoTenant \notin Tenant /\ NoCheck \notin Check
    /\ Never \notin Nat
    /\ RequestedIntervals \subseteq Nat
    /\ \E longest \in Intervals : \A i \in Intervals : i <= longest
    /\ {DefaultInterval, MinInterval, SchedulerTick, ProbeTimeout}
          \subseteq Nat \ {0}
    /\ Restarts \in Nat

VARIABLES
    tenantOf, interval,     \* columns of every synthetic_checks row inserted
    live,                   \* rows that exist
    pc,                     \* "down", "idle", "scan", "probe" or "push"
    countdown, pending,     \* the ticker, and the tick in its channel
    todo, current,          \* checks the running tick still iterates
    elapsed, spent,         \* time since the tick's now, in the current call
    since,                  \* lastProbed
    crashes,
    stored,                 \* per check, the tenants whose store has samples
    overdue,                \* history: how long a live check has been due
    gone                    \* history: how long ago a check was deleted

registry == <<tenantOf, interval, live>>
loop == <<pc, todo, current, elapsed, spent, since>>
ticker == <<countdown, pending>>
history == <<overdue, gone>>
vars == <<tenantOf, interval, live, pc, countdown, pending, todo, current,
          elapsed, spent, since, crashes, stored, overdue, gone>>

\* The longest a tick can be busy, and the longest interval.
TickBound == Cardinality(Check) * 2 * ProbeTimeout
LongestInterval == Max(Intervals)
CallsBound == 2 * ProbeTimeout

\* A check that misses a tick waits for the rest of it, or for the ticker, and
\* then for the other checks.
OverdueBound ==
    Max({SchedulerTick, TickBound - Min({MinInterval, CallsBound})})
        + TickBound - CallsBound

\* The largest distance each history and clock still distinguishes.
SinceCap == LongestInterval + TickBound
Later(d, cap) == IF d = Never THEN Never ELSE Min({d + 1, cap})

Init ==
    /\ tenantOf = [c \in Check |-> NoTenant]
    /\ interval = [c \in Check |-> MinInterval]
    /\ live = {}
    /\ pc = "idle" /\ todo = {} /\ current = NoCheck
    /\ elapsed = 0 /\ spent = 0
    /\ countdown = SchedulerTick /\ pending = FALSE
    /\ since = [c \in Check |-> Never]
    /\ crashes = 0
    /\ stored = [c \in Check |-> {}]
    /\ overdue = [c \in Check |-> 0]
    /\ gone = [c \in Check |-> Never]

-----------------------------------------------------------------------------
(* The registry. *)

\* Mutant: neither the default nor the minimum is applied.
CreateCheckUnchecked(c, t, requested) ==
    /\ tenantOf[c] = NoTenant
    /\ tenantOf' = [tenantOf EXCEPT ![c] = t]
    /\ interval' = [interval EXCEPT ![c] = requested]
    /\ live' = live \cup {c}
    /\ UNCHANGED <<loop, ticker, crashes, stored, history>>

\* POST /checks: zero means the default, less than the minimum is refused.
CreateCheck(c, t, requested) ==
    LET i == IF requested = 0 THEN DefaultInterval ELSE requested
    IN  /\ tenantOf[c] = NoTenant
        /\ i >= MinInterval
        /\ tenantOf' = [tenantOf EXCEPT ![c] = t]
        /\ interval' = [interval EXCEPT ![c] = i]
        /\ live' = live \cup {c}
        /\ UNCHANGED <<loop, ticker, crashes, stored, history>>

\* DELETE /checks/{id} WHERE id = $1 AND tenant_id = $2; lastProbed keeps its
\* entry.
DeleteCheck(c, t) ==
    /\ c \in live /\ tenantOf[c] = t
    /\ live' = live \ {c}
    /\ gone' = [gone EXCEPT ![c] = 0]
    /\ overdue' = [overdue EXCEPT ![c] = 0]
    /\ UNCHANGED <<tenantOf, interval, loop, ticker, crashes, stored>>

-----------------------------------------------------------------------------
(* The loop. *)

\* Mutant: a failed load falls back to the checks of the last good one.
StartTickKeepsList ==
    /\ pc = "idle" /\ pending
    /\ pending' = FALSE
    /\ pc' = "scan" /\ elapsed' = 0
    /\ \/ todo' = live /\ UNCHANGED overdue
       \/ /\ todo' = {c \in Check : since[c] # Never}
          /\ overdue' = [c \in Check |-> 0]
    /\ UNCHANGED <<registry, current, spent, since, countdown, crashes, stored,
                   gone>>

\* tick: loadChecks succeeds and now is taken, or the whole tick is given up.
StartTick ==
    /\ pc = "idle" /\ pending
    /\ pending' = FALSE
    /\ \/ pc' = "scan" /\ todo' = live /\ elapsed' = 0 /\ UNCHANGED overdue
       \/ /\ overdue' = [c \in Check |-> 0]
          /\ UNCHANGED <<pc, todo, elapsed>>
    /\ UNCHANGED <<registry, current, spent, since, countdown, crashes, stored,
                   gone>>

\* isDue(c, now) where now lies `ago` back.
IsDue(c, ago) == since[c] # Never => since[c] - ago >= interval[c]

Skip(c) ==
    /\ pc = "scan" /\ c \in todo
    /\ ~IsDue(c, elapsed)
    /\ todo' = todo \ {c}
    /\ UNCHANGED <<registry, pc, current, elapsed, spent, since, ticker, crashes,
                   stored, history>>

\* processCheck: markProbed(c, now), then send the GET.
Probe(c) ==
    /\ pc = "scan" /\ c \in todo
    /\ IsDue(c, elapsed)
    /\ todo' = todo \ {c}
    /\ current' = c
    /\ since' = [since EXCEPT ![c] = elapsed]
    /\ pc' = "probe" /\ spent' = 0
    /\ overdue' = [overdue EXCEPT ![c] = 0]
    /\ UNCHANGED <<registry, elapsed, ticker, crashes, stored, gone>>

EndProcess == pc' = "scan" /\ current' = NoCheck /\ spent' = 0

\* The GET returned, failed or timed out, which is a result in any case; or
\* processCheck recovers from a panic and returns.
ProbeDone ==
    /\ pc = "probe"
    /\ \/ pc' = "push" /\ spent' = 0 /\ UNCHANGED current
       \/ EndProcess
    /\ UNCHANGED <<registry, todo, elapsed, since, ticker, crashes, stored, history>>

\* Mutant: a push error ends the tick.
PushDoneOrReturn ==
    /\ pc = "push"
    /\ \/ /\ stored' = [stored EXCEPT ![current] = @ \cup {tenantOf[current]}]
          /\ UNCHANGED todo
       \/ todo' = {} /\ UNCHANGED stored
    /\ EndProcess
    /\ UNCHANGED <<registry, elapsed, since, ticker, crashes, history>>

\* Mutant: the header is set once per tick, for some check's tenant.
PushToSomeTenant ==
    /\ pc = "push"
    /\ \E t \in {tenantOf[c] : c \in live \cup {current}} :
          stored' = [stored EXCEPT ![current] = @ \cup {t}]
    /\ EndProcess
    /\ UNCHANGED <<registry, todo, elapsed, since, ticker, crashes, history>>

\* Mimir may have stored the samples although push reports an error.
PushDone ==
    /\ pc = "push"
    /\ \/ stored' = [stored EXCEPT ![current] = @ \cup {tenantOf[current]}]
       \/ UNCHANGED stored
    /\ EndProcess
    /\ UNCHANGED <<registry, todo, elapsed, since, ticker, crashes, history>>

EndTick ==
    /\ pc = "scan" /\ todo = {}
    /\ pc' = "idle" /\ elapsed' = 0
    /\ UNCHANGED <<registry, todo, current, spent, since, ticker, crashes,
                   stored, history>>

\* The service dies and takes lastProbed with it.
Crash ==
    /\ pc # "down" /\ crashes < Restarts
    /\ crashes' = crashes + 1
    /\ pc' = "down" /\ todo' = {} /\ current' = NoCheck
    /\ elapsed' = 0 /\ spent' = 0 /\ pending' = FALSE
    /\ since' = [c \in Check |-> Never]
    /\ overdue' = [c \in Check |-> 0]
    /\ UNCHANGED <<registry, countdown, stored, gone>>

Restart ==
    /\ pc = "down"
    /\ pc' = "idle" /\ countdown' = SchedulerTick
    /\ UNCHANGED <<registry, todo, current, elapsed, spent, since, pending,
                   crashes, stored, history>>

-----------------------------------------------------------------------------
(* Time. *)

\* The GET and the push are cut off after probeTimeout.
InTime == spent < ProbeTimeout

\* The loop does not dawdle: a tick is taken from the channel at once, and
\* between calls no time passes.
MayPass ==
    \/ pc = "down"
    \/ pc = "idle" /\ ~pending
    \/ pc \in {"probe", "push"} /\ InTime

\* The ticker drops a tick when its channel still holds one.
TickerRuns ==
    IF pc = "down" THEN UNCHANGED ticker
    ELSE IF countdown > 1
      THEN countdown' = countdown - 1 /\ UNCHANGED pending
      ELSE countdown' = SchedulerTick /\ pending' = TRUE

Advance ==
    /\ MayPass
    /\ TickerRuns
    /\ since' = [c \in Check |-> Later(since[c], SinceCap)]
    /\ IF pc \in {"probe", "push"}
         THEN elapsed' = Min({elapsed + 1, TickBound}) /\ spent' = spent + 1
         ELSE UNCHANGED <<elapsed, spent>>
    /\ overdue' = [c \in Check |->
          IF c \in live /\ pc # "down" /\ IsDue(c, 0)
            THEN Min({overdue[c] + 1, OverdueBound + 1}) ELSE overdue[c]]
    /\ gone' = [c \in Check |-> Later(gone[c], TickBound + 1)]
    /\ UNCHANGED <<registry, pc, todo, current, crashes, stored>>

Next ==
    \/ \E c \in Check, t \in Tenant :
          \/ \E i \in RequestedIntervals : CreateCheck(c, t, i)
          \/ DeleteCheck(c, t)
    \/ StartTick
    \/ \E c \in Check : Skip(c) \/ Probe(c)
    \/ ProbeDone \/ PushDone \/ EndTick
    \/ Crash \/ Restart
    \/ Advance

Spec == Init /\ [][Next]_vars

-----------------------------------------------------------------------------
(* Properties *)

Distances(cap) == 0..cap \cup {Never}

\* Every variable ranges over what the schema and the loop allow.
TypeOK ==
    /\ tenantOf \in [Check -> Tenant \cup {NoTenant}]
    /\ interval \in [Check -> Intervals \cup {MinInterval}]
    /\ live \subseteq {c \in Check : tenantOf[c] # NoTenant}
    /\ pc \in {"down", "idle", "scan", "probe", "push"}
    /\ todo \subseteq Check
    /\ current \in IF pc \in {"probe", "push"} THEN Check \ todo ELSE {NoCheck}
    /\ elapsed \in 0..TickBound /\ spent \in 0..ProbeTimeout
    /\ since \in [Check -> Distances(SinceCap)]
    /\ countdown \in 1..SchedulerTick /\ pending \in BOOLEAN
    /\ stored \in [Check -> SUBSET Tenant]

\* However many targets hang, fail or panic, a due check of a running service
\* waits for at most one tick in progress and the other checks of the next,
\* unless a load fails (prober.go:31-33 and 86-89).
NoCheckStarves == \A c \in Check : overdue[c] <= OverdueBound

\* A deleted check is still probed from the list of the tick that loaded it,
\* and never after that tick.
DeletedCheckFades ==
    \A c \in (todo \cup {current}) \ {NoCheck} :
        gone[c] # Never => gone[c] <= TickBound

\* Results are stored under the tenant that registered the check, whatever
\* other tenants' checks share the tick (push, prober.go:241-244).
SamplesStayHome == \A c \in Check : stored[c] \subseteq {tenantOf[c]}
=============================================================================
