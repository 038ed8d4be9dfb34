---------------------------- MODULE ProberProofs ----------------------------
(***************************************************************************)
(* Safety of Prober for any checks, intervals, ticker and timeouts, the    *)
(* bound on how long a due check waits included.  IInv accounts for the    *)
(* time of a tick: what has passed since its now, and what its calls may   *)
(* still take, is paid for by the checks it probed or will come to.  A     *)
(* check that misses a tick became due during it, so that it waits for     *)
(* less than the tick, or than the ticker.                                 *)
(***************************************************************************)
EXTENDS Prober, FiniteSetTheorems, TLAPS

USE ProberAssumption

Ticking == pc \in {"scan", "probe", "push"}

Typed == /\ TypeOK
         /\ overdue \in [Check -> Nat]
         /\ gone \in [Check -> Nat \cup {Never}]
         /\ crashes \in Nat

\* The loop knows rows that were inserted, with an interval that was accepted,
\* and only between its ticks is its list empty for sure.
RowsKnown ==
    /\ \A c \in Check :
          /\ tenantOf[c] = NoTenant => c \notin todo \cup {current} /\ gone[c] = Never
          /\ tenantOf[c] # NoTenant => interval[c] \in Intervals
          /\ c \in live => gone[c] = Never
    /\ ~Ticking => todo = {}

\* The checks whose turn came in the running tick: markProbed took its now.
ProbedNow == {c \in Check : since[c] # Never /\ since[c] <= elapsed}

\* What the calls under way may still take.
CallsLeft == IF pc = "probe" THEN CallsBound - spent
             ELSE IF pc = "push" THEN ProbeTimeout - spent ELSE 0

CallsOf(S) == Cardinality(S) * CallsBound

\* Each check has its two calls, and a tick takes no longer than they do.
InBudget == Ticking => elapsed + CallsOf(todo) + CallsLeft <= CallsOf(todo \cup ProbedNow)

\* A deleted check that the tick still has was there when the tick began.
GoneRecently ==
    \A c \in (todo \cup {current}) \ {NoCheck} : gone[c] # Never => gone[c] <= elapsed

OverdueIsDue ==
    \A c \in Check : overdue[c] > 0 => c \in live /\ pc # "down" /\ IsDue(c, 0)

\* The channel holds a tick as soon as the running one takes that long.
TickerKeepsUp == Ticking /\ ~pending => elapsed + countdown <= SchedulerTick

\* How long a due check may have waited when a tick starts.
Patience == Max({SchedulerTick, TickBound - Min({MinInterval, CallsBound})})

WaitsIdle ==
    pc = "idle" => \A c \in Check : overdue[c] + (IF pending THEN 0 ELSE countdown) <= Patience

\* The running tick comes to a check that was due at its start; one it came
\* to is due again a shortest interval later; any other was not due when the
\* tick began.
InTurn(c) == c \in todo /\ IsDue(c, elapsed)

WaitsTicking ==
    Ticking => \A c \in Check :
        /\ InTurn(c) => overdue[c] <= Patience + elapsed
        /\ c \in ProbedNow => overdue[c] = 0 \/ overdue[c] + MinInterval <= since[c]
        /\ ~InTurn(c) /\ c \notin ProbedNow => overdue[c] <= elapsed

IInv == /\ Typed /\ RowsKnown
        /\ InBudget /\ GoneRecently
        /\ OverdueIsDue /\ TickerKeepsUp /\ WaitsIdle /\ WaitsTicking
        /\ SamplesStayHome

-----------------------------------------------------------------------------
(* The numbers *)

LEMMA MinPair ==
    ASSUME NEW a \in Int, NEW b \in Int
    PROVE  Min({a, b}) = IF a <= b THEN a ELSE b
<1> DEFINE m == IF a <= b THEN a ELSE b
<1>1. m \in {a, b} /\ \A y \in {a, b} : m <= y
    OBVIOUS
<1>2. \A n \in {a, b} : (\A y \in {a, b} : n <= y) => n = m
    OBVIOUS
<1> QED BY <1>1, <1>2 DEF Min

LEMMA MaxPair ==
    ASSUME NEW a \in Int, NEW b \in Int
    PROVE  Max({a, b}) = IF a >= b THEN a ELSE b
<1> DEFINE m == IF a >= b THEN a ELSE b
<1>1. m \in {a, b} /\ \A y \in {a, b} : m >= y
    OBVIOUS
<1>2. \A n \in {a, b} : (\A y \in {a, b} : n >= y) => n = m
    OBVIOUS
<1> QED BY <1>1, <1>2 DEF Max

LEMMA IntervalsBounded ==
    /\ LongestInterval \in Intervals
    /\ \A i \in Intervals : i \in Nat /\ MinInterval <= i /\ i <= LongestInterval
<1>1. \A i \in Intervals : i \in Nat /\ MinInterval <= i
    BY DEF Intervals
<1>2. PICK longest \in Intervals : \A i \in Intervals : i <= longest
    OBVIOUS
<1>3. \A n \in Intervals : (\A i \in Intervals : n >= i) <=> n = longest
    BY <1>1, <1>2
<1>4. LongestInterval = longest
    BY <1>3 DEF LongestInterval, Max
<1> QED BY <1>1, <1>2, <1>4

LEMMA CallsOfChecks ==
    ASSUME NEW S \in SUBSET Check
    PROVE  /\ CallsOf(S) \in Nat
           /\ \A c \in S : CallsOf(S \ {c}) = CallsOf(S) - CallsBound
<1>1. IsFiniteSet(S) /\ Cardinality(S) \in Nat
    BY FS_Subset, FS_CardinalityType
<1>2. CallsBound \in Nat
    BY DEF CallsBound
<1>3. ASSUME NEW c \in S PROVE CallsOf(S \ {c}) = CallsOf(S) - CallsBound
  <2>1. Cardinality(S \ {c}) = Cardinality(S) - 1
      BY <1>1, FS_RemoveElement
  <2>2. (Cardinality(S) - 1) * CallsBound = Cardinality(S) * CallsBound - CallsBound
      BY <1>1, <1>2
  <2> QED BY <2>1, <2>2 DEF CallsOf
<1>4. Cardinality(S) * CallsBound \in Nat
    BY <1>1, <1>2
<1> QED BY <1>3, <1>4 DEF CallsOf

LEMMA CallsOfFewer ==
    ASSUME NEW S \in SUBSET Check, NEW R \in SUBSET S
    PROVE  CallsOf(R) <= CallsOf(S)
<1>1. IsFiniteSet(S) /\ IsFiniteSet(R) /\ Cardinality(R) <= Cardinality(S)
    BY FS_Subset
<1>2. Cardinality(R) \in Nat /\ Cardinality(S) \in Nat /\ CallsBound \in Nat
    BY <1>1, FS_CardinalityType DEF CallsBound
<1>3. \A m, n \in Nat : m <= n => m * CallsBound <= n * CallsBound
  <2> SUFFICES ASSUME NEW m \in Nat, NEW n \in Nat, m <= n
               PROVE  m * CallsBound <= n * CallsBound
      OBVIOUS
  <2>1. (n - m) * CallsBound >= 0
      BY <1>2
  <2>2. (n - m) * CallsBound = n * CallsBound - m * CallsBound
      BY <1>2
  <2> QED BY <1>2, <2>1, <2>2
<1> QED BY <1>1, <1>2, <1>3 DEF CallsOf

LEMMA TickBounded ==
    /\ TickBound \in Nat /\ TickBound = CallsOf(Check)
    /\ CallsBound \in Nat /\ CallsBound >= 1 /\ CallsBound = 2 * ProbeTimeout
    /\ SinceCap \in Nat /\ SinceCap = LongestInterval + TickBound
<1>1. Cardinality(Check) \in Nat
    BY FS_CardinalityType
<1>2. CallsBound \in Nat /\ CallsBound >= 1 /\ CallsBound = 2 * ProbeTimeout
    BY DEF CallsBound
<1>3. TickBound = CallsOf(Check)
    BY <1>1 DEF TickBound, CallsOf, CallsBound
<1>4. TickBound \in Nat
    BY <1>3, CallsOfChecks
<1>5. LongestInterval \in Nat
    BY IntervalsBounded
<1> QED BY <1>2, <1>3, <1>4, <1>5 DEF SinceCap

LEMMA OthersInBudget ==
    ASSUME NEW S \in SUBSET Check, NEW c \in Check \ S
    PROVE  CallsOf(S) <= TickBound - CallsBound
<1>1. S \in SUBSET (Check \ {c})
    OBVIOUS
<1>2. CallsOf(S) <= CallsOf(Check \ {c})
    BY <1>1, CallsOfFewer
<1>3. CallsOf(Check \ {c}) = TickBound - CallsBound
    BY TickBounded, CallsOfChecks
<1> QED BY <1>2, <1>3

LEMMA PatienceBounds ==
    /\ Patience \in Int /\ Patience >= SchedulerTick
    /\ Patience >= TickBound - MinInterval /\ Patience >= TickBound - CallsBound
    /\ OverdueBound = Patience + TickBound - CallsBound
<1> DEFINE m == Min({MinInterval, CallsBound})
<1>1. m \in Int /\ m <= MinInterval /\ m <= CallsBound
    BY MinPair, TickBounded
<1>2. OverdueBound = Patience + TickBound - CallsBound
    BY DEF OverdueBound, Patience
<1> HIDE DEF m
<1>3. Max({SchedulerTick, TickBound - m}) =
         IF SchedulerTick >= TickBound - m THEN SchedulerTick ELSE TickBound - m
    BY <1>1, MaxPair, TickBounded
<1> QED BY <1>1, <1>2, <1>3, TickBounded DEF Patience, m

\* Checks only ever use part of the budget.
LEMMA TickInBudget ==
    ASSUME IInv
    PROVE  /\ CallsOf(todo) \in Nat /\ CallsOf(todo \cup ProbedNow) \in Nat
           /\ CallsOf(todo \cup ProbedNow) <= TickBound
           /\ CallsLeft \in Nat
           /\ Ticking => elapsed + CallsLeft <= TickBound
<1>1. todo \in SUBSET Check /\ ProbedNow \in SUBSET Check
    BY DEF IInv, Typed, TypeOK, ProbedNow
<1>2. CallsLeft \in Nat
    BY TickBounded DEF CallsLeft, IInv, Typed, TypeOK
<1>3. CallsOf(todo) \in Nat /\ CallsOf(todo \cup ProbedNow) \in Nat
    BY <1>1, CallsOfChecks
<1>4. CallsOf(todo \cup ProbedNow) <= TickBound
    BY <1>1, CallsOfFewer, TickBounded
<1> QED BY <1>2, <1>3, <1>4, TickBounded DEF IInv, InBudget, Typed, TypeOK

-----------------------------------------------------------------------------
(* The registry *)

LEMMA InitIInv == Init => IInv
<1> SUFFICES ASSUME Init PROVE IInv
    OBVIOUS
<1>1. Typed
  <2>1. tenantOf \in [Check -> Tenant \cup {NoTenant}] /\ live \subseteq {}
      BY DEF Init
  <2>2. interval \in [Check -> Intervals \cup {MinInterval}]
      BY DEF Init
  <2>3. pc = "idle" /\ todo \subseteq Check /\ current = NoCheck
      BY DEF Init
  <2>4. /\ elapsed \in 0..TickBound /\ spent \in 0..ProbeTimeout
        /\ countdown \in 1..SchedulerTick /\ pending \in BOOLEAN /\ crashes \in Nat
    <3>1. SchedulerTick \in Nat /\ SchedulerTick >= 1 /\ ProbeTimeout \in Nat
        OBVIOUS
    <3>2. 0 \in 0..TickBound
        BY TickBounded
    <3>3. elapsed \in 0..TickBound /\ crashes \in Nat
        BY <3>2 DEF Init
    <3>4. spent \in 0..ProbeTimeout /\ countdown \in 1..SchedulerTick
        BY <3>1 DEF Init
    <3>5. pending \in BOOLEAN
        BY DEF Init
    <3> QED BY <3>3, <3>4, <3>5
  <2>5. since \in [Check -> Distances(SinceCap)] /\ stored \in [Check -> SUBSET Tenant]
        /\ overdue \in [Check -> Nat] /\ gone \in [Check -> Nat \cup {Never}]
      BY DEF Init, Distances
  <2> QED BY <2>1, <2>2, <2>3, <2>4, <2>5 DEF Typed, TypeOK
<1>2. RowsKnown /\ GoneRecently /\ SamplesStayHome
    BY DEF Init, RowsKnown, GoneRecently, SamplesStayHome
<1>3. ~Ticking
    BY DEF Init, Ticking
<1>4. InBudget /\ TickerKeepsUp /\ WaitsTicking /\ OverdueIsDue
    BY <1>3 DEF InBudget, TickerKeepsUp, WaitsTicking, OverdueIsDue, Init
<1>5. WaitsIdle
    BY PatienceBounds DEF Init, WaitsIdle
<1> QED BY <1>1, <1>2, <1>4, <1>5 DEF IInv

LEMMA Types ==
    ASSUME IInv
    PROVE  /\ tenantOf \in [Check -> Tenant \cup {NoTenant}]
           /\ interval \in [Check -> Nat] /\ \A c \in Check : interval[c] >= 1
           /\ since \in [Check -> Nat \cup {Never}]
           /\ overdue \in [Check -> Nat] /\ gone \in [Check -> Nat \cup {Never}]
           /\ stored \in [Check -> SUBSET Tenant]
           /\ elapsed \in Nat /\ spent \in Nat /\ countdown \in Nat /\ pending \in BOOLEAN
           /\ countdown <= SchedulerTick
           /\ todo \subseteq Check /\ live \subseteq Check
<1>1. \A i \in Intervals \cup {MinInterval} : i \in Nat /\ i >= 1
    BY IntervalsBounded
<1> QED BY <1>1 DEF IInv, Typed, TypeOK, Distances

\* A new row was in nobody's hands.
LEMMA CreateCheckKeepsIInv ==
    ASSUME IInv, NEW c \in Check, NEW t \in Tenant, NEW requested \in RequestedIntervals,
           CreateCheck(c, t, requested)
    PROVE  IInv'
<1> DEFINE i == IF requested = 0 THEN DefaultInterval ELSE requested
<1>1. /\ tenantOf[c] = NoTenant /\ i >= MinInterval
      /\ tenantOf' = [tenantOf EXCEPT ![c] = t] /\ interval' = [interval EXCEPT ![c] = i]
      /\ live' = live \cup {c}
      /\ pc' = pc /\ todo' = todo /\ current' = current /\ elapsed' = elapsed /\ spent' = spent
      /\ since' = since /\ countdown' = countdown /\ pending' = pending /\ crashes' = crashes
      /\ stored' = stored /\ overdue' = overdue /\ gone' = gone
    BY DEF CreateCheck, loop, ticker, history
<1>2. i \in Intervals
    BY <1>1 DEF Intervals
<1> HIDE DEF i
<1>3. c \notin todo \cup {current} /\ c \notin live /\ gone[c] = Never
    BY <1>1 DEF IInv, Typed, TypeOK, RowsKnown
<1>4. /\ tenantOf'[c] = t /\ interval'[c] = i
      /\ \A d \in Check \ {c} : tenantOf'[d] = tenantOf[d] /\ interval'[d] = interval[d]
    BY <1>1, Types DEF IInv, Typed, TypeOK
<1>5. Typed'
    BY <1>1, <1>2, <1>4 DEF IInv, Typed, TypeOK
<1>6. RowsKnown'
    BY <1>1, <1>2, <1>3, <1>4 DEF IInv, RowsKnown, Ticking
<1>7. InBudget' /\ GoneRecently' /\ TickerKeepsUp' /\ WaitsIdle'
    BY <1>1 DEF IInv, InBudget, Ticking, CallsOf, CallsLeft, ProbedNow, GoneRecently,
       TickerKeepsUp, WaitsIdle
<1>8. OverdueIsDue'
    BY <1>1, <1>3, <1>4 DEF IInv, OverdueIsDue, IsDue
<1>9. WaitsTicking'
    BY <1>1, <1>3, <1>4 DEF IInv, WaitsTicking, Ticking, InTurn, IsDue, ProbedNow
<1>10. SamplesStayHome'
  <2>1. NoTenant \notin stored[c] /\ stored[c] \subseteq {NoTenant}
      BY <1>1, Types DEF IInv, SamplesStayHome
  <2> QED BY <2>1, <1>1, <1>4 DEF IInv, SamplesStayHome
<1> QED BY <1>5, <1>6, <1>7, <1>8, <1>9, <1>10 DEF IInv

LEMMA DeleteCheckKeepsIInv ==
    ASSUME IInv, NEW c \in Check, NEW t \in Tenant, DeleteCheck(c, t)
    PROVE  IInv'
<1>1. /\ c \in live /\ live' = live \ {c}
      /\ gone' = [gone EXCEPT ![c] = 0] /\ overdue' = [overdue EXCEPT ![c] = 0]
      /\ pc' = pc /\ todo' = todo /\ current' = current /\ elapsed' = elapsed /\ spent' = spent
      /\ since' = since /\ countdown' = countdown /\ pending' = pending /\ crashes' = crashes
      /\ stored' = stored /\ tenantOf' = tenantOf /\ interval' = interval
    BY DEF DeleteCheck, loop, ticker
<1>2. /\ gone'[c] = 0 /\ overdue'[c] = 0
      /\ \A d \in Check \ {c} : gone'[d] = gone[d] /\ overdue'[d] = overdue[d]
    BY <1>1, Types
<1>3. Typed'
    BY <1>1 DEF IInv, Typed, TypeOK
<1>4. RowsKnown'
    BY <1>1, <1>2 DEF IInv, RowsKnown, Ticking, Typed, TypeOK
<1>5. InBudget' /\ TickerKeepsUp' /\ SamplesStayHome'
    BY <1>1 DEF IInv, InBudget, Ticking, CallsOf, CallsLeft, ProbedNow, TickerKeepsUp,
       SamplesStayHome
<1>6. GoneRecently'
    BY <1>1, <1>2, Types DEF IInv, GoneRecently, Typed, TypeOK
<1>7. OverdueIsDue'
    BY <1>1, <1>2 DEF IInv, OverdueIsDue, IsDue
<1>8. WaitsIdle'
    BY <1>1, <1>2, Types, PatienceBounds DEF IInv, WaitsIdle
<1>9. WaitsTicking'
    BY <1>1, <1>2, Types, PatienceBounds DEF IInv, WaitsTicking, Ticking, InTurn, IsDue, ProbedNow
<1> QED BY <1>3, <1>4, <1>5, <1>6, <1>7, <1>8, <1>9 DEF IInv

-----------------------------------------------------------------------------
(* The loop *)

\* A check that waited when the tick starts is on its list, and due.
LEMMA TickStartsKeepsIInv ==
    ASSUME IInv, StartTick, pc' = "scan"
    PROVE  IInv'
<1>1. /\ pc = "idle" /\ pending = TRUE /\ pending' = FALSE
      /\ todo' = live /\ elapsed' = 0 /\ overdue' = overdue
      /\ tenantOf' = tenantOf /\ interval' = interval /\ live' = live /\ current' = current
      /\ spent' = spent /\ since' = since /\ countdown' = countdown /\ crashes' = crashes
      /\ stored' = stored /\ gone' = gone
    BY Types DEF StartTick, registry
<1>2. Ticking' /\ CallsLeft' = 0
    BY DEF Ticking, CallsLeft
<1>3. Typed'
  <2>1. current' \in {NoCheck} /\ todo' \subseteq Check
      BY <1>1, Types DEF IInv, Typed, TypeOK
  <2>2. elapsed' \in 0..TickBound
      BY <1>1, TickBounded
  <2> QED BY <1>1, <2>1, <2>2 DEF IInv, Typed, TypeOK
<1>4. RowsKnown'
    BY <1>1, <1>2 DEF IInv, RowsKnown, Typed, TypeOK
<1>5. InBudget'
  <2>1. live \in SUBSET Check /\ (live \cup ProbedNow') \in SUBSET Check
      BY <1>1, Types DEF ProbedNow
  <2>2. CallsOf(live) <= CallsOf(live \cup ProbedNow') /\ CallsOf(live) \in Nat
      BY <2>1, CallsOfFewer, CallsOfChecks
  <2> QED BY <1>1, <1>2, <2>2 DEF InBudget, CallsOf
<1>6. GoneRecently'
    BY <1>1 DEF IInv, GoneRecently, RowsKnown, Typed, TypeOK
<1>7. OverdueIsDue' /\ SamplesStayHome' /\ WaitsIdle'
    BY <1>1 DEF IInv, OverdueIsDue, IsDue, SamplesStayHome, WaitsIdle
<1>8. TickerKeepsUp'
    BY <1>1, Types DEF TickerKeepsUp
<1>9. WaitsTicking'
  <2> SUFFICES ASSUME NEW c \in Check
               PROVE  /\ InTurn(c)' => overdue'[c] <= Patience + elapsed'
                      /\ c \in ProbedNow' => overdue'[c] = 0
                      /\ ~InTurn(c)' => overdue'[c] <= elapsed'
      BY DEF WaitsTicking
  <2>1. overdue[c] \in Nat /\ overdue[c] <= Patience
      BY <1>1, Types, PatienceBounds DEF IInv, WaitsIdle
  <2>2. overdue[c] > 0 => c \in live /\ IsDue(c, 0)
      BY DEF IInv, OverdueIsDue
  <2>3. c \in live /\ IsDue(c, 0) => InTurn(c)' /\ c \notin ProbedNow'
      BY <1>1, Types DEF InTurn, IsDue, ProbedNow
  <2> QED BY <1>1, <2>1, <2>2, <2>3, PatienceBounds
<1> QED BY <1>3, <1>4, <1>5, <1>6, <1>7, <1>8, <1>9 DEF IInv

LEMMA LoadFailsKeepsIInv ==
    ASSUME IInv, StartTick, pc' # "scan"
    PROVE  IInv'
<1>1. /\ pc = "idle" /\ pc' = pc /\ pending' = FALSE
      /\ todo' = todo /\ elapsed' = elapsed /\ overdue' = [c \in Check |-> 0]
      /\ tenantOf' = tenantOf /\ interval' = interval /\ live' = live /\ current' = current
      /\ spent' = spent /\ since' = since /\ countdown' = countdown /\ crashes' = crashes
      /\ stored' = stored /\ gone' = gone
    BY DEF StartTick, registry
<1>2. Typed'
    BY <1>1 DEF IInv, Typed, TypeOK
<1>3. RowsKnown' /\ GoneRecently' /\ SamplesStayHome'
    BY <1>1 DEF IInv, RowsKnown, Ticking, GoneRecently, SamplesStayHome
<1>4. InBudget' /\ TickerKeepsUp' /\ WaitsTicking' /\ OverdueIsDue'
    BY <1>1 DEF InBudget, TickerKeepsUp, WaitsTicking, Ticking, OverdueIsDue
<1>5. WaitsIdle'
    BY <1>1, Types, PatienceBounds DEF WaitsIdle
<1> QED BY <1>2, <1>3, <1>4, <1>5 DEF IInv

LEMMA SkipKeepsIInv ==
    ASSUME IInv, NEW c \in Check, Skip(c)
    PROVE  IInv'
<1>1. /\ pc = "scan" /\ c \in todo /\ ~IsDue(c, elapsed) /\ todo' = todo \ {c}
      /\ tenantOf' = tenantOf /\ interval' = interval /\ live' = live /\ pc' = pc
      /\ current' = current /\ elapsed' = elapsed /\ spent' = spent /\ since' = since
      /\ countdown' = countdown /\ pending' = pending /\ crashes' = crashes
      /\ stored' = stored /\ overdue' = overdue /\ gone' = gone
    BY DEF Skip, registry, ticker, history
<1>2. Ticking /\ ProbedNow' = ProbedNow /\ CallsLeft' = CallsLeft
    BY <1>1 DEF Ticking, ProbedNow, CallsLeft
<1>3. Typed'
    BY <1>1 DEF IInv, Typed, TypeOK
<1>4. RowsKnown' /\ GoneRecently'
    BY <1>1 DEF IInv, RowsKnown, Ticking, GoneRecently
<1>5. InBudget'
  <2> DEFINE all == todo \cup ProbedNow
             rest == todo' \cup ProbedNow
  <2>1. todo \in SUBSET Check /\ all \in SUBSET Check /\ c \in all
      BY <1>1, Types DEF ProbedNow
  <2>2. CallsOf(todo') = CallsOf(todo) - CallsBound
      BY <1>1, <2>1, CallsOfChecks DEF CallsOf
  <2>3. rest = all \/ rest = all \ {c}
      BY <1>1
  <2>4. CallsOf(all) \in Nat /\ CallsOf(rest) >= CallsOf(all) - CallsBound
    <3>1. CallsOf(all) \in Nat /\ CallsOf(all \ {c}) = CallsOf(all) - CallsBound
        BY <2>1, CallsOfChecks
    <3>2. CallsOf(rest) = CallsOf(all) \/ CallsOf(rest) = CallsOf(all \ {c})
        BY <2>3
    <3> QED BY <3>1, <3>2, TickBounded
  <2>5. elapsed + CallsOf(todo) + CallsLeft <= CallsOf(all)
      BY <1>2 DEF IInv, InBudget
  <2>6. elapsed + CallsOf(todo') + CallsLeft <= CallsOf(rest)
    <3> HIDE DEF all, rest
    <3>1. CallsOf(todo) \in Nat /\ CallsOf(rest) \in Nat
        BY <2>1, CallsOfChecks, <1>1 DEF all, rest
    <3> QED BY <2>2, <2>4, <2>5, <3>1, Types, TickInBudget, TickBounded
  <2> QED BY <1>1, <1>2, <2>6 DEF InBudget, CallsOf
<1>6. OverdueIsDue' /\ TickerKeepsUp' /\ WaitsIdle' /\ SamplesStayHome'
    BY <1>1 DEF IInv, OverdueIsDue, IsDue, TickerKeepsUp, Ticking, WaitsIdle, SamplesStayHome
<1>7. WaitsTicking'
    BY <1>1, <1>2 DEF IInv, WaitsTicking, InTurn, IsDue
<1> QED BY <1>3, <1>4, <1>5, <1>6, <1>7 DEF IInv

\* The check moves from the list to the ones probed: nothing is spent yet.
LEMMA ProbeKeepsIInv ==
    ASSUME IInv, NEW c \in Check, Probe(c)
    PROVE  IInv'
<1>1. /\ pc = "scan" /\ c \in todo /\ todo' = todo \ {c} /\ current' = c
      /\ since' = [since EXCEPT ![c] = elapsed] /\ pc' = "probe" /\ spent' = 0
      /\ overdue' = [overdue EXCEPT ![c] = 0]
      /\ tenantOf' = tenantOf /\ interval' = interval /\ live' = live /\ elapsed' = elapsed
      /\ countdown' = countdown /\ pending' = pending /\ crashes' = crashes
      /\ stored' = stored /\ gone' = gone
    BY DEF Probe, registry, ticker
<1>2. /\ since'[c] = elapsed /\ overdue'[c] = 0 /\ elapsed # Never
      /\ \A d \in Check \ {c} : since'[d] = since[d] /\ overdue'[d] = overdue[d]
    BY <1>1, Types
<1>3. Ticking /\ Ticking' /\ ProbedNow' = ProbedNow \cup {c}
    BY <1>1, <1>2, Types DEF Ticking, ProbedNow
<1>4. Typed'
  <2>1. current' \in Check \ todo' /\ elapsed \in Distances(SinceCap) /\ spent' \in 0..ProbeTimeout
      BY <1>1, TickBounded, IntervalsBounded DEF IInv, Typed, TypeOK, Distances
  <2> QED BY <1>1, <2>1 DEF IInv, Typed, TypeOK
<1>5. RowsKnown'
    BY <1>1, <1>3 DEF IInv, RowsKnown
<1>6. InBudget'
  <2>1. todo \in SUBSET Check
      BY Types
  <2>2. CallsOf(todo') = CallsOf(todo) - CallsBound /\ CallsOf(todo) \in Nat
      BY <1>1, <2>1, CallsOfChecks DEF CallsOf
  <2>3. (todo' \cup ProbedNow') = (todo \cup ProbedNow)
      BY <1>1, <1>3
  <2>4. CallsLeft = 0 /\ CallsLeft' = CallsBound
      BY <1>1, TickBounded DEF CallsLeft, CallsBound
  <2>5. elapsed + CallsOf(todo) + CallsLeft <= CallsOf(todo \cup ProbedNow)
      BY <1>3 DEF IInv, InBudget
  <2>6. elapsed + CallsOf(todo') + CallsLeft' <= CallsOf(todo \cup ProbedNow)
      BY <2>2, <2>4, <2>5, Types, TickBounded
  <2> QED BY <1>1, <2>3, <2>6 DEF InBudget, CallsOf
<1>7. GoneRecently'
    BY <1>1 DEF IInv, GoneRecently
<1>8. OverdueIsDue'
    BY <1>1, <1>2 DEF IInv, OverdueIsDue, IsDue
<1>9. TickerKeepsUp' /\ WaitsIdle' /\ SamplesStayHome'
    BY <1>1 DEF IInv, TickerKeepsUp, Ticking, WaitsIdle, SamplesStayHome
<1>10. WaitsTicking'
    BY <1>1, <1>2, <1>3 DEF IInv, WaitsTicking, InTurn, IsDue
<1> QED BY <1>4, <1>5, <1>6, <1>7, <1>8, <1>9, <1>10 DEF IInv

LEMMA CallEndsKeepsIInv ==
    ASSUME IInv, ProbeDone \/ PushDone
    PROVE  IInv'
<1>1. /\ pc \in {"probe", "push"}
      /\ \/ pc = "probe" /\ pc' = "push" /\ spent' = 0 /\ current' = current
         \/ pc' = "scan" /\ spent' = 0 /\ current' = NoCheck
      /\ todo' = todo /\ tenantOf' = tenantOf /\ interval' = interval /\ live' = live
      /\ elapsed' = elapsed /\ since' = since /\ countdown' = countdown /\ pending' = pending
      /\ crashes' = crashes /\ overdue' = overdue /\ gone' = gone
    BY DEF ProbeDone, PushDone, EndProcess, registry, ticker, history
<1>2. /\ current \in Check /\ tenantOf[current] \in Tenant
      /\ \/ stored' = stored
         \/ stored' = [stored EXCEPT ![current] = @ \cup {tenantOf[current]}]
  <2>1. current \in Check
      BY <1>1 DEF IInv, Typed, TypeOK
  <2>2. tenantOf[current] \in Tenant
      BY <2>1, Types DEF IInv, RowsKnown
  <2> QED BY <2>1, <2>2 DEF ProbeDone, PushDone
<1>3. Ticking /\ Ticking' /\ ProbedNow' = ProbedNow
    BY <1>1 DEF Ticking, ProbedNow
<1>4. stored' \in [Check -> SUBSET Tenant] /\ SamplesStayHome'
    BY <1>1, <1>2, Types DEF IInv, SamplesStayHome
<1>5. Typed'
  <2>1. spent' \in 0..ProbeTimeout
      BY <1>1
  <2>2. current' \in IF pc' \in {"probe", "push"} THEN Check \ todo' ELSE {NoCheck}
      BY <1>1 DEF IInv, Typed, TypeOK
  <2> QED BY <1>1, <1>4, <2>1, <2>2 DEF IInv, Typed, TypeOK
<1>6. RowsKnown' /\ GoneRecently'
    BY <1>1, <1>3 DEF IInv, RowsKnown, GoneRecently
<1>7. InBudget'
  <2>1. CallsLeft' \in Nat /\ CallsLeft' <= CallsLeft
      BY <1>1, TickBounded DEF CallsLeft, IInv, Typed, TypeOK
  <2>2. CallsOf(todo) \in Nat /\ CallsOf(todo \cup ProbedNow) \in Nat
      BY TickInBudget
  <2>3. elapsed + CallsOf(todo) + CallsLeft <= CallsOf(todo \cup ProbedNow)
      BY <1>3 DEF IInv, InBudget
  <2>4. elapsed + CallsOf(todo) + CallsLeft' <= CallsOf(todo \cup ProbedNow)
      BY <2>1, <2>2, <2>3, Types, TickInBudget
  <2> QED BY <1>1, <1>3, <2>4 DEF InBudget, CallsOf
<1>8. OverdueIsDue' /\ TickerKeepsUp' /\ WaitsIdle'
    BY <1>1, <1>3 DEF IInv, OverdueIsDue, IsDue, TickerKeepsUp, WaitsIdle
<1>9. WaitsTicking'
    BY <1>1, <1>3 DEF IInv, WaitsTicking, InTurn, IsDue
<1> QED BY <1>4, <1>5, <1>6, <1>7, <1>8, <1>9 DEF IInv

\* Whoever missed the tick waited less than it took, or than the ticker.
LEMMA EndTickKeepsIInv ==
    ASSUME IInv, EndTick
    PROVE  IInv'
<1>1. /\ pc = "scan" /\ todo = {} /\ pc' = "idle" /\ elapsed' = 0
      /\ tenantOf' = tenantOf /\ interval' = interval /\ live' = live /\ todo' = todo
      /\ current' = current /\ spent' = spent /\ since' = since /\ countdown' = countdown
      /\ pending' = pending /\ crashes' = crashes /\ stored' = stored
      /\ overdue' = overdue /\ gone' = gone
    BY DEF EndTick, registry, ticker, history
<1>2. Ticking /\ ~Ticking' /\ current = NoCheck
    BY <1>1 DEF Ticking, IInv, Typed, TypeOK
<1>3. Typed'
  <2>1. elapsed' \in 0..TickBound
      BY <1>1, TickBounded
  <2> QED BY <1>1, <1>2, <2>1 DEF IInv, Typed, TypeOK
<1>4. RowsKnown' /\ GoneRecently' /\ SamplesStayHome'
    BY <1>1, <1>2 DEF IInv, RowsKnown, GoneRecently, SamplesStayHome
<1>5. InBudget' /\ TickerKeepsUp' /\ WaitsTicking'
    BY <1>2 DEF InBudget, TickerKeepsUp, WaitsTicking
<1>6. OverdueIsDue'
    BY <1>1 DEF IInv, OverdueIsDue, IsDue
<1>7. WaitsIdle'
  <2> SUFFICES ASSUME NEW c \in Check
               PROVE  overdue[c] + (IF pending THEN 0 ELSE countdown) <= Patience
      BY <1>1 DEF WaitsIdle
  <2>1. overdue[c] \in Nat /\ elapsed \in Nat /\ countdown \in Nat
      BY Types
  <2>2. ~pending => elapsed + countdown <= SchedulerTick
      BY <1>2 DEF IInv, TickerKeepsUp
  <2>3. CASE c \in ProbedNow
    <3>1. overdue[c] = 0 \/ overdue[c] + MinInterval <= elapsed
        BY <1>2, <2>3, Types DEF IInv, WaitsTicking, ProbedNow
    <3>2. elapsed <= TickBound
        BY TickInBudget, <1>2, <2>1, TickBounded
    <3>3. countdown <= SchedulerTick
        BY Types
    <3> QED BY <2>1, <2>2, <3>1, <3>2, <3>3, PatienceBounds, TickBounded
  <2>4. CASE c \notin ProbedNow
    <3>1. overdue[c] <= elapsed
        BY <1>1, <1>2, <2>4 DEF IInv, WaitsTicking, InTurn
    <3>2. elapsed <= CallsOf(ProbedNow) - CallsOf({})
      <4>1. elapsed + CallsOf(todo) + CallsLeft <= CallsOf(todo \cup ProbedNow)
          BY <1>2 DEF IInv, InBudget
      <4>2. (todo \cup ProbedNow) = ProbedNow
          BY <1>1
      <4>3. CallsOf(todo) \in Nat /\ CallsOf(ProbedNow) \in Nat /\ CallsLeft \in Nat
          BY <4>2, TickInBudget
      <4> QED BY <1>1, <2>1, <4>1, <4>2, <4>3
    <3>3. CallsOf({}) \in Nat /\ CallsOf(ProbedNow) \in Nat
          /\ CallsOf(ProbedNow) <= TickBound - CallsBound
        BY <2>4, CallsOfChecks, OthersInBudget DEF ProbedNow
    <3> QED BY <2>1, <2>2, <3>1, <3>2, <3>3, PatienceBounds, TickBounded
  <2> QED BY <2>3, <2>4
<1> QED BY <1>3, <1>4, <1>5, <1>6, <1>7 DEF IInv

LEMMA CrashKeepsIInv ==
    ASSUME IInv, Crash \/ Restart
    PROVE  IInv'
<1>1. /\ pc' \in {"down", "idle"} /\ ~Ticking' /\ todo' = {} /\ current' = NoCheck
      /\ pc' = "idle" => countdown' = SchedulerTick
      /\ overdue' = [c \in Check |-> 0]
      /\ tenantOf' = tenantOf /\ interval' = interval /\ live' = live /\ stored' = stored
      /\ gone' = gone
  <2>1. CASE Crash
      BY <2>1 DEF Crash, registry, Ticking
  <2>2. CASE Restart
    <3>1. overdue = [c \in Check |-> 0]
        BY <2>2, Types DEF Restart, IInv, OverdueIsDue
    <3>2. todo = {} /\ current = NoCheck
        BY <2>2 DEF Restart, IInv, RowsKnown, Ticking, Typed, TypeOK
    <3> QED BY <2>2, <3>1, <3>2 DEF Restart, registry, history, Ticking
  <2> QED BY <2>1, <2>2
<1>2. Typed'
  <2>1. /\ elapsed' \in 0..TickBound /\ spent' \in 0..ProbeTimeout /\ crashes' \in Nat
        /\ countdown' \in 1..SchedulerTick /\ pending' \in BOOLEAN
        /\ since' \in [Check -> Distances(SinceCap)]
    <3>1. CASE Crash
      <4>1. elapsed' = 0 /\ spent' = 0 /\ crashes' = crashes + 1
            /\ countdown' = countdown /\ pending' = FALSE /\ since' = [c \in Check |-> Never]
          BY <3>1 DEF Crash
      <4>2. 0 \in 0..TickBound /\ 0 \in 0..ProbeTimeout /\ crashes \in Nat
          BY TickBounded DEF IInv, Typed
      <4>3. since' \in [Check -> Distances(SinceCap)]
          BY <4>1 DEF Distances
      <4>4. countdown \in 1..SchedulerTick
          BY DEF IInv, Typed, TypeOK
      <4>5. elapsed' \in 0..TickBound /\ spent' \in 0..ProbeTimeout /\ pending' \in BOOLEAN
          BY <4>1, <4>2
      <4>6. crashes' \in Nat /\ countdown' \in 1..SchedulerTick
          BY <4>1, <4>2, <4>4
      <4> QED BY <4>3, <4>5, <4>6
    <3>2. CASE Restart
        BY <3>2 DEF Restart, IInv, Typed, TypeOK
    <3> QED BY <3>1, <3>2
  <2>2. overdue' \in [Check -> Nat]
      BY <1>1
  <2> QED BY <1>1, <2>1, <2>2 DEF IInv, Typed, TypeOK
<1>3. RowsKnown' /\ GoneRecently' /\ SamplesStayHome'
    BY <1>1 DEF IInv, RowsKnown, GoneRecently, SamplesStayHome, Typed, TypeOK
<1>4. InBudget' /\ TickerKeepsUp' /\ WaitsTicking' /\ OverdueIsDue'
    BY <1>1 DEF InBudget, TickerKeepsUp, WaitsTicking, OverdueIsDue
<1>5. WaitsIdle'
    BY <1>1, <1>2, PatienceBounds DEF WaitsIdle, Typed, TypeOK
<1> QED BY <1>2, <1>3, <1>4, <1>5 DEF IInv

-----------------------------------------------------------------------------
(* Time *)

LEMMA LaterDistance ==
    ASSUME NEW d \in Nat \cup {Never}, NEW cap \in Nat
    PROVE  /\ d = Never => Later(d, cap) = Never
           /\ d # Never => Later(d, cap) = IF d + 1 <= cap THEN d + 1 ELSE cap
BY MinPair DEF Later

\* One instant later, what is the same whatever the loop does.
LEMMA AdvanceFacts ==
    ASSUME IInv, Advance
    PROVE  /\ pc' = pc /\ todo' = todo /\ current' = current /\ live' = live
           /\ tenantOf' = tenantOf /\ interval' = interval /\ crashes' = crashes
           /\ stored' = stored
           /\ since' \in [Check -> Distances(SinceCap)]
           /\ gone' \in [Check -> Nat \cup {Never}]
           /\ \A c \in Check :
                 /\ since[c] = Never => since'[c] = Never
                 /\ since[c] # Never =>
                       since'[c] = IF since[c] + 1 <= SinceCap THEN since[c] + 1 ELSE SinceCap
                 /\ gone[c] = Never => gone'[c] = Never
                 /\ gone[c] # Never => gone'[c] # Never /\ gone'[c] <= gone[c] + 1
<1>1. /\ pc' = pc /\ todo' = todo /\ current' = current /\ live' = live
      /\ tenantOf' = tenantOf /\ interval' = interval /\ crashes' = crashes
      /\ stored' = stored
      /\ since' = [c \in Check |-> Later(since[c], SinceCap)]
      /\ gone' = [c \in Check |-> Later(gone[c], TickBound + 1)]
    BY DEF Advance, registry
<1>2. ASSUME NEW c \in Check
      PROVE  /\ since[c] = Never => since'[c] = Never
             /\ since[c] # Never =>
                   since'[c] = IF since[c] + 1 <= SinceCap THEN since[c] + 1 ELSE SinceCap
    BY <1>1, <1>2, Types, TickBounded, LaterDistance
<1>3. ASSUME NEW c \in Check
      PROVE  /\ gone[c] = Never => gone'[c] = Never
             /\ gone[c] # Never =>
                   gone'[c] = IF gone[c] + 1 <= TickBound + 1 THEN gone[c] + 1 ELSE TickBound + 1
  <2>1. TickBound + 1 \in Nat /\ gone[c] \in Nat \cup {Never}
      BY Types, TickBounded
  <2> QED BY <1>1, <2>1, LaterDistance
<1>4. \A c \in Check : since'[c] \in Distances(SinceCap)
    BY <1>2, Types, TickBounded DEF Distances
<1>5. \A c \in Check : gone[c] # Never =>
         gone'[c] \in Nat /\ gone'[c] # Never /\ gone'[c] <= gone[c] + 1
    BY <1>3, Types, TickBounded
<1>6. \A c \in Check : gone'[c] \in Nat \cup {Never}
    BY <1>3, <1>5
<1> QED BY <1>1, <1>2, <1>3, <1>4, <1>5, <1>6

\* What was due stays due, and an interval is no longer than the longest.
LEMMA DueForGood ==
    ASSUME IInv, Advance, NEW c \in Check, tenantOf[c] # NoTenant,
           NEW ago \in Nat, NEW later \in Nat, later <= TickBound,
           \/ ago = 0 /\ later = 0
           \/ later = ago + 1
    PROVE  /\ later = 0 /\ IsDue(c, ago) => IsDue(c, later)'
           /\ later = ago + 1 => (IsDue(c, ago) <=> IsDue(c, later)')
<1>1. /\ interval[c] \in Nat /\ interval'[c] = interval[c] /\ interval[c] <= LongestInterval
      /\ since[c] = Never \/ (since[c] \in Nat /\ since[c] <= SinceCap)
    BY AdvanceFacts, IntervalsBounded
       DEF IInv, RowsKnown, Typed, TypeOK, Distances
<1>2. CASE since[c] = Never
    BY <1>2, AdvanceFacts DEF IsDue
<1>3. CASE since[c] # Never
  <2>1. /\ since[c] \in Nat /\ since[c] <= SinceCap
        /\ since'[c] = IF since[c] + 1 <= SinceCap THEN since[c] + 1 ELSE SinceCap
        /\ since'[c] # Never
      BY <1>1, <1>3, AdvanceFacts, TickBounded
  <2>2. IsDue(c, ago) <=> since[c] - ago >= interval[c]
      BY <1>3 DEF IsDue
  <2>3. IsDue(c, later)' <=> since'[c] - later >= interval[c]
      BY <1>1, <2>1 DEF IsDue
  <2>4. SinceCap = LongestInterval + TickBound /\ LongestInterval \in Nat
        /\ TickBound \in Nat /\ SinceCap \in Nat
      BY TickBounded, IntervalsBounded
  <2> QED BY <1>1, <2>1, <2>2, <2>3, <2>4
<1> QED BY <1>2, <1>3

\* A live, due check of a running service waits for one instant more.
LEMMA AdvanceOverdue ==
    ASSUME IInv, Advance
    PROVE  /\ overdue' \in [Check -> Nat]
           /\ \A c \in Check :
                 \/ overdue'[c] = overdue[c]
                 \/ /\ c \in live /\ pc # "down" /\ IsDue(c, 0)
                    /\ overdue'[c] <= overdue[c] + 1
<1>1. overdue' = [c \in Check |->
          IF c \in live /\ pc # "down" /\ IsDue(c, 0)
            THEN Min({overdue[c] + 1, OverdueBound + 1}) ELSE overdue[c]]
    BY DEF Advance
<1>2. ASSUME NEW c \in Check
      PROVE  /\ Min({overdue[c] + 1, OverdueBound + 1}) \in Nat
             /\ Min({overdue[c] + 1, OverdueBound + 1}) <= overdue[c] + 1
  <2>1. TickBound - CallsBound \in Nat
    <3>1. CallsOf(Check \ {c}) = TickBound - CallsBound /\ CallsOf(Check \ {c}) \in Nat
        BY CallsOfChecks, TickBounded
    <3> QED BY <3>1
  <2>2. OverdueBound + 1 \in Nat
      BY <2>1, PatienceBounds, TickBounded
  <2>3. overdue[c] + 1 \in Nat
      BY Types
  <2> QED BY <2>2, <2>3, MinPair
<1>3. overdue \in [Check -> Nat]
    BY Types
<1> QED BY <1>1, <1>2, <1>3

LEMMA AdvanceKeepsDue ==
    ASSUME IInv, Advance
    PROVE  OverdueIsDue'
<1> SUFFICES ASSUME NEW c \in Check, overdue'[c] > 0
             PROVE  c \in live /\ pc # "down" /\ IsDue(c, 0)'
    BY AdvanceFacts DEF OverdueIsDue
<1>1. c \in live /\ pc # "down" /\ IsDue(c, 0)
    BY AdvanceOverdue, Types DEF IInv, OverdueIsDue
<1>2. tenantOf[c] # NoTenant
    BY <1>1 DEF IInv, Typed, TypeOK
<1>3. 0 \in Nat /\ 0 <= TickBound
    BY TickBounded
<1>4. IsDue(c, 0)'
    BY <1>1, <1>2, <1>3, DueForGood
<1> QED BY <1>1, <1>4

\* The ticker.
LEMMA AdvanceTicker ==
    ASSUME IInv, Advance
    PROVE  /\ countdown' \in 1..SchedulerTick /\ pending' \in BOOLEAN
           /\ pc # "down" /\ ~pending' => ~pending /\ countdown' = countdown - 1
           /\ pc # "down" /\ pending' => pending \/ countdown = 1
<1>1. countdown \in 1..SchedulerTick /\ pending \in BOOLEAN
    BY DEF IInv, Typed, TypeOK
<1>2. TickerRuns
    BY DEF Advance
<1>3. CASE pc = "down"
    BY <1>1, <1>2, <1>3 DEF TickerRuns, ticker
<1>4. CASE pc # "down" /\ countdown > 1
  <2>1. countdown' = countdown - 1 /\ pending' = pending
      BY <1>2, <1>4 DEF TickerRuns
  <2> QED BY <2>1, <1>1, <1>4
<1>5. CASE pc # "down" /\ ~(countdown > 1)
  <2>1. countdown' = SchedulerTick /\ pending' = TRUE
      BY <1>2, <1>5 DEF TickerRuns
  <2>2. countdown = 1 /\ SchedulerTick \in 1..SchedulerTick
      BY <1>1, <1>5
  <2> QED BY <2>1, <2>2
<1> QED BY <1>3, <1>4, <1>5

\* Between ticks: the ticker counts down as a check waits.
LEMMA AdvanceIdleKeepsIInv ==
    ASSUME IInv, Advance, pc \in {"down", "idle"}
    PROVE  IInv'
<1>1. /\ elapsed' = elapsed /\ spent' = spent /\ ~Ticking' /\ ~Ticking /\ todo = {}
      /\ current = NoCheck
    BY AdvanceFacts DEF Advance, Ticking, IInv, RowsKnown, Typed, TypeOK
<1>2. Typed'
    BY <1>1, AdvanceFacts, AdvanceOverdue, AdvanceTicker DEF IInv, Typed, TypeOK
<1>3. RowsKnown' /\ GoneRecently' /\ SamplesStayHome'
    BY <1>1, AdvanceFacts DEF IInv, RowsKnown, GoneRecently, SamplesStayHome, Typed, TypeOK
<1>4. InBudget' /\ TickerKeepsUp' /\ WaitsTicking'
    BY <1>1 DEF InBudget, TickerKeepsUp, WaitsTicking
<1>5. WaitsIdle'
  <2> SUFFICES ASSUME NEW c \in Check, pc = "idle"
               PROVE  overdue'[c] + (IF pending' THEN 0 ELSE countdown') <= Patience
      BY AdvanceFacts DEF WaitsIdle
  <2>1. ~pending /\ overdue[c] + countdown <= Patience
      BY DEF Advance, MayPass, IInv, WaitsIdle
  <2>2. overdue'[c] \in Nat /\ overdue'[c] <= overdue[c] + 1 /\ overdue[c] \in Nat
      BY AdvanceOverdue, Types
  <2>3. countdown \in Nat /\ (~pending' => countdown' = countdown - 1)
        /\ (pending' => countdown = 1)
      BY <2>1, AdvanceTicker, Types
  <2> QED BY <2>1, <2>2, <2>3, PatienceBounds
<1> QED BY <1>2, <1>3, <1>4, <1>5, AdvanceKeepsDue DEF IInv

\* During a call: the tick's budget pays for the instant.
LEMMA AdvanceCallKeepsIInv ==
    ASSUME IInv, Advance, pc \in {"probe", "push"}
    PROVE  IInv'
<1>1. Ticking /\ Ticking' /\ spent < ProbeTimeout /\ spent' = spent + 1
    BY AdvanceFacts DEF Advance, MayPass, InTime, Ticking
<1>2. CallsLeft >= 1 /\ CallsLeft' = CallsLeft - 1
    BY <1>1, AdvanceFacts, Types, TickBounded DEF CallsLeft
<1>3. elapsed' = elapsed + 1 /\ elapsed' <= TickBound
  <2>1. elapsed + 1 <= TickBound /\ elapsed + 1 \in Nat
      BY <1>1, <1>2, TickInBudget, Types, TickBounded
  <2>2. elapsed' = Min({elapsed + 1, TickBound})
      BY DEF Advance
  <2> QED BY <2>1, <2>2, MinPair, TickBounded
<1>4. ASSUME NEW c \in Check
      PROVE  c \in ProbedNow <=> c \in ProbedNow'
  <2>1. since[c] = Never \/ (since[c] \in Nat /\ since[c] <= SinceCap)
      BY TickBounded DEF IInv, Typed, TypeOK, Distances
  <2>2. LongestInterval >= 1 /\ LongestInterval \in Nat
      BY IntervalsBounded
  <2>3. since[c] # Never => since'[c] # Never
      BY <2>1, AdvanceFacts, TickBounded
  <2>4. since[c] # Never => (since[c] <= elapsed <=> since'[c] <= elapsed')
      BY <2>1, <2>2, <1>3, AdvanceFacts, Types, TickBounded
  <2> QED BY <2>3, <2>4, AdvanceFacts DEF ProbedNow
<1>5. ProbedNow' = ProbedNow
    BY <1>4 DEF ProbedNow
<1>6. Typed'
  <2>1. elapsed' \in 0..TickBound /\ spent' \in 0..ProbeTimeout
      BY <1>1, <1>3, Types, TickBounded
  <2> QED BY <2>1, AdvanceFacts, AdvanceOverdue, AdvanceTicker DEF IInv, Typed, TypeOK
<1>7. RowsKnown' /\ SamplesStayHome' /\ WaitsIdle'
    BY <1>1, AdvanceFacts DEF IInv, RowsKnown, SamplesStayHome, WaitsIdle
<1>8. InBudget'
  <2>1. elapsed + CallsOf(todo) + CallsLeft <= CallsOf(todo \cup ProbedNow)
      BY <1>1 DEF IInv, InBudget
  <2>2. elapsed' + CallsOf(todo) + CallsLeft' <= CallsOf(todo \cup ProbedNow)
      BY <1>2, <1>3, <2>1, Types, TickInBudget
  <2> QED BY <1>5, <2>2, AdvanceFacts DEF InBudget, CallsOf
<1>9. GoneRecently'
  <2> SUFFICES ASSUME NEW c \in (todo \cup {current}) \ {NoCheck}, gone'[c] # Never
               PROVE  gone'[c] <= elapsed'
      BY AdvanceFacts DEF GoneRecently
  <2>1. c \in Check
      BY Types DEF IInv, Typed, TypeOK
  <2>2. gone[c] # Never /\ gone[c] \in Nat /\ gone'[c] \in Nat /\ gone'[c] <= gone[c] + 1
      BY <2>1, AdvanceFacts, Types
  <2> QED BY <1>3, <2>2, Types DEF IInv, GoneRecently
<1>10. TickerKeepsUp'
  <2>1. ~pending' => ~pending /\ countdown' = countdown - 1
      BY AdvanceTicker
  <2> QED BY <1>1, <1>3, <2>1, Types DEF IInv, TickerKeepsUp
<1>11. WaitsTicking'
  <2> SUFFICES ASSUME NEW c \in Check
               PROVE  /\ InTurn(c)' => overdue'[c] <= Patience + elapsed'
                      /\ c \in ProbedNow =>
                            overdue'[c] = 0 \/ overdue'[c] + MinInterval <= since'[c]
                      /\ ~InTurn(c)' /\ c \notin ProbedNow => overdue'[c] <= elapsed'
      BY <1>5 DEF WaitsTicking
  <2>1. overdue[c] \in Nat /\ overdue'[c] \in Nat /\ overdue'[c] <= overdue[c] + 1
      BY AdvanceOverdue, Types
  <2>2. InTurn(c)' <=> InTurn(c)
    <3>1. CASE c \notin todo
        BY <3>1, AdvanceFacts DEF InTurn
    <3>2. CASE c \in todo
      <4>1. tenantOf[c] # NoTenant
          BY <3>2 DEF IInv, RowsKnown
      <4>2. elapsed \in Nat /\ elapsed + 1 \in Nat /\ elapsed + 1 <= TickBound
          BY <1>3, Types
      <4>3. PICK now \in Nat : now = elapsed
          BY <4>2
      <4>4. IsDue(c, now) <=> IsDue(c, now + 1)'
          BY <4>1, <4>2, <4>3, DueForGood
      <4>5. InTurn(c) <=> IsDue(c, now)
          BY <3>2, <4>3 DEF InTurn
      <4>6. InTurn(c)' <=> IsDue(c, now + 1)'
          BY <3>2, <4>3, <1>3, AdvanceFacts DEF InTurn, IsDue
      <4> QED BY <4>4, <4>5, <4>6
    <3> QED BY <3>1, <3>2
  <2>3. InTurn(c) => overdue[c] <= Patience + elapsed
      BY <1>1 DEF IInv, WaitsTicking
  <2>4. ~InTurn(c) /\ c \notin ProbedNow => overdue[c] <= elapsed
      BY <1>1 DEF IInv, WaitsTicking
  <2>5. ASSUME c \in ProbedNow
        PROVE  overdue'[c] = 0 \/ overdue'[c] + MinInterval <= since'[c]
    <3>1. overdue[c] = 0 \/ overdue[c] + MinInterval <= since[c]
        BY <2>5, <1>1 DEF IInv, WaitsTicking
    <3>2. since[c] \in Nat /\ since'[c] = since[c] + 1
        BY <2>5, <1>3, IntervalsBounded, AdvanceFacts, Types, TickBounded DEF ProbedNow
    <3>3. CASE overdue'[c] = overdue[c]
        BY <2>1, <3>1, <3>2, <3>3
    <3>4. CASE c \in live /\ IsDue(c, 0)
      <4>1. interval[c] >= MinInterval /\ interval[c] \in Nat
          BY <3>4, IntervalsBounded DEF IInv, RowsKnown, Typed, TypeOK
      <4>2. since[c] >= interval[c]
          BY <2>5, <3>2, <3>4, <4>1 DEF IsDue, ProbedNow
      <4> QED BY <2>1, <3>1, <3>2, <4>1, <4>2
    <3> QED BY <3>3, <3>4, AdvanceOverdue
  <2> QED BY <1>3, <2>1, <2>2, <2>3, <2>4, <2>5, Types, PatienceBounds
<1> QED BY <1>6, <1>7, <1>8, <1>9, <1>10, <1>11, AdvanceKeepsDue DEF IInv

-----------------------------------------------------------------------------
(* The theorems *)

LEMMA NextIInv ==
    ASSUME IInv, [Next]_vars
    PROVE  IInv'
<1>1. CASE UNCHANGED vars
    BY <1>1 DEF vars, IInv, Typed, TypeOK, RowsKnown, Ticking, InBudget, CallsOf, CallsLeft,
       ProbedNow, GoneRecently, OverdueIsDue, IsDue, TickerKeepsUp, WaitsIdle, WaitsTicking,
       InTurn, SamplesStayHome
<1>2. CASE \E c \in Check, t \in Tenant, i \in RequestedIntervals : CreateCheck(c, t, i)
    BY <1>2, CreateCheckKeepsIInv
<1>3. CASE \E c \in Check, t \in Tenant : DeleteCheck(c, t)
    BY <1>3, DeleteCheckKeepsIInv
<1>4. CASE StartTick
    BY <1>4, TickStartsKeepsIInv, LoadFailsKeepsIInv
<1>5. CASE \E c \in Check : Skip(c) \/ Probe(c)
    BY <1>5, SkipKeepsIInv, ProbeKeepsIInv
<1>6. CASE ProbeDone \/ PushDone
    BY <1>6, CallEndsKeepsIInv
<1>7. CASE EndTick
    BY <1>7, EndTickKeepsIInv
<1>8. CASE Crash \/ Restart
    BY <1>8, CrashKeepsIInv
<1>9. CASE Advance
  <2>1. pc \in {"down", "idle", "probe", "push"}
      BY <1>9 DEF Advance, MayPass
  <2> QED BY <1>9, <2>1, AdvanceIdleKeepsIInv, AdvanceCallKeepsIInv
<1> QED BY <1>1, <1>2, <1>3, <1>4, <1>5, <1>6, <1>7, <1>8, <1>9 DEF Next

LEMMA Inductive == Spec => []IInv
<1>1. IInv /\ [Next]_vars => IInv'
    BY NextIInv
<1> QED BY InitIInv, <1>1, PTL DEF Spec

\* Rows, loop and ticker keep their types: no tick takes longer than two
\* calls for each check (tick, processCheck).
THEOREM TypeCorrect == Spec => []TypeOK
<1>1. IInv => TypeOK
    BY DEF IInv, Typed
<1> QED BY <1>1, Inductive, PTL

\* Whatever other checks hang, fail or panic, and however tick and ticker
\* fall, a due check waits for OverdueBound at most.
THEOREM NoneStarves == Spec => []NoCheckStarves
<1>1. ASSUME IInv PROVE NoCheckStarves
  <2> SUFFICES ASSUME NEW c \in Check
               PROVE  overdue[c] <= OverdueBound
      BY DEF NoCheckStarves
  <2>1. /\ overdue[c] \in Nat /\ elapsed \in Nat /\ countdown \in Nat
        /\ Patience \in Int /\ Patience >= 1
      BY <1>1, Types, PatienceBounds
  <2>2. TickBound - CallsBound \in Nat /\ CallsBound \in Nat /\ TickBound \in Nat
    <3>1. CallsOf(Check \ {c}) = TickBound - CallsBound /\ CallsOf(Check \ {c}) \in Nat
        BY CallsOfChecks, TickBounded
    <3> QED BY <3>1, TickBounded
  <2>3. OverdueBound = Patience + (TickBound - CallsBound)
      BY <2>1, <2>2, PatienceBounds
  <2>4. CASE pc = "down"
      BY <1>1, <2>1, <2>2, <2>3, <2>4 DEF IInv, OverdueIsDue
  <2>5. CASE pc = "idle"
      BY <1>1, <2>1, <2>2, <2>3, <2>5 DEF IInv, WaitsIdle
  <2>6. CASE Ticking
    <3>1. elapsed + CallsOf(todo) <= CallsOf(todo \cup ProbedNow)
        BY <1>1, <2>1, <2>6, TickInBudget DEF IInv, InBudget
    <3>2. /\ CallsOf(todo) \in Nat /\ CallsOf(todo \cup ProbedNow) \in Nat
          /\ CallsOf(todo \cup ProbedNow) <= TickBound
        BY <1>1, TickInBudget
    <3>3. CASE InTurn(c)
      <4>1. CallsOf(todo) >= CallsBound
        <5>1. CallsOf(todo \ {c}) = CallsOf(todo) - CallsBound /\ CallsOf(todo \ {c}) \in Nat
            BY <1>1, <3>3, Types, CallsOfChecks DEF InTurn
        <5> QED BY <5>1, <3>2, <2>2
      <4>2. overdue[c] <= Patience + elapsed
          BY <1>1, <2>6, <3>3 DEF IInv, WaitsTicking
      <4> QED BY <2>1, <2>2, <2>3, <3>1, <3>2, <4>1, <4>2
    <3>4. CASE c \in ProbedNow
      <4>1. overdue[c] = 0 \/ overdue[c] + MinInterval <= elapsed
          BY <1>1, <2>6, <3>4, Types DEF IInv, WaitsTicking, ProbedNow
      <4> QED BY <2>1, <2>2, <2>3, <3>1, <3>2, <4>1, PatienceBounds
    <3>5. CASE ~InTurn(c) /\ c \notin ProbedNow
      <4>1. overdue[c] <= elapsed
          BY <1>1, <2>6, <3>5 DEF IInv, WaitsTicking
      <4>2. elapsed <= TickBound - CallsBound
        <5>1. CASE c \in todo
          <6>1. CallsOf(todo \ {c}) = CallsOf(todo) - CallsBound /\ CallsOf(todo \ {c}) \in Nat
              BY <1>1, <5>1, Types, CallsOfChecks
          <6> QED BY <6>1, <2>1, <2>2, <3>1, <3>2
        <5>2. CASE c \notin todo
          <6>1. (todo \cup ProbedNow) \in SUBSET Check /\ c \in Check \ (todo \cup ProbedNow)
              BY <1>1, <3>5, <5>2, Types DEF ProbedNow
          <6>2. CallsOf(todo \cup ProbedNow) <= TickBound - CallsBound
              BY <6>1, OthersInBudget
          <6> QED BY <6>2, <2>1, <2>2, <3>1, <3>2
        <5> QED BY <5>1, <5>2
      <4> QED BY <2>1, <2>2, <2>3, <4>1, <4>2
    <3> QED BY <3>3, <3>4, <3>5
  <2> QED BY <1>1, <2>4, <2>5, <2>6 DEF IInv, Typed, TypeOK, Ticking
<1> QED BY <1>1, Inductive, PTL

\* A deleted check is not probed any more once the tick that had it on its
\* list is over, which is a bounded time.
THEOREM DeletedFade == Spec => []DeletedCheckFades
<1>1. ASSUME IInv PROVE DeletedCheckFades
  <2> SUFFICES ASSUME NEW c \in (todo \cup {current}) \ {NoCheck}, gone[c] # Never
               PROVE  gone[c] <= TickBound
      BY DEF DeletedCheckFades
  <2>1. c \in Check
      BY <1>1, Types DEF IInv, Typed, TypeOK
  <2>2. gone[c] \in Nat /\ gone[c] <= elapsed
      BY <1>1, <2>1, Types DEF IInv, GoneRecently
  <2>3. elapsed \in Nat /\ elapsed <= TickBound
      BY <1>1, TickBounded DEF IInv, Typed, TypeOK
  <2> QED BY <2>2, <2>3, TickBounded
<1> QED BY <1>1, Inductive, PTL

\* The samples of a check only ever reach the store of its own tenant.
THEOREM SamplesHome == Spec => []SamplesStayHome
<1>1. IInv => SamplesStayHome
    BY DEF IInv
<1> QED BY <1>1, Inductive, PTL
=============================================================================
