SPECIFICATION ConsoleSafety
CONSTANTS
    Row = {r1, r2}
    NoRow = NoRow
    InFlight = 2
    Visits = 2
    Status = {s1, s2}
    Admin = {d1}
    Unassigned = Unassigned
    NoTicket = NoTicket
    Comments = 1
    Pending = 2
    Person = {p1, p2}
    Nobody = Nobody
    Zone = {"a", "b"}
    Name = {"a1", "b1"}
    ZoneOf <- ZoneOfDef
    Full = "full"
    Opens = 2
    Clicks = 2
    Saves = 2
    Rivals = 1
    Cl = {"east", "west"}
    MetricsOn <- MetricsDef
    Changes = 2
    Builtin = {"k8s"}
    Own = {"own"}
    Labels <- LabelsDef
    IncludeAll = {2}
    Flaky = {2}
    Edits = 2
INVARIANTS
    ConsoleTypeOK WaitingIsReal SettledPagesAreTrue DisplayIsCurrent
    UntouchedClustersKeepReach SavedMeansStored MetricIsOffered
    StatusOnItsWay ResolvedChainHolds
PROPERTIES OnlyGesturesWrite
CHECK_DEADLOCK FALSE
