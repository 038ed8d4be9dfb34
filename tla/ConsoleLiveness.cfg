SPECIFICATION ConsoleLive
CONSTANTS
    Row = {r1}
    NoRow = NoRow
    InFlight = 1
    Visits = 1
    Status = {s1}
    Admin = {d1}
    Unassigned = Unassigned
    NoTicket = NoTicket
    Comments = 1
    Pending = 2
    Person = {p1}
    Nobody = Nobody
    Zone = {"a", "b"}
    Name = {"a1", "b1"}
    ZoneOf <- ZoneOfDef
    Full = "full"
    Opens = 1
    Clicks = 1
    Saves = 1
    Rivals = 0
    Cl = {"east", "west"}
    MetricsOn <- MetricsDef
    Changes = 1
    Builtin = {"k8s"}
    Own = {"own"}
    Labels <- LabelsDef
    IncludeAll = {2}
    Flaky = {}
    Edits = 2
PROPERTIES LoadingEnds VariablesSettle
CHECK_DEADLOCK FALSE
