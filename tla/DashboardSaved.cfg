SPECIFICATION DashboardsSpec
CONSTANTS
    Builtin = {"k8s"}
    Own = {"own"}
    Labels <- LabelsDef
    IncludeAll = {2}
    Flaky = {}
    Edits = 2
INVARIANT ResolutionNotSaved
CHECK_DEADLOCK FALSE
