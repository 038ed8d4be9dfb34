SPECIFICATION Spec
CONSTANTS
    Tenant = {t1, t2}
    Check = {k1, k2}
    NoTenant = NoTenant
    NoCheck = NoCheck
    Never = Never
    RequestedIntervals = {0, 1, 2}
    DefaultInterval = 4
    MinInterval = 2
    SchedulerTick = 3
    ProbeTimeout = 2
    Restarts = 1
SYMMETRY Symmetry
INVARIANTS TypeOK NoCheckStarves DeletedCheckFades SamplesStayHome
