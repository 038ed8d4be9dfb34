SPECIFICATION Spec
CONSTANTS
    Tenant = {t1, t2}
    User = {u1, u2}
    Admin = {a1}
    a1 = a1
    Ticket = {k1}
    CommentRequest = {r1, r2}
    PatchRequest = {p1, p2}
    DeleteRequest = {d1}
    ReadRequest = {g1}
    Patches <- Triage
    Default <- NewTicket
    Null = Null
    NoTenant = NoTenant
    NoUser = NoUser
    MaxClock = 4
SYMMETRY Symmetry
INVARIANTS TypeOK ThreadsIntact DetailConfined
PROPERTIES CommentBumpsTicket OnlyNamedFieldsChange
CHECK_DEADLOCK FALSE
