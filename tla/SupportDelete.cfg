SPECIFICATION Spec
CONSTANTS
    Tenant = {t1}
    User = {u1, u2}
    Admin = {a1}
    a1 = a1
    Ticket = {k1}
    CommentRequest = {r1}
    PatchRequest = {}
    DeleteRequest = {d1}
    ReadRequest = {}
    Patches <- NoPatches
    Default <- NewTicket
    Null = Null
    NoTenant = NoTenant
    NoUser = NoUser
    MaxClock = 3
INVARIANTS DeleteNeverRefused
CHECK_DEADLOCK FALSE
