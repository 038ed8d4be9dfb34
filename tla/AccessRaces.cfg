SPECIFICATION Spec
CONSTANTS
    Tenant = {t1, t2}
    User = {u1, u2}
    Cluster = {c1, c2}
    Namespace = {n1}
    Request = {r1, r2, r3}
    c1 = c1
    c2 = c2
    n1 = n1
    NoTenant = NoTenant
    NoCluster = NoCluster
    AllNamespaces = AllNamespaces
    Payloads <- ApiPayloads
SYMMETRY Symmetry
INVARIANTS TypeOK GrantIntegrity NoDuplicateGrants OnlyCommittedSaves
PROPERTIES TenantConfined SaveReplaces ImplementsGrantTable
CHECK_DEADLOCK FALSE
