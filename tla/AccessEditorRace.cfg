SPECIFICATION Spec
CONSTANTS
    Tenant = {t1}
    User = {u1}
    Cluster = {c1}
    Namespace = {n1}
    Request = {r1, r2}
    c1 = c1
    c2 = c2
    n1 = n1
    NoTenant = NoTenant
    NoCluster = NoCluster
    AllNamespaces = AllNamespaces
    Payloads <- EditorPayloads
SYMMETRY Symmetry
INVARIANTS EitherFullOrList
CHECK_DEADLOCK FALSE
