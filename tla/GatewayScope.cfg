SPECIFICATION Spec
CONSTANTS
    Tenant = {t1, t2}
    User = {a, u}
    Admin = {a}
    Cluster = {c1, c2}
    ClusterName = {p, q}
    NameOf <- TwoNames
    Namespace = {n1, n2}
    NsName = {x, y}
    NsNameOf <- MCNsNameOf
    Query = {q1}
    c1 = c1
    c2 = c2
    n1 = n1
    n2 = n2
    p = p
    q = q
    x = x
    y = y
    NoTenant = NoTenant
    NoCluster = NoCluster
    AllNamespaces = AllNamespaces
    NoSelection = NoSelection
SYMMETRY TenantSymmetry
INVARIANTS TypeOK SelectedIsExact OnlyHeldClusters NothingHeldIsHidden PickerMatchesGateway
PROPERTIES DeletedUserRefused
CHECK_DEADLOCK FALSE
