--------------------------- MODULE MCQueryGateway ---------------------------
(* Small instances of QueryGateway for TLC. *)
EXTENDS QueryGateway, TLC

CONSTANTS c1, c2, n1, n2, p, q, x, y

MCNsNameOf == n1 :> x @@ n2 :> y

\* Two names, so that grants on two clusters meet; the stores of both tenants
\* hold series under either name.
TwoNames == c1 :> p @@ c2 :> q

TenantSymmetry == Permutations(Tenant)
=============================================================================
