-------------------------- MODULE MCEnterpriseRoles --------------------------
(* Two enterprises, a resource with the full contract and one that is only  *)
(* read, and two bodies that the rules of the permissions change or refuse. *)
EXTENDS EnterpriseRoles, TLC

CONSTANTS e1, e2, r1, r2, r3, m1, invoices, dashboard, w1, w2

Contract == (invoices :> Actions) @@ (dashboard :> {"read"})
Homes == (r1 :> e1) @@ (r2 :> e1) @@ (r3 :> e2)
Links == (m1 :> e1)

Grants(i, d, all) == (invoices :> i) @@ (dashboard :> d) @@ (Wildcard :> all)
Bodies == {Grants({"write"}, {"read"}, {"delete"}),   \* mutations on both keys, unread
           Grants({}, {"write"}, {})}                 \* refused: not in the contract

WorkerSymmetry == Permutations(Workers)
=============================================================================
