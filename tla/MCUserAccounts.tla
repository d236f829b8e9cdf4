---------------------------- MODULE MCUserAccounts ----------------------------
(* Two requests in flight, two e-mails that a PATCH may exchange, and users  *)
(* that may be linked with two enterprises.                                  *)
EXTENDS UserAccounts, TLC

CONSTANTS u1, u2, ana, bea, e1, e2, w1, w2

AccountsSymmetry == Permutations({u1, u2}) \cup Permutations({e1, e2}) \cup Permutations({w1, w2}) \cup Permutations({ana, bea})
=============================================================================
