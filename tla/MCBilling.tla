------------------------------- MODULE MCBilling -------------------------------
(* A small subscription for TLC: two prices, two requests in flight, and two  *)
(* schedules: when a request creates one, none is attached and the other      *)
(* request knows one at most.                                                 *)
EXTENDS Billing, TLC

Symmetry == Permutations(Workers) \cup Permutations(Schedules) \cup Permutations(Prices)
=============================================================================
