---------------------------- MODULE MCWorkSchedules ----------------------------
(* Two shifts in a day of four instants, two requests in flight.           *)
EXTENDS WorkSchedules, TLC

CONSTANTS s1, s2, w1, w2

SchedulesSymmetry == Permutations(Shifts) \cup Permutations({w1, w2})
=============================================================================
