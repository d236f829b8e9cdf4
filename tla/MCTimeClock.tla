----------------------------- MODULE MCTimeClock -----------------------------
(* Three signings over two instants, two requests in flight; corrections and     *)
(* kinds of trouble are MaxTrials at most in a behaviour.                      *)
EXTENDS TimeClock, TLC

CONSTANTS s1, s2, s3, w1, w2, MaxTrials

ClockSymmetry == Permutations(Signings) \cup Permutations(Workers)

FewTrials ==
  Len(changes[s1]) + Len(changes[s2]) + Len(changes[s3])
    + Cardinality(habits) + Cardinality(mishaps) <= MaxTrials
=============================================================================
