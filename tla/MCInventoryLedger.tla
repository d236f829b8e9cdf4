-------------------------- MODULE MCInventoryLedger --------------------------
(* Small instances of InventoryRefinement: two invoices, one with two lines,    *)
(* two units, and one spent with one or two lines.                         *)
EXTENDS InventoryRefinement, TLC

CONSTANTS u1, u2, i1, i2, l1, l2, l3, s1, k1, k2

UnitSymmetry == Permutations(Units)

\* Invoice i1 has two lines, i2 one.
ThreeLines == {l1, l2, l3}
ThreeLinesOf == (l1 :> i1) @@ (l2 :> i1) @@ (l3 :> i2)

\* One spent with two lines, or one with one.
TwoSpentLinesOf == (k1 :> s1) @@ (k2 :> s1)
OneSpentLineOf == (k1 :> s1)
=============================================================================
