-------------------------- MODULE MCQuantityStock --------------------------
(* One item on two lines of an invoice, on two of a spent or on one of each, *)
(* or one line of two items.                                                *)
EXTENDS QuantityStock, TLC

CONSTANTS a, b, i1, l1, l2, s1, k1, k2

InvoiceOfLine == (l1 :> i1) @@ (l2 :> i1)
SpentOfLine == (k1 :> s1) @@ (k2 :> s1)
InOrder == [x \in {l1, l2, k1, k2} |-> IF x \in {l1, k1} THEN 0 ELSE 1]
Load(its, ls) == [items |-> its, lines |-> ls]
Desks == {Load({a}, {l1, l2}), Load({a}, {k1, k2}), Load({a}, {l1, k1}),
          Load({a, b}, {l1}), Load({a, b}, {k1})}
=============================================================================
