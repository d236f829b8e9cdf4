------------------------ MODULE MCInventoryRequests ------------------------
(* Small instances of InventoryRequests and SerialRequests: one or two       *)
(* requests in flight over at most two units, two lines of an invoice and  *)
(* two of a spent.                                                         *)
EXTENDS SerialRequests

CONSTANTS u1, u2, i1, l1, l2, s1, k1, k2, w1, w2

SameInvoice == (l1 :> i1) @@ (l2 :> i1)
SameSpent == (k1 :> s1) @@ (k2 :> s1)
InOrder == [l \in Lines |-> IF l = l1 THEN 1 ELSE 2]

Load(kinds, n, us, ls, q, ks) ==
  [kinds |-> kinds, crashes |-> n, units |-> us, lines |-> ls, most |-> q, spentLines |-> ks]

Alone(kinds) == (w1 :> kinds) @@ [w \in Workers |-> {}]
Both(kinds) == [w \in Workers |-> kinds]

\* One request at a time over two units: every kind of them, on two lines of an
\* invoice; or on one line, and the process may die once.
Crashless == Load(Alone(AllKinds), 0, {u1, u2}, {l1, l2}, 1, {k1})
Crashing == Load(Alone(AllKinds), 1, {u1, u2}, {l1}, 2, {k1})

\* Two requests at a time about one unit: purchases by serial and their ends.
Purchases == {"buy_serial", "return_serial", "cancel_spent", "delete_spent_line", "delete_spent"}

\* One worker edits the spent; the other edits it as well, returns a serial or
\* cancels it, or else sells what it bought.
Editing(kinds) == (w1 :> {"edit_spent"}) @@ [w \in Workers |-> kinds]
Edits == {"edit_spent", "return_serial", "cancel_spent"}
Sales == {"add_serial", "swap_serial", "drop_serial", "status"}

Clients == {Crashless, Crashing,
            Load(Both(Purchases), 0, {u1}, {l1}, 2, {k1, k2}),
            Load(Editing(Edits), 0, {u1}, {l1}, 2, {k1, k2}),
            Load(Editing(Sales), 0, {u1, u2}, {l1}, 2, {k1})}

Patching == {Load(Both({"patch_invoice", "status"}), 0, {u1}, {l1}, 1, {k1})}
=============================================================================
