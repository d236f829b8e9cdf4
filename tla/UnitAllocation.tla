---------------------------- MODULE UnitAllocation ----------------------------
(***************************************************************************)
(* What the serial inventory promises its callers, with the tables hidden: *)
(* a unit is in nobody's hands, or held by one invoice, and an invoice     *)
(* only ever moves units of its own or units in free stock.                *)
(***************************************************************************)
CONSTANTS
  Units,
  Invoices,
  Nobody     \* not an invoice

VARIABLES
  available,   \* units in free stock
  holder,      \* the invoice a unit is held for, or Nobody
  delivered    \* held units that have left with the customer

vars == <<available, holder, delivered>>

HeldBy(i) == {u \in Units : holder[u] = i}

TypeOK ==
  /\ available \subseteq Units
  /\ holder \in [Units -> Invoices \cup {Nobody}]
  /\ delivered \subseteq Units

Init ==
  /\ available = {}
  /\ holder = [u \in Units |-> Nobody]
  /\ delivered = {}

\* Purchases bring units in; cancelled or deleted ones take free stock out.
Supply(in, out) ==
  /\ in \subseteq HeldBy(Nobody) \ available
  /\ out \subseteq available
  /\ available' = (available \ out) \cup in
  /\ UNCHANGED <<holder, delivered>>

Hold(i, u) ==
  /\ u \in available
  /\ available' = available \ {u}
  /\ holder' = [holder EXCEPT ![u] = i]
  /\ UNCHANGED delivered

Exchange(i, u, next) ==
  /\ u \in HeldBy(i) \ delivered
  /\ next \in available
  /\ available' = (available \ {next}) \cup {u}
  /\ holder' = [holder EXCEPT ![u] = Nobody, ![next] = i]
  /\ UNCHANGED delivered

Release(i, us) ==
  /\ us \subseteq HeldBy(i) \ delivered
  /\ available' = available \cup us
  /\ holder' = [u \in Units |-> IF u \in us THEN Nobody ELSE holder[u]]
  /\ UNCHANGED delivered

Deliver(i) ==
  /\ HeldBy(i) \cap delivered = {}
  /\ delivered' = delivered \cup HeldBy(i)
  /\ UNCHANGED <<available, holder>>

\* A cancelled sale brings back everything it delivered.
Restock(i) ==
  /\ HeldBy(i) \subseteq delivered
  /\ available' = available \cup HeldBy(i)
  /\ holder' = [u \in Units |-> IF holder[u] = i THEN Nobody ELSE holder[u]]
  /\ delivered' = delivered \ HeldBy(i)

Next ==
  \/ \E in \in SUBSET Units, out \in SUBSET Units : Supply(in, out)
  \/ \E i \in Invoices :
       \/ \E u \in Units : Hold(i, u) \/ \E next \in Units : Exchange(i, u, next)
       \/ \E us \in SUBSET Units : Release(i, us)
       \/ Deliver(i)
       \/ Restock(i)

Spec == Init /\ [][Next]_vars
=============================================================================
