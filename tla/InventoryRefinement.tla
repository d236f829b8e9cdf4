-------------------------- MODULE InventoryRefinement --------------------------
(***************************************************************************)
(* InventoryLedger implements UnitAllocation as long as the clients change *)
(* an invoice's status only through its status route, never reopen it, and *)
(* no issue fails half-way.  The holder of a unit is the invoice, not      *)
(* cancelled, that has a row naming it.                                    *)
(***************************************************************************)
EXTENDS InventoryLedger

CONSTANT Nobody

ASSUME NobodyAssumption == Nobody \notin Invoices

Claims(i, u) == \E r \in rows : r[2] = u /\ InvoiceOf[r[1]] = i /\ invoice[i] # "cancelled"

Holder(u) == IF \E i \in Invoices : Claims(i, u)
             THEN CHOOSE i \in Invoices : Claims(i, u)
             ELSE Nobody

Allocation == INSTANCE UnitAllocation WITH
  available <- {u \in Units : status[u] = "in_stock"},
  holder <- [u \in Units |-> Holder(u)],
  delivered <- {u \in Units : status[u] = "sold"}

\* The serial inventory implements the allocation it promises: invoices never
\* disturb each other's units (InventoryLedgerService as a whole).
ImplementsAllocation == Allocation!Spec
=============================================================================
