--------------------------- MODULE SerialRequests ---------------------------
(***************************************************************************)
(* Requests served one after the other: what InventoryLedger calls one     *)
(* action is what a request of InventoryRequests does from its first query *)
(* to its last statement.  The history variable shown holds the tables as  *)
(* they were when no request was under way, and shown follows the ledger.  *)
(***************************************************************************)
EXTENDS InventoryRequests

VARIABLE shown

tables == [status |-> status, invoice |-> invoice, lines |-> lines, quantity |-> quantity,
           rows |-> rows, saleNet |-> saleNet, saleMoves |-> saleMoves, spent |-> spent,
           spentLines |-> spentLines, purchaseRows |-> purchaseRows,
           purchaseNet |-> purchaseNet, purchaseMoves |-> purchaseMoves]

\* One worker that nothing cuts short: its requests come one after the other,
\* and so do the handlers that write once.
OneByOne == load.crashes = 0 /\ Cardinality(Serving(AllKinds)) = 1

SerialInit == RequestsInit /\ shown = tables

SerialNext ==
  /\ Serve \/ ((OneByOne => Quiet) /\ Create)
  /\ shown' = IF OneByOne /\ Quiet' THEN tables' ELSE shown

SerialSpec == SerialInit /\ [][SerialNext]_<<requestVars, shown>>

Atomic ==
  INSTANCE InventoryLedger WITH
    status <- shown.status, invoice <- shown.invoice, lines <- shown.lines,
    quantity <- shown.quantity, rows <- shown.rows, saleNet <- shown.saleNet,
    saleMoves <- shown.saleMoves, spent <- shown.spent, spentLines <- shown.spentLines,
    purchaseRows <- shown.purchaseRows, purchaseNet <- shown.purchaseNet,
    purchaseMoves <- shown.purchaseMoves

\* The atomic handlers of InventoryLedger are the handlers of the code: every
\* request, those that fail half-way included, ends in tables that one of its
\* actions produces from the tables the request found.  (The steps of a request
\* do not change shown: asking that first spares TLC most of the work.)
ImplementsLedger == Atomic!Init /\ [][shown' # shown => Atomic!Next]_shown
=============================================================================
