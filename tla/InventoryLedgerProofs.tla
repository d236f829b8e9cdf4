------------------------ MODULE InventoryLedgerProofs ------------------------
(***************************************************************************)
(* Machine-checked theorems about InventoryLedger, for any set of units,   *)
(* invoices, spents and lines, and then about the same handlers statement  *)
(* by statement, for any set of workers: InventoryRequests, first the      *)
(* sales that meet the edit of a spent, then requests of every kind, and   *)
(* last a request of any kind that is alone.  What these proofs carry from *)
(* step to step is defined in InventoryRequestsInvariants.                 *)
(***************************************************************************)
EXTENDS InventoryRefinement, InventoryRequestsInvariants, FiniteSetTheorems, SequenceTheorems, TLAPS

USE ConstantsAssumption DEF ConstantsAssumption, SoldRows, HasSaleMoves,
                            Saleable, Reservable, SpentOpen, SpentExists

(* The rows of a bill are finitely many, so counting them gives a number.    *)
LEMMA CountIsNat ==
  ASSUME TypeOK, NEW out \in SUBSET rows, NEW u \in Units
  PROVE  CountOf(out, u) \in Nat
<1>1. IsFiniteSet(Lines \X Units)
  BY FS_Product
<1>2. {r \in out : r[2] = u} \subseteq Lines \X Units
  BY DEF TypeOK
<1> QED BY <1>1, <1>2, FS_Subset, FS_CardinalityType DEF CountOf

(* Typing: every handler leaves the tables well formed, rows and movements   *)
(* of deleted lines included.                                                *)
LEMMA TypeInit == Init => TypeOK
  BY DEF Init, TypeOK, UnitStatus, InvoiceStatus, SpentStatus, Quantities

LEMMA TypeNext == TypeOK /\ [Next]_vars => TypeOK'
<1> SUFFICES ASSUME TypeOK, [Next]_vars PROVE TypeOK'
  OBVIOUS
<1> USE DEF TypeOK, UnitStatus, InvoiceStatus, SpentStatus, saleVars, purchaseVars
<1>1. ASSUME InvoiceNext PROVE TypeOK'
  <2>1. ASSUME NEW i \in Invoices, NEW st \in InvoiceStatus, CreateInvoice(i, st)
        PROVE  TypeOK'
    BY <2>1 DEF CreateInvoice
  <2>2. ASSUME NEW i \in Invoices, NEW st \in InvoiceStatus, PatchInvoiceStatus(i, st)
        PROVE  TypeOK'
    BY <2>2 DEF PatchInvoiceStatus
  <2>3. ASSUME NEW i \in Invoices, IssueInvoice(i) PROVE TypeOK'
    <3>1. RowsOfInvoice(i) \in SUBSET rows
      BY DEF RowsOfInvoice
    <3> QED BY <2>3, <3>1, CountIsNat DEF IssueInvoice, SellRows
  <2>4. ASSUME NEW i \in Invoices, NEW out \in SUBSET rows, RefuseIssue(i, out)
        PROVE  TypeOK'
    BY <2>4, CountIsNat DEF RefuseIssue, SellRows
  <2>5. ASSUME NEW i \in Invoices, CancelDraftInvoice(i) PROVE TypeOK'
    BY <2>5 DEF CancelDraftInvoice, Released
  <2>6. ASSUME NEW i \in Invoices, CancelIssuedInvoice(i) PROVE TypeOK'
    <3>1. SoldRows(i) \in SUBSET rows
      BY DEF RowsOfInvoice
    <3> QED BY <2>6, <3>1, CountIsNat DEF CancelIssuedInvoice
  <2>7. ASSUME NEW i \in Invoices, ReopenInvoice(i) PROVE TypeOK'
    BY <2>7 DEF ReopenInvoice
  <2>8. ASSUME NEW i \in Invoices, DeleteInvoice(i) PROVE TypeOK'
    <3>1. CASE HasSaleMoves(i)
      BY <2>8, <3>1 DEF DeleteInvoice, Released
    <3>2. CASE ~HasSaleMoves(i)
      <4>1. /\ lines' = lines \ LinesOf(i)
            /\ rows' = {r \in rows : r[1] \notin LinesOf(i)}
            /\ saleMoves' = saleMoves
            /\ quantity' = [l \in Lines |-> IF l \in LinesOf(i) THEN 0 ELSE quantity[l]]
        BY <2>8, <3>2 DEF DeleteInvoice
      <4>2. saleMoves' \subseteq lines' \X Units
        BY <3>2, <4>1 DEF LinesOf
      <4>3. quantity' \in [Lines -> Quantities]
        BY <4>1 DEF Quantities
      <4> QED BY <2>8, <3>2, <4>1, <4>2, <4>3 DEF DeleteInvoice, Released
    <3> QED BY <3>1, <3>2
  <2> QED BY <1>1, <2>1, <2>2, <2>3, <2>4, <2>5, <2>6, <2>7, <2>8 DEF InvoiceNext
<1>2. ASSUME InvoiceLineNext PROVE TypeOK'
  <2>1. ASSUME NEW l \in Lines, NEW q \in Quantities, CreateInvoiceConcept(l, q)
        PROVE  TypeOK'
    BY <2>1 DEF CreateInvoiceConcept
  <2>2. ASSUME NEW l \in Lines, NEW q \in Quantities, UpdateInvoiceConcept(l, q)
        PROVE  TypeOK'
    BY <2>2 DEF UpdateInvoiceConcept
  <2>3. ASSUME NEW l \in Lines, DeleteInvoiceConcept(l) PROVE TypeOK'
    BY <2>3 DEF DeleteInvoiceConcept, Released, Quantities
  <2>4. ASSUME NEW l \in Lines, NEW u \in Units, CreateInvoiceConceptSerial(l, u)
        PROVE  TypeOK'
    BY <2>4 DEF CreateInvoiceConceptSerial
  <2>5. ASSUME NEW l \in Lines, NEW u \in Units, NEW next \in Units,
               UpdateInvoiceConceptSerial(l, u, next)
        PROVE  TypeOK'
    BY <2>5 DEF UpdateInvoiceConceptSerial, Released
  <2>6. ASSUME NEW l \in Lines, NEW u \in Units, DeleteInvoiceConceptSerial(l, u)
        PROVE  TypeOK'
    BY <2>6 DEF DeleteInvoiceConceptSerial, Released
  <2> QED BY <1>2, <2>1, <2>2, <2>3, <2>4, <2>5, <2>6 DEF InvoiceLineNext
<1>3. ASSUME SpentNext PROVE TypeOK'
  <2>1. ASSUME NEW s \in Spents, NEW st \in SpentStatus, NEW ls \in SUBSET SpentLines,
               NEW pairs \in SUBSET (SpentLines \X Units), CreateSpent(s, st, ls, pairs)
        PROVE  TypeOK'
    BY <2>1 DEF CreateSpent, RegisterPairs, IsGraph
  <2>2. ASSUME NEW s \in Spents, NEW ls \in SUBSET SpentLines,
               NEW pairs \in SUBSET (SpentLines \X Units), UpdateSpentGraph(s, ls, pairs)
        PROVE  TypeOK'
    <3>1. spentLines' \subseteq SpentLines /\ purchaseRows' \subseteq spentLines' \X Units
      BY <2>2 DEF UpdateSpentGraph, RegisterPairs, IsGraph, SpentLinesOf
    <3>2. purchaseMoves' \subseteq spentLines' \X Units
      BY <2>2 DEF UpdateSpentGraph, RegisterPairs, IsGraph, SpentLinesOf
    <3>3. status' \in [Units -> UnitStatus] /\ purchaseNet' \in [Units -> Int]
      BY <2>2 DEF UpdateSpentGraph, RegisterPairs
    <3>4. saleMoves' \subseteq lines \X Units /\ saleNet' \in [Units -> Int]
      BY <2>2 DEF UpdateSpentGraph
    <3> QED BY <2>2, <3>1, <3>2, <3>3, <3>4 DEF UpdateSpentGraph
  <2>3. ASSUME NEW s \in Spents, NEW ls \in SUBSET SpentLines,
               UpdateCancelledSpentGraph(s, ls)
        PROVE  TypeOK'
    BY <2>3 DEF UpdateCancelledSpentGraph, RegisterPairs
  <2>4. ASSUME NEW s \in Spents, NEW ls \in SUBSET SpentLines, CancelSpent(s, ls)
        PROVE  TypeOK'
    <3>1. /\ spentLines' \subseteq SpentLines /\ purchaseRows' \subseteq spentLines' \X Units
          /\ purchaseMoves' \subseteq spentLines' \X Units
      BY <2>4 DEF CancelSpent, SpentLinesOf
    <3>2. status' \in [Units -> UnitStatus] /\ purchaseNet' \in [Units -> Int]
      BY <2>4 DEF CancelSpent
    <3> QED BY <2>4, <3>1, <3>2 DEF CancelSpent
  <2>5. ASSUME NEW s \in Spents, RejectSpentCancel(s) PROVE TypeOK'
    BY <2>5 DEF RejectSpentCancel, VoidUnits
  <2>6. ASSUME NEW s \in Spents, NEW fileGone \in BOOLEAN, DeleteSpent(s, fileGone)
        PROVE  TypeOK'
    BY <2>6 DEF DeleteSpent, PurgeAll, PurgeLines
  <2>7. ASSUME NEW s \in Spents, NEW whole \in SUBSET SpentLines, NEW k \in SpentLines,
               NEW freed \in SUBSET Units, NEW b \in Units,
               FailDeleteSpent(s, whole, k, freed, b)
        PROVE  TypeOK'
    BY <2>7 DEF FailDeleteSpent, PurgeUpTo, PurgeLines
  <2> QED BY <1>3, <2>1, <2>2, <2>3, <2>4, <2>5, <2>6, <2>7 DEF SpentNext
<1>4. ASSUME SpentLineNext PROVE TypeOK'
  <2>1. ASSUME NEW k \in SpentLines, CreateSpentConcept(k) PROVE TypeOK'
    BY <2>1 DEF CreateSpentConcept
  <2>2. ASSUME NEW k \in SpentLines, DeleteSpentConcept(k) PROVE TypeOK'
    BY <2>2 DEF DeleteSpentConcept, PurgeAll, PurgeLines
  <2>3. ASSUME NEW k \in SpentLines, NEW freed \in SUBSET Units, NEW b \in Units,
               FailDeleteSpentConcept(k, freed, b)
        PROVE  TypeOK'
    BY <2>3 DEF FailDeleteSpentConcept, PurgeUpTo, PurgeLines
  <2>4. ASSUME NEW k \in SpentLines, NEW u \in Units, CreateSpentConceptSerial(k, u)
        PROVE  TypeOK'
    BY <2>4 DEF CreateSpentConceptSerial, RegisterPairs
  <2>5. ASSUME NEW k \in SpentLines, NEW u \in Units, DeleteSpentConceptSerial(k, u)
        PROVE  TypeOK'
    <3>1. CASE Mutable(u)
      <4>1. status' \in [Units -> UnitStatus]
        BY <2>5, <3>1 DEF DeleteSpentConceptSerial
      <4>2. /\ purchaseMoves' \subseteq spentLines' \X Units
            /\ purchaseNet' \in [Units -> Int]
        BY <2>5, <3>1 DEF DeleteSpentConceptSerial
      <4>3. saleMoves' \subseteq lines' \X Units /\ saleNet' \in [Units -> Int]
        BY <2>5, <3>1 DEF DeleteSpentConceptSerial
      <4>4. purchaseRows' \subseteq spentLines' \X Units
        BY <2>5 DEF DeleteSpentConceptSerial
      <4> QED BY <2>5, <4>1, <4>2, <4>3, <4>4 DEF DeleteSpentConceptSerial
    <3>2. CASE ~Mutable(u)
      BY <2>5, <3>2 DEF DeleteSpentConceptSerial
    <3> QED BY <3>1, <3>2
  <2> QED BY <1>4, <2>1, <2>2, <2>3, <2>4, <2>5 DEF SpentLineNext
<1>5. ASSUME UNCHANGED vars PROVE TypeOK'
  BY <1>5 DEF vars
<1> QED BY <1>1, <1>2, <1>3, <1>4, <1>5 DEF Next

THEOREM TypeCorrect == Spec => []TypeOK
  BY TypeInit, TypeNext, PTL DEF Spec

-----------------------------------------------------------------------------
(* What one side may do to the other: the two lemmas the rest is built on.   *)

(* A purchase handler never touches an allocated unit, never allocates one,  *)
(* and takes sale movements away only from units in nobody's hands.          *)
LEMMA PurchaseSteps ==
  ASSUME TypeOK, SpentNext \/ SpentLineNext
  PROVE  /\ UNCHANGED <<invoice, lines, quantity, rows>>
         /\ saleMoves' \subseteq saleMoves
         /\ \A u \in Units :
              /\ ~Mutable(u) => status'[u] = status[u] /\ saleNet'[u] = saleNet[u]
              /\ Mutable(u) => /\ status'[u] \notin {"reserved", "sold"}
                              /\ saleNet'[u] \in {0, saleNet[u]}
<1> DEFINE Goal ==
         /\ UNCHANGED <<invoice, lines, quantity, rows>>
         /\ saleMoves' \subseteq saleMoves
         /\ \A u \in Units :
              /\ ~Mutable(u) => status'[u] = status[u] /\ saleNet'[u] = saleNet[u]
              /\ Mutable(u) => /\ status'[u] \notin {"reserved", "sold"}
                              /\ saleNet'[u] \in {0, saleNet[u]}
<1> USE DEF TypeOK, saleVars, Mutable, UnitsIn
<1>1. ASSUME NEW s \in Spents, NEW st \in SpentStatus, NEW ls \in SUBSET SpentLines,
             NEW pairs \in SUBSET (SpentLines \X Units), CreateSpent(s, st, ls, pairs)
      PROVE  Goal
  BY <1>1 DEF CreateSpent, RegisterPairs
<1>2. ASSUME NEW s \in Spents, NEW ls \in SUBSET SpentLines,
             NEW pairs \in SUBSET (SpentLines \X Units), UpdateSpentGraph(s, ls, pairs)
      PROVE  Goal
  BY <1>2 DEF UpdateSpentGraph, RegisterPairs
<1>3. ASSUME NEW s \in Spents, NEW ls \in SUBSET SpentLines, UpdateCancelledSpentGraph(s, ls)
      PROVE  Goal
  BY <1>3 DEF UpdateCancelledSpentGraph, RegisterPairs
<1>4. ASSUME NEW s \in Spents, RejectSpentCancel(s) PROVE Goal
  BY <1>4 DEF RejectSpentCancel, VoidUnits
<1>12. ASSUME NEW s \in Spents, NEW ls \in SUBSET SpentLines, CancelSpent(s, ls) PROVE Goal
  BY <1>12 DEF CancelSpent
<1>5. ASSUME NEW s \in Spents, NEW fileGone \in BOOLEAN, DeleteSpent(s, fileGone)
      PROVE  Goal
  BY <1>5 DEF DeleteSpent, PurgeAll, PurgeLines, LineIdle
<1>6. ASSUME NEW s \in Spents, NEW whole \in SUBSET SpentLines, NEW k \in SpentLines,
             NEW freed \in SUBSET Units, NEW b \in Units,
             FailDeleteSpent(s, whole, k, freed, b)
      PROVE  Goal
  BY <1>6 DEF FailDeleteSpent, PurgeUpTo, PurgeLines, LineIdle
<1>7. ASSUME NEW k \in SpentLines, CreateSpentConcept(k) PROVE Goal
  BY <1>7 DEF CreateSpentConcept
<1>8. ASSUME NEW k \in SpentLines, DeleteSpentConcept(k) PROVE Goal
  BY <1>8 DEF DeleteSpentConcept, PurgeAll, PurgeLines, LineIdle
<1>9. ASSUME NEW k \in SpentLines, NEW freed \in SUBSET Units, NEW b \in Units,
             FailDeleteSpentConcept(k, freed, b)
      PROVE  Goal
  BY <1>9 DEF FailDeleteSpentConcept, PurgeUpTo, PurgeLines, LineIdle
<1>10. ASSUME NEW k \in SpentLines, NEW u \in Units, CreateSpentConceptSerial(k, u)
       PROVE  Goal
  BY <1>10 DEF CreateSpentConceptSerial, RegisterPairs
<1>11. ASSUME NEW k \in SpentLines, NEW u \in Units, DeleteSpentConceptSerial(k, u)
       PROVE  Goal
  BY <1>11 DEF DeleteSpentConceptSerial
<1> QED
  BY <1>1, <1>2, <1>3, <1>4, <1>5, <1>6, <1>7, <1>8, <1>9, <1>10, <1>11, <1>12
  DEF SpentNext, SpentLineNext

(* A sale handler leaves the purchase tables alone and moves a unit only     *)
(* between stock, reservation and sale.                                      *)
LEMMA SaleSteps ==
  ASSUME TypeOK, InvoiceNext \/ InvoiceLineNext
  PROVE  /\ UNCHANGED purchaseVars
         /\ \A u \in Units :
              \/ status'[u] = status[u]
              \/ {status[u], status'[u]} \subseteq {"in_stock", "reserved", "sold"}
<1> DEFINE Goal ==
         /\ UNCHANGED purchaseVars
         /\ \A u \in Units :
              \/ status'[u] = status[u]
              \/ {status[u], status'[u]} \subseteq {"in_stock", "reserved", "sold"}
<1> USE DEF TypeOK, UnitsIn, purchaseVars
<1>1. ASSUME NEW i \in Invoices, NEW st \in InvoiceStatus,
             CreateInvoice(i, st) \/ PatchInvoiceStatus(i, st)
      PROVE  Goal
  BY <1>1 DEF CreateInvoice, PatchInvoiceStatus
<1>2. ASSUME NEW i \in Invoices, IssueInvoice(i) PROVE Goal
  BY <1>2 DEF IssueInvoice, SellRows
<1>3. ASSUME NEW i \in Invoices, NEW out \in SUBSET rows, RefuseIssue(i, out) PROVE Goal
  BY <1>3 DEF RefuseIssue, SellRows
<1>4. ASSUME NEW i \in Invoices,
             CancelDraftInvoice(i) \/ CancelIssuedInvoice(i) \/ ReopenInvoice(i)
      PROVE  Goal
  BY <1>4 DEF CancelDraftInvoice, CancelIssuedInvoice, ReopenInvoice, Released, Mutable
<1>5. ASSUME NEW i \in Invoices, DeleteInvoice(i) PROVE Goal
  BY <1>5 DEF DeleteInvoice, Released
<1>6. ASSUME NEW l \in Lines, NEW q \in Quantities,
             CreateInvoiceConcept(l, q) \/ UpdateInvoiceConcept(l, q)
      PROVE  Goal
  BY <1>6 DEF CreateInvoiceConcept, UpdateInvoiceConcept
<1>7. ASSUME NEW l \in Lines, DeleteInvoiceConcept(l) PROVE Goal
  BY <1>7 DEF DeleteInvoiceConcept, Released
<1>8. ASSUME NEW l \in Lines, NEW u \in Units, CreateInvoiceConceptSerial(l, u) PROVE Goal
  BY <1>8 DEF CreateInvoiceConceptSerial
<1>9. ASSUME NEW l \in Lines, NEW u \in Units, NEW next \in Units,
             UpdateInvoiceConceptSerial(l, u, next)
      PROVE  Goal
  BY <1>9 DEF UpdateInvoiceConceptSerial, Released
<1>10. ASSUME NEW l \in Lines, NEW u \in Units, DeleteInvoiceConceptSerial(l, u) PROVE Goal
  BY <1>10 DEF DeleteInvoiceConceptSerial, Released
<1> QED
  BY <1>1, <1>2, <1>3, <1>4, <1>5, <1>6, <1>7, <1>8, <1>9, <1>10
  DEF InvoiceNext, InvoiceLineNext

-----------------------------------------------------------------------------
(* A sold unit comes back only through the cancellation of an issued invoice *)
(* that shows it (reverseInvoiceCancellation): no purchase handler, no       *)
(* release of a draft and no change of a line can return it, on any route.   *)
LEMMA SoldStep == TypeOK /\ [Next]_vars =>
  \A u \in Units :
    status[u] = "sold" /\ status'[u] # "sold" =>
      \E r \in rows : /\ r[2] = u
                      /\ invoice[InvoiceOf[r[1]]] = "issued"
                      /\ invoice'[InvoiceOf[r[1]]] = "cancelled"
<1> SUFFICES ASSUME TypeOK, [Next]_vars, NEW u \in Units,
                    status[u] = "sold", status'[u] # "sold"
             PROVE  \E r \in rows : /\ r[2] = u
                                    /\ invoice[InvoiceOf[r[1]]] = "issued"
                                    /\ invoice'[InvoiceOf[r[1]]] = "cancelled"
  OBVIOUS
<1>1. ~(SpentNext \/ SpentLineNext)
  BY PurchaseSteps DEF Mutable
<1>2. ~InvoiceLineNext
  <2> USE DEF TypeOK
  <2>1. ASSUME NEW l \in Lines, NEW q \in Quantities,
               CreateInvoiceConcept(l, q) \/ UpdateInvoiceConcept(l, q)
        PROVE  FALSE
    BY <2>1 DEF CreateInvoiceConcept, UpdateInvoiceConcept
  <2>2. ASSUME NEW l \in Lines, DeleteInvoiceConcept(l) PROVE FALSE
    BY <2>2 DEF DeleteInvoiceConcept, Released
  <2>3. ASSUME NEW l \in Lines, NEW v \in Units, CreateInvoiceConceptSerial(l, v)
        PROVE  FALSE
    BY <2>3 DEF CreateInvoiceConceptSerial
  <2>4. ASSUME NEW l \in Lines, NEW v \in Units, NEW next \in Units,
               UpdateInvoiceConceptSerial(l, v, next)
        PROVE  FALSE
    BY <2>4 DEF UpdateInvoiceConceptSerial, Released
  <2>5. ASSUME NEW l \in Lines, NEW v \in Units, DeleteInvoiceConceptSerial(l, v)
        PROVE  FALSE
    BY <2>5 DEF DeleteInvoiceConceptSerial, Released
  <2> QED BY <2>1, <2>2, <2>3, <2>4, <2>5 DEF InvoiceLineNext
<1>3. PICK i \in Invoices : CancelIssuedInvoice(i)
  <2> USE DEF TypeOK
  <2>1. ASSUME NEW j \in Invoices, NEW st \in InvoiceStatus,
               CreateInvoice(j, st) \/ PatchInvoiceStatus(j, st)
        PROVE  FALSE
    BY <2>1 DEF CreateInvoice, PatchInvoiceStatus
  <2>2. ASSUME NEW j \in Invoices, NEW out \in SUBSET rows,
               IssueInvoice(j) \/ RefuseIssue(j, out)
        PROVE  FALSE
    BY <2>2 DEF IssueInvoice, RefuseIssue, SellRows
  <2>3. ASSUME NEW j \in Invoices,
               CancelDraftInvoice(j) \/ ReopenInvoice(j) \/ DeleteInvoice(j)
        PROVE  FALSE
    BY <2>3 DEF CancelDraftInvoice, ReopenInvoice, DeleteInvoice, Released
  <2> QED BY <1>1, <1>2, <2>1, <2>2, <2>3 DEF Next, InvoiceNext, vars
<1>4. PICK r \in RowsOfInvoice(i) : r[2] = u
  BY <1>3 DEF CancelIssuedInvoice, UnitsIn, TypeOK
<1> QED BY <1>3, <1>4 DEF CancelIssuedInvoice, RowsOfInvoice, TypeOK

THEOREM SoldUnitsLeaveByCancellation == Spec => SoldLeavesByCancellation
<1>1. TypeOK /\ [Next]_vars =>
        [\A u \in Units :
           status[u] = "sold" /\ status'[u] # "sold" =>
             \E r \in rows : /\ r[2] = u
                             /\ invoice[InvoiceOf[r[1]]] = "issued"
                             /\ invoice'[InvoiceOf[r[1]]] = "cancelled"]_vars
  BY SoldStep
<1> QED BY <1>1, TypeCorrect, PTL DEF Spec, SoldLeavesByCancellation

-----------------------------------------------------------------------------
(* Allocation.  ClaimedUnitsAreHeld and NoUnitOnTwoInvoices need each other: *)
(* a cancellation frees the units of its rows, which is right only if no     *)
(* other live invoice has them.  They also need that a draft has no sale     *)
(* movement, or deleting it would release its units and then fail.           *)
LinesHaveInvoices == \A l \in lines : invoice[InvoiceOf[l]] # "absent"

DraftsHaveNoSales == \A m \in saleMoves : invoice[InvoiceOf[m[1]]] # "draft"

AllocationInv ==
  /\ TypeOK
  /\ LinesHaveInvoices
  /\ DraftsHaveNoSales
  /\ ClaimedUnitsAreHeld
  /\ NoUnitOnTwoInvoices
  /\ SaleKardexMatchesStatus

LEMMA CountNone ==
  ASSUME NEW out, NEW u, ~\E r \in out : r[2] = u
  PROVE  CountOf(out, u) = 0
<1>1. {r \in out : r[2] = u} = {}
  OBVIOUS
<1> QED BY <1>1, FS_EmptySet DEF CountOf

LEMMA CountOne ==
  ASSUME NEW out, NEW u, NEW r \in out, r[2] = u, \A q \in out : q[2] = u => q = r
  PROVE  CountOf(out, u) = 1
<1>1. {q \in out : q[2] = u} = {r}
  OBVIOUS
<1> QED BY <1>1, FS_Singleton DEF CountOf

LEMMA AllocationInit == Init => AllocationInv
<1> SUFFICES ASSUME Init PROVE AllocationInv
  OBVIOUS
<1>1. TypeOK
  BY TypeInit
<1> QED
  BY <1>1 DEF Init, AllocationInv, LinesHaveInvoices, DraftsHaveNoSales,
              ClaimedUnitsAreHeld, NoUnitOnTwoInvoices, SaleKardexMatchesStatus

LEMMA AllocationNext ==
  ASSUME Routes \cap {"reopen", "refused_issue"} = {}
  PROVE  AllocationInv /\ [Next]_vars => AllocationInv'
<1> SUFFICES ASSUME AllocationInv, [Next]_vars PROVE AllocationInv'
  OBVIOUS
<1> USE DEF AllocationInv
<1>0. TypeOK'
  BY TypeNext
<1> DEFINE Goal == /\ LinesHaveInvoices' /\ DraftsHaveNoSales' /\ ClaimedUnitsAreHeld'
                   /\ NoUnitOnTwoInvoices' /\ SaleKardexMatchesStatus'
<1> USE DEF TypeOK, LinesHaveInvoices, DraftsHaveNoSales, ClaimedUnitsAreHeld,
            NoUnitOnTwoInvoices, SaleKardexMatchesStatus, Mutable
<1>1. ASSUME InvoiceNext PROVE Goal
  <2>1. ASSUME NEW i \in Invoices, NEW st \in InvoiceStatus, CreateInvoice(i, st)
        PROVE  Goal
    BY <2>1 DEF CreateInvoice
  <2>2. ASSUME NEW i \in Invoices, NEW st \in InvoiceStatus, PatchInvoiceStatus(i, st)
        PROVE  Goal
    BY <2>2 DEF PatchInvoiceStatus
  <2>3. ASSUME NEW i \in Invoices, IssueInvoice(i) PROVE Goal
    <3>1. RowsOfInvoice(i) \in SUBSET rows
      BY DEF RowsOfInvoice
    <3>2. \A u \in Units : status'[u] = IF u \in UnitsIn(RowsOfInvoice(i)) THEN "sold" ELSE status[u]
      BY <2>3 DEF IssueInvoice, SellRows
    <3>3. \A u \in Units : CountOf(RowsOfInvoice(i), u)
                            = IF u \in UnitsIn(RowsOfInvoice(i)) THEN 1 ELSE 0
      <4> SUFFICES ASSUME NEW u \in Units
                   PROVE  CountOf(RowsOfInvoice(i), u)
                            = IF u \in UnitsIn(RowsOfInvoice(i)) THEN 1 ELSE 0
        OBVIOUS
      <4>1. CASE ~\E r \in RowsOfInvoice(i) : r[2] = u
        BY <4>1, CountNone DEF UnitsIn
      <4>2. ASSUME NEW r \in RowsOfInvoice(i), r[2] = u
            PROVE  CountOf(RowsOfInvoice(i), u) = 1
        <5>1. \A q \in RowsOfInvoice(i) : q[2] = u => q = r
          BY <4>2, <2>3 DEF RowsOfInvoice, IssueInvoice
        <5> QED BY <5>1, <4>2, CountOne
      <4> QED BY <4>1, <4>2 DEF UnitsIn
    <3>4. SaleKardexMatchesStatus'
      BY <2>3, <3>2, <3>3 DEF IssueInvoice, SellRows
    <3>5. /\ invoice' = [invoice EXCEPT ![i] = "issued"] /\ invoice[i] = "draft"
          /\ rows' = rows /\ lines' = lines
          /\ saleMoves' = saleMoves \cup RowsOfInvoice(i)
      BY <2>3 DEF IssueInvoice, SellRows
    <3>6. LinesHaveInvoices' /\ DraftsHaveNoSales'
      BY <3>5 DEF RowsOfInvoice
    <3>7. ClaimedUnitsAreHeld'
      BY <3>2, <3>5 DEF RowsOfInvoice, UnitsIn
    <3>8. NoUnitOnTwoInvoices'
      BY <3>5
    <3> QED BY <3>4, <3>6, <3>7, <3>8
  <2>4. ASSUME NEW i \in Invoices, NEW out \in SUBSET rows, RefuseIssue(i, out)
        PROVE  Goal
    BY <2>4 DEF RefuseIssue
  <2>5. ASSUME NEW i \in Invoices, CancelDraftInvoice(i) PROVE Goal
    BY <2>5 DEF CancelDraftInvoice, Released, RowsOfInvoice, UnitsIn
  <2>6. ASSUME NEW i \in Invoices, CancelIssuedInvoice(i) PROVE Goal
    <3> DEFINE back == SoldRows(i)
    <3>1. back \in SUBSET rows /\ RowsOfInvoice(i) \in SUBSET rows
      BY DEF RowsOfInvoice
    <3>2. /\ invoice' = [invoice EXCEPT ![i] = "cancelled"] /\ invoice[i] = "issued"
          /\ rows' = rows /\ lines' = lines
          /\ saleMoves' = saleMoves \cup back
          /\ saleNet' = [u \in Units |-> saleNet[u] - CountOf(back, u)]
          /\ \A u \in Units : status'[u] =
                IF u \in UnitsIn(RowsOfInvoice(i)) /\ ~Mutable(u)
                THEN "in_stock" ELSE status[u]
      BY <2>6 DEF CancelIssuedInvoice
    <3>3. \A u \in Units : CountOf(back, u)
             = IF u \in UnitsIn(RowsOfInvoice(i)) /\ status[u] = "sold" THEN 1 ELSE 0
      <4> SUFFICES ASSUME NEW u \in Units
                   PROVE  CountOf(back, u) = IF u \in UnitsIn(RowsOfInvoice(i)) /\ status[u] = "sold"
                                             THEN 1 ELSE 0
        OBVIOUS
      <4>1. CASE ~\E r \in back : r[2] = u
        BY <4>1, CountNone DEF UnitsIn
      <4>2. ASSUME NEW r \in back, r[2] = u
            PROVE  CountOf(back, u) = 1
        <5>1. \A q \in back : q[2] = u => q = r
          BY <4>2, <3>1, <3>2 DEF RowsOfInvoice
        <5> HIDE DEF back
        <5> QED BY <5>1, <4>2, CountOne
      <4> QED BY <4>1, <4>2 DEF UnitsIn
    <3>4. SaleKardexMatchesStatus'
      BY <3>2, <3>3
    <3>5. ClaimedUnitsAreHeld'
      BY <3>2 DEF RowsOfInvoice, UnitsIn
    <3>6. LinesHaveInvoices' /\ DraftsHaveNoSales' /\ NoUnitOnTwoInvoices'
      BY <3>2 DEF RowsOfInvoice
    <3> QED BY <3>4, <3>5, <3>6
  <2>7. ASSUME NEW i \in Invoices, ReopenInvoice(i) PROVE Goal
    BY <2>7 DEF ReopenInvoice
  <2>8. ASSUME NEW i \in Invoices, DeleteInvoice(i) PROVE Goal
    <3>1. CASE HasSaleMoves(i)
      BY <2>8, <3>1 DEF DeleteInvoice
    <3>2. CASE ~HasSaleMoves(i)
      <4>1. /\ lines' = lines \ LinesOf(i)
            /\ rows' = {r \in rows : r[1] \notin LinesOf(i)}
            /\ saleMoves' = saleMoves /\ saleNet' = saleNet
            /\ status' = Released(UnitsIn(RowsOfInvoice(i)))
            /\ invoice' = [invoice EXCEPT ![i] = "absent"]
            /\ invoice[i] = "draft"
        BY <2>8, <3>2 DEF DeleteInvoice
      <4>2. \A r \in rows' : r \in rows /\ InvoiceOf[r[1]] # i
        BY <4>1 DEF LinesOf
      <4>3. \A u \in Units :
               \/ status'[u] = status[u]
               \/ /\ status[u] = "reserved" /\ status'[u] = "in_stock"
                  /\ \E r \in rows : r[2] = u /\ InvoiceOf[r[1]] = i
        BY <4>1 DEF Released, UnitsIn, RowsOfInvoice
      <4>4. ClaimedUnitsAreHeld'
        BY <4>1, <4>2, <4>3
      <4>5. NoUnitOnTwoInvoices'
        BY <4>1, <4>2
      <4>6. LinesHaveInvoices' /\ DraftsHaveNoSales' /\ SaleKardexMatchesStatus'
        BY <4>1, <4>3 DEF LinesOf
      <4> QED BY <4>4, <4>5, <4>6
    <3> QED BY <3>1, <3>2
  <2> QED BY <1>1, <2>1, <2>2, <2>3, <2>4, <2>5, <2>6, <2>7, <2>8 DEF InvoiceNext
<1>2. ASSUME InvoiceLineNext PROVE Goal
  <2>1. ASSUME NEW l \in Lines, NEW q \in Quantities,
               CreateInvoiceConcept(l, q) \/ UpdateInvoiceConcept(l, q)
        PROVE  Goal
    BY <2>1 DEF CreateInvoiceConcept, UpdateInvoiceConcept
  <2>2. ASSUME NEW l \in Lines, DeleteInvoiceConcept(l) PROVE Goal
    <3>1. ~\E m \in saleMoves : m[1] = l
      BY <2>2 DEF DeleteInvoiceConcept
    <3>2. /\ status' = Released(UnitsIn(RowsOfLine(l)))
          /\ lines' = lines \ {l} /\ rows' = {r \in rows : r[1] # l}
          /\ UNCHANGED <<invoice, saleNet, saleMoves>>
          /\ invoice[InvoiceOf[l]] = "draft"
      BY <2>2, <3>1 DEF DeleteInvoiceConcept
    <3>3. ClaimedUnitsAreHeld'
      BY <3>2 DEF Released, UnitsIn, RowsOfLine
    <3>4. NoUnitOnTwoInvoices'
      BY <3>2
    <3> QED BY <3>2, <3>3, <3>4 DEF Released
  <2>3. ASSUME NEW l \in Lines, NEW u \in Units, CreateInvoiceConceptSerial(l, u)
        PROVE  Goal
    BY <2>3 DEF CreateInvoiceConceptSerial
  <2>4. ASSUME NEW l \in Lines, NEW u \in Units, NEW next \in Units,
               UpdateInvoiceConceptSerial(l, u, next)
        PROVE  Goal
    <3>1. /\ <<l, u>> \in rows /\ invoice[InvoiceOf[l]] = "draft"
          /\ next # u /\ status[next] = "in_stock"
          /\ status' = [Released({u}) EXCEPT ![next] = "reserved"]
          /\ UNCHANGED <<invoice, lines, saleNet, saleMoves>>
      BY <2>4 DEF UpdateInvoiceConceptSerial
    <3>2. <<l, next>> \notin rows
      BY <3>1
    <3>3. rows' = (rows \ {<<l, u>>}) \cup {<<l, next>>}
      BY <2>4, <3>2 DEF UpdateInvoiceConceptSerial
    <3>4. NoUnitOnTwoInvoices'
      BY <3>1, <3>3
    <3>5. ClaimedUnitsAreHeld'
      BY <3>1, <3>3 DEF Released
    <3> QED BY <3>1, <3>3, <3>4, <3>5 DEF Released
  <2>5. ASSUME NEW l \in Lines, NEW u \in Units, DeleteInvoiceConceptSerial(l, u)
        PROVE  Goal
    <3>1. /\ invoice[InvoiceOf[l]] = "draft" /\ <<l, u>> \in rows
          /\ rows' = rows \ {<<l, u>>} /\ status' = Released({u})
          /\ UNCHANGED <<invoice, lines, saleNet, saleMoves>>
      BY <2>5 DEF DeleteInvoiceConceptSerial
    <3>2. ClaimedUnitsAreHeld'
      BY <3>1 DEF Released
    <3>3. NoUnitOnTwoInvoices'
      BY <3>1
    <3> QED BY <3>1, <3>2, <3>3 DEF Released
  <2> QED BY <1>2, <2>1, <2>2, <2>3, <2>4, <2>5 DEF InvoiceLineNext
<1>3. ASSUME SpentNext \/ SpentLineNext PROVE Goal
  BY <1>3, PurchaseSteps
<1>4. ASSUME UNCHANGED vars PROVE Goal
  BY <1>4 DEF vars
<1> QED BY <1>0, <1>1, <1>2, <1>3, <1>4 DEF Next

(* Without the two routes that end a sale without the stock, a unit on a live *)
(* invoice is held for it, and for it alone.                                 *)
THEOREM UnitsAreHeldForOneInvoice ==
  ASSUME Routes \cap {"reopen", "refused_issue"} = {}
  PROVE  Spec => [](ClaimedUnitsAreHeld /\ NoUnitOnTwoInvoices)
<1>1. AllocationInv => ClaimedUnitsAreHeld /\ NoUnitOnTwoInvoices
  BY DEF AllocationInv
<1> QED BY <1>1, AllocationInit, AllocationNext, PTL DEF Spec

(* Under the same condition the sale half of the kardex agrees with every     *)
(* unit's status (confirmInvoiceConceptIssue, reverseInvoiceConceptCancellation). *)
THEOREM SaleKardexIsExact ==
  ASSUME Routes \cap {"reopen", "refused_issue"} = {}
  PROVE  Spec => []SaleKardexMatchesStatus
<1>1. AllocationInv => SaleKardexMatchesStatus
  BY DEF AllocationInv
<1> QED BY <1>1, AllocationInit, AllocationNext, PTL DEF Spec

-----------------------------------------------------------------------------
(* The status of a unit and the rows that name it.  On the regular routes    *)
(* the two say the same: on top of AllocationInv nothing else is needed,     *)
(* since a handler that moves a unit moves the rows of the one invoice that  *)
(* has it.                                                                   *)
StatusInv ==
  /\ AllocationInv
  /\ SoldMatchesIssuedRows
  /\ ReservedMatchesDraftRows

LEMMA StatusInit == Init => StatusInv
<1> SUFFICES ASSUME Init PROVE StatusInv
  OBVIOUS
<1>1. AllocationInv
  BY AllocationInit
<1> QED BY <1>1 DEF Init, StatusInv, SoldMatchesIssuedRows, ReservedMatchesDraftRows

LEMMA StatusNext ==
  ASSUME Routes \cap {"patch", "reopen", "refused_issue"} = {}
  PROVE  StatusInv /\ [Next]_vars => StatusInv'
<1> SUFFICES ASSUME StatusInv, [Next]_vars PROVE StatusInv'
  OBVIOUS
<1>0. AllocationInv'
  BY AllocationNext DEF StatusInv
<1> DEFINE Goal == SoldMatchesIssuedRows' /\ ReservedMatchesDraftRows'
<1> USE DEF StatusInv, AllocationInv, TypeOK, LinesHaveInvoices, DraftsHaveNoSales,
            ClaimedUnitsAreHeld, NoUnitOnTwoInvoices, SoldMatchesIssuedRows,
            ReservedMatchesDraftRows, Mutable
<1>1. ASSUME InvoiceNext PROVE Goal
  <2>1. ASSUME NEW i \in Invoices, NEW st \in InvoiceStatus, CreateInvoice(i, st)
        PROVE  Goal
    BY <2>1 DEF CreateInvoice
  <2>2. /\ \A i \in Invoices : ~ReopenInvoice(i)
        /\ \A i \in Invoices, st \in InvoiceStatus : ~PatchInvoiceStatus(i, st)
        /\ \A i \in Invoices, out \in SUBSET rows : ~RefuseIssue(i, out)
    BY DEF PatchInvoiceStatus, RefuseIssue, ReopenInvoice
  <2>3. ASSUME NEW i \in Invoices, IssueInvoice(i) PROVE Goal
    <3>1. /\ invoice' = [invoice EXCEPT ![i] = "issued"] /\ invoice[i] = "draft"
          /\ rows' = rows
          /\ \A u \in Units : status'[u] = IF \E r \in rows : r[2] = u /\ InvoiceOf[r[1]] = i
                                           THEN "sold" ELSE status[u]
      BY <2>3 DEF IssueInvoice, SellRows, RowsOfInvoice, UnitsIn
    <3> QED BY <3>1
  <2>4. ASSUME NEW i \in Invoices, CancelDraftInvoice(i) PROVE Goal
    <3>1. /\ invoice' = [invoice EXCEPT ![i] = "cancelled"] /\ invoice[i] = "draft"
          /\ rows' = rows
          /\ \A u \in Units : status'[u] =
               IF (\E r \in rows : r[2] = u /\ InvoiceOf[r[1]] = i) /\ status[u] = "reserved"
               THEN "in_stock" ELSE status[u]
      BY <2>4 DEF CancelDraftInvoice, Released, RowsOfInvoice, UnitsIn
    <3> QED BY <3>1
  <2>5. ASSUME NEW i \in Invoices, CancelIssuedInvoice(i) PROVE Goal
    <3>1. /\ invoice' = [invoice EXCEPT ![i] = "cancelled"] /\ invoice[i] = "issued"
          /\ rows' = rows
          /\ \A u \in Units : status'[u] =
               IF (\E r \in rows : r[2] = u /\ InvoiceOf[r[1]] = i) /\ ~Mutable(u)
               THEN "in_stock" ELSE status[u]
      BY <2>5 DEF CancelIssuedInvoice, RowsOfInvoice, UnitsIn
    <3> QED BY <3>1
  <2>6. ASSUME NEW i \in Invoices, DeleteInvoice(i) PROVE Goal
    <3>1. ~HasSaleMoves(i)
      BY <2>6 DEF DeleteInvoice
    <3>2. /\ rows' = {r \in rows : InvoiceOf[r[1]] # i}
          /\ invoice' = [invoice EXCEPT ![i] = "absent"] /\ invoice[i] = "draft"
          /\ \A u \in Units : status'[u] =
               IF (\E r \in rows : r[2] = u /\ InvoiceOf[r[1]] = i) /\ status[u] = "reserved"
               THEN "in_stock" ELSE status[u]
      BY <2>6, <3>1 DEF DeleteInvoice, Released, RowsOfInvoice, UnitsIn, LinesOf
    <3> QED BY <3>2
  <2> QED BY <1>1, <2>1, <2>2, <2>3, <2>4, <2>5, <2>6 DEF InvoiceNext
<1>2. ASSUME InvoiceLineNext PROVE Goal
  <2>1. ASSUME NEW l \in Lines, NEW q \in Quantities,
               CreateInvoiceConcept(l, q) \/ UpdateInvoiceConcept(l, q)
        PROVE  Goal
    BY <2>1 DEF CreateInvoiceConcept, UpdateInvoiceConcept
  <2>2. ASSUME NEW l \in Lines, DeleteInvoiceConcept(l) PROVE Goal
    <3>1. ~\E m \in saleMoves : m[1] = l
      BY <2>2 DEF DeleteInvoiceConcept
    <3>2. /\ rows' = {r \in rows : r[1] # l}
          /\ invoice' = invoice /\ invoice[InvoiceOf[l]] = "draft"
          /\ \A u \in Units : status'[u] =
               IF (\E r \in rows : r[2] = u /\ r[1] = l) /\ status[u] = "reserved"
               THEN "in_stock" ELSE status[u]
      BY <2>2, <3>1 DEF DeleteInvoiceConcept, Released, RowsOfLine, UnitsIn
    <3> QED BY <3>2
  <2>3. ASSUME NEW l \in Lines, NEW u \in Units, CreateInvoiceConceptSerial(l, u)
        PROVE  Goal
    <3>1. /\ invoice[InvoiceOf[l]] = "draft" /\ invoice' = invoice
          /\ status[u] = "in_stock" /\ rows' = rows \cup {<<l, u>>}
          /\ \A v \in Units : status'[v] = IF v = u THEN "reserved" ELSE status[v]
      BY <2>3 DEF CreateInvoiceConceptSerial
    <3>2. SoldMatchesIssuedRows'
      BY <3>1
    <3>3. ASSUME NEW v \in Units
          PROVE  (status'[v] = "reserved")
                   <=> \E r \in rows' : r[2] = v /\ invoice'[InvoiceOf[r[1]]] = "draft"
      <4>1. CASE v = u
        <5>1. <<l, u>> \in rows' /\ <<l, u>>[1] = l /\ <<l, u>>[2] = u
          BY <3>1
        <5> QED BY <3>1, <4>1, <5>1
      <4>2. CASE v # u
        <5>1. \A r : r[2] = v => (r \in rows' <=> r \in rows)
          BY <3>1, <4>2
        <5> QED BY <3>1, <4>2, <5>1
      <4> QED BY <4>1, <4>2
    <3> QED BY <3>2, <3>3
  <2>4. ASSUME NEW l \in Lines, NEW u \in Units, NEW next \in Units,
               UpdateInvoiceConceptSerial(l, u, next)
        PROVE  Goal
    <3>1. /\ <<l, u>> \in rows /\ invoice[InvoiceOf[l]] = "draft"
          /\ next # u /\ status[next] = "in_stock" /\ invoice' = invoice
          /\ \A v \in Units : status'[v] = IF v = next THEN "reserved"
                                           ELSE IF v = u /\ status[v] = "reserved"
                                                THEN "in_stock" ELSE status[v]
      BY <2>4 DEF UpdateInvoiceConceptSerial, Released
    <3>2. <<l, next>> \notin rows
      BY <3>1
    <3>3. rows' = (rows \ {<<l, u>>}) \cup {<<l, next>>}
      BY <2>4, <3>2 DEF UpdateInvoiceConceptSerial
    <3>4. ASSUME NEW v \in Units
          PROVE  (status'[v] = "sold")
                   <=> \E r \in rows' : r[2] = v /\ invoice'[InvoiceOf[r[1]]] = "issued"
      <4>1. /\ (status'[v] = "sold") <=> status[v] = "sold"
            /\ (status[v] = "sold") <=> \E r \in rows : r[2] = v /\ invoice[InvoiceOf[r[1]]] = "issued"
        BY <3>1
      <4>2. \A r : invoice[InvoiceOf[r[1]]] = "issued" => (r \in rows' <=> r \in rows)
        <5>1. <<l, next>>[1] = l /\ <<l, u>>[1] = l
          OBVIOUS
        <5> QED BY <3>1, <3>3, <5>1
      <4> QED BY <3>1, <4>1, <4>2
    <3>5. ASSUME NEW v \in Units
          PROVE  (status'[v] = "reserved")
                   <=> \E r \in rows' : r[2] = v /\ invoice'[InvoiceOf[r[1]]] = "draft"
      <4>1. CASE v = next
        <5>1. <<l, next>> \in rows' /\ <<l, next>>[1] = l /\ <<l, next>>[2] = next
          BY <3>3
        <5> QED BY <3>1, <4>1, <5>1
      <4>2. CASE v = u
        <5>1. <<l, u>>[1] = l /\ <<l, u>>[2] = u
          OBVIOUS
        <5> QED BY <3>1, <3>3, <4>2, <5>1
      <4>3. CASE v # next /\ v # u
        <5>1. \A r : r[2] = v => (r \in rows' <=> r \in rows)
          BY <3>3, <4>3
        <5> QED BY <3>1, <4>3, <5>1
      <4> QED BY <4>1, <4>2, <4>3
    <3> QED BY <3>4, <3>5
  <2>5. ASSUME NEW l \in Lines, NEW u \in Units, DeleteInvoiceConceptSerial(l, u)
        PROVE  Goal
    <3>1. /\ invoice[InvoiceOf[l]] = "draft" /\ <<l, u>> \in rows /\ invoice' = invoice
          /\ rows' = rows \ {<<l, u>>}
          /\ \A v \in Units : status'[v] = IF v = u /\ status[v] = "reserved"
                                           THEN "in_stock" ELSE status[v]
      BY <2>5 DEF DeleteInvoiceConceptSerial, Released
    <3> QED BY <3>1
  <2> QED BY <1>2, <2>1, <2>2, <2>3, <2>4, <2>5 DEF InvoiceLineNext
<1>3. ASSUME SpentNext \/ SpentLineNext PROVE Goal
  BY <1>3, PurchaseSteps
<1>4. ASSUME UNCHANGED vars PROVE Goal
  BY <1>4 DEF vars
<1> QED BY <1>0, <1>1, <1>2, <1>3, <1>4 DEF Next

(* On the regular routes a unit is SOLD exactly while an issued invoice       *)
(* shows it: no sold unit without an invoice, and none billed twice.          *)
THEOREM SoldMatchesInvoices ==
  ASSUME Routes \cap {"patch", "reopen", "refused_issue"} = {}
  PROVE  Spec => []SoldMatchesIssuedRows
<1>1. StatusInv => SoldMatchesIssuedRows
  BY DEF StatusInv
<1> QED BY <1>1, StatusInit, StatusNext, PTL DEF Spec

(* And it is RESERVED exactly while a draft does: there is no reservation     *)
(* that nobody can release.                                                  *)
THEOREM ReservedMatchesDrafts ==
  ASSUME Routes \cap {"patch", "reopen", "refused_issue"} = {}
  PROVE  Spec => []ReservedMatchesDraftRows
<1>1. StatusInv => ReservedMatchesDraftRows
  BY DEF StatusInv
<1> QED BY <1>1, StatusInit, StatusNext, PTL DEF Spec

-----------------------------------------------------------------------------
(* Serials and quantities.  The count of a line changes only while its       *)
(* invoice is a draft, and the one handler that ends the draft counts every  *)
(* line; that an issue fails half-way or a purchase runs makes no difference. *)
LinesInv ==
  /\ TypeOK
  /\ LinesHaveInvoices
  /\ LinesNameTheirUnits

Counted(l) ==
  /\ Cardinality(RowsOfLine(l)) <= quantity[l]
  /\ invoice[InvoiceOf[l]] = "issued" => Cardinality(RowsOfLine(l)) = quantity[l]

(* The rows of a line are finitely many.                                     *)
LEMMA LineRowsFinite ==
  ASSUME TypeOK, NEW l \in Lines
  PROVE  IsFiniteSet(RowsOfLine(l)) /\ Cardinality(RowsOfLine(l)) \in Nat
<1>1. IsFiniteSet(Lines \X Units)
  BY FS_Product
<1>2. RowsOfLine(l) \subseteq Lines \X Units
  BY DEF TypeOK, RowsOfLine
<1> QED BY <1>1, <1>2, FS_Subset, FS_CardinalityType

(* Taking one row away makes the count one less.                             *)
LEMMA OneRowLess ==
  ASSUME NEW S, NEW x \in S, IsFiniteSet(S)
  PROVE  /\ IsFiniteSet(S \ {x})
         /\ Cardinality(S \ {x}) = Cardinality(S) - 1
  BY FS_RemoveElement

(* A line that a step leaves alone stays counted.                            *)
LEMMA CountedStays ==
  ASSUME NEW l \in Lines, Counted(l), RowsOfLine(l)' = RowsOfLine(l),
         quantity'[l] = quantity[l], invoice'[InvoiceOf[l]] = "issued" =>
                                       invoice[InvoiceOf[l]] = "issued"
  PROVE  Counted(l)'
  BY DEF Counted

LEMMA LinesInit == Init => LinesInv
<1> SUFFICES ASSUME Init PROVE LinesInv
  OBVIOUS
<1>1. TypeOK
  BY TypeInit
<1> QED BY <1>1 DEF Init, LinesInv, LinesHaveInvoices, LinesNameTheirUnits

LEMMA LinesNext ==
  ASSUME Routes \cap {"patch", "reopen"} = {}
  PROVE  LinesInv /\ [Next]_vars => LinesInv'
<1> SUFFICES ASSUME LinesInv, [Next]_vars PROVE LinesInv'
  OBVIOUS
<1> USE DEF LinesInv
<1>0. TypeOK'
  BY TypeNext
<1>1. \A l \in lines : Counted(l) /\ l \in Lines
  BY DEF Counted, LinesNameTheirUnits, TypeOK
<1> DEFINE Goal == LinesHaveInvoices' /\ \A l \in lines' : Counted(l)'
<1>2. ASSUME InvoiceNext PROVE Goal
  <2> USE DEF TypeOK, LinesHaveInvoices
  <2>1. ASSUME NEW i \in Invoices, NEW st \in InvoiceStatus, CreateInvoice(i, st)
        PROVE  Goal
    <3>1. \A l \in lines : InvoiceOf[l] # i /\ invoice'[InvoiceOf[l]] = invoice[InvoiceOf[l]]
      BY <2>1 DEF CreateInvoice
    <3>2. UNCHANGED <<lines, rows, quantity>>
      BY <2>1 DEF CreateInvoice
    <3>3. \A l \in lines : RowsOfLine(l)' = RowsOfLine(l)
      BY <3>2 DEF RowsOfLine
    <3> QED BY <1>1, <3>1, <3>2, <3>3, CountedStays
  <2>2. ASSUME NEW i \in Invoices, NEW st \in InvoiceStatus,
               PatchInvoiceStatus(i, st) \/ ReopenInvoice(i)
        PROVE  Goal
    BY <2>2 DEF PatchInvoiceStatus, ReopenInvoice
  <2>3. ASSUME NEW i \in Invoices, IssueInvoice(i) PROVE Goal
    <3>1. /\ invoice' = [invoice EXCEPT ![i] = "issued"]
          /\ UNCHANGED <<lines, rows, quantity>>
          /\ \A l \in lines : InvoiceOf[l] = i => Cardinality(RowsOfLine(l)) = quantity[l]
      BY <2>3 DEF IssueInvoice, SellRows, LinesOf, Complete
    <3>2. \A l \in lines : RowsOfLine(l)' = RowsOfLine(l)
      BY <3>1 DEF RowsOfLine
    <3>3. ASSUME NEW l \in lines PROVE Counted(l)'
      <4>1. CASE InvoiceOf[l] = i
        BY <1>1, <3>1, <3>2, <4>1 DEF Counted
      <4>2. CASE InvoiceOf[l] # i
        <5>1. invoice'[InvoiceOf[l]] = invoice[InvoiceOf[l]] /\ quantity'[l] = quantity[l]
          BY <3>1, <4>2
        <5> QED BY <1>1, <3>2, <5>1, CountedStays
      <4> QED BY <4>1, <4>2
    <3>4. LinesHaveInvoices'
      BY <3>1
    <3> QED BY <3>1, <3>3, <3>4
  <2>4. ASSUME NEW i \in Invoices, NEW out \in SUBSET rows, RefuseIssue(i, out)
        PROVE  Goal
    <3>1. UNCHANGED <<invoice, lines, rows, quantity>>
      BY <2>4 DEF RefuseIssue
    <3>2. \A l \in lines : RowsOfLine(l)' = RowsOfLine(l)
      BY <3>1 DEF RowsOfLine
    <3> QED BY <1>1, <3>1, <3>2, CountedStays
  <2>5. ASSUME NEW i \in Invoices, CancelDraftInvoice(i) \/ CancelIssuedInvoice(i)
        PROVE  Goal
    <3>1. /\ invoice' = [invoice EXCEPT ![i] = "cancelled"]
          /\ UNCHANGED <<lines, rows, quantity>>
      BY <2>5 DEF CancelDraftInvoice, CancelIssuedInvoice
    <3>2. \A l \in lines : RowsOfLine(l)' = RowsOfLine(l)
      BY <3>1 DEF RowsOfLine
    <3>3. \A l \in lines : invoice'[InvoiceOf[l]] \in {"cancelled", invoice[InvoiceOf[l]]}
      BY <3>1
    <3>4. LinesHaveInvoices'
      BY <3>1, <3>3
    <3> QED BY <1>1, <3>1, <3>2, <3>3, <3>4, CountedStays
  <2>6. ASSUME NEW i \in Invoices, DeleteInvoice(i) PROVE Goal
    <3> DEFINE gone == IF HasSaleMoves(i) THEN {} ELSE LinesOf(i)
    <3>1. /\ lines' = lines \ gone
          /\ quantity' = [l \in Lines |-> IF l \in gone THEN 0 ELSE quantity[l]]
          /\ rows' = {r \in rows : r[1] \notin gone}
          /\ invoice' = IF HasSaleMoves(i) THEN invoice ELSE [invoice EXCEPT ![i] = "absent"]
      BY <2>6 DEF DeleteInvoice
    <3>2. \A l \in lines' : /\ l \in lines /\ l \notin gone
                            /\ invoice'[InvoiceOf[l]] = invoice[InvoiceOf[l]]
      BY <3>1 DEF LinesOf
    <3> HIDE DEF gone
    <3>3. \A l \in lines' : RowsOfLine(l)' = RowsOfLine(l) /\ quantity'[l] = quantity[l]
      BY <3>1, <3>2 DEF RowsOfLine
    <3>4. LinesHaveInvoices'
      BY <3>2
    <3> QED BY <1>1, <3>2, <3>3, <3>4, CountedStays
  <2> QED BY <1>2, <2>1, <2>2, <2>3, <2>4, <2>5, <2>6 DEF InvoiceNext
<1>3. ASSUME InvoiceLineNext PROVE Goal
  <2> USE DEF TypeOK, LinesHaveInvoices
  <2>1. ASSUME NEW l \in Lines, NEW q \in Quantities, CreateInvoiceConcept(l, q)
        PROVE  Goal
    <3>1. /\ lines' = lines \cup {l} /\ l \notin lines
          /\ quantity' = [quantity EXCEPT ![l] = q]
          /\ invoice' = invoice /\ rows' = rows /\ invoice[InvoiceOf[l]] = "draft"
      BY <2>1 DEF CreateInvoiceConcept
    <3>2. \A k \in Lines : RowsOfLine(k)' = RowsOfLine(k)
      BY <3>1 DEF RowsOfLine
    <3>3. RowsOfLine(l) = {}
      BY <3>1 DEF RowsOfLine
    <3>4. Counted(l)'
      <4>1. Cardinality(RowsOfLine(l)') = 0
        BY <3>2, <3>3, FS_EmptySet
      <4>2. quantity'[l] = q /\ q >= 0 /\ invoice'[InvoiceOf[l]] # "issued"
        BY <3>1 DEF Quantities
      <4> QED BY <4>1, <4>2 DEF Counted
    <3>5. \A k \in lines : quantity'[k] = quantity[k]
      BY <3>1
    <3>6. LinesHaveInvoices'
      BY <3>1
    <3> QED BY <1>1, <3>1, <3>2, <3>4, <3>5, <3>6, CountedStays
  <2>2. ASSUME NEW l \in Lines, NEW q \in Quantities, UpdateInvoiceConcept(l, q)
        PROVE  Goal
    <3>1. /\ quantity' = [quantity EXCEPT ![l] = q]
          /\ Cardinality(RowsOfLine(l)) <= q
          /\ UNCHANGED <<invoice, lines, rows>> /\ invoice[InvoiceOf[l]] = "draft"
      BY <2>2 DEF UpdateInvoiceConcept
    <3>2. \A k \in Lines : RowsOfLine(k)' = RowsOfLine(k)
      BY <3>1 DEF RowsOfLine
    <3>3. Counted(l)'
      BY <3>1, <3>2 DEF Counted
    <3>4. \A k \in lines \ {l} : quantity'[k] = quantity[k]
      BY <3>1
    <3> QED BY <1>1, <3>1, <3>2, <3>3, <3>4, CountedStays
  <2>3. ASSUME NEW l \in Lines, DeleteInvoiceConcept(l) PROVE Goal
    <3> DEFINE gone == IF \E m \in saleMoves : m[1] = l THEN {} ELSE {l}
    <3>1. /\ lines' = lines \ gone
          /\ quantity' = [k \in Lines |-> IF k \in gone THEN 0 ELSE quantity[k]]
          /\ rows' = {r \in rows : r[1] \notin gone}
          /\ invoice' = invoice
      BY <2>3 DEF DeleteInvoiceConcept
    <3> HIDE DEF gone
    <3>2. \A k \in lines' : /\ k \in lines /\ RowsOfLine(k)' = RowsOfLine(k)
                            /\ quantity'[k] = quantity[k]
      BY <3>1 DEF RowsOfLine
    <3> QED BY <1>1, <3>1, <3>2, CountedStays
  <2>4. ASSUME NEW l \in Lines, NEW u \in Units, CreateInvoiceConceptSerial(l, u)
        PROVE  Goal
    <3>1. /\ UNCHANGED <<invoice, lines, quantity>> /\ invoice[InvoiceOf[l]] = "draft"
          /\ Cardinality(RowsOfLine(l)) < quantity[l]
          /\ rows' = rows \cup {<<l, u>>}
      BY <2>4 DEF CreateInvoiceConceptSerial
    <3>2. RowsOfLine(l)' = RowsOfLine(l) \cup {<<l, u>>}
      BY <3>1 DEF RowsOfLine
    <3>3. \A k \in lines \ {l} : RowsOfLine(k)' = RowsOfLine(k)
      BY <3>1 DEF RowsOfLine
    <3>4. Counted(l)'
      <4>1. Cardinality(RowsOfLine(l)) \in Nat /\ IsFiniteSet(RowsOfLine(l))
        BY LineRowsFinite
      <4>2. quantity[l] \in Nat
        BY DEF Quantities
      <4>3. Cardinality(RowsOfLine(l)') \in {Cardinality(RowsOfLine(l)),
                                            Cardinality(RowsOfLine(l)) + 1}
        BY <3>2, <4>1, FS_AddElement
      <4>4. Cardinality(RowsOfLine(l)') <= quantity[l]
        BY <3>1, <4>1, <4>2, <4>3
      <4> QED BY <3>1, <4>4 DEF Counted
    <3> QED BY <1>1, <3>1, <3>3, <3>4, CountedStays
  <2>5. ASSUME NEW l \in Lines, NEW u \in Units, NEW next \in Units,
               UpdateInvoiceConceptSerial(l, u, next)
        PROVE  Goal
    <3>1. /\ UNCHANGED <<invoice, lines, quantity>> /\ <<l, u>> \in rows
          /\ rows' = IF <<l, next>> \in rows THEN rows
                     ELSE (rows \ {<<l, u>>}) \cup {<<l, next>>}
      BY <2>5 DEF UpdateInvoiceConceptSerial
    <3>2. CASE <<l, next>> \in rows
      <4>1. \A k \in lines : RowsOfLine(k)' = RowsOfLine(k)
        BY <3>1, <3>2 DEF RowsOfLine
      <4> QED BY <1>1, <3>1, <4>1, CountedStays
    <3>3. CASE <<l, next>> \notin rows
      <4> DEFINE kept == RowsOfLine(l) \ {<<l, u>>}
      <4>1. RowsOfLine(l)' = kept \cup {<<l, next>>} /\ <<l, next>> \notin kept
        BY <3>1, <3>3 DEF RowsOfLine
      <4>2. <<l, u>> \in RowsOfLine(l) /\ IsFiniteSet(RowsOfLine(l))
        BY <3>1, LineRowsFinite DEF RowsOfLine
      <4>3. IsFiniteSet(kept) /\ Cardinality(kept) = Cardinality(RowsOfLine(l)) - 1
        BY <4>2, OneRowLess
      <4> HIDE DEF kept
      <4>4. Cardinality(RowsOfLine(l)') = Cardinality(kept) + 1
        BY <4>1, <4>3, FS_AddElement
      <4>5. Cardinality(RowsOfLine(l)') = Cardinality(RowsOfLine(l))
        BY <4>3, <4>4, LineRowsFinite
      <4>6. l \in lines /\ Counted(l)'
        BY <1>1, <3>1, <4>5 DEF Counted
      <4>7. \A k \in lines \ {l} : RowsOfLine(k)' = RowsOfLine(k)
        BY <3>1 DEF RowsOfLine
      <4> QED BY <1>1, <3>1, <4>6, <4>7, CountedStays
    <3> QED BY <3>2, <3>3
  <2>6. ASSUME NEW l \in Lines, NEW u \in Units, DeleteInvoiceConceptSerial(l, u)
        PROVE  Goal
    <3>1. /\ UNCHANGED <<invoice, lines, quantity>> /\ <<l, u>> \in rows
          /\ invoice[InvoiceOf[l]] = "draft" /\ rows' = rows \ {<<l, u>>}
      BY <2>6 DEF DeleteInvoiceConceptSerial
    <3>2. RowsOfLine(l)' = RowsOfLine(l) \ {<<l, u>>} /\ <<l, u>> \in RowsOfLine(l)
      BY <3>1 DEF RowsOfLine
    <3>3. Cardinality(RowsOfLine(l)') = Cardinality(RowsOfLine(l)) - 1
      <4>1. IsFiniteSet(RowsOfLine(l))
        BY LineRowsFinite
      <4> QED BY <3>2, <4>1, OneRowLess
    <3>4. Counted(l)'
      <4>1. Cardinality(RowsOfLine(l)) \in Nat
        BY LineRowsFinite
      <4>2. quantity[l] \in Nat
        BY DEF Quantities
      <4>3. Cardinality(RowsOfLine(l)) <= quantity[l]
        <5>1. l \in lines
          BY <3>1
        <5> QED BY <1>1, <5>1 DEF Counted
      <4>4. Cardinality(RowsOfLine(l)') <= quantity[l]
        BY <3>3, <4>1, <4>2, <4>3
      <4> QED BY <3>1, <4>4 DEF Counted
    <3>5. \A k \in lines \ {l} : RowsOfLine(k)' = RowsOfLine(k)
      BY <3>1 DEF RowsOfLine
    <3> QED BY <1>1, <3>1, <3>4, <3>5, CountedStays
  <2> QED BY <1>3, <2>1, <2>2, <2>3, <2>4, <2>5, <2>6 DEF InvoiceLineNext
<1>4. ASSUME (SpentNext \/ SpentLineNext) \/ UNCHANGED vars PROVE Goal
  <2>1. UNCHANGED <<invoice, lines, quantity, rows>>
    BY <1>4, PurchaseSteps DEF vars
  <2>2. \A l \in lines : RowsOfLine(l)' = RowsOfLine(l)
    BY <2>1 DEF RowsOfLine
  <2> QED BY <1>1, <2>1, <2>2, CountedStays DEF LinesHaveInvoices
<1>5. Goal
  BY <1>2, <1>3, <1>4 DEF Next
<1> QED BY <1>0, <1>5 DEF Counted, LinesNameTheirUnits

(* A line never names more units than it bills, and an issued one names all  *)
(* of them, whether or not an issue may fail half-way: only a status written *)
(* without the status route can break it.                                    *)
THEOREM LinesNameWhatTheyBill ==
  ASSUME Routes \cap {"patch", "reopen"} = {}
  PROVE  Spec => []LinesNameTheirUnits
<1>1. LinesInv => LinesNameTheirUnits
  BY DEF LinesInv
<1> QED BY <1>1, LinesInit, LinesNext, PTL DEF Spec

-----------------------------------------------------------------------------
(* The refinement.  A row that counts determines the holder of its unit, so  *)
(* every handler is read as what it does to the holders: one lemma says when *)
(* a holder stays, and one per abstract action what makes a step that action. *)
HoldersAreClaims ==
  \A u \in Units :
    /\ \A i \in Invoices : Claims(i, u) => Holder(u) = i
    /\ (\A i \in Invoices : ~Claims(i, u)) => Holder(u) = Nobody

LEMMA HolderIsClaim == TypeOK /\ NoUnitOnTwoInvoices => HoldersAreClaims
<1> SUFFICES ASSUME TypeOK, NoUnitOnTwoInvoices, NEW u \in Units
             PROVE  /\ \A i \in Invoices : Claims(i, u) => Holder(u) = i
                    /\ (\A i \in Invoices : ~Claims(i, u)) => Holder(u) = Nobody
  BY DEF HoldersAreClaims
<1>1. ASSUME NEW i \in Invoices, NEW j \in Invoices, Claims(i, u), Claims(j, u)
      PROVE  i = j
  BY <1>1 DEF Claims, NoUnitOnTwoInvoices, TypeOK
<1>2. ASSUME NEW i \in Invoices, Claims(i, u) PROVE Holder(u) = i
  <2>1. Holder(u) = CHOOSE j \in Invoices : Claims(j, u)
    BY <1>2 DEF Holder
  <2>2. Holder(u) \in Invoices /\ Claims(Holder(u), u)
    BY <1>2, <2>1
  <2> QED BY <1>1, <1>2, <2>2
<1>3. (\A i \in Invoices : ~Claims(i, u)) => Holder(u) = Nobody
  BY DEF Holder
<1> QED BY <1>2, <1>3

LEMMA HolderStays ==
  ASSUME HoldersAreClaims, HoldersAreClaims', NEW u \in Units,
         \A i \in Invoices : Claims(i, u)' <=> Claims(i, u)
  PROVE  Holder(u)' = Holder(u)
<1>1. CASE \E i \in Invoices : Claims(i, u)
  <2>1. PICK i \in Invoices : Claims(i, u)
    BY <1>1
  <2>2. Claims(i, u)'
    BY <2>1
  <2> QED BY <2>1, <2>2 DEF HoldersAreClaims
<1>2. CASE \A i \in Invoices : ~Claims(i, u)
  <2>1. \A i \in Invoices : ~Claims(i, u)'
    BY <1>2
  <2> QED BY <1>2, <2>1 DEF HoldersAreClaims
<1> QED BY <1>1, <1>2

LEMMA SupplyMaps ==
  ASSUME \A u \in Units : Holder(u)' = Holder(u),
         \A u \in Units : (status'[u] = "sold") <=> status[u] = "sold",
         \A u \in Units : status'[u] = "in_stock" /\ status[u] # "in_stock" => Holder(u) = Nobody
  PROVE  Allocation!Next
<1> DEFINE free == {u \in Units : status[u] = "in_stock"}
           in == free' \ free
           out == free \ free'
<1>1. in \in SUBSET Units /\ out \in SUBSET Units
  OBVIOUS
<1>2. \E i \in SUBSET Units, o \in SUBSET Units : Allocation!Supply(i, o)
  BY <1>1 DEF Allocation!Supply, Allocation!HeldBy
<1> QED BY <1>2 DEF Allocation!Next

LEMMA HoldMaps ==
  ASSUME NEW i \in Invoices, NEW u \in Units, status[u] = "in_stock",
         \A v \in Units : Holder(v)' = IF v = u THEN i ELSE Holder(v),
         \A v \in Units : status'[v] = IF v = u THEN "reserved" ELSE status[v]
  PROVE  Allocation!Next
<1>1. Allocation!Hold(i, u)
  BY DEF Allocation!Hold
<1> QED BY <1>1 DEF Allocation!Next

LEMMA ExchangeMaps ==
  ASSUME NEW i \in Invoices, NEW u \in Units, NEW next \in Units, u # next,
         Holder(u) = i, status[u] = "reserved", status[next] = "in_stock",
         \A v \in Units : Holder(v)' = IF v = next THEN i ELSE IF v = u THEN Nobody ELSE Holder(v),
         \A v \in Units : status'[v] = IF v = next THEN "reserved"
                                       ELSE IF v = u THEN "in_stock" ELSE status[v]
  PROVE  Allocation!Next
<1>1. Allocation!Exchange(i, u, next)
  BY DEF Allocation!Exchange, Allocation!HeldBy
<1> QED BY <1>1 DEF Allocation!Next

LEMMA ReleaseMaps ==
  ASSUME NEW i \in Invoices, NEW us \in SUBSET Units,
         \A u \in us : Holder(u) = i /\ status[u] = "reserved",
         \A u \in Units : Holder(u)' = IF u \in us THEN Nobody ELSE Holder(u),
         \A u \in Units : status'[u] = IF u \in us THEN "in_stock" ELSE status[u]
  PROVE  Allocation!Next
<1>1. Allocation!Release(i, us)
  BY DEF Allocation!Release, Allocation!HeldBy
<1> QED BY <1>1 DEF Allocation!Next

LEMMA DeliverMaps ==
  ASSUME NEW i \in Invoices,
         \A u \in Units : Holder(u) = i => status[u] = "reserved",
         \A u \in Units : Holder(u)' = Holder(u),
         \A u \in Units : status'[u] = IF Holder(u) = i THEN "sold" ELSE status[u]
  PROVE  Allocation!Next
<1>1. Allocation!Deliver(i)
  BY DEF Allocation!Deliver, Allocation!HeldBy
<1> QED BY <1>1 DEF Allocation!Next

LEMMA RestockMaps ==
  ASSUME NEW i \in Invoices,
         \A u \in Units : Holder(u) = i => status[u] = "sold",
         \A u \in Units : Holder(u)' = IF Holder(u) = i THEN Nobody ELSE Holder(u),
         \A u \in Units : status'[u] = IF Holder(u) = i THEN "in_stock" ELSE status[u]
  PROVE  Allocation!Next
<1>1. Allocation!Restock(i)
  BY DEF Allocation!Restock, Allocation!HeldBy
<1> QED BY <1>1 DEF Allocation!Next

(* A row of a live invoice determines the status of its unit.                *)
LEMMA LiveRows ==
  ASSUME StatusInv, NEW i \in Invoices, NEW u \in Units, Claims(i, u)
  PROVE  /\ invoice[i] = "draft" => status[u] = "reserved"
         /\ invoice[i] = "issued" => status[u] = "sold"
         /\ invoice[i] \in {"draft", "issued"}
         /\ Holder(u) = i
<1>1. PICK r \in rows : r[2] = u /\ InvoiceOf[r[1]] = i /\ invoice[i] # "cancelled"
  BY DEF Claims
<1>2. Holder(u) = i
  BY HolderIsClaim DEF StatusInv, AllocationInv, HoldersAreClaims
<1>3. invoice[i] \in {"draft", "issued"}
  BY <1>1 DEF StatusInv, AllocationInv, TypeOK, LinesHaveInvoices, InvoiceStatus
<1> QED
  BY <1>1, <1>2, <1>3 DEF StatusInv, SoldMatchesIssuedRows, ReservedMatchesDraftRows

(* Releasing the units of some rows of a draft, with those rows or with the  *)
(* whole draft, is a release of the abstract allocation.                     *)
LEMMA DraftRelease ==
  ASSUME StatusInv, HoldersAreClaims', NEW i \in Invoices, invoice[i] = "draft",
         NEW us \in SUBSET Units,
         status' = Released(us),
         \A u \in us : Claims(i, u) /\ ~Claims(i, u)',
         \A u \in Units, j \in Invoices : Claims(j, u)' => Claims(j, u),
         \A u \in Units \ us, j \in Invoices : Claims(j, u) => Claims(j, u)'
  PROVE  Allocation!Next
<1>1. \A u \in us : Holder(u) = i /\ status[u] = "reserved"
  BY LiveRows
<1>2. HoldersAreClaims
  BY HolderIsClaim DEF StatusInv, AllocationInv
<1>3. ASSUME NEW u \in Units
      PROVE  Holder(u)' = IF u \in us THEN Nobody ELSE Holder(u)
  <2>1. CASE u \in us
    <3>1. ASSUME NEW j \in Invoices PROVE ~Claims(j, u)'
      BY <1>1, <1>2, <2>1 DEF HoldersAreClaims
    <3> QED BY <2>1, <3>1 DEF HoldersAreClaims
  <2>2. CASE u \notin us
    BY <1>2, <2>2, HolderStays
  <2> QED BY <2>1, <2>2
<1>4. \A u \in Units : status'[u] = IF u \in us THEN "in_stock" ELSE status[u]
  BY <1>1 DEF Released
<1> QED BY <1>1, <1>3, <1>4, ReleaseMaps

LEMMA RefinementInit == Init => Allocation!Init
<1> SUFFICES ASSUME Init PROVE Allocation!Init
  OBVIOUS
<1>1. \A u \in Units, i \in Invoices : ~Claims(i, u)
  BY DEF Init, Claims
<1>2. \A u \in Units : Holder(u) = Nobody
  BY <1>1 DEF Holder
<1> QED BY <1>2 DEF Init, Allocation!Init

LEMMA RefinementNext ==
  ASSUME Routes \cap {"patch", "reopen", "refused_issue"} = {}
  PROVE  StatusInv /\ StatusInv' /\ [Next]_vars => [Allocation!Next]_(Allocation!vars)
<1> SUFFICES ASSUME StatusInv, StatusInv', [Next]_vars
             PROVE  Allocation!Next \/ UNCHANGED Allocation!vars
  OBVIOUS
<1>1. HoldersAreClaims /\ HoldersAreClaims'
  <2>1. TypeOK /\ NoUnitOnTwoInvoices
    BY DEF StatusInv, AllocationInv
  <2>2. TypeOK' /\ NoUnitOnTwoInvoices'
    BY DEF StatusInv, AllocationInv
  <2> QED BY <2>1, <2>2, HolderIsClaim, PTL
<1>2. TypeOK /\ TypeOK'
  BY DEF StatusInv, AllocationInv
<1> DEFINE Goal == Allocation!Next \/ UNCHANGED Allocation!vars
<1>3. ASSUME UNCHANGED <<status, rows>>,
             \A l \in lines : (invoice'[InvoiceOf[l]] = "cancelled") <=> invoice[InvoiceOf[l]] = "cancelled"
      PROVE  Goal
  <2>1. \A u \in Units, i \in Invoices : Claims(i, u)' <=> Claims(i, u)
    BY <1>2, <1>3 DEF Claims, TypeOK
  <2>2. \A u \in Units : Holder(u)' = Holder(u)
    BY <1>1, <2>1, HolderStays
  <2> QED BY <1>3, <2>2 DEF Allocation!vars
<1>4. ASSUME InvoiceNext PROVE Goal
  <2>1. ASSUME NEW i \in Invoices, NEW st \in InvoiceStatus, CreateInvoice(i, st)
        PROVE  Goal
    <3>1. /\ UNCHANGED <<status, rows>> /\ invoice[i] = "absent"
          /\ \A j \in Invoices : j # i => invoice'[j] = invoice[j]
      BY <1>2, <2>1 DEF CreateInvoice, TypeOK
    <3>2. \A l \in lines : InvoiceOf[l] \in Invoices /\ InvoiceOf[l] # i
      BY <1>2, <3>1 DEF TypeOK, StatusInv, AllocationInv, LinesHaveInvoices
    <3> QED BY <1>3, <3>1, <3>2
  <2>2. /\ \A i \in Invoices : ~ReopenInvoice(i)
        /\ \A i \in Invoices, st \in InvoiceStatus : ~PatchInvoiceStatus(i, st)
        /\ \A i \in Invoices, out \in SUBSET rows : ~RefuseIssue(i, out)
    BY DEF PatchInvoiceStatus, RefuseIssue, ReopenInvoice
  <2>3. ASSUME NEW i \in Invoices, IssueInvoice(i) PROVE Goal
    <3>1. /\ invoice' = [invoice EXCEPT ![i] = "issued"] /\ invoice[i] = "draft"
          /\ rows' = rows
          /\ \A u \in Units : status'[u] = IF \E r \in rows : r[2] = u /\ InvoiceOf[r[1]] = i
                                           THEN "sold" ELSE status[u]
      BY <2>3 DEF IssueInvoice, SellRows, RowsOfInvoice, UnitsIn
    <3>2. \A u \in Units, j \in Invoices : Claims(j, u)' <=> Claims(j, u)
      BY <1>2, <3>1 DEF Claims, TypeOK
    <3>3. \A u \in Units : Holder(u)' = Holder(u)
      BY <1>1, <3>2, HolderStays
    <3>4. \A u \in Units : Holder(u) = i <=> \E r \in rows : r[2] = u /\ InvoiceOf[r[1]] = i
      <4>1. \A u \in Units : Claims(i, u) <=> \E r \in rows : r[2] = u /\ InvoiceOf[r[1]] = i
        BY <3>1 DEF Claims
      <4> QED BY <1>1, <4>1, NobodyAssumption DEF HoldersAreClaims, Holder
    <3>5. \A u \in Units : Holder(u) = i => status[u] = "reserved"
      <4>1. \A u \in Units : Holder(u) = i => Claims(i, u)
        BY NobodyAssumption DEF Holder
      <4> QED BY <3>1, <4>1, LiveRows
    <3> QED BY <3>1, <3>3, <3>4, <3>5, DeliverMaps
  <2>4. ASSUME NEW i \in Invoices, CancelDraftInvoice(i) PROVE Goal
    <3> DEFINE us == UnitsIn(RowsOfInvoice(i))
    <3>1. /\ invoice' = [invoice EXCEPT ![i] = "cancelled"] /\ invoice[i] = "draft"
          /\ rows' = rows /\ status' = Released(us)
      BY <2>4 DEF CancelDraftInvoice
    <3>2. us \in SUBSET Units /\ \A u \in Units : u \in us <=> Claims(i, u)
      BY <3>1 DEF UnitsIn, RowsOfInvoice, Claims
    <3> HIDE DEF us
    <3>3. \A u \in Units : ~Claims(i, u)'
      BY <1>2, <3>1 DEF Claims, TypeOK
    <3>4. \A u \in Units, j \in Invoices : j # i => (Claims(j, u)' <=> Claims(j, u))
      BY <1>2, <3>1 DEF Claims, TypeOK
    <3> QED BY <1>1, <3>1, <3>2, <3>3, <3>4, DraftRelease
  <2>5. ASSUME NEW i \in Invoices, CancelIssuedInvoice(i) PROVE Goal
    <3>1. /\ invoice' = [invoice EXCEPT ![i] = "cancelled"] /\ invoice[i] = "issued"
          /\ rows' = rows
          /\ \A u \in Units : status'[u] =
               IF (\E r \in rows : r[2] = u /\ InvoiceOf[r[1]] = i) /\ ~Mutable(u)
               THEN "in_stock" ELSE status[u]
      BY <2>5 DEF CancelIssuedInvoice, RowsOfInvoice, UnitsIn
    <3>2. \A u \in Units : Claims(i, u) <=> \E r \in rows : r[2] = u /\ InvoiceOf[r[1]] = i
      BY <3>1 DEF Claims
    <3>3. \A u \in Units : Holder(u) = i <=> Claims(i, u)
      BY <1>1, NobodyAssumption DEF HoldersAreClaims, Holder
    <3>4. \A u \in Units : Holder(u) = i => status[u] = "sold"
      BY <3>1, <3>3, LiveRows
    <3>5. \A u \in Units : status'[u] = IF Holder(u) = i THEN "in_stock" ELSE status[u]
      BY <3>1, <3>2, <3>3, <3>4 DEF Mutable
    <3>6. \A u \in Units : ~Claims(i, u)'
      BY <1>2, <3>1 DEF Claims, TypeOK
    <3>7. \A u \in Units, j \in Invoices : j # i => (Claims(j, u)' <=> Claims(j, u))
      BY <1>2, <3>1 DEF Claims, TypeOK
    <3>8. ASSUME NEW u \in Units
          PROVE  Holder(u)' = IF Holder(u) = i THEN Nobody ELSE Holder(u)
      <4>1. CASE Holder(u) = i
        <5>1. \A j \in Invoices : ~Claims(j, u)'
          BY <1>1, <3>6, <3>7, <4>1 DEF HoldersAreClaims
        <5> QED BY <1>1, <4>1, <5>1 DEF HoldersAreClaims
      <4>2. CASE Holder(u) # i
        BY <1>1, <3>3, <3>6, <3>7, <4>2, HolderStays
      <4> QED BY <4>1, <4>2
    <3> QED BY <3>4, <3>5, <3>8, RestockMaps
  <2>6. ASSUME NEW i \in Invoices, DeleteInvoice(i) PROVE Goal
    <3> DEFINE us == UnitsIn(RowsOfInvoice(i))
    <3>1. ~HasSaleMoves(i)
      BY <2>6 DEF DeleteInvoice, StatusInv, AllocationInv, DraftsHaveNoSales
    <3>2. /\ invoice' = [invoice EXCEPT ![i] = "absent"] /\ invoice[i] = "draft"
          /\ rows' = {r \in rows : r[1] \notin LinesOf(i)} /\ status' = Released(us)
      BY <2>6, <3>1 DEF DeleteInvoice
    <3>3. us \in SUBSET Units /\ \A u \in Units : u \in us <=> Claims(i, u)
      BY <3>2 DEF UnitsIn, RowsOfInvoice, Claims
    <3> HIDE DEF us
    <3>4. rows' = {r \in rows : InvoiceOf[r[1]] # i}
      BY <1>2, <3>2 DEF TypeOK, LinesOf
    <3>5. \A u \in Units : ~Claims(i, u)'
      BY <3>4 DEF Claims
    <3>6. \A u \in Units, j \in Invoices : j # i => (Claims(j, u)' <=> Claims(j, u))
      BY <1>2, <3>2, <3>4 DEF Claims, TypeOK
    <3>7. \A u \in Units, j \in Invoices : Claims(j, u)' => Claims(j, u)
      BY <3>5, <3>6
    <3>8. \A u \in Units \ us, j \in Invoices : Claims(j, u) => Claims(j, u)'
      BY <3>3, <3>6
    <3>9. \A u \in us : Claims(i, u) /\ ~Claims(i, u)'
      BY <3>3, <3>5
    <3>10. us \in SUBSET Units /\ invoice[i] = "draft" /\ status' = Released(us)
      BY <3>2, <3>3
    <3> QED BY <1>1, <3>7, <3>8, <3>9, <3>10, DraftRelease
  <2> QED BY <1>4, <2>1, <2>2, <2>3, <2>4, <2>5, <2>6 DEF InvoiceNext
<1>5. ASSUME InvoiceLineNext PROVE Goal
  <2>1. ASSUME NEW l \in Lines, NEW q \in Quantities,
               CreateInvoiceConcept(l, q) \/ UpdateInvoiceConcept(l, q)
        PROVE  Goal
    BY <1>3, <2>1 DEF CreateInvoiceConcept, UpdateInvoiceConcept
  <2>2. ASSUME NEW l \in Lines, DeleteInvoiceConcept(l) PROVE Goal
    <3> DEFINE us == UnitsIn(RowsOfLine(l))
               i == InvoiceOf[l]
    <3>1. /\ i \in Invoices /\ invoice[i] = "draft" /\ invoice' = invoice
          /\ status' = Released(us)
      BY <2>2 DEF DeleteInvoiceConcept
    <3>2. ~\E m \in saleMoves : m[1] = l
      BY <2>2 DEF DeleteInvoiceConcept, StatusInv, AllocationInv, DraftsHaveNoSales
    <3>3. rows' = {r \in rows : r[1] # l}
      BY <2>2, <3>2 DEF DeleteInvoiceConcept
    <3>4. us \in SUBSET Units /\ \A u \in Units : u \in us <=> <<l, u>> \in rows
      BY <1>2 DEF UnitsIn, RowsOfLine, TypeOK
    <3> HIDE DEF us
    <3>5. \A u \in us : Claims(i, u)
      BY <3>1, <3>4 DEF Claims
    <3>6. \A u \in us : ~Claims(i, u)'
      <4> SUFFICES ASSUME NEW u \in us, NEW r \in rows', r[2] = u, InvoiceOf[r[1]] = i
                   PROVE  FALSE
        BY DEF Claims
      <4>1. r \in rows /\ r[1] # l /\ <<l, u>> \in rows
        BY <3>3, <3>4
      <4>2. <<l, u>>[1] = l /\ <<l, u>>[2] = u /\ InvoiceOf[l] = i
        OBVIOUS
      <4> QED
        BY <3>1, <4>1, <4>2 DEF StatusInv, AllocationInv, NoUnitOnTwoInvoices
    <3>7. \A u \in Units, j \in Invoices : Claims(j, u)' => Claims(j, u)
      BY <3>1, <3>3 DEF Claims
    <3>8. \A u \in Units \ us, j \in Invoices : Claims(j, u) => Claims(j, u)'
      BY <1>2, <3>1, <3>3, <3>4 DEF Claims, TypeOK
    <3> HIDE DEF i
    <3> QED BY <1>1, <3>1, <3>4, <3>5, <3>6, <3>7, <3>8, DraftRelease
  <2>3. ASSUME NEW l \in Lines, NEW u \in Units, CreateInvoiceConceptSerial(l, u)
        PROVE  Goal
    <3> DEFINE i == InvoiceOf[l]
    <3>1. /\ i \in Invoices /\ invoice[i] = "draft" /\ invoice' = invoice
          /\ status[u] = "in_stock" /\ rows' = rows \cup {<<l, u>>}
          /\ \A v \in Units : status'[v] = IF v = u THEN "reserved" ELSE status[v]
      BY <1>2, <2>3 DEF CreateInvoiceConceptSerial, TypeOK
    <3>2. Claims(i, u)'
      BY <3>1 DEF Claims
    <3>3. \A v \in Units, j \in Invoices : v # u => (Claims(j, v)' <=> Claims(j, v))
      BY <3>1 DEF Claims
    <3> HIDE DEF i
    <3>4. \A v \in Units : Holder(v)' = IF v = u THEN i ELSE Holder(v)
      BY <1>1, <3>1, <3>2, <3>3, HolderStays DEF HoldersAreClaims
    <3> QED BY <3>1, <3>4, HoldMaps
  <2>4. ASSUME NEW l \in Lines, NEW u \in Units, NEW next \in Units,
               UpdateInvoiceConceptSerial(l, u, next)
        PROVE  Goal
    <3> DEFINE i == InvoiceOf[l]
    <3>1. /\ i \in Invoices /\ invoice[i] = "draft" /\ invoice' = invoice
          /\ <<l, u>> \in rows /\ u # next /\ status[next] = "in_stock"
          /\ status' = [Released({u}) EXCEPT ![next] = "reserved"]
      BY <1>2, <2>4 DEF UpdateInvoiceConceptSerial
    <3>2. <<l, next>> \notin rows
      BY <3>1 DEF StatusInv, AllocationInv, ClaimedUnitsAreHeld
    <3>3. rows' = (rows \ {<<l, u>>}) \cup {<<l, next>>}
      BY <2>4, <3>2 DEF UpdateInvoiceConceptSerial
    <3>4. Claims(i, u) /\ Claims(i, next)'
      <4>1. /\ <<l, u>>[1] = l /\ <<l, u>>[2] = u /\ InvoiceOf[l] = i
            /\ <<l, next>>[1] = l /\ <<l, next>>[2] = next /\ <<l, next>> \in rows'
        BY <3>3
      <4> QED BY <3>1, <4>1 DEF Claims
    <3>5. Holder(u) = i /\ status[u] = "reserved"
      BY <3>1, <3>4, LiveRows
    <3>6. \A v \in Units, j \in Invoices : v # u /\ v # next => (Claims(j, v)' <=> Claims(j, v))
      BY <3>1, <3>3 DEF Claims
    <3>7. \A j \in Invoices : ~Claims(j, u)'
      <4> SUFFICES ASSUME NEW j \in Invoices, NEW r \in rows', r[2] = u,
                          InvoiceOf[r[1]] = j, invoice[j] # "cancelled"
                   PROVE  FALSE
        BY <3>1 DEF Claims
      <4>1. r \in rows /\ r # <<l, u>>
        BY <3>1, <3>3
      <4>2. <<l, u>>[1] = l /\ <<l, u>>[2] = u /\ InvoiceOf[l] = i
        OBVIOUS
      <4> QED
        BY <3>1, <4>1, <4>2 DEF StatusInv, AllocationInv, NoUnitOnTwoInvoices
    <3>8. \A v \in Units : status'[v] = IF v = next THEN "reserved"
                                        ELSE IF v = u THEN "in_stock" ELSE status[v]
      BY <3>1, <3>5 DEF Released
    <3> HIDE DEF i
    <3>9. ASSUME NEW v \in Units
          PROVE  Holder(v)' = IF v = next THEN i ELSE IF v = u THEN Nobody ELSE Holder(v)
      BY <1>1, <3>1, <3>4, <3>6, <3>7, HolderStays DEF HoldersAreClaims
    <3> QED BY <3>1, <3>5, <3>8, <3>9, ExchangeMaps
  <2>5. ASSUME NEW l \in Lines, NEW u \in Units, DeleteInvoiceConceptSerial(l, u)
        PROVE  Goal
    <3> DEFINE i == InvoiceOf[l]
    <3>1. /\ i \in Invoices /\ invoice[i] = "draft" /\ invoice' = invoice
          /\ <<l, u>> \in rows /\ status' = Released({u})
          /\ rows' = rows \ {<<l, u>>}
      BY <2>5 DEF DeleteInvoiceConceptSerial
    <3>2. Claims(i, u)
      BY <3>1 DEF Claims
    <3>3. ~Claims(i, u)'
      BY <3>1 DEF Claims, StatusInv, AllocationInv, NoUnitOnTwoInvoices
    <3>4. \A v \in Units, j \in Invoices : Claims(j, v)' => Claims(j, v)
      BY <3>1 DEF Claims
    <3>5. \A v \in Units \ {u}, j \in Invoices : Claims(j, v) => Claims(j, v)'
      BY <3>1 DEF Claims
    <3>6. {u} \in SUBSET Units
      OBVIOUS
    <3> HIDE DEF i
    <3> QED BY <1>1, <3>1, <3>2, <3>3, <3>4, <3>5, <3>6, DraftRelease
  <2> QED BY <1>5, <2>1, <2>2, <2>3, <2>4, <2>5 DEF InvoiceLineNext
<1>6. ASSUME SpentNext \/ SpentLineNext PROVE Goal
  <2>1. UNCHANGED <<invoice, rows>>
    BY <1>2, <1>6, PurchaseSteps
  <2>2. \A u \in Units, j \in Invoices : Claims(j, u)' <=> Claims(j, u)
    BY <2>1 DEF Claims
  <2>3. \A u \in Units : Holder(u)' = Holder(u)
    BY <1>1, <2>2, HolderStays
  <2>4. \A u \in Units : /\ (status'[u] = "sold") <=> status[u] = "sold"
                         /\ status'[u] # status[u] => status[u] \notin {"reserved", "sold"}
    BY <1>2, <1>6, PurchaseSteps DEF Mutable
  <2>5. \A u \in Units : status[u] \notin {"reserved", "sold"} => Holder(u) = Nobody
    <3>1. \A u \in Units, j \in Invoices : Claims(j, u) => status[u] \in {"reserved", "sold"}
      BY LiveRows
    <3> QED BY <3>1 DEF Holder
  <2> QED BY <2>3, <2>4, <2>5, SupplyMaps
<1>7. ASSUME UNCHANGED vars PROVE Goal
  BY <1>3, <1>7 DEF vars
<1> QED BY <1>4, <1>5, <1>6, <1>7 DEF Next

(* The whole ledger implements the allocation it promises its callers: on    *)
(* the regular routes every handler is one step on the units of one invoice, *)
(* a supply of free stock, or nothing that a caller of the allocation sees.  *)
THEOREM LedgerImplementsAllocation ==
  ASSUME Routes \cap {"patch", "reopen", "refused_issue"} = {}
  PROVE  Spec => ImplementsAllocation
<1>1. Spec => []StatusInv
  BY StatusInit, StatusNext, PTL DEF Spec
<1> QED
  BY <1>1, RefinementInit, RefinementNext, PTL DEF Spec, ImplementsAllocation, Allocation!Spec

-----------------------------------------------------------------------------
(* The purchase side.  A unit is on at most one spent line and its movements *)
(* refer to that line, so erasing the movements of a line erases those of    *)
(* the units it deletes.  This holds on every route.                         *)
UnitsBoughtOnce == \A p, q \in purchaseRows : p[2] = q[2] => p = q

RowsNameUnits ==
  \A r \in purchaseRows : status[r[2]] # "absent" /\ spent[SpentOf[r[1]]] # "absent"

MovesFollowRows ==
  /\ \A m, n \in purchaseMoves : m[2] = n[2] => m = n
  /\ \A m \in purchaseMoves, r \in purchaseRows : m[2] = r[2] => m = r
  /\ \A m \in purchaseMoves : status[m[2]] # "absent"

EntriesHaveMoves == \A u \in Units : purchaseNet[u] > 0 => \E m \in purchaseMoves : m[2] = u

PurchaseInv ==
  /\ TypeOK
  /\ UnitsBoughtOnce
  /\ RowsNameUnits
  /\ MovesFollowRows
  /\ EntriesHaveMoves
  /\ KardexNeverOverstates
  /\ CancelledSpentUnitsAreVoided

LEMMA PurchaseInit == Init => PurchaseInv
<1> SUFFICES ASSUME Init PROVE PurchaseInv
  OBVIOUS
<1>1. TypeOK
  BY TypeInit
<1> QED
  BY <1>1 DEF Init, PurchaseInv, UnitsBoughtOnce, RowsNameUnits, MovesFollowRows,
              EntriesHaveMoves, KardexNeverOverstates, CancelledSpentUnitsAreVoided

MovesOf(ls) == {m \in purchaseMoves : m[1] \in ls}

(* A purge of whole lines, or of a line up to a unit that stays, keeps the    *)
(* purchase tables consistent.                                               *)
LEMMA PurgeKeepsInv ==
  ASSUME PurchaseInv, NEW ls \in SUBSET SpentLines,
         NEW done \in SUBSET purchaseRows, NEW freed \in SUBSET Units,
         PurgeLines(done, MovesOf(ls), freed),
         \A r \in done : r[1] \in ls,
         \A u \in freed : \E r \in done : r[2] = u,
         \A r \in purchaseRows' : r \in purchaseRows /\ spent'[SpentOf[r[1]]] = spent[SpentOf[r[1]]]
  PROVE  /\ UnitsBoughtOnce' /\ RowsNameUnits' /\ MovesFollowRows'
         /\ EntriesHaveMoves' /\ KardexNeverOverstates' /\ CancelledSpentUnitsAreVoided'
<1> DEFINE erased == MovesOf(ls)
<1> USE DEF PurchaseInv, TypeOK, MovesOf
<1>1. /\ purchaseRows' = purchaseRows \ done
      /\ purchaseMoves' = purchaseMoves \ erased
      /\ \A u \in Units : purchaseNet'[u] = IF u \in UnitsIn(erased) THEN 0 ELSE purchaseNet[u]
      /\ \A u \in Units : status'[u] = IF u \in freed THEN "absent" ELSE status[u]
  BY DEF PurgeLines
<1>2. \A m \in purchaseMoves : m[2] \in freed => m \in erased
  BY DEF MovesFollowRows
<1>3. \A r \in purchaseRows' : r[2] \notin freed
  BY <1>1 DEF UnitsBoughtOnce
<1>4. UnitsBoughtOnce' /\ RowsNameUnits' /\ CancelledSpentUnitsAreVoided'
  BY <1>1, <1>3 DEF UnitsBoughtOnce, RowsNameUnits, CancelledSpentUnitsAreVoided
<1>5. MovesFollowRows'
  BY <1>1, <1>2 DEF MovesFollowRows
<1>6. EntriesHaveMoves'
  BY <1>1 DEF EntriesHaveMoves, UnitsIn
<1>7. \A u \in freed : purchaseNet'[u] <= 0
  BY <1>1, <1>2 DEF EntriesHaveMoves, UnitsIn
<1>8. KardexNeverOverstates'
  <2>1. ASSUME NEW u \in Units \ freed
        PROVE  purchaseNet'[u] <= IF status'[u] \in {"in_stock", "reserved", "sold"} THEN 1 ELSE 0
    <3>1. purchaseNet'[u] \in {0, purchaseNet[u]} /\ status'[u] = status[u]
      BY <1>1
    <3>2. /\ purchaseNet[u] \in Int
          /\ purchaseNet[u] <= IF status[u] \in {"in_stock", "reserved", "sold"} THEN 1 ELSE 0
      BY DEF KardexNeverOverstates
    <3>3. CASE purchaseNet'[u] = purchaseNet[u]
      BY <3>1, <3>2, <3>3
    <3>4. CASE purchaseNet'[u] = 0
      BY <3>1, <3>4
    <3> QED BY <3>1, <3>3, <3>4
  <2>2. \A u \in freed : status'[u] = "absent"
    BY <1>1
  <2> QED BY <1>7, <2>1, <2>2 DEF KardexNeverOverstates
<1> QED BY <1>4, <1>5, <1>6, <1>8

LEMMA PartialPurge ==
  ASSUME PurchaseInv, NEW ls \in SUBSET SpentLines, NEW whole \in SUBSET SpentLines,
         NEW k \in SpentLines, NEW freed \in SUBSET Units, NEW b \in Units,
         PurgeUpTo(ls, whole, k, freed, b), spent' = spent
  PROVE  /\ UnitsBoughtOnce' /\ RowsNameUnits' /\ MovesFollowRows'
         /\ EntriesHaveMoves' /\ KardexNeverOverstates' /\ CancelledSpentUnitsAreVoided'
<1> DEFINE full == {r \in purchaseRows : r[1] \in whole}
           done == full \cup ({k} \X (freed \cup {b}))
           gone == UnitsIn(full) \cup freed
           first == whole \cup {k}
<1>1. PurgeLines(done, MovesOf(first), gone)
  BY DEF PurgeUpTo, MovesOf
<1>2. done \in SUBSET purchaseRows
  BY DEF PurgeUpTo
<1>3. gone \in SUBSET Units /\ \A u \in gone : \E r \in done : r[2] = u
  <2>1. \A u \in UnitsIn(full) : u \in Units /\ \E r \in full : r[2] = u
    BY DEF UnitsIn
  <2>2. \A u \in freed : <<k, u>> \in done /\ <<k, u>>[2] = u
    OBVIOUS
  <2> QED BY <2>1, <2>2
<1>4. \A r \in done : r[1] \in first
  OBVIOUS
<1>5. /\ first \in SUBSET SpentLines
      /\ \A r \in purchaseRows' : r \in purchaseRows /\ spent'[SpentOf[r[1]]] = spent[SpentOf[r[1]]]
  BY <1>1 DEF PurgeLines
<1> HIDE DEF full, done, gone, first
<1> QED BY <1>1, <1>2, <1>3, <1>4, <1>5, PurgeKeepsInv

LEMMA PurchaseNext == PurchaseInv /\ [Next]_vars => PurchaseInv'
<1> SUFFICES ASSUME PurchaseInv, [Next]_vars PROVE PurchaseInv'
  OBVIOUS
<1> USE DEF PurchaseInv
<1>0. TypeOK'
  BY TypeNext
<1> DEFINE Goal == /\ UnitsBoughtOnce' /\ RowsNameUnits' /\ MovesFollowRows'
                   /\ EntriesHaveMoves' /\ KardexNeverOverstates'
                   /\ CancelledSpentUnitsAreVoided'
<1> USE DEF TypeOK, UnitsBoughtOnce, RowsNameUnits, MovesFollowRows, EntriesHaveMoves,
            KardexNeverOverstates, CancelledSpentUnitsAreVoided
<1>1. ASSUME InvoiceNext \/ InvoiceLineNext PROVE Goal
  BY <1>1, SaleSteps DEF purchaseVars
<1>2. ASSUME SpentNext PROVE Goal
  <2>1. ASSUME NEW s \in Spents, NEW st \in SpentStatus, NEW ls \in SUBSET SpentLines,
               NEW pairs \in SUBSET (SpentLines \X Units), CreateSpent(s, st, ls, pairs)
        PROVE  Goal
    <3>1. /\ purchaseRows' = purchaseRows \cup pairs
          /\ purchaseMoves' = purchaseMoves \cup pairs
          /\ \A u \in Units : status'[u] = IF u \in UnitsIn(pairs) THEN "in_stock" ELSE status[u]
          /\ \A u \in Units : purchaseNet'[u] = IF u \in UnitsIn(pairs) THEN 1 ELSE purchaseNet[u]
          /\ spent' = [spent EXCEPT ![s] = st] /\ spent[s] = "absent"
          /\ st = "cancelled" => pairs = {}
          /\ st \in {"open", "cancelled"}
      BY <2>1 DEF CreateSpent, RegisterPairs
    <3>2. /\ \A p, q \in pairs : p[2] = q[2] => p = q
          /\ \A p \in pairs : SpentOf[p[1]] = s
          /\ \A p \in pairs : p[2] \in UnitsIn(pairs) /\ status[p[2]] = "absent"
      BY <2>1 DEF CreateSpent, IsGraph, UnitsIn
    <3>3. UnitsBoughtOnce'
      BY <3>1, <3>2
    <3>4. RowsNameUnits'
      BY <3>1, <3>2
    <3>5. MovesFollowRows'
      BY <3>1, <3>2
    <3>6. EntriesHaveMoves'
      BY <3>1 DEF UnitsIn
    <3>7. KardexNeverOverstates'
      BY <3>1
    <3>8. CancelledSpentUnitsAreVoided'
      BY <3>1, <3>2 DEF UnitsIn
    <3> QED BY <3>3, <3>4, <3>5, <3>6, <3>7, <3>8
  <2>2. ASSUME NEW s \in Spents, NEW ls \in SUBSET SpentLines,
               NEW pairs \in SUBSET (SpentLines \X Units), UpdateSpentGraph(s, ls, pairs)
        PROVE  Goal
    <3> DEFINE old == {r \in purchaseRows : SpentOf[r[1]] = s}
               out == old \ pairs
               new == pairs \ old
               erased == {m \in purchaseMoves :
                            m[1] \in SpentLinesOf(s) \ ls \/ m[2] \in UnitsIn(out)}
    <3>1. /\ purchaseRows' = (purchaseRows \ out) \cup new
          /\ purchaseMoves' = (purchaseMoves \ erased) \cup new
          /\ \A u \in Units : status'[u] =
                IF u \in UnitsIn(new) THEN "in_stock"
                ELSE IF u \in UnitsIn(out) THEN "absent" ELSE status[u]
          /\ \A u \in Units : purchaseNet'[u] =
                IF u \in UnitsIn(new) THEN 1
                ELSE IF u \in UnitsIn(erased) THEN 0 ELSE purchaseNet[u]
          /\ spent' = spent /\ spent[s] = "open"
      BY <2>2 DEF UpdateSpentGraph, RegisterPairs
    <3>2. /\ \A p, q \in pairs : p[2] = q[2] => p = q
          /\ \A p \in pairs : SpentOf[p[1]] = s
          /\ \A p \in pairs : p[1] \in ls
          /\ \A p \in new : status[p[2]] = "absent" \/ \E r \in out : r[2] = p[2]
      BY <2>2 DEF UpdateSpentGraph, IsGraph, UnitsIn
    <3>3. /\ \A u \in Units : u \in UnitsIn(new) <=> \E p \in new : p[2] = u
          /\ \A u \in Units : u \in UnitsIn(out) <=> \E r \in out : r[2] = u
          /\ \A u \in Units : u \in UnitsIn(erased) <=> \E m \in erased : m[2] = u
      BY DEF UnitsIn
    <3>4. /\ out \subseteq purchaseRows /\ new \cap old = {} /\ new \subseteq pairs
          /\ erased \subseteq purchaseMoves
          /\ \A m \in purchaseMoves : m[2] \in UnitsIn(out) => m \in erased
          /\ \A r \in out : SpentOf[r[1]] = s
          /\ \A r \in purchaseRows \ out : SpentOf[r[1]] = s => r \in pairs
      OBVIOUS
    <3> HIDE DEF old, out, new, erased
    <3>5. \A r \in purchaseRows \ out : ~\E p \in new : p[2] = r[2]
      BY <3>2, <3>4
    <3>6. \A r \in purchaseRows \ out : ~\E q \in out : q[2] = r[2]
      BY <3>4
    <3>7. UnitsBoughtOnce'
      BY <3>1, <3>2, <3>4, <3>5
    <3>8. RowsNameUnits'
      BY <3>1, <3>2, <3>3, <3>4, <3>5, <3>6
    <3>9. \A m \in purchaseMoves \ erased : ~\E p \in new : p[2] = m[2]
      BY <3>2, <3>3, <3>4
    <3>10. MovesFollowRows'
      <4>1. \A m, n \in purchaseMoves' : m[2] = n[2] => m = n
        BY <3>1, <3>2, <3>4, <3>9
      <4>2. \A m \in purchaseMoves', r \in purchaseRows' : m[2] = r[2] => m = r
        BY <3>1, <3>2, <3>4, <3>5, <3>9
      <4>3. \A m \in purchaseMoves' : status'[m[2]] # "absent"
        BY <3>1, <3>2, <3>3, <3>4
      <4> QED BY <4>1, <4>2, <4>3
    <3>11. EntriesHaveMoves'
      BY <3>1, <3>3
    <3>12. KardexNeverOverstates'
      BY <3>1, <3>3, <3>4
    <3>13. CancelledSpentUnitsAreVoided'
      BY <3>1, <3>2, <3>3, <3>4, <3>5, <3>6
    <3> QED BY <3>7, <3>8, <3>10, <3>11, <3>12, <3>13
  <2>3. ASSUME NEW s \in Spents, NEW ls \in SUBSET SpentLines,
               UpdateCancelledSpentGraph(s, ls)
        PROVE  Goal
    <3> DEFINE gone == SpentLinesOf(s) \ ls
               done == {r \in purchaseRows : r[1] \in gone}
    <3>1. PurgeLines(done, MovesOf(gone), UnitsIn(done))
      BY <2>3 DEF UpdateCancelledSpentGraph, RegisterPairs, PurgeLines, UnitsIn, MovesOf
    <3>2. spent' = spent
      BY <2>3 DEF UpdateCancelledSpentGraph
    <3>3. gone \in SUBSET SpentLines /\ done \in SUBSET purchaseRows
      BY DEF SpentLinesOf
    <3>4. UnitsIn(done) \in SUBSET Units /\ \A u \in UnitsIn(done) : \E r \in done : r[2] = u
      BY DEF UnitsIn
    <3>5. \A r \in purchaseRows' : r \in purchaseRows
      BY <3>1 DEF PurgeLines
    <3>6. PurchaseInv /\ \A r \in done : r[1] \in gone
      OBVIOUS
    <3> HIDE DEF done, gone, PurchaseInv
    <3> QED BY <3>1, <3>2, <3>3, <3>4, <3>5, <3>6, PurgeKeepsInv
  <2>7. ASSUME NEW s \in Spents, NEW ls \in SUBSET SpentLines, CancelSpent(s, ls)
        PROVE  Goal
    <3> DEFINE out == {r \in purchaseRows : SpentOf[r[1]] = s}
               done == {r \in out : r[1] \in SpentLinesOf(s) \ ls}
               kept == out \ done
               erased == {m \in purchaseMoves : m[1] \in SpentLinesOf(s) \ ls}
    <3>1. /\ \A u \in Units : status'[u] =
                IF u \in UnitsIn(done) THEN "absent"
                ELSE IF u \in UnitsIn(kept) THEN "voided" ELSE status[u]
          /\ \A u \in Units : purchaseNet'[u] =
                IF u \in UnitsIn(erased \cup done) THEN 0
                ELSE IF u \in UnitsIn(kept) THEN purchaseNet[u] - 1 ELSE purchaseNet[u]
          /\ purchaseMoves' = (purchaseMoves \ erased) \cup kept
          /\ purchaseRows' = purchaseRows \ done
          /\ spent' = [spent EXCEPT ![s] = "cancelled"]
      BY <2>7 DEF CancelSpent
    <3>2. /\ \A u \in Units : u \in UnitsIn(done) <=> \E r \in done : r[2] = u
          /\ \A u \in Units : u \in UnitsIn(kept) <=> \E r \in kept : r[2] = u
          /\ \A u \in Units : u \in UnitsIn(erased \cup done) <=> \E m \in erased \cup done : m[2] = u
      BY DEF UnitsIn
    <3>3. /\ out \subseteq purchaseRows /\ done \subseteq out /\ kept \subseteq out
          /\ done \cap kept = {} /\ erased \subseteq purchaseMoves
          /\ \A m \in purchaseMoves, r \in done : m[2] = r[2] => m \in erased
          /\ \A m \in purchaseMoves, r \in kept : m[2] = r[2] => m = r
          /\ \A r \in purchaseRows : SpentOf[r[1]] = s => r \in done \/ r \in kept
      OBVIOUS
    <3> HIDE DEF out, done, kept, erased
    <3>4. UnitsBoughtOnce'
      BY <3>1
    <3>5. \A r \in purchaseRows' : ~\E q \in done : q[2] = r[2]
      BY <3>1, <3>3
    <3>6. RowsNameUnits'
      BY <3>1, <3>2, <3>5
    <3>8. MovesFollowRows'
      <4>1. \A m, n \in purchaseMoves' : m[2] = n[2] => m = n
        BY <3>1, <3>3
      <4>2. \A m \in purchaseMoves', r \in purchaseRows' : m[2] = r[2] => m = r
        BY <3>1, <3>3
      <4>3. \A m \in purchaseMoves' : status'[m[2]] # "absent"
        BY <3>1, <3>2, <3>3
      <4> QED BY <4>1, <4>2, <4>3
    <3>9. ASSUME NEW u \in Units
          PROVE  /\ purchaseNet'[u] > 0 => \E m \in purchaseMoves' : m[2] = u
                 /\ purchaseNet'[u] <= IF status'[u] \in {"in_stock", "reserved", "sold"} THEN 1 ELSE 0
      <4>1. /\ purchaseNet[u] \in Int
            /\ purchaseNet[u] <= IF status[u] \in {"in_stock", "reserved", "sold"} THEN 1 ELSE 0
        OBVIOUS
      <4>2. CASE u \in UnitsIn(erased \cup done)
        BY <3>1, <4>1, <4>2
      <4>3. CASE u \notin UnitsIn(erased \cup done) /\ u \in UnitsIn(kept)
        <5>1. purchaseNet'[u] = purchaseNet[u] - 1
          BY <3>1, <4>3
        <5>2. purchaseNet'[u] <= 0
          BY <4>1, <5>1
        <5> QED BY <4>1, <5>1, <5>2
      <4>4. CASE u \notin UnitsIn(erased \cup done) /\ u \notin UnitsIn(kept)
        <5>1. u \notin UnitsIn(done)
          BY <3>2, <4>4
        <5>2. purchaseNet'[u] = purchaseNet[u] /\ status'[u] = status[u]
          BY <3>1, <4>4, <5>1
        <5>3. \A m \in purchaseMoves : m[2] = u => m \in purchaseMoves'
          BY <3>1, <3>2, <4>4
        <5> QED BY <4>1, <5>2, <5>3
      <4> QED BY <4>2, <4>3, <4>4
    <3>10. EntriesHaveMoves' /\ KardexNeverOverstates'
      BY <3>9
    <3>11. CancelledSpentUnitsAreVoided'
      BY <3>1, <3>2, <3>3, <3>5
    <3> QED BY <3>4, <3>6, <3>8, <3>10, <3>11
  <2>4. ASSUME NEW s \in Spents, RejectSpentCancel(s) PROVE Goal
    <3> DEFINE out == {r \in purchaseRows : SpentOf[r[1]] = s}
    <3>1. /\ \A u \in Units : status'[u] = IF \E r \in out : r[2] = u THEN "voided" ELSE status[u]
          /\ \A u \in Units : purchaseNet'[u] =
                IF \E r \in out : r[2] = u THEN purchaseNet[u] - 1 ELSE purchaseNet[u]
          /\ purchaseMoves' = purchaseMoves \cup out
          /\ purchaseRows' = purchaseRows
          /\ spent' = spent
      BY <2>4 DEF RejectSpentCancel, VoidUnits, UnitsIn
    <3>2. UnitsBoughtOnce' /\ RowsNameUnits'
      BY <3>1
    <3>3. MovesFollowRows'
      BY <3>1
    <3>4. EntriesHaveMoves'
      BY <3>1
    <3>5. KardexNeverOverstates'
      BY <3>1
    <3>6. CancelledSpentUnitsAreVoided'
      BY <3>1
    <3> QED BY <3>2, <3>3, <3>4, <3>5, <3>6
  <2>5. ASSUME NEW s \in Spents, NEW fileGone \in BOOLEAN, DeleteSpent(s, fileGone)
        PROVE  Goal
    <3> DEFINE gone == SpentLinesOf(s)
               done == {r \in purchaseRows : r[1] \in gone}
    <3>1. PurgeLines(done, MovesOf(gone), UnitsIn(done))
      BY <2>5 DEF DeleteSpent, PurgeAll, MovesOf
    <3>2. \A r \in purchaseRows' : r \in purchaseRows /\ SpentOf[r[1]] # s
      BY <3>1 DEF PurgeLines, SpentLinesOf
    <3>3. spent' = spent \/ spent' = [spent EXCEPT ![s] = "absent"]
      BY <2>5 DEF DeleteSpent
    <3>4. gone \in SUBSET SpentLines /\ done \in SUBSET purchaseRows
      BY DEF SpentLinesOf
    <3>5. UnitsIn(done) \in SUBSET Units /\ \A u \in UnitsIn(done) : \E r \in done : r[2] = u
      BY DEF UnitsIn
    <3>6. /\ PurchaseInv
          /\ \A r \in done : r[1] \in gone
          /\ \A r \in purchaseRows' : spent'[SpentOf[r[1]]] = spent[SpentOf[r[1]]]
      BY <3>2, <3>3
    <3> HIDE DEF done, gone, PurchaseInv
    <3> QED BY <3>1, <3>2, <3>4, <3>5, <3>6, PurgeKeepsInv
  <2>6. ASSUME NEW s \in Spents, NEW whole \in SUBSET SpentLines, NEW k \in SpentLines,
               NEW freed \in SUBSET Units, NEW b \in Units,
               FailDeleteSpent(s, whole, k, freed, b)
        PROVE  Goal
    <3>1. PurgeUpTo(SpentLinesOf(s), whole, k, freed, b) /\ spent' = spent
      BY <2>6 DEF FailDeleteSpent
    <3>2. SpentLinesOf(s) \in SUBSET SpentLines /\ PurchaseInv
      BY DEF SpentLinesOf
    <3> HIDE DEF PurchaseInv
    <3> QED BY <3>1, <3>2, PartialPurge
  <2> QED BY <1>2, <2>1, <2>2, <2>3, <2>4, <2>5, <2>6, <2>7 DEF SpentNext
<1>3. ASSUME SpentLineNext PROVE Goal
  <2>1. ASSUME NEW k \in SpentLines, CreateSpentConcept(k) PROVE Goal
    BY <2>1 DEF CreateSpentConcept
  <2>2. ASSUME NEW k \in SpentLines, DeleteSpentConcept(k) PROVE Goal
    <3> DEFINE done == {r \in purchaseRows : r[1] \in {k}}
    <3>1. PurgeLines(done, MovesOf({k}), UnitsIn(done)) /\ spent' = spent
      BY <2>2 DEF DeleteSpentConcept, PurgeAll, MovesOf
    <3>2. UnitsIn(done) \in SUBSET Units /\ \A u \in UnitsIn(done) : \E r \in done : r[2] = u
      BY DEF UnitsIn
    <3>3. \A r \in purchaseRows' : r \in purchaseRows
      BY <3>1 DEF PurgeLines
    <3>4. /\ {k} \in SUBSET SpentLines /\ done \in SUBSET purchaseRows
          /\ PurchaseInv /\ \A r \in done : r[1] \in {k}
      OBVIOUS
    <3> HIDE DEF done, PurchaseInv
    <3> QED BY <3>1, <3>2, <3>3, <3>4, PurgeKeepsInv
  <2>3. ASSUME NEW k \in SpentLines, NEW freed \in SUBSET Units, NEW b \in Units,
               FailDeleteSpentConcept(k, freed, b)
        PROVE  Goal
    BY <2>3, PartialPurge DEF FailDeleteSpentConcept
  <2>4. ASSUME NEW k \in SpentLines, NEW u \in Units, CreateSpentConceptSerial(k, u)
        PROVE  Goal
    <3>1. /\ purchaseRows' = purchaseRows \cup {<<k, u>>}
          /\ purchaseMoves' = purchaseMoves \cup {<<k, u>>}
          /\ \A v \in Units : status'[v] = IF v = u THEN "in_stock" ELSE status[v]
          /\ \A v \in Units : purchaseNet'[v] = IF v = u THEN 1 ELSE purchaseNet[v]
          /\ status[u] = "absent" /\ spent[SpentOf[k]] = "open" /\ spent' = spent
      BY <2>4 DEF CreateSpentConceptSerial, RegisterPairs, UnitsIn
    <3>2. UnitsBoughtOnce' /\ RowsNameUnits'
      BY <3>1
    <3>3. MovesFollowRows'
      BY <3>1
    <3>4. EntriesHaveMoves'
      <4>1. /\ <<k, u>> \in purchaseMoves' /\ <<k, u>>[2] = u
            /\ \A v \in Units \ {u} : purchaseNet'[v] = purchaseNet[v]
            /\ purchaseMoves \subseteq purchaseMoves'
        BY <3>1
      <4> QED BY <4>1
    <3>6. KardexNeverOverstates'
      BY <3>1
    <3>5. CancelledSpentUnitsAreVoided'
      BY <3>1
    <3> QED BY <3>2, <3>3, <3>4, <3>5, <3>6
  <2>5. ASSUME NEW k \in SpentLines, NEW u \in Units, DeleteSpentConceptSerial(k, u)
        PROVE  Goal
    <3>1. CASE Mutable(u)
      <4>1. /\ purchaseRows' = purchaseRows \ {<<k, u>>} /\ <<k, u>> \in purchaseRows
            /\ purchaseMoves' = {m \in purchaseMoves : m[2] # u}
            /\ \A v \in Units : purchaseNet'[v] = IF v = u THEN 0 ELSE purchaseNet[v]
            /\ \A v \in Units : v # u => status'[v] = status[v]
            /\ spent' = spent
        BY <2>5, <3>1 DEF DeleteSpentConceptSerial
      <4> QED BY <4>1
    <3>2. CASE ~Mutable(u)
      BY <2>5, <3>2 DEF DeleteSpentConceptSerial
    <3> QED BY <3>1, <3>2
  <2> QED BY <1>3, <2>1, <2>2, <2>3, <2>4, <2>5 DEF SpentLineNext
<1>4. ASSUME UNCHANGED vars PROVE Goal
  BY <1>4 DEF vars
<1> QED BY <1>0, <1>1, <1>2, <1>3, <1>4 DEF Next

(* The kardex never shows stock that is not there, on any route: every entry *)
(* it counts is of a unit that exists and was not voided.                    *)
THEOREM KardexIsNeverOverstated == Spec => []KardexNeverOverstates
<1>1. PurchaseInv => KardexNeverOverstates
  BY DEF PurchaseInv
<1> QED BY <1>1, PurchaseInit, PurchaseNext, PTL DEF Spec

(* Once a spent is cancelled its units stay voided: no handler registers a    *)
(* unit on it, and none revives one.                                         *)
THEOREM CancelledSpentsStayVoided == Spec => []CancelledSpentUnitsAreVoided
<1>1. PurchaseInv => CancelledSpentUnitsAreVoided
  BY DEF PurchaseInv
<1> QED BY <1>1, PurchaseInit, PurchaseNext, PTL DEF Spec

-----------------------------------------------------------------------------
(* InventoryRequests: an edit of a spent races the sales of its units.  First *)
(* the sequence operators that plans are made with.                          *)
LEMMA LeastNumber ==
  ASSUME NEW T, T \subseteq Nat, T # {}
  PROVE  \E x \in T : \A y \in T : x <= y
<1>1. PICK x \in T : \A y \in T : <<y, x>> \notin OpToRel(<, Nat)
  BY NatLessThanWellFounded, WFMin
<1>2. \A y \in T : ~(y < x)
  BY <1>1 DEF OpToRel
<1> QED BY <1>2

(* SetToSeq lists a set, of any order, in as many places as it has elements, *)
(* each in one.                                                               *)
LEMMA SetAsSequence ==
  ASSUME NEW S, IsFiniteSet(S)
  PROVE  /\ Cardinality(S) \in Nat /\ SetToSeq(S) \in [1..Cardinality(S) -> S]
         /\ \A i, j \in 1..Cardinality(S) : SetToSeq(S)[i] = SetToSeq(S)[j] => i = j
<1>1. Cardinality(S) \in Nat
  BY FS_CardinalityType
<1>2. PICK n \in Nat : ExistsBijection(1..n, S)
  BY FS_NatBijection
<1>3. n = Cardinality(S)
  BY <1>1, <1>2, FS_CountingElements
<1>4. PICK f \in Bijection(1..n, S) : TRUE
  BY <1>2 DEF ExistsBijection
<1>5. f \in [1..Cardinality(S) -> S] /\ IsInjective(f)
  BY <1>3, <1>4 DEF Bijection, Injection, Surjection, IsInjective
<1>6. SetToSeq(S) \in [1..Cardinality(S) -> S] /\ IsInjective(SetToSeq(S))
  BY <1>5 DEF SetToSeq
<1> QED BY <1>1, <1>6 DEF IsInjective

(* Sequences of a kind, one after the other, where the kind may depend on how *)
(* many there are.                                                            *)
LEMMA FlattenedThrough ==
  ASSUME NEW V, NEW n \in Nat, NEW f \in [1..n -> V], NEW C,
         <<>> \in C[0], n > 0 => f[1] \in C[1],
         \A k \in 2..n : \A s \in C[k - 1] : s \o f[k] \in C[k]
  PROVE  FlattenSeq(f) \in C[n]
<1> DEFINE Upto(g, k) == g = [i \in 1..k |-> IF i = 1 THEN f[i] ELSE g[i - 1] \o f[i]]
<1>1. Len(f) = n /\ f \in Seq(V)
  OBVIOUS
<1>2. CASE n = 0
  <2>1. FlattenSeq(f) = f
    BY <1>1, <1>2 DEF FlattenSeq
  <2>2. f = <<>>
    BY <1>1, <1>2
  <2> QED BY <1>2, <2>1, <2>2
<1>3. CASE n # 0
  <2> DEFINE Bad == {k \in Nat : ~ \E g : Upto(g, k)}
  <2>1. Bad = {}
    <3> SUFFICES ASSUME Bad # {} PROVE FALSE
      OBVIOUS
    <3>1. PICK k \in Bad : \A y \in Bad : k <= y
      <4>1. Bad \subseteq Nat
        OBVIOUS
      <4> HIDE DEF Bad
      <4> QED BY <4>1, LeastNumber
    <3>2. k # 0
      <4>1. Upto([i \in 1..0 |-> {}], 0)
        OBVIOUS
      <4> QED BY <3>1, <4>1
    <3>3. PICK g : Upto(g, k - 1)
      <4>1. k \in Nat
        OBVIOUS
      <4>2. k - 1 \in Nat /\ k - 1 \notin Bad
        <5> HIDE DEF Bad
        <5> QED BY <3>1, <3>2, <4>1
      <4> QED BY <4>2
    <3> DEFINE h == [i \in 1..k |-> IF i = 1 THEN f[i] ELSE IF i = k THEN g[k - 1] \o f[k] ELSE g[i]]
    <3>4. \A i \in 1..k : h[i] = IF i = 1 THEN f[i] ELSE h[i - 1] \o f[i]
      <4> SUFFICES ASSUME NEW i \in 1..k, i # 1 PROVE h[i] = h[i - 1] \o f[i]
        OBVIOUS
      <4>1. i - 1 \in 1..(k - 1) /\ h[i - 1] = g[i - 1]
        <5>1. i - 1 = 1 => g[1] = f[1]
          BY <3>1, <3>3
        <5> QED BY <3>1, <5>1
      <4>2. i # k => g[i] = g[i - 1] \o f[i]
        <5>1. i # k => i \in 1..(k - 1)
          BY <3>1
        <5> QED BY <3>3, <5>1
      <4> QED BY <4>1, <4>2
    <3>5. Upto(h, k)
      BY <3>4
    <3> QED BY <3>1, <3>5
  <2>2. \E g : Upto(g, n)
    BY <2>1
  <2> DEFINE flat == CHOOSE g : Upto(g, n)
  <2>3. Upto(flat, n)
    BY <2>2
  <2>4. FlattenSeq(f) = flat[n]
    BY <1>1, <1>3 DEF FlattenSeq
  <2> HIDE DEF flat
  <2>5. \A i \in 1..n : flat[i] = IF i = 1 THEN f[i] ELSE flat[i - 1] \o f[i]
    BY <2>3
  <2> DEFINE Stray == {i \in 1..n : flat[i] \notin C[i]}
  <2>6. Stray = {}
    <3> SUFFICES ASSUME Stray # {} PROVE FALSE
      OBVIOUS
    <3>1. PICK k \in Stray : \A y \in Stray : k <= y
      <4>1. Stray \subseteq Nat
        OBVIOUS
      <4> HIDE DEF Stray
      <4> QED BY <4>1, LeastNumber
    <3>2. CASE k = 1
      BY <1>3, <2>5, <3>1, <3>2
    <3>3. CASE k # 1
      <4>1. k \in 2..n /\ k - 1 \in 1..n
        BY <3>1, <3>3
      <4>2. flat[k - 1] \in C[k - 1]
        BY <3>1, <3>3, <4>1
      <4>3. flat[k] = flat[k - 1] \o f[k]
        BY <2>5, <3>1, <3>3
      <4>4. flat[k] \in C[k]
        BY <4>1, <4>2, <4>3
      <4> QED BY <3>1, <4>4
    <3> QED BY <3>2, <3>3
  <2> QED BY <1>3, <2>4, <2>6
<1> QED BY <1>2, <1>3

(* Sequences of a kind, one after the other, are one of that kind if two of   *)
(* them are.                                                                  *)
LEMMA FlattenedIn ==
  ASSUME NEW C, <<>> \in C, \A s, t \in C : s \o t \in C, NEW n \in Nat, NEW f \in [1..n -> C]
  PROVE  FlattenSeq(f) \in C
<1> DEFINE D == [k \in 0..n |-> C]
<1>1. <<>> \in D[0] /\ (n > 0 => f[1] \in D[1])
  OBVIOUS
<1>2. \A k \in 2..n : \A s \in D[k - 1] : s \o f[k] \in D[k]
  OBVIOUS
<1>3. D[n] = C
  OBVIOUS
<1> HIDE DEF D
<1> QED BY <1>1, <1>2, <1>3, FlattenedThrough

(* Sequences of statements, one after the other, are a sequence of them.      *)
LEMMA FlattenedIs ==
  ASSUME NEW S, NEW n \in Nat, NEW f \in [1..n -> Seq(S)]
  PROVE  FlattenSeq(f) \in Seq(S)
<1>1. <<>> \in Seq(S) /\ \A s, t \in Seq(S) : s \o t \in Seq(S)
  OBVIOUS
<1> QED BY <1>1, FlattenedIn

(* The statements that the plans of a sale are made of.                       *)
LEMMA SaleStatementsAre ==
  /\ Fail \in SaleStatements /\ Nothing \in SaleStatements
  /\ \A u \in Units, st \in Held : SetUnit(u, st) \in SaleStatements
  /\ \A l \in Lines, u \in Units :
       \A op \in {"sale_out", "sale_in", "add_row", "drop_row"} : OnPair(op, l, u) \in SaleStatements
  /\ \A l \in Lines, u \in Units, v \in Units :
       [op |-> "swap_row", line |-> l, unit |-> u, next |-> v] \in SaleStatements
  /\ \A i \in Invoices, st \in InvoiceStatus : SetInvoice(i, st) \in SaleStatements
  /\ \A i \in Invoices : [op |-> "delete_invoice", invoice |-> i] \in SaleStatements
  /\ \A l \in Lines : OnLine("delete_line", l) \in SaleStatements
  /\ \A l \in Lines, q \in Nat : [op |-> "quantity", line |-> l, to |-> q] \in SaleStatements
BY DEF SaleStatements, Fail, Nothing, SetUnit, OnPair, SetInvoice, OnLine

(* The plans, each a sequence of such statements.                             *)
LEMMA SellPlanIs ==
  ASSUME NEW pairs, pairs \subseteq Lines \X Units, IsFiniteSet(pairs)
  PROVE  SellPlan(pairs) \in Seq(SaleStatements)
<1> DEFINE seq == SetToSeq(pairs)
           f == [n \in DOMAIN seq |-> IF Saleable(seq[n][2])
                         THEN <<SetUnit(seq[n][2], "sold"), OnPair("sale_out", seq[n][1], seq[n][2])>>
                         ELSE <<Fail>>]
<1>1. SellPlan(pairs) = FlattenSeq(f)
  BY DEF SellPlan, Concat
<1>2. Cardinality(pairs) \in Nat /\ seq \in [1..Cardinality(pairs) -> pairs]
  BY SetAsSequence
<1> HIDE DEF seq
<1>3. f \in [1..Cardinality(pairs) -> Seq(SaleStatements)]
  <2> SUFFICES ASSUME NEW n \in 1..Cardinality(pairs)
               PROVE  f[n] \in Seq(SaleStatements)
    BY <1>2
  <2>1. seq[n] \in pairs /\ seq[n][1] \in Lines /\ seq[n][2] \in Units
    BY <1>2
  <2>2. SetUnit(seq[n][2], "sold") \in SaleStatements /\ OnPair("sale_out", seq[n][1], seq[n][2]) \in SaleStatements
    BY <2>1, SaleStatementsAre DEF Held
  <2> QED BY <1>2, <2>2, SaleStatementsAre
<1> QED BY <1>1, <1>2, <1>3, FlattenedIs

(* Lines can be put in the order of their positions, so LinesInOrder is such  *)
(* an order.                                                                  *)
LEMMA SortedIs ==
  ASSUME NEW n \in Nat, NEW T, T \subseteq Lines, IsFiniteSet(T), Cardinality(T) = n
  PROVE  \E seq \in SetToSeqs(T) :
           \A a, b \in DOMAIN seq : a < b => Position[seq[a]] <= Position[seq[b]]
<1> DEFINE Sorted(seq, U) ==
             seq \in SetToSeqs(U) /\ \A a, b \in DOMAIN seq : a < b => Position[seq[a]] <= Position[seq[b]]
           Bad == {k \in Nat : \E U : /\ U \subseteq Lines /\ IsFiniteSet(U) /\ Cardinality(U) = k
                                      /\ ~ \E seq : Sorted(seq, U)}
<1>1. Bad = {}
  <2> SUFFICES ASSUME Bad # {} PROVE FALSE
    OBVIOUS
  <2>1. PICK k \in Bad : \A y \in Bad : k <= y
    <3>1. Bad \subseteq Nat
      OBVIOUS
    <3> HIDE DEF Bad
    <3> QED BY <3>1, LeastNumber
  <2>2. PICK U : U \subseteq Lines /\ IsFiniteSet(U) /\ Cardinality(U) = k /\ ~ \E seq : Sorted(seq, U)
    BY <2>1
  <2>3. U # {}
    <3> SUFFICES ASSUME U = {} PROVE FALSE
      OBVIOUS
    <3>1. Cardinality(U) = 0
      BY FS_EmptySet
    <3>2. Sorted(<<>>, U)
      BY <3>1 DEF SetToSeqs
    <3> QED BY <2>2, <3>2
  <2>4. PICK l \in U : \A m \in U : Position[l] <= Position[m]
    <3> DEFINE P == {Position[m] : m \in U}
    <3>1. P \subseteq Nat /\ P # {}
      BY <2>2, <2>3, RequestsAssumption
    <3>2. PICK x \in P : \A y \in P : x <= y
      <4> HIDE DEF P
      <4> QED BY <3>1, LeastNumber
    <3> QED BY <3>2
  <2>5. IsFiniteSet(U \ {l}) /\ Cardinality(U \ {l}) = k - 1
    BY <2>2, <2>4, FS_RemoveElement
  <2>6. k \in Nat /\ k # 0
    BY <2>1, <2>2, <2>3, FS_EmptySet
  <2>7. PICK seq : Sorted(seq, U \ {l})
    <3>1. k - 1 \notin Bad
      <4> HIDE DEF Bad
      <4> QED BY <2>1, <2>6
    <3>2. U \ {l} \subseteq Lines
      BY <2>2
    <3> HIDE DEF Sorted
    <3> QED BY <2>5, <2>6, <3>1, <3>2
  <2> DEFINE longer == [i \in 1..k |-> IF i = 1 THEN l ELSE seq[i - 1]]
  <2>8. /\ seq \in [1..(k - 1) -> U \ {l}]
        /\ \A i, j \in 1..(k - 1) : i # j => seq[i] # seq[j]
        /\ \A i, j \in 1..(k - 1) : i < j => Position[seq[i]] <= Position[seq[j]]
    BY <2>5, <2>7 DEF SetToSeqs
  <2>9. /\ longer \in [1..k -> U]
        /\ \A i, j \in 1..k : i # j => longer[i] # longer[j]
        /\ \A i, j \in 1..k : i < j => Position[longer[i]] <= Position[longer[j]]
    <3>1. \A i \in 1..k : i # 1 => i - 1 \in 1..(k - 1)
      BY <2>6
    <3>2. \A i \in 1..k : longer[i] = IF i = 1 THEN l ELSE seq[i - 1]
      OBVIOUS
    <3>3. \A i \in 1..k : i # 1 => longer[i] \in U \ {l}
      BY <2>8, <3>1, <3>2
    <3>4. longer \in [1..k -> U]
      BY <2>4, <3>2, <3>3
    <3>5. ASSUME NEW i \in 1..k, NEW j \in 1..k, i < j
          PROVE  longer[i] # longer[j] /\ Position[longer[i]] <= Position[longer[j]]
      <4>1. j # 1 /\ j - 1 \in 1..(k - 1) /\ longer[j] = seq[j - 1]
        BY <2>6, <3>1, <3>2, <3>5
      <4>2. CASE i = 1
        <5>1. longer[i] = l /\ longer[j] \in U \ {l}
          BY <3>2, <3>3, <4>1, <4>2
        <5> QED BY <2>4, <5>1
      <4>3. CASE i # 1
        <5>1. i - 1 \in 1..(k - 1) /\ longer[i] = seq[i - 1] /\ i - 1 < j - 1
          BY <2>6, <3>1, <3>2, <3>5, <4>3
        <5> QED BY <2>8, <4>1, <5>1
      <4> QED BY <4>2, <4>3
    <3>6. ASSUME NEW i \in 1..k, NEW j \in 1..k, i # j
          PROVE  longer[i] # longer[j]
      <4>1. i < j \/ j < i
        BY <2>6, <3>6
      <4> QED BY <3>5, <4>1
    <3> QED BY <3>4, <3>5, <3>6
  <2>10. Sorted(longer, U)
    <3> HIDE DEF longer
    <3> QED BY <2>2, <2>6, <2>9 DEF SetToSeqs
  <2> QED BY <2>2, <2>10
<1>2. n \notin Bad
  BY <1>1
<1>3. \E seq : Sorted(seq, T)
  BY <1>2
<1> QED BY <1>3

LEMMA LinesInOrderIs ==
  ASSUME NEW i, lines \subseteq Lines
  PROVE  /\ Cardinality(LinesOf(i)) \in Nat
         /\ LinesInOrder(i) \in [1..Cardinality(LinesOf(i)) -> LinesOf(i)]
<1>1. LinesOf(i) \subseteq Lines /\ IsFiniteSet(LinesOf(i)) /\ Cardinality(LinesOf(i)) \in Nat
  BY ConstantsAssumption, FS_Subset, FS_CardinalityType DEF LinesOf
<1>2. LinesInOrder(i) \in SetToSeqs(LinesOf(i))
  <2>1. \E seq \in SetToSeqs(LinesOf(i)) :
           \A a, b \in DOMAIN seq : a < b => Position[seq[a]] <= Position[seq[b]]
    BY <1>1, SortedIs
  <2> QED BY <2>1 DEF LinesInOrder
<1>3. LinesInOrder(i) \in [1..Cardinality(LinesOf(i)) -> LinesOf(i)]
  BY <1>2 DEF SetToSeqs
<1> QED BY <1>1, <1>3

(* Rows are finitely many, so a set of them can be listed.                    *)
LEMMA RowsAreFinite ==
  ASSUME rows \subseteq Lines \X Units
  PROVE  \A pairs : pairs \subseteq rows => pairs \subseteq Lines \X Units /\ IsFiniteSet(pairs)
<1>1. IsFiniteSet(Lines \X Units)
  BY ConstantsAssumption, FS_Product
<1> QED BY <1>1, FS_Subset

LEMMA IssuePlanIs ==
  ASSUME lines \subseteq Lines, rows \subseteq Lines \X Units, NEW i
  PROVE  IssuePlan(i) \in Seq(SaleStatements)
<1> DEFINE seq == LinesInOrder(i)
           f == [n \in DOMAIN seq |-> IF Complete(seq[n]) THEN SellPlan(RowsOfLine(seq[n])) ELSE <<Fail>>]
<1>1. IssuePlan(i) = FlattenSeq(f)
  BY DEF IssuePlan, Concat
<1>2. PICK n \in Nat : DOMAIN seq = 1..n
  <2>1. Cardinality(LinesOf(i)) \in Nat /\ seq \in [1..Cardinality(LinesOf(i)) -> LinesOf(i)]
    BY LinesInOrderIs
  <2> QED BY <2>1
<1> HIDE DEF seq
<1>3. f \in [1..n -> Seq(SaleStatements)]
  <2> SUFFICES ASSUME NEW m \in 1..n
               PROVE  f[m] \in Seq(SaleStatements)
    BY <1>2
  <2>1. RowsOfLine(seq[m]) \subseteq rows
    BY DEF RowsOfLine
  <2>2. SellPlan(RowsOfLine(seq[m])) \in Seq(SaleStatements)
    BY <2>1, RowsAreFinite, SellPlanIs
  <2> QED BY <1>2, <2>2, SaleStatementsAre
<1> QED BY <1>1, <1>2, <1>3, FlattenedIs

(* A release touches one unit at most.                                        *)
LEMMA ReleaseIs ==
  ASSUME NEW r, r[2] \in Units
  PROVE  Release(r) \in Seq(SaleStatements)
<1>1. SetUnit(r[2], "in_stock") \in SaleStatements
  BY SaleStatementsAre DEF Held
<1> QED BY <1>1 DEF Release

LEMMA ReleasePlanIs ==
  ASSUME rows \subseteq Lines \X Units, NEW pairs, pairs \subseteq rows
  PROVE  ReleasePlan(pairs) \in Seq(SaleStatements)
<1> DEFINE seq == SetToSeq(pairs)
           f == [n \in DOMAIN seq |-> Release(seq[n])]
<1>1. ReleasePlan(pairs) = FlattenSeq(f)
  BY DEF ReleasePlan, Concat
<1>2. Cardinality(pairs) \in Nat /\ seq \in [1..Cardinality(pairs) -> pairs]
  BY RowsAreFinite, SetAsSequence
<1> HIDE DEF seq
<1>3. f \in [1..Cardinality(pairs) -> Seq(SaleStatements)]
  <2> SUFFICES ASSUME NEW n \in 1..Cardinality(pairs)
               PROVE  f[n] \in Seq(SaleStatements)
    BY <1>2
  <2>1. seq[n][2] \in Units
    BY <1>2
  <2> QED BY <1>2, <2>1, ReleaseIs
<1> QED BY <1>1, <1>2, <1>3, FlattenedIs

LEMMA ReturnPlanIs ==
  ASSUME rows \subseteq Lines \X Units, NEW i
  PROVE  ReturnPlan(i) \in Seq(SaleStatements)
<1> DEFINE pairs == RowsOfInvoice(i)
           seq == SetToSeq(pairs)
           f == [n \in DOMAIN seq |->
                   IF status[seq[n][2]] = "sold"
                   THEN <<SetUnit(seq[n][2], "in_stock"), OnPair("sale_in", seq[n][1], seq[n][2])>>
                   ELSE Release(seq[n])]
<1>1. ReturnPlan(i) = FlattenSeq(f)
  BY DEF ReturnPlan, Concat
<1>2. pairs \subseteq rows
  BY DEF RowsOfInvoice
<1>3. Cardinality(pairs) \in Nat /\ seq \in [1..Cardinality(pairs) -> pairs]
  <2> HIDE DEF pairs
  <2> QED BY <1>2, RowsAreFinite, SetAsSequence
<1> HIDE DEF seq, pairs
<1>4. f \in [1..Cardinality(pairs) -> Seq(SaleStatements)]
  <2> SUFFICES ASSUME NEW n \in 1..Cardinality(pairs)
               PROVE  f[n] \in Seq(SaleStatements)
    BY <1>3
  <2>1. seq[n] \in pairs /\ seq[n][1] \in Lines /\ seq[n][2] \in Units
    BY <1>2, <1>3
  <2>2. Release(seq[n]) \in Seq(SaleStatements)
    BY <2>1, ReleaseIs
  <2>3. SetUnit(seq[n][2], "in_stock") \in SaleStatements /\ OnPair("sale_in", seq[n][1], seq[n][2]) \in SaleStatements
    BY <2>1, SaleStatementsAre DEF Held
  <2> QED BY <1>3, <2>2, <2>3
<1> QED BY <1>1, <1>3, <1>4, FlattenedIs

-----------------------------------------------------------------------------
(* What a request names, by its kind.                                         *)
LEMMA RequestsAre ==
  ASSUME load \in Loads, NEW req \in Requests(load.units, load.lines, load.most, load.spentLines)
  PROVE  /\ req[1] \in {"status", "patch_invoice", "delete_invoice"} => req[2] \in Invoices
         /\ req[1] = "status" => req[3] \in {"issued", "cancelled"}
         /\ req[1] \in {"add_serial", "drop_serial", "swap_serial", "quantity", "delete_line"} => req[2] \in Lines
         /\ req[1] \in {"add_serial", "drop_serial", "swap_serial"} => req[3] \in Units
         /\ req[1] = "swap_serial" => req[4] \in Units
         /\ req[1] = "quantity" => req[3] \in Nat
         /\ req[1] = "edit_spent" => /\ req[2] \in Spents /\ req[3] \subseteq SpentLines
                                     /\ req[4] \subseteq SpentLines \X Units
         /\ req[1] \in {"buy_serial", "return_serial", "delete_spent_line"} => req[2] \in SpentLines
         /\ req[1] \in {"buy_serial", "return_serial"} => req[3] \in Units
         /\ req[1] \in {"cancel_spent", "delete_spent"} => req[2] \in Spents
<1>1. load.units \subseteq Units /\ load.lines \subseteq Lines /\ load.spentLines \subseteq SpentLines /\ load.most \in Nat
  BY RequestsAssumption, ConstantsAssumption DEF Quantities
<1>2. \/ req \in {"status"} \X Invoices \X {"issued", "cancelled"}
      \/ req \in {"patch_invoice", "delete_invoice"} \X Invoices
      \/ req \in {"add_serial", "drop_serial"} \X load.lines \X load.units
      \/ req \in {"swap_serial"} \X load.lines \X load.units \X load.units
      \/ req \in {"quantity"} \X load.lines \X (0..load.most)
      \/ req \in {"delete_line"} \X load.lines
      \/ req \in {"buy_serial", "return_serial"} \X load.spentLines \X load.units
      \/ req \in {"cancel_spent", "delete_spent"} \X Spents
      \/ req \in {"edit_spent"} \X Spents \X (SUBSET load.spentLines) \X (SUBSET (load.spentLines \X load.units))
      \/ req \in {"delete_spent_line"} \X load.spentLines
  BY DEF Requests
<1>3. CASE req \in {"status"} \X Invoices \X {"issued", "cancelled"}
  BY <1>3
<1>4. CASE req \in {"patch_invoice", "delete_invoice"} \X Invoices
  BY <1>4
<1>5. CASE req \in {"add_serial", "drop_serial"} \X load.lines \X load.units
  BY <1>1, <1>5
<1>6. CASE req \in {"swap_serial"} \X load.lines \X load.units \X load.units
  BY <1>1, <1>6
<1>7. CASE req \in {"quantity"} \X load.lines \X (0..load.most)
  BY <1>1, <1>7
<1>8. CASE req \in {"delete_line"} \X load.lines
  BY <1>1, <1>8
<1>9. CASE req \in {"buy_serial", "return_serial"} \X load.spentLines \X load.units
  BY <1>1, <1>9
<1>10. CASE req \in {"cancel_spent", "delete_spent"} \X Spents
  BY <1>10
<1>11. CASE req \in {"edit_spent"} \X Spents \X (SUBSET load.spentLines) \X (SUBSET (load.spentLines \X load.units))
  <2>1. req[1] = "edit_spent" /\ req[2] \in Spents /\ req[3] \subseteq load.spentLines
        /\ req[4] \subseteq load.spentLines \X load.units
    BY <1>11
  <2> QED BY <1>1, <2>1
<1>12. CASE req \in {"delete_spent_line"} \X load.spentLines
  BY <1>1, <1>12
<1> QED BY <1>2, <1>3, <1>4, <1>5, <1>6, <1>7, <1>8, <1>9, <1>10, <1>11, <1>12

(* No two workers edit spents.                                                *)
LEMMA OneEditor ==
  ASSUME Careful, load \in Loads, NEW v \in Workers, NEW w \in Workers,
         "edit_spent" \in load.kinds[v], "edit_spent" \in load.kinds[w]
  PROVE  v = w
<1> DEFINE E == Serving({"edit_spent"})
<1>1. E \subseteq Workers /\ v \in E /\ w \in E
  BY DEF Serving
<1>2. IsFiniteSet(E) /\ Cardinality(E) \in Nat /\ Cardinality(E) <= 1
  BY <1>1, RequestsAssumption, FS_Subset, FS_CardinalityType DEF Careful
<1> HIDE DEF E
<1>3. ASSUME v # w PROVE FALSE
  <2>1. Cardinality({v, w}) <= Cardinality(E)
    BY <1>1, <1>2, FS_Subset
  <2>2. Cardinality({v, w}) = 2
    <3>1. IsFiniteSet({v}) /\ Cardinality({v}) = 1
      BY FS_Singleton
    <3>2. {v, w} = {v} \cup {w} /\ w \notin {v}
      BY <1>3
    <3>3. Cardinality({v} \cup {w}) = 1 + 1
      BY <3>1, <3>2, FS_AddElement
    <3> QED BY <3>2, <3>3
  <2> QED BY <1>2, <2>1, <2>2
<1> QED BY <1>3

-----------------------------------------------------------------------------
(* Turning one job leaves the tables and the other jobs as they are.          *)
LEMMA TurnKeeps ==
  ASSUME SparedInv, NEW w \in Workers, NEW j, Careful => Turns(w, j), UNCHANGED <<vars, load>>
  PROVE  SparedInv'
<1>1. load' = load /\ (Careful' <=> Careful)
  BY DEF Careful, Serving
<1>2. UNCHANGED <<status, lines, rows, spent, spentLines, purchaseRows, purchaseMoves, purchaseNet>>
  BY DEF vars
<1> SUFFICES ASSUME Careful PROVE (UnitsAreBought /\ JobsKnow)'
  BY <1>1 DEF SparedInv
<1>3. UnitsAreBought'
  BY <1>2 DEF SparedInv, UnitsAreBought
<1>4. job' = [job EXCEPT ![w] = j] /\ job = [v \in Workers |-> job[v]]
  BY DEF SparedInv, Turns, JobsKnow
<1>5. ASSUME NEW v \in Workers PROVE job'[v] = IF v = w THEN j ELSE job[v]
  BY <1>4
<1>6. job' = [v \in Workers |-> job'[v]]
  BY <1>4
<1>7. ASSUME NEW v \in Workers PROVE Serves(v, job[v])'
  <2>1. CASE v = w
    <3>1. j = Idle \/ Serves(w, j)
      BY DEF Turns
    <3> QED BY <1>1, <1>5, <2>1, <3>1 DEF Serves, IsRequest, IsJob
  <2>2. CASE v # w
    <3>1. Serves(v, job[v])
      BY DEF SparedInv, JobsKnow
    <3> QED BY <1>1, <1>5, <2>2, <3>1 DEF Serves, IsRequest, IsJob
  <2> QED BY <2>1, <2>2
<1>8. ASSUME NEW v \in Workers, job'[v] # Idle
      PROVE  Knows(purchaseRows', spentLines', job'[v])
  BY <1>2, <1>5, <1>8 DEF SparedInv, JobsKnow, Turns
<1>9. JobsKnow'
  <2>1. \A v \in Workers : Serves(v, job[v])'
    BY <1>7
  <2> QED BY <1>6, <1>8, <2>1 DEF JobsKnow
<1> QED BY <1>3, <1>9

(* A job is its four fields.                                                  *)
LEMMA JobIs ==
  ASSUME NEW at, NEW req, NEW seen, NEW todo,
         NEW j \in [at : {at}, req : {req}, seen : {seen}, todo : {todo}]
  PROVE  j = [at |-> at, req |-> req, seen |-> seen, todo |-> todo]
  OBVIOUS

(* Changing fields of a job leaves the others.                                *)
LEMMA JobsChange ==
  ASSUME NEW j, IsJob(j), NEW at, NEW seen, NEW todo
  PROVE  /\ [j EXCEPT !.at = at, !.seen = seen]
              = [at |-> at, req |-> j.req, seen |-> seen, todo |-> j.todo]
         /\ [j EXCEPT !.at = at, !.todo = todo]
              = [at |-> at, req |-> j.req, seen |-> j.seen, todo |-> todo]
         /\ [j EXCEPT !.at = at, !.seen = seen, !.todo = todo]
              = [at |-> at, req |-> j.req, seen |-> seen, todo |-> todo]
         /\ [j EXCEPT !.todo = todo]
              = [at |-> j.at, req |-> j.req, seen |-> j.seen, todo |-> todo]
<1>1. j \in [at : {j.at}, req : {j.req}, seen : {j.seen}, todo : {j.todo}]
  BY DEF IsJob
<1> DEFINE a == [j EXCEPT !.at = at, !.seen = seen]
           b == [j EXCEPT !.at = at, !.todo = todo]
           c == [j EXCEPT !.at = at, !.seen = seen, !.todo = todo]
           d == [j EXCEPT !.todo = todo]
<1>2. a \in [at : {at}, req : {j.req}, seen : {seen}, todo : {j.todo}]
  BY <1>1
<1>3. b \in [at : {at}, req : {j.req}, seen : {j.seen}, todo : {todo}]
  BY <1>1
<1>4. c \in [at : {at}, req : {j.req}, seen : {seen}, todo : {todo}]
  BY <1>1
<1>5. d \in [at : {j.at}, req : {j.req}, seen : {j.seen}, todo : {todo}]
  BY <1>1
<1> HIDE DEF a, b, c, d
<1>6. /\ a = [at |-> at, req |-> j.req, seen |-> seen, todo |-> j.todo]
      /\ b = [at |-> at, req |-> j.req, seen |-> j.seen, todo |-> todo]
  BY <1>2, <1>3, JobIs
<1>7. /\ c = [at |-> at, req |-> j.req, seen |-> seen, todo |-> todo]
      /\ d = [at |-> j.at, req |-> j.req, seen |-> j.seen, todo |-> todo]
  BY <1>4, <1>5, JobIs
<1> QED BY <1>6, <1>7 DEF a, b, c, d

(* How the queries of a sale end.                                             *)
LEMMA SaleRequest ==
  ASSUME NEW w \in Workers, Selling(w)
  PROVE  /\ job = [v \in Workers |-> job[v]] /\ SaleKnows(job[w]) /\ IsRequest(w, job[w].req)
         /\ job[w].at # "idle" /\ IsJob(job[w]) /\ load \in Loads
         /\ lines \subseteq Lines /\ rows \subseteq Lines \X Units
  BY DEF Selling, Serves

LEMMA SaleBecomes ==
  ASSUME NEW w \in Workers, Selling(w),
         NEW at, NEW seen, NEW todo, BecomesJob(w, at, seen, todo),
         at # "idle", todo \in Seq(SaleStatements), at = "write" => todo # <<>>
  PROVE  \E j : SaleTurn(w, j)
<1> DEFINE j == [at |-> at, req |-> job[w].req, seen |-> seen, todo |-> todo]
<1>1. j.req = job[w].req /\ j.at = at /\ j.todo = todo /\ IsJob(j)
  BY DEF IsJob
<1> HIDE DEF j
<1>2. Serves(w, j) /\ SaleKnows(j)
  BY <1>1, SaleRequest DEF Serves, SaleKnows
<1> QED BY <1>1, <1>2 DEF SaleTurn, j, BecomesJob

LEMMA SaleTurns ==
  ASSUME NEW w \in Workers, Selling(w)
  PROVE  /\ Ends(w) => SaleTurn(w, Idle)
         /\ \A todo \in Seq(SaleStatements) : Writes(w, todo) => \E j : SaleTurn(w, j)
         /\ \A at, seen :
              at \notin {"idle", "write"} /\ Goes(w, at, seen) => \E j : SaleTurn(w, j)
<1>1. Ends(w) => SaleTurn(w, Idle)
  BY DEF Ends, SaleTurn
<1>2. ASSUME NEW todo \in Seq(SaleStatements), Writes(w, todo)
      PROVE  \E j : SaleTurn(w, j)
  <2>1. CASE todo = <<>>
    BY <1>2, <2>1 DEF Writes, SaleTurn
  <2>2. CASE todo # <<>>
    <3>1. job' = [job EXCEPT ![w] = [job[w] EXCEPT !.at = "write", !.seen = {}, !.todo = todo]]
      BY <1>2, <2>2, SaleRequest DEF Writes
    <3>2. [job[w] EXCEPT !.at = "write", !.seen = {}, !.todo = todo]
            = [at |-> "write", req |-> job[w].req, seen |-> {}, todo |-> todo]
      <4>1. job[w] \in [at : {job[w].at}, req : {job[w].req}, seen : {job[w].seen}, todo : {job[w].todo}]
        <5>1. IsJob(job[w])
          BY SaleRequest
        <5> QED BY <5>1 DEF IsJob
      <4>2. [job[w] EXCEPT !.at = "write", !.seen = {}, !.todo = todo]
              \in [at : {"write"}, req : {job[w].req}, seen : {{}}, todo : {todo}]
        BY <4>1
      <4> QED BY <4>2, JobIs
    <3>3. BecomesJob(w, "write", {}, todo)
      BY <3>1, <3>2 DEF BecomesJob
    <3> QED BY <2>2, <3>3, SaleBecomes
  <2> QED BY <2>1, <2>2
<1>3. ASSUME NEW at, NEW seen, at \notin {"idle", "write"}, Goes(w, at, seen)
      PROVE  \E j : SaleTurn(w, j)
  <2>1. job' = [job EXCEPT ![w] = [job[w] EXCEPT !.at = at, !.seen = seen]]
    BY <1>3, SaleRequest DEF Goes
  <2>2. [job[w] EXCEPT !.at = at, !.seen = seen]
          = [at |-> at, req |-> job[w].req, seen |-> seen, todo |-> job[w].todo]
    <3> DEFINE k == job[w]
    <3>1. IsJob(k)
      BY SaleRequest
    <3> HIDE DEF k
    <3>2. [k EXCEPT !.at = at, !.seen = seen] = [at |-> at, req |-> k.req, seen |-> seen, todo |-> k.todo]
      BY <3>1, JobsChange
    <3> QED BY <3>2 DEF k
  <2>3. BecomesJob(w, at, seen, job[w].todo)
    BY <2>1, <2>2 DEF BecomesJob
  <2>4. job[w].todo \in Seq(SaleStatements)
    BY SaleRequest DEF SaleKnows
  <2> QED BY <1>3, <2>3, <2>4, SaleBecomes
<1> QED BY <1>1, <1>2, <1>3

(* The queries of the sales, one by one.                                      *)
LEMMA ReadInvoiceTurns ==
  ASSUME NEW w \in Workers, Selling(w), ReadInvoice(w)
  PROVE  \E j : SaleTurn(w, j)
<1> DEFINE i == job[w].req[2]
<1>1. /\ IsRequest(w, job[w].req) /\ load \in Loads /\ lines \subseteq Lines /\ rows \subseteq Lines \X Units
      /\ job[w].req[1] \in {"status", "patch_invoice", "delete_invoice"}
  BY SaleRequest DEF ReadInvoice, Query
<1>2. i \in Invoices /\ (job[w].req[1] = "status" => job[w].req[3] \in {"issued", "cancelled"})
  BY <1>1, RequestsAre DEF IsRequest
<1>3. \A st \in InvoiceStatus : <<SetInvoice(i, st)>> \in Seq(SaleStatements)
  BY <1>2, SaleStatementsAre
<1>4. <<SetInvoice(i, "draft")>> \in Seq(SaleStatements)
  BY <1>3 DEF InvoiceStatus
<1>5. job[w].req[1] = "status" => <<SetInvoice(i, job[w].req[3])>> \in Seq(SaleStatements)
  BY <1>2, <1>3 DEF InvoiceStatus
<1>6. \/ Ends(w)
      \/ \E seen : Goes(w, "invoice_lines", seen)
      \/ \E todo \in Seq(SaleStatements) : Writes(w, todo)
  BY <1>4, <1>5 DEF ReadInvoice
<1>7. CASE \E seen : Goes(w, "invoice_lines", seen)
  BY <1>1, <1>7, SaleTurns
<1> QED BY <1>1, <1>6, <1>7, SaleTurns

LEMMA LoadInvoiceLinesTurns ==
  ASSUME NEW w \in Workers, Selling(w), LoadInvoiceLines(w)
  PROVE  \E j : SaleTurn(w, j)
<1> DEFINE i == job[w].req[2]
           st == job[w].req[3]
           moves == CASE st = "issued" -> IssuePlan(i)
                      [] st = "cancelled" /\ job[w].seen = "draft" -> ReleasePlan(RowsOfInvoice(i))
                      [] OTHER -> ReturnPlan(i)
           todo == IF job[w].req[1] = "status" THEN Append(moves, SetInvoice(i, st))
                   ELSE Append(ReleasePlan(RowsOfInvoice(i)), [op |-> "delete_invoice", invoice |-> i])
<1>1. /\ IsRequest(w, job[w].req) /\ load \in Loads /\ lines \subseteq Lines /\ rows \subseteq Lines \X Units
      /\ job[w].req[1] \in {"status", "delete_invoice"}
  BY SaleRequest DEF LoadInvoiceLines, Query
<1>2. i \in Invoices /\ (job[w].req[1] = "status" => st \in {"issued", "cancelled"})
  BY <1>1, RequestsAre DEF IsRequest
<1>3. lines \subseteq Lines /\ rows \subseteq Lines \X Units /\ RowsOfInvoice(i) \subseteq rows
  BY <1>1 DEF RowsOfInvoice
<1>4. /\ IssuePlan(i) \in Seq(SaleStatements) /\ ReturnPlan(i) \in Seq(SaleStatements)
      /\ ReleasePlan(RowsOfInvoice(i)) \in Seq(SaleStatements)
  BY <1>3, IssuePlanIs, ReturnPlanIs, ReleasePlanIs
<1>5. moves \in Seq(SaleStatements)
  BY <1>4
<1>6. job[w].req[1] = "status" => SetInvoice(i, st) \in SaleStatements
  BY <1>2, SaleStatementsAre DEF InvoiceStatus
<1>7. [op |-> "delete_invoice", invoice |-> i] \in SaleStatements
  BY <1>2, SaleStatementsAre
<1>8. Writes(w, todo)
  BY DEF LoadInvoiceLines
<1> HIDE DEF moves
<1>9. todo \in Seq(SaleStatements)
  BY <1>4, <1>5, <1>6, <1>7
<1> HIDE DEF todo
<1> QED BY <1>1, <1>8, <1>9, SaleTurns

LEMMA ReadLineTurns ==
  ASSUME NEW w \in Workers, Selling(w), ReadLine(w)
  PROVE  \E j : SaleTurn(w, j)
<1>1. /\ job[w].req[1] \in {"add_serial", "quantity", "delete_line"}
  BY SaleRequest DEF ReadLine, Query
<1>2. Ends(w) \/ \E at \in {"line_rows", "count"} : \E seen : Goes(w, at, seen)
  BY DEF ReadLine
<1>3. CASE \E at \in {"line_rows", "count"} : \E seen : Goes(w, at, seen)
  BY <1>1, <1>3, SaleTurns
<1> QED BY <1>1, <1>2, <1>3, SaleTurns

LEMMA LoadLineRowsTurns ==
  ASSUME NEW w \in Workers, Selling(w), LoadLineRows(w)
  PROVE  \E j : SaleTurn(w, j)
<1> DEFINE l == job[w].req[2]
           todo == Append(ReleasePlan(RowsOfLine(l)), OnLine("delete_line", l))
<1>1. /\ IsRequest(w, job[w].req) /\ load \in Loads /\ lines \subseteq Lines /\ rows \subseteq Lines \X Units
      /\ job[w].req[1] = "delete_line"
  BY SaleRequest DEF LoadLineRows, Query
<1>2. l \in Lines
  BY <1>1, RequestsAre DEF IsRequest
<1>3. rows \subseteq Lines \X Units /\ RowsOfLine(l) \subseteq rows
  BY <1>1 DEF RowsOfLine
<1>4. ReleasePlan(RowsOfLine(l)) \in Seq(SaleStatements) /\ OnLine("delete_line", l) \in SaleStatements
  BY <1>2, <1>3, ReleasePlanIs, SaleStatementsAre
<1>5. todo \in Seq(SaleStatements)
  BY <1>4
<1>6. Writes(w, todo)
  BY DEF LoadLineRows
<1> HIDE DEF todo
<1> QED BY <1>1, <1>5, <1>6, SaleTurns

LEMMA CountRowsTurns ==
  ASSUME NEW w \in Workers, Selling(w), CountRows(w)
  PROVE  \E j : SaleTurn(w, j)
<1> DEFINE l == job[w].req[2]
           row == OnPair("add_row", l, job[w].req[3])
           change == [op |-> "quantity", line |-> l, to |-> job[w].req[3]]
<1>1. /\ IsRequest(w, job[w].req) /\ load \in Loads
      /\ job[w].req[1] \in {"add_serial", "quantity"}
  BY SaleRequest DEF CountRows, Query
<1>2. job = [v \in Workers |-> job[v]] /\ IsJob(job[w])
  BY SaleRequest
<1>3. CASE job[w].req[1] = "add_serial"
  <2>1. l \in Lines /\ job[w].req[3] \in Units
    BY <1>1, <1>3, RequestsAre DEF IsRequest
  <2>2. <<row>> \in Seq(SaleStatements)
    BY <2>1, SaleStatementsAre
  <2> HIDE DEF row
  <2>3. \/ Ends(w)
        \/ job' = [job EXCEPT ![w].at = "unit", ![w].seen = {}, ![w].todo = <<row>>]
    BY <1>3 DEF CountRows, row
  <2>4. CASE job' = [job EXCEPT ![w].at = "unit", ![w].seen = {}, ![w].todo = <<row>>]
    <3>1. job' = [job EXCEPT ![w] = [job[w] EXCEPT !.at = "unit", !.seen = {}, !.todo = <<row>>]]
      BY <1>2, <2>4
    <3>2. job[w] \in [at : {job[w].at}, req : {job[w].req}, seen : {job[w].seen}, todo : {job[w].todo}]
      BY <1>2 DEF IsJob
    <3>3. [job[w] EXCEPT !.at = "unit", !.seen = {}, !.todo = <<row>>]
            \in [at : {"unit"}, req : {job[w].req}, seen : {{}}, todo : {<<row>>}]
      BY <3>2
    <3>4. BecomesJob(w, "unit", {}, <<row>>)
      BY <3>1, <3>3, JobIs DEF BecomesJob
    <3> HIDE DEF row
    <3> QED BY <1>1, <2>2, <3>4, SaleBecomes
  <2> QED BY <1>1, <2>3, <2>4, SaleTurns
<1>4. CASE job[w].req[1] = "quantity"
  <2>1. l \in Lines /\ job[w].req[3] \in Nat
    BY <1>1, <1>4, RequestsAre DEF IsRequest
  <2>2. <<change>> \in Seq(SaleStatements)
    BY <2>1, SaleStatementsAre
  <2>3. Ends(w) \/ Writes(w, <<change>>)
    BY <1>4 DEF CountRows
  <2> HIDE DEF change
  <2> QED BY <1>1, <2>2, <2>3, SaleTurns
<1> QED BY <1>1, <1>3, <1>4

LEMMA ReadRowTurns ==
  ASSUME NEW w \in Workers, Selling(w), ReadRow(w)
  PROVE  \E j : SaleTurn(w, j)
<1> DEFINE l == job[w].req[2]
           u == job[w].req[3]
           next == job[w].req[4]
           swap == [op |-> "swap_row", line |-> l, unit |-> u, next |-> next]
           dropped == Append(Release(<<l, u>>), OnPair("drop_row", l, u))
           swapped == Append(Release(<<l, u>>), swap)
<1>1. /\ IsRequest(w, job[w].req) /\ load \in Loads
      /\ job[w].req[1] \in {"swap_serial", "drop_serial"}
  BY SaleRequest DEF ReadRow, Query
<1>2. job = [v \in Workers |-> job[v]] /\ IsJob(job[w])
  BY SaleRequest
<1>3. l \in Lines /\ u \in Units /\ (job[w].req[1] = "swap_serial" => next \in Units)
  BY <1>1, RequestsAre DEF IsRequest
<1>4. Release(<<l, u>>) \in Seq(SaleStatements)
  BY <1>3, ReleaseIs
<1>5. OnPair("drop_row", l, u) \in SaleStatements /\ (job[w].req[1] = "swap_serial" => swap \in SaleStatements)
  BY <1>3, SaleStatementsAre
<1>6. \/ Ends(w)
      \/ job[w].req[1] = "drop_serial" /\ Writes(w, dropped)
      \/ job[w].req[1] = "swap_serial" /\ job' = [job EXCEPT ![w].at = "unit", ![w].todo = swapped]
  BY <1>1 DEF ReadRow
<1> HIDE DEF swap
<1>7. /\ dropped \in Seq(SaleStatements)
      /\ job[w].req[1] = "swap_serial" => swapped \in Seq(SaleStatements)
  BY <1>4, <1>5
<1> HIDE DEF dropped, swapped
<1>8. CASE job[w].req[1] = "swap_serial" /\ job' = [job EXCEPT ![w].at = "unit", ![w].todo = swapped]
  <2>1. job' = [job EXCEPT ![w] = [job[w] EXCEPT !.at = "unit", !.todo = swapped]]
    BY <1>2, <1>8
  <2>2. job[w] \in [at : {job[w].at}, req : {job[w].req}, seen : {job[w].seen}, todo : {job[w].todo}]
    BY <1>2 DEF IsJob
  <2>3. [job[w] EXCEPT !.at = "unit", !.todo = swapped]
            \in [at : {"unit"}, req : {job[w].req}, seen : {job[w].seen}, todo : {swapped}]
    BY <2>2
  <2>4. BecomesJob(w, "unit", job[w].seen, swapped)
    BY <2>1, <2>3, JobIs DEF BecomesJob
  <2> QED BY <1>1, <1>7, <1>8, <2>4, SaleBecomes
<1> QED BY <1>1, <1>6, <1>7, <1>8, SaleTurns

LEMMA ReadUnitTurns ==
  ASSUME NEW w \in Workers, Selling(w), ReadUnit(w)
  PROVE  \E j : SaleTurn(w, j)
<1> DEFINE req == job[w].req
           u == IF req[1] = "swap_serial" THEN req[4] ELSE req[3]
           todo == <<SetUnit(u, "reserved")>> \o job[w].todo
<1>1. /\ IsRequest(w, req) /\ load \in Loads
      /\ job[w].req[1] \in {"add_serial", "swap_serial"}
  BY SaleRequest DEF ReadUnit, Query
<1>2. u \in Units
  BY <1>1, RequestsAre DEF IsRequest
<1>3. SetUnit(u, "reserved") \in SaleStatements
  BY <1>2, SaleStatementsAre DEF Held
<1>4. job[w].todo \in Seq(SaleStatements)
  BY <1>1, SaleRequest DEF SaleKnows
<1>5. Ends(w) \/ Writes(w, todo)
  BY DEF ReadUnit
<1> HIDE DEF u
<1>6. todo \in Seq(SaleStatements)
  BY <1>3, <1>4
<1> HIDE DEF todo
<1> QED BY <1>1, <1>5, <1>6, SaleTurns

(* What a query may rely on.                                                  *)
LEMMA QueryIs ==
  ASSUME Careful, SparedInv, NEW w \in Workers, job[w].at # "idle"
  PROVE  /\ job[w] # Idle
         /\ IsRequest(w, job[w].req) /\ Knows(purchaseRows, spentLines, job[w])
         /\ UnitsAreBought /\ load \in Loads
  BY DEF SparedInv, JobsKnow, Serves, Idle

(* No request touches the purchases but the edit of a spent.                  *)
LEMMA KindsServed ==
  ASSUME Careful, load \in Loads, NEW w \in Workers, NEW req, IsRequest(w, req)
  PROVE  req[1] \notin {"buy_serial", "return_serial", "cancel_spent", "delete_spent", "delete_spent_line"}
  BY DEF Careful, Serving, IsRequest

(* Of the requests that meet one edit, the others sell.                       *)
LEMMA OthersSell ==
  ASSUME Careful, SparedInv, NEW w \in Workers, job[w].at # "idle", job[w].req[1] # "edit_spent"
  PROVE  /\ Selling(w)
         /\ \A j : SaleTurn(w, j) => Turns(w, j)
<1>1. job[w] # Idle /\ Knows(purchaseRows, spentLines, job[w]) /\ UnitsAreBought
  BY QueryIs
<1>2. Selling(w)
  BY <1>1 DEF SparedInv, JobsKnow, UnitsAreBought, Selling, Knows
<1>3. \A j : SaleTurn(w, j) => Turns(w, j)
  BY DEF SaleTurn, Turns, Knows
<1> QED BY <1>2, <1>3

LEMMA StartTurns ==
  ASSUME Careful, SparedInv, NEW w \in Workers,
         NEW req \in Requests(load.units, load.lines, load.most, load.spentLines), Start(w, req)
  PROVE  \E j : Turns(w, j)
<1> DEFINE seen == IF req[1] = "edit_spent" THEN req[3] \cap spentLines ELSE {}
           j == [at |-> FirstQuery(req[1]), req |-> req, seen |-> seen, todo |-> <<>>]
<1>1. job = [v \in Workers |-> job[v]] /\ load \in Loads
  BY DEF SparedInv, JobsKnow
<1>2. req[1] \in load.kinds[w] /\ (req[1] = "edit_spent" => IsGraph(req[2], req[3], req[4]))
  BY DEF Start
<1>3. [Idle EXCEPT !.at = FirstQuery(req[1]), !.req = req, !.seen = seen] = j
  <2> DEFINE first == FirstQuery(req[1])
             k == [Idle EXCEPT !.at = first, !.req = req, !.seen = seen]
  <2> HIDE DEF seen, first
  <2>1. k \in [at : {first}, req : {req}, seen : {seen}, todo : {<<>>}]
    BY DEF Idle
  <2> HIDE DEF k
  <2>2. k = [at |-> first, req |-> req, seen |-> seen, todo |-> <<>>]
    BY <2>1, JobIs
  <2> QED BY <2>2 DEF k, first, seen
<1>4. job' = [job EXCEPT ![w] = j]
  BY <1>3 DEF Start
<1>5. req[1] \in AllKinds
  BY <1>1, <1>2, RequestsAssumption
<1>6. FirstQuery(req[1]) \notin {"idle", "write"} /\ FirstQuery("edit_spent") = "spent"
  BY <1>5 DEF FirstQuery, AllKinds
<1>7. j.at = FirstQuery(req[1]) /\ j.req = req /\ j.todo = <<>> /\ IsJob(j)
  BY DEF IsJob
<1> HIDE DEF j
<1>8. Serves(w, j)
  BY <1>2, <1>6, <1>7 DEF Serves, IsRequest
<1>9. Knows(purchaseRows, spentLines, j)
  <2>1. CASE req[1] = "edit_spent"
    BY <1>2, <1>6, <1>7, <2>1 DEF Knows, EditKnows
  <2>2. CASE req[1] # "edit_spent"
    BY <1>6, <1>7, <2>2 DEF Knows, SaleKnows
  <2> QED BY <2>1, <2>2
<1> QED BY <1>4, <1>8, <1>9 DEF Turns

(* The queries of the edit.                                                   *)
LEMMA EditTurns ==
  ASSUME Careful, SparedInv, NEW w \in Workers, job[w] # Idle, job[w].req[1] = "edit_spent",
         NEW at, NEW seen, NEW todo,
         LET j == [at |-> at, req |-> job[w].req, seen |-> seen, todo |-> todo] IN
           job' = [job EXCEPT ![w] = j] /\ at # "idle" /\ EditKnows(purchaseRows, spentLines, j)
  PROVE  \E j : Turns(w, j)
<1> DEFINE j == [at |-> at, req |-> job[w].req, seen |-> seen, todo |-> todo]
<1>1. j.req = job[w].req /\ j.at = at /\ IsJob(j)
  BY DEF IsJob
<1>2. IsRequest(w, job[w].req)
  BY DEF SparedInv, JobsKnow, Serves
<1>3. job' = [job EXCEPT ![w] = j] /\ EditKnows(purchaseRows, spentLines, j)
  OBVIOUS
<1> HIDE DEF j
<1>4. Serves(w, j) /\ Knows(purchaseRows, spentLines, j)
  BY <1>1, <1>2, <1>3 DEF Serves, Knows
<1> QED BY <1>3, <1>4 DEF Turns

LEMMA ReadSpentTurns ==
  ASSUME Careful, SparedInv, NEW w \in Workers, ReadSpent(w)
  PROVE  \E j : Turns(w, j)
<1> DEFINE s == job[w].req[2]
           seen == <<spent[s], job[w].seen>>
           j == [at |-> "graph_lines", req |-> job[w].req, seen |-> seen, todo |-> <<>>]
<1>1. /\ job[w] # Idle /\ IsRequest(w, job[w].req) /\ Knows(purchaseRows, spentLines, job[w])
      /\ UnitsAreBought /\ load \in Loads
      /\ job[w].at = "spent" /\ job[w].req[1] \in {"cancel_spent", "edit_spent", "delete_spent"}
  BY QueryIs DEF ReadSpent, Query
<1>2. job[w].req[1] = "edit_spent"
  BY <1>1, KindsServed
<1>3. job = [v \in Workers |-> job[v]] /\ IsJob(job[w])
  BY <1>1 DEF SparedInv, JobsKnow, Serves
<1>4. Ends(w) \/ (spent[s] # "absent" /\ Goes(w, "graph_lines", seen))
  BY <1>2 DEF ReadSpent
<1>5. EditKnows(purchaseRows, spentLines, job[w])
  BY <1>1, <1>2 DEF Knows
<1>6. job[w].todo = <<>> /\ IsGraph(job[w].req[2], job[w].req[3], job[w].req[4])
  BY <1>1, <1>5 DEF EditKnows
<1>7. CASE spent[s] # "absent" /\ Goes(w, "graph_lines", seen)
  <2>1. job' = [job EXCEPT ![w] = [job[w] EXCEPT !.at = "graph_lines", !.seen = seen]]
    BY <1>3, <1>7 DEF Goes
  <2> HIDE DEF seen
  <2>2. job[w] \in [at : {job[w].at}, req : {job[w].req}, seen : {job[w].seen}, todo : {<<>>}]
    BY <1>3, <1>6 DEF IsJob
  <2>3. [job[w] EXCEPT !.at = "graph_lines", !.seen = seen]
          \in [at : {"graph_lines"}, req : {job[w].req}, seen : {seen}, todo : {<<>>}]
    BY <2>2
  <2>4. job' = [job EXCEPT ![w] = j]
    BY <2>1, <2>3, JobIs
  <2>5. s \in Spents
    BY <1>1, <1>2, RequestsAre DEF IsRequest
  <2>6. seen[1] \in {"open", "cancelled"}
    BY <1>1, <1>7, <2>5 DEF UnitsAreBought, SpentStatus, seen
  <2>7. j.req = job[w].req /\ j.at = "graph_lines" /\ j.seen = seen /\ j.todo = <<>>
    OBVIOUS
  <2>8. EditKnows(purchaseRows, spentLines, j)
    <3> HIDE DEF j
    <3> QED BY <1>6, <2>6, <2>7 DEF EditKnows
  <2> QED BY <1>1, <1>2, <2>4, <2>8, EditTurns
<1>8. CASE Ends(w)
  BY <1>8 DEF Ends, Turns
<1> QED BY <1>4, <1>7, <1>8

(* What updateSpentGraph will write is decided here, on the rows of this      *)
(* moment.                                                                    *)
LEMMA LoadGraphTurns ==
  ASSUME Careful, SparedInv, NEW w \in Workers, LoadGraph(w)
  PROVE  \E j : Turns(w, j)
<1> DEFINE s == job[w].req[2]
           ls == job[w].req[3]
           pairs == job[w].req[4]
           old == {r \in purchaseRows : SpentOf[r[1]] = s}
           live == job[w].seen[1] # "cancelled"
           out == {r \in old \ pairs : live \/ r[1] \notin ls}
           new == IF live THEN pairs \ old ELSE {}
           graph == [op |-> "save_graph", spent |-> s, to |-> job[w].seen[1],
                     lines |-> ls, dropped |-> SpentLinesOf(s) \ ls, out |-> out, new |-> new]
           j == [at |-> "graph_units", req |-> job[w].req, seen |-> {}, todo |-> <<graph>>]
<1>1. /\ job[w] # Idle /\ IsRequest(w, job[w].req) /\ Knows(purchaseRows, spentLines, job[w])
      /\ UnitsAreBought /\ load \in Loads
      /\ job[w].at = "graph_lines" /\ job[w].req[1] = "edit_spent"
  BY QueryIs DEF LoadGraph, Query
<1>2. job = [v \in Workers |-> job[v]] /\ IsJob(job[w])
  BY <1>1 DEF SparedInv, JobsKnow, Serves
<1>3. s \in Spents /\ ls \subseteq SpentLines /\ pairs \subseteq SpentLines \X Units
  BY <1>1, RequestsAre DEF IsRequest
<1>4. EditKnows(purchaseRows, spentLines, job[w])
  BY <1>1 DEF Knows
<1>5. IsGraph(s, ls, pairs) /\ job[w].seen[1] \in {"open", "cancelled"}
  BY <1>1, <1>4 DEF EditKnows
<1>6. Ends(w) \/ job' = [job EXCEPT ![w].at = "graph_units", ![w].seen = {}, ![w].todo = <<graph>>]
  BY DEF LoadGraph
<1>7. Graph(purchaseRows, spentLines, graph)
  <2>1. graph.spent = s /\ graph.to = job[w].seen[1] /\ graph.lines = ls
        /\ graph.dropped = SpentLinesOf(s) \ ls /\ graph.out = out /\ graph.new = new
        /\ graph = [op |-> "save_graph", spent |-> graph.spent, to |-> graph.to, lines |-> graph.lines,
                    dropped |-> graph.dropped, out |-> graph.out, new |-> graph.new]
    OBVIOUS
  <2>2. /\ SpentLinesOf(s) \ ls \subseteq spentLines /\ \A k \in ls : SpentOf[k] = s
        /\ out \subseteq purchaseRows
    BY <1>5 DEF SpentLinesOf, IsGraph
  <2>3. ASSUME NEW r \in out PROVE r[1] \in ls \cup (SpentLinesOf(s) \ ls)
    BY <1>1 DEF SpentLinesOf, UnitsAreBought
  <2>4. ASSUME NEW r \in purchaseRows, r[1] \in SpentLinesOf(s) \ ls PROVE r \in out
    <3>1. SpentOf[r[1]] = s /\ r[1] \notin ls
      BY <2>4 DEF SpentLinesOf
    <3>2. r \notin pairs
      BY <1>5, <3>1 DEF IsGraph
    <3> QED BY <3>1, <3>2
  <2>5. new \subseteq ls \X Units /\ \A p, q \in new : p[2] = q[2] => p = q
    <3>1. new \subseteq pairs
      OBVIOUS
    <3>2. pairs \subseteq ls \X Units
      BY <1>3, <1>5 DEF IsGraph
    <3> QED BY <1>5, <3>1, <3>2 DEF IsGraph
  <2> HIDE DEF graph, out, new
  <2> QED BY <1>3, <1>5, <2>1, <2>2, <2>3, <2>4, <2>5 DEF Graph
<1> HIDE DEF graph
<1>8. CASE job' = [job EXCEPT ![w].at = "graph_units", ![w].seen = {}, ![w].todo = <<graph>>]
  <2>1. job' = [job EXCEPT ![w] = [job[w] EXCEPT !.at = "graph_units", !.seen = {}, !.todo = <<graph>>]]
    BY <1>2, <1>8
  <2>2. job[w] \in [at : {job[w].at}, req : {job[w].req}, seen : {job[w].seen}, todo : {job[w].todo}]
    BY <1>2 DEF IsJob
  <2>3. [job[w] EXCEPT !.at = "graph_units", !.seen = {}, !.todo = <<graph>>]
          \in [at : {"graph_units"}, req : {job[w].req}, seen : {{}}, todo : {<<graph>>}]
    BY <2>2
  <2>4. job' = [job EXCEPT ![w] = j]
    BY <2>1, <2>3, JobIs
  <2>5. j.req = job[w].req /\ j.at = "graph_units" /\ j.todo = <<graph>>
    OBVIOUS
  <2>6. EditKnows(purchaseRows, spentLines, j)
    <3> HIDE DEF j
    <3> QED BY <1>5, <1>7, <2>5 DEF EditKnows
  <2> QED BY <1>1, <2>4, <2>6, EditTurns
<1>9. CASE Ends(w)
  BY <1>9 DEF Ends, Turns
<1> QED BY <1>6, <1>8, <1>9

LEMMA CheckGraphUnitsTurns ==
  ASSUME Careful, SparedInv, NEW w \in Workers, CheckGraphUnits(w)
  PROVE  \E j : Turns(w, j)
<1>1. /\ job[w] # Idle /\ IsRequest(w, job[w].req) /\ Knows(purchaseRows, spentLines, job[w])
      /\ job[w].at = "graph_units" /\ job[w].req[1] = "edit_spent"
  BY QueryIs DEF CheckGraphUnits, Query
<1>2. job = [v \in Workers |-> job[v]] /\ IsJob(job[w])
  BY <1>1 DEF SparedInv, JobsKnow, Serves
<1>3. EditKnows(purchaseRows, spentLines, job[w])
  BY <1>1 DEF Knows
<1>4. IsGraph(job[w].req[2], job[w].req[3], job[w].req[4])
  BY <1>3 DEF EditKnows
<1>5. PICK x : job[w].todo = <<x>> /\ Graph(purchaseRows, spentLines, x)
  BY <1>1, <1>3 DEF EditKnows
<1>6. Ends(w) \/ Writes(w, <<x>>)
  BY <1>5 DEF CheckGraphUnits
<1>7. CASE Writes(w, <<x>>)
  <2> DEFINE j == [at |-> "write", req |-> job[w].req, seen |-> {}, todo |-> <<x>>]
  <2>1. job' = [job EXCEPT ![w] = [job[w] EXCEPT !.at = "write", !.seen = {}, !.todo = <<x>>]]
    BY <1>2, <1>7 DEF Writes
  <2>2. job[w] \in [at : {job[w].at}, req : {job[w].req}, seen : {job[w].seen}, todo : {job[w].todo}]
    BY <1>2 DEF IsJob
  <2>3. [job[w] EXCEPT !.at = "write", !.seen = {}, !.todo = <<x>>]
          \in [at : {"write"}, req : {job[w].req}, seen : {{}}, todo : {<<x>>}]
    BY <2>2
  <2>4. job' = [job EXCEPT ![w] = j]
    BY <2>1, <2>3, JobIs
  <2>5. j.req = job[w].req /\ j.at = "write" /\ j.todo = <<x>>
    OBVIOUS
  <2>6. EditKnows(purchaseRows, spentLines, j)
    <3> HIDE DEF j
    <3> QED BY <1>4, <1>5, <2>5 DEF EditKnows
  <2> QED BY <1>1, <2>4, <2>6, EditTurns
<1>8. CASE Ends(w)
  BY <1>8 DEF Ends, Turns
<1> QED BY <1>6, <1>7, <1>8

(* The other requests of the purchase side are not served.                    *)
LEMMA NotServed ==
  ASSUME Careful, SparedInv, NEW w \in Workers
  PROVE  ~(\/ LoadSpentRows(w) \/ ReadSpentLine(w) \/ ReadUnitExists(w) \/ LoadPurgeRows(w)
           \/ CheckSpentIdle(w) \/ ListSpentLines(w) \/ ReadSpentRow(w))
<1>1. ASSUME job[w].at # "idle"
      PROVE  job[w].req[1] \notin {"buy_serial", "return_serial", "cancel_spent", "delete_spent", "delete_spent_line"}
  BY <1>1, QueryIs, KindsServed
<1> QED BY <1>1 DEF LoadSpentRows, ReadSpentLine, ReadUnitExists, LoadPurgeRows, CheckSpentIdle,
                    ListSpentLines, ReadSpentRow, Query

(* No plan has a line to purge.                                               *)
LEMMA NoPurge ==
  ASSUME Careful, SparedInv, NEW w \in Workers
  PROVE  ~PurgeNextLine(w)
<1> SUFFICES ASSUME job[w].at = "write" PROVE Head(job[w].todo).op # "purge_line"
  BY DEF PurgeNextLine
<1>1. job[w] # Idle /\ Knows(purchaseRows, spentLines, job[w])
  BY QueryIs
<1>2. CASE job[w].req[1] = "edit_spent"
  <2>1. PICK x : job[w].todo = <<x>> /\ Graph(purchaseRows, spentLines, x)
    BY <1>1, <1>2 DEF Knows, EditKnows
  <2>2. x.op = "save_graph"
    BY <2>1 DEF Graph
  <2> QED BY <2>1, <2>2
<1>3. CASE job[w].req[1] # "edit_spent"
  <2>1. job[w].todo \in Seq(SaleStatements) /\ job[w].todo # <<>>
    BY <1>1, <1>3 DEF Knows, SaleKnows
  <2>2. Head(job[w].todo) \in SaleStatements
    BY <2>1
  <2>3. \A x \in SaleStatements : x.op # "purge_line"
    BY DEF SaleStatements, Fail, Nothing
  <2> QED BY <2>2, <2>3
<1> QED BY <1>2, <1>3

(* The fields of the statements of a sale.                                    *)
LEMMA SaleOperations ==
  ASSUME NEW x \in SaleStatements
  PROVE  /\ x.op \in {"unit", "sale_out", "sale_in", "add_row", "drop_row", "swap_row", "invoice",
                      "delete_invoice", "delete_line", "quantity", "fail", "nothing"}
         /\ x.op = "unit" => "unit" \in DOMAIN x /\ x.unit \in Units /\ x.to \in Held
         /\ x.op \in {"add_row", "drop_row", "swap_row"} =>
              "unit" \in DOMAIN x /\ x.line \in Lines /\ x.unit \in Units
         /\ x.op = "swap_row" => x.next \in Units
         /\ x.op = "fail" => x = Fail
<1>1. \/ x \in [op : {"unit"}, unit : Units, to : Held]
      \/ x \in [op : {"sale_out", "sale_in", "add_row", "drop_row"}, line : Lines, unit : Units]
      \/ x \in [op : {"swap_row"}, line : Lines, unit : Units, next : Units]
      \/ x \in [op : {"invoice"}, invoice : Invoices, to : InvoiceStatus]
      \/ x \in [op : {"delete_invoice"}, invoice : Invoices]
      \/ x \in [op : {"delete_line"}, line : Lines]
      \/ x \in [op : {"quantity"}, line : Lines, to : Nat]
      \/ x \in {Fail, Nothing}
  BY DEF SaleStatements
<1>2. CASE x \in [op : {"unit"}, unit : Units, to : Held]
  BY <1>2
<1>3. CASE x \in [op : {"sale_out", "sale_in", "add_row", "drop_row"}, line : Lines, unit : Units]
  BY <1>3
<1>4. CASE x \in [op : {"swap_row"}, line : Lines, unit : Units, next : Units]
  BY <1>4
<1>5. CASE x \in [op : {"invoice"}, invoice : Invoices, to : InvoiceStatus]
  BY <1>5
<1>6. CASE x \in [op : {"delete_invoice"}, invoice : Invoices]
  BY <1>6
<1>7. CASE x \in [op : {"delete_line"}, line : Lines]
  BY <1>7
<1>8. CASE x \in [op : {"quantity"}, line : Lines, to : Nat]
  BY <1>8
<1>9. CASE x \in {Fail, Nothing}
  BY <1>9 DEF Fail, Nothing
<1> QED BY <1>1, <1>2, <1>3, <1>4, <1>5, <1>6, <1>7, <1>8, <1>9

\* What the sales do to the tables leaves the purchases as they are.
LEMMA SalesSpare ==
  ASSUME UnitsAreBought, UNCHANGED <<spent, spentLines, purchaseRows, purchaseMoves, purchaseNet>>,
         status' \in [Units -> UnitStatus], \A u \in Units : status'[u] = "absent" <=> status[u] = "absent",
         lines' \subseteq Lines, rows' \subseteq Lines \X Units,
         \A r \in rows' : r \in rows \/ status[r[2]] # "absent"
  PROVE  UnitsAreBought'
<1>1. \A p \in purchaseRows : p[2] \in Units /\ status[p[2]] # "absent"
  BY DEF UnitsAreBought
<1>2. \A r \in rows' : r[2] \in Units /\ status[r[2]] # "absent"
  BY DEF UnitsAreBought
<1> QED BY <1>1, <1>2 DEF UnitsAreBought

(* A statement of a sale that the database accepts names units that exist.    *)
LEMMA SaleStatementKeeps ==
  ASSUME UnitsAreBought, NEW x \in SaleStatements, ~Refused(x), Statement(x)
  PROVE  UnitsAreBought' /\ purchaseRows' = purchaseRows /\ spentLines' = spentLines
<1> USE SaleOperations DEF purchaseVars, saleVars, vars, Statement, SaveStatus, SaveInvoice, DeleteSaleRows,
                           InsertSaleMove, SaveRows, SaveQuantity, InsertPurchaseMove, SaveBought, DeleteMoves,
                           SaveSpent, DeleteSpentLine, DeleteSpentRow, SaveGraph
<1>1. UNCHANGED <<spent, spentLines, purchaseRows, purchaseMoves, purchaseNet>>
  OBVIOUS
<1>2. CASE x.op = "unit"
  <2>1. status' = [status EXCEPT ![x.unit] = x.to] /\ lines' = lines /\ rows' = rows
    BY <1>2
  <2>2. status[x.unit] # "absent" /\ x.unit \in Units /\ x.to \in Held
    BY <1>2 DEF Refused, Missing, NoUnit
  <2>3. status' \in [Units -> UnitStatus] /\ \A u \in Units : status'[u] = "absent" <=> status[u] = "absent"
    BY <2>1, <2>2 DEF UnitsAreBought, Held, UnitStatus
  <2>4. lines' \subseteq Lines /\ rows' \subseteq Lines \X Units
    BY <2>1 DEF UnitsAreBought
  <2> QED BY <1>1, <2>1, <2>3, <2>4, SalesSpare
<1>3. CASE x.op # "unit"
  <2>1. status' = status
    BY <1>3
  <2>2. lines' \subseteq lines
    OBVIOUS
  <2>3. CASE x.op = "add_row"
    <3>1. rows' = rows \cup {<<x.line, x.unit>>}
      BY <2>3
    <3>2. status[x.unit] # "absent"
      BY <2>3 DEF Refused, Dangling, NoUnit
    <3>3. rows' \subseteq Lines \X Units /\ \A r \in rows' : r \in rows \/ status[r[2]] # "absent"
      BY <2>3, <3>1, <3>2 DEF UnitsAreBought
    <3> QED BY <1>1, <2>1, <2>2, <3>3, SalesSpare DEF UnitsAreBought
  <2>4. CASE x.op = "swap_row"
    <3>1. rows' = (rows \ {<<x.line, x.unit>>}) \cup {<<x.line, x.next>>}
      BY <2>4
    <3>2. status[x.next] # "absent"
      BY <2>4 DEF Refused, Dangling
    <3>3. rows' \subseteq Lines \X Units /\ \A r \in rows' : r \in rows \/ status[r[2]] # "absent"
      BY <2>4, <3>1, <3>2 DEF UnitsAreBought
    <3> QED BY <1>1, <2>1, <2>2, <3>3, SalesSpare DEF UnitsAreBought
  <2>5. CASE x.op \notin {"add_row", "swap_row"}
    <3>1. rows' \subseteq rows
      BY <2>5
    <3>2. lines' \subseteq Lines /\ rows' \subseteq Lines \X Units
      BY <2>2, <3>1 DEF UnitsAreBought
    <3> QED BY <1>1, <2>1, <3>1, <3>2, SalesSpare DEF UnitsAreBought
  <2> QED BY <2>3, <2>4, <2>5
<1> QED BY <1>1, <1>2, <1>3

(* Ids that change hands leave the plan of a sale one of a sale.              *)
LEMMA RenewSale ==
  ASSUME NEW todo \in Seq(SaleStatements), NEW units, NEW pairs, NEW bought
  PROVE  /\ Renew(todo, units, pairs, bought) \in Seq(SaleStatements)
         /\ todo # <<>> => Renew(todo, units, pairs, bought) # <<>>
<1> DEFINE f == [n \in DOMAIN todo |->
                   IF ~Outdated(todo[n], units, pairs, bought) THEN todo[n]
                   ELSE IF todo[n].op \in Deletes THEN Nothing ELSE Fail]
<1>1. todo # <<>> => Head(todo) \in SaleStatements
  OBVIOUS
<1>2. todo # <<>> => Head(todo).op \notin {"create_unit", "save_graph"}
  BY <1>1, SaleOperations
<1>3. Renew(todo, units, pairs, bought) = f
  BY <1>2 DEF Renew
<1>4. Len(todo) \in Nat /\ DOMAIN todo = 1..Len(todo)
  OBVIOUS
<1>5. ASSUME NEW n \in 1..Len(todo) PROVE f[n] \in SaleStatements
  <2>1. todo[n] \in SaleStatements
    OBVIOUS
  <2> QED BY <1>4, <2>1, SaleStatementsAre
<1>6. f \in [1..Len(todo) -> SaleStatements]
  BY <1>4, <1>5
<1>7. DOMAIN f = DOMAIN todo
  OBVIOUS
<1> HIDE DEF f
<1>8. f \in Seq(SaleStatements)
  BY <1>4, <1>6
<1>9. todo # <<>> => f # <<>>
  BY <1>4, <1>7
<1> QED BY <1>3, <1>8, <1>9

(* The graph that an edit holds names no id that changed hands.               *)
LEMMA RenewGraph ==
  ASSUME NEW P, NEW L, NEW x, Graph(P, L, x), NEW units, NEW pairs, NEW bought,
         \A r \in P : r \notin bought /\ r[2] \notin units
  PROVE  Renew(<<x>>, units, pairs, bought) = <<x>>
<1>1. x.op = "save_graph" /\ x.out \subseteq P
  BY DEF Graph
<1>2. {r \in x.out \ bought : r[2] \notin units} = x.out
  BY <1>1
<1>3. Head(<<x>>) = x /\ <<x>> # <<>>
  OBVIOUS
<1>4. Renew(<<x>>, units, pairs, bought) = <<[x EXCEPT !.out = {r \in @ \ bought : r[2] \notin units}]>>
  BY <1>1, <1>3 DEF Renew
<1>5. [x EXCEPT !.out = x.out] = x
  BY DEF Graph
<1> QED BY <1>2, <1>4, <1>5

(* Spents and lines that are added leave it true.                             *)
LEMMA GraphStands ==
  ASSUME NEW P, NEW L, NEW Q, NEW M, NEW x, Graph(P, L, x),
         P \subseteq Q, L \subseteq M, \A r \in Q \ P : r[1] \notin L
  PROVE  Graph(Q, M, x)
  BY DEF Graph

(* A request without a plan has none to renew.                                *)
LEMMA RenewNothing ==
  ASSUME NEW units, NEW pairs, NEW bought
  PROVE  Renew(<<>>, units, pairs, bought) = <<>>
  BY DEF Renew

\* A request keeps what it knows while another one changes the tables: an edit,
\* if no unit or row that it read is inserted again.
LEMMA RenewedJob ==
  ASSUME NEW v \in Workers, NEW P, NEW L, NEW Q, NEW M, NEW j,
         NEW units, NEW pairs, NEW bought,
         Serves(v, j), j # Idle => Knows(P, L, j),
         j # Idle /\ j.req[1] = "edit_spent" => Kept(P, L, Q, M, units, bought)
  PROVE  /\ Serves(v, Renewed(j, units, pairs, bought))
         /\ Renewed(j, units, pairs, bought) # Idle => Knows(Q, M, Renewed(j, units, pairs, bought))
<1> DEFINE todo == Renew(j.todo, units, pairs, bought)
           k == [at |-> j.at, req |-> j.req, seen |-> j.seen, todo |-> todo]
<1>1. IsJob(j)
  BY DEF Serves, IsJob, Idle
<1>2. Renewed(j, units, pairs, bought) = k
  <2> HIDE DEF todo
  <2>1. [j EXCEPT !.todo = todo] = k
    BY <1>1, JobsChange
  <2> QED BY <2>1 DEF Renewed, todo
<1>3. k.at = j.at /\ k.req = j.req /\ k.seen = j.seen /\ k.todo = todo /\ IsJob(k)
  BY DEF IsJob
<1>4. CASE j = Idle
  <2>1. todo = <<>>
    BY <1>4, RenewNothing DEF Idle
  <2>2. k = Idle
    BY <1>4, <2>1 DEF Idle
  <2> QED BY <1>2, <2>2 DEF Serves
<1>5. CASE j # Idle
  <2>1. Serves(v, k)
    <3> HIDE DEF k
    <3> QED BY <1>3, <1>5 DEF Serves, IsRequest
  <2>2. CASE j.req[1] # "edit_spent"
    <3>1. j.todo \in Seq(SaleStatements) /\ (j.at = "write" => j.todo # <<>>)
      BY <1>5, <2>2 DEF Knows, SaleKnows
    <3>2. todo \in Seq(SaleStatements) /\ (j.todo # <<>> => todo # <<>>)
      BY <3>1, RenewSale
    <3>3. Knows(Q, M, k)
      <4> HIDE DEF k, todo
      <4> QED BY <1>3, <2>2, <3>1, <3>2 DEF Knows, SaleKnows
    <3> QED BY <1>2, <2>1, <3>3
  <2>3. CASE j.req[1] = "edit_spent"
    <3>1. EditKnows(P, L, j)
      BY <1>5, <2>3 DEF Knows
    <3>2. CASE j.todo = <<>>
      <4>1. todo = <<>>
        BY <3>2, RenewNothing
      <4>2. EditKnows(Q, M, k)
        <5> HIDE DEF k, todo
        <5> QED BY <1>3, <3>1, <3>2, <4>1 DEF EditKnows
      <4> HIDE DEF k
      <4> QED BY <1>2, <1>3, <2>1, <2>3, <4>2 DEF Knows
    <3>3. CASE \E x : j.todo = <<x>> /\ Graph(P, L, x)
      <4>1. PICK x : j.todo = <<x>> /\ Graph(P, L, x)
        BY <3>3
      <4>2. \A r \in P : r \notin bought /\ r[2] \notin units
        BY <1>5, <2>3 DEF Kept
      <4>3. todo = <<x>>
        BY <4>1, <4>2, RenewGraph
      <4>4. Graph(Q, M, x)
        BY <1>5, <2>3, <4>1, GraphStands DEF Kept
      <4>5. j.at \in {"graph_units", "write"}
        BY <3>1, <4>1 DEF EditKnows
      <4>6. EditKnows(Q, M, k)
        <5> HIDE DEF k, todo
        <5> QED BY <1>3, <3>1, <4>3, <4>4, <4>5 DEF EditKnows
      <4> HIDE DEF k
      <4> QED BY <1>2, <1>3, <2>1, <2>3, <4>6 DEF Knows
    <3> QED BY <3>1, <3>2, <3>3 DEF EditKnows
  <2> QED BY <2>2, <2>3
<1> QED BY <1>4, <1>5

\* What one edit saves: its units leave the tables or enter them as a whole.
LEMMA SaveGraphKeeps ==
  ASSUME UnitsAreBought, NEW x, Graph(purchaseRows, spentLines, x), ~GraphRefused(x), SaveGraph(x)
  PROVE  UnitsAreBought'
<1> DEFINE P == purchaseRows
<1>1. /\ x.op = "save_graph" /\ x.spent \in Spents /\ x.to \in {"open", "cancelled"}
      /\ x.lines \subseteq SpentLines /\ \A k \in x.lines : SpentOf[k] = x.spent
      /\ x.dropped \subseteq spentLines /\ x.lines \cap x.dropped = {}
      /\ x.out \subseteq P /\ \A r \in x.out : r[1] \in x.lines \cup x.dropped
      /\ \A r \in P : r[1] \in x.dropped => r \in x.out
      /\ x.new \subseteq x.lines \X Units
      /\ \A p, q \in x.new : p[2] = q[2] => p = q
  BY DEF Graph
<1>2. /\ P \subseteq spentLines \X Units /\ purchaseMoves = P
      /\ \A p, q \in P : p[2] = q[2] => p = q
      /\ \A p \in P : status[p[2]] # "absent"
  BY DEF UnitsAreBought
<1>3. GraphUnits(x) = UnitsIn(x.out)
  BY <1>1, <1>2 DEF GraphUnits, UnitsIn
<1>4. GraphRows(x) = x.out
  BY <1>1 DEF GraphRows
<1>5. GraphMoves(x) = x.out
  <2>1. ASSUME NEW m \in P, m[2] \in Freed(x) PROVE m \in x.out
    BY <1>1, <1>2, <2>1 DEF Freed, UnitsIn
  <2>2. ASSUME NEW m \in x.out, m[1] \in x.lines PROVE m[2] \in Freed(x)
    BY <1>1, <1>2, <2>2 DEF Freed, UnitsIn
  <2> QED BY <1>1, <1>2, <2>1, <2>2 DEF GraphMoves
<1>6. /\ spent' = [spent EXCEPT ![x.spent] = x.to]
      /\ spentLines' = (spentLines \ x.dropped) \cup x.lines
      /\ purchaseRows' = (P \ x.out) \cup x.new
      /\ purchaseMoves' = (P \ x.out) \cup x.new
      /\ purchaseNet' = [u \in Units |-> IF u \in UnitsIn(x.new) THEN 1
                                         ELSE IF u \in UnitsIn(x.out) THEN 0 ELSE purchaseNet[u]]
      /\ status' = [u \in Units |-> IF u \in UnitsIn(x.new) THEN "in_stock"
                                    ELSE IF u \in UnitsIn(x.out) THEN "absent" ELSE status[u]]
      /\ lines' = lines /\ rows' = rows
  BY <1>2, <1>3, <1>4, <1>5 DEF SaveGraph, RegisterPairs
<1>7. /\ \A u \in UnitsIn(x.out) : \A r \in rows : r[2] # u
      /\ \A u \in UnitsIn(x.new) : status[u] = "absent" \/ u \in UnitsIn(x.out)
  BY <1>1, <1>3 DEF GraphRefused
<1>8. \A p \in P \ x.out : p[2] \in Units /\ p[2] \notin UnitsIn(x.out) /\ p[2] \notin UnitsIn(x.new)
  BY <1>1, <1>2, <1>7 DEF UnitsIn
<1>9. \A p \in x.new : p[2] \in Units /\ p[2] \in UnitsIn(x.new)
  BY <1>1 DEF UnitsIn
<1>10. /\ status' \in [Units -> UnitStatus] /\ lines' \subseteq Lines /\ rows' \subseteq Lines \X Units
       /\ spent' \in [Spents -> SpentStatus] /\ spentLines' \subseteq SpentLines
       /\ purchaseNet' \in [Units -> Int]
  BY <1>1, <1>6 DEF UnitsAreBought, UnitStatus, SpentStatus
<1>11. purchaseRows' \subseteq spentLines' \X Units /\ purchaseMoves' = purchaseRows'
  BY <1>1, <1>2, <1>6
<1>12. \A k \in spentLines' : spent'[SpentOf[k]] # "absent"
  BY <1>1, <1>6 DEF UnitsAreBought
<1>13. \A p, q \in purchaseRows' : p[2] = q[2] => p = q
  BY <1>1, <1>2, <1>6, <1>8, <1>9
<1>14. ASSUME NEW u \in Units, status'[u] # "absent"
       PROVE  purchaseNet'[u] = 1 /\ \E p \in purchaseRows' : p[2] = u
  <2>1. CASE u \in UnitsIn(x.new)
    BY <1>6, <2>1 DEF UnitsIn
  <2>2. CASE u \notin UnitsIn(x.new)
    <3>1. u \notin UnitsIn(x.out) /\ status[u] # "absent"
      BY <1>6, <1>14, <2>2
    <3>2. PICK p \in P : p[2] = u
      BY <3>1 DEF UnitsAreBought
    <3>3. p \notin x.out /\ purchaseNet[u] = 1
      BY <3>1, <3>2 DEF UnitsIn, UnitsAreBought
    <3> QED BY <1>6, <2>2, <3>1, <3>2, <3>3
  <2> QED BY <2>1, <2>2
<1>15. \A p \in purchaseRows' : status'[p[2]] # "absent"
  BY <1>2, <1>6, <1>8, <1>9
<1>16. \A r \in rows' : status'[r[2]] # "absent"
  <2>1. \A r \in rows : r[2] \in Units /\ status[r[2]] # "absent" /\ r[2] \notin UnitsIn(x.out)
    BY <1>7 DEF UnitsAreBought
  <2> QED BY <1>6, <2>1
<1> QED BY <1>10, <1>11, <1>12, <1>13, <1>14, <1>15, <1>16 DEF UnitsAreBought

LEMMA RestKeeps ==
  ASSUME SparedInv, Careful, load' = load, UnitsAreBought',
         NEW units, NEW pairs, NEW bought, NEW W, W \subseteq Workers,
         OthersRenew(W, units, pairs, bought),
         \A v \in W : Serves(v, job'[v]) /\ (job'[v] # Idle => Knows(purchaseRows', spentLines', job'[v])),
         \A v \in Workers \ W : job[v] # Idle /\ job[v].req[1] = "edit_spent" =>
           Kept(purchaseRows, spentLines, purchaseRows', spentLines', units, bought)
  PROVE  SparedInv'
<1>1. Careful' <=> Careful
  BY DEF Careful, Serving
<1>2. ASSUME NEW v \in Workers
      PROVE  Serves(v, job'[v]) /\ (job'[v] # Idle => Knows(purchaseRows', spentLines', job'[v]))
  <2>1. CASE v \notin W
    <3>1. Serves(v, job[v]) /\ (job[v] # Idle => Knows(purchaseRows, spentLines, job[v]))
      BY DEF SparedInv, JobsKnow
    <3>2. job'[v] = Renewed(job[v], units, pairs, bought)
      BY <2>1 DEF OthersRenew
    <3>3. job[v] # Idle /\ job[v].req[1] = "edit_spent" =>
            Kept(purchaseRows, spentLines, purchaseRows', spentLines', units, bought)
      BY <2>1
    <3> QED BY <3>1, <3>2, <3>3, RenewedJob
  <2> QED BY <2>1
<1>3. \A v \in Workers : Serves(v, job[v])'
  <2> SUFFICES ASSUME NEW v \in Workers PROVE Serves(v, job[v])'
    OBVIOUS
  <2>1. Serves(v, job'[v])
    BY <1>2
  <2> QED BY <2>1 DEF Serves, IsRequest, IsJob
<1>4. job' = [v \in Workers |-> job'[v]]
  BY DEF OthersRenew
<1>5. JobsKnow'
  BY <1>2, <1>3, <1>4 DEF JobsKnow
<1>6. load' \in Loads
  BY DEF SparedInv
<1> QED BY <1>5, <1>6 DEF SparedInv

(* One statement, with the jobs it leaves: of a sale, or the save of a graph. *)
LEMMA ExecuteKeeps ==
  ASSUME SparedInv, Careful, NEW w \in Workers, Execute(w)
  PROVE  SparedInv'
<1> DEFINE x == Head(job[w].todo)
           rest == Tail(job[w].todo)
           units == CASE x.op = "create_unit" -> {x.unit}
                      [] x.op = "save_graph" -> UnitsIn(x.new)
                      [] OTHER -> {}
           pairs == CASE x.op = "add_row" -> {<<x.line, x.unit>>}
                      [] x.op = "swap_row" -> {<<x.line, x.next>>}
                      [] OTHER -> {}
           bought == CASE x.op = "add_bought" -> {<<x.line, x.unit>>}
                       [] x.op = "save_graph" -> x.new
                       [] OTHER -> {}
<1>1. job[w].at = "write" /\ load' = load
  BY DEF Execute
<1>2. /\ job[w] # Idle /\ IsRequest(w, job[w].req) /\ Knows(purchaseRows, spentLines, job[w])
      /\ UnitsAreBought /\ load \in Loads
  BY <1>1, QueryIs
<1>3. job = [v \in Workers |-> job[v]] /\ Serves(w, job[w]) /\ IsJob(job[w])
  BY <1>2 DEF SparedInv, JobsKnow, Serves
<1>4. CASE Refused(x) /\ Ends(w) /\ UNCHANGED vars
  <2>1. Turns(w, Idle)
    BY <1>4 DEF Ends, Turns
  <2> QED BY <1>1, <1>4, <2>1, TurnKeeps
<1>5. CASE ~Refused(x) /\ Statement(x) /\ Continue(w, rest, units, pairs, bought)
  <2>1. job' = [v \in Workers |-> IF v # w THEN Renewed(job[v], units, pairs, bought)
                                  ELSE IF rest = <<>> THEN Idle ELSE [job[w] EXCEPT !.todo = rest]]
    <3> HIDE DEF units, pairs, bought, rest
    <3> QED BY <1>5 DEF Continue, Renewed
  <2>2. OthersRenew({w}, units, pairs, bought)
    <3> HIDE DEF units, pairs, bought, rest
    <3> QED BY <2>1 DEF OthersRenew
  <2>3. CASE job[w].req[1] # "edit_spent"
    <3>1. job[w].todo \in Seq(SaleStatements) /\ job[w].todo # <<>>
      BY <1>1, <1>2, <2>3 DEF Knows, SaleKnows
    <3>2. x \in SaleStatements /\ rest \in Seq(SaleStatements)
      BY <3>1
    <3>3. UnitsAreBought' /\ purchaseRows' = purchaseRows /\ spentLines' = spentLines
      <4> HIDE DEF x
      <4> QED BY <1>2, <1>5, <3>2, SaleStatementKeeps
    <3>4. units = {} /\ bought = {}
      <4> HIDE DEF x
      <4> QED BY <3>2, SaleOperations
    <3>5. Serves(w, job'[w]) /\ (job'[w] # Idle => Knows(purchaseRows', spentLines', job'[w]))
      <4>1. CASE rest = <<>>
        <5>1. job'[w] = Idle
          <6> HIDE DEF units, pairs, bought
          <6> QED BY <2>1, <4>1
        <5> QED BY <5>1 DEF Serves
      <4>2. CASE rest # <<>>
        <5> DEFINE k == [at |-> job[w].at, req |-> job[w].req, seen |-> job[w].seen, todo |-> rest]
        <5>1. job'[w] = k
          <6> HIDE DEF units, pairs, bought, rest
          <6>1. job'[w] = [job[w] EXCEPT !.todo = rest]
            BY <2>1, <4>2
          <6> QED BY <1>3, <6>1, JobsChange
        <5>2. k.at = job[w].at /\ k.req = job[w].req /\ k.todo = rest /\ IsJob(k)
          BY DEF IsJob
        <5> HIDE DEF k, rest
        <5> QED BY <1>1, <1>2, <2>3, <3>2, <4>2, <5>1, <5>2 DEF Serves, Knows, SaleKnows
      <4> QED BY <4>1, <4>2
    <3>6. Kept(purchaseRows, spentLines, purchaseRows', spentLines', units, bought)
      BY <3>3, <3>4 DEF Kept
    <3> HIDE DEF units, pairs, bought, rest, x
    <3> QED BY <1>1, <2>2, <3>3, <3>5, <3>6, RestKeeps
  <2>4. CASE job[w].req[1] = "edit_spent"
    <3>1. EditKnows(purchaseRows, spentLines, job[w])
      BY <1>2, <2>4 DEF Knows
    <3>2. PICK y : job[w].todo = <<y>> /\ Graph(purchaseRows, spentLines, y)
      BY <1>1, <3>1 DEF EditKnows
    <3>3. x = y /\ rest = <<>> /\ y.op = "save_graph"
      BY <3>2 DEF Graph
    <3>4. SaveGraph(x) /\ ~GraphRefused(x)
      BY <1>5, <3>3 DEF Statement, SaveStatus, SaveInvoice, DeleteSaleRows, InsertSaleMove, SaveRows,
                        SaveQuantity, InsertPurchaseMove, SaveBought, DeleteMoves, SaveSpent,
                        DeleteSpentLine, DeleteSpentRow, Refused
    <3>5. UnitsAreBought'
      BY <1>2, <3>2, <3>3, <3>4, SaveGraphKeeps
    <3>6. job'[w] = Idle
      <4> HIDE DEF units, pairs, bought, rest
      <4> QED BY <2>1, <3>3
    <3>7. Serves(w, job'[w])
      BY <3>6 DEF Serves
    <3>8. ASSUME NEW v \in Workers, v # w, job[v] # Idle PROVE job[v].req[1] # "edit_spent"
      <4>1. IsRequest(v, job[v].req)
        BY <3>8 DEF SparedInv, JobsKnow, Serves
      <4> QED BY <1>2, <2>4, <3>8, <4>1, OneEditor DEF IsRequest
    <3> HIDE DEF units, pairs, bought, rest, x
    <3> QED BY <1>1, <2>2, <3>5, <3>6, <3>7, <3>8, RestKeeps
  <2> QED BY <2>3, <2>4
<1> QED BY <1>4, <1>5 DEF Execute

(* Handlers that write once: the spent they create is new to every plan.      *)
LEMMA CreateKeeps ==
  ASSUME SparedInv, Careful, Create
  PROVE  SparedInv'
<1>1. UnitsAreBought /\ JobsKnow /\ load \in Loads
  BY DEF SparedInv
<1>2. ASSUME NEW units, Creates(units), UnitsAreBought',
             purchaseRows \subseteq purchaseRows', spentLines \subseteq spentLines',
             \A r \in purchaseRows' \ purchaseRows : r[1] \notin spentLines,
             \A r \in purchaseRows : r[2] \notin units
      PROVE  SparedInv'
  <2>1. load' = load /\ job' = [v \in Workers |-> Renewed(job[v], units, {}, {})]
    BY <1>2 DEF Creates, Renewed
  <2>2. OthersRenew({}, units, {}, {})
    BY <2>1 DEF OthersRenew
  <2>3. Kept(purchaseRows, spentLines, purchaseRows', spentLines', units, {})
    BY <1>2 DEF Kept
  <2> QED BY <1>2, <2>1, <2>2, <2>3, RestKeeps
<1>3. ASSUME NEW i \in Invoices, CreateInvoice(i, "draft"), Creates({}) PROVE SparedInv'
  <2>1. UNCHANGED <<status, lines, rows, spent, spentLines, purchaseRows, purchaseMoves, purchaseNet>>
    BY <1>3 DEF CreateInvoice, purchaseVars
  <2>2. UnitsAreBought'
    BY <1>1, <2>1 DEF UnitsAreBought
  <2> QED BY <1>2, <1>3, <2>1, <2>2
<1>4. ASSUME NEW l \in load.lines, NEW q \in 0..load.most, CreateInvoiceConcept(l, q), Creates({})
      PROVE  SparedInv'
  <2>1. /\ UNCHANGED <<status, rows, spent, spentLines, purchaseRows, purchaseMoves, purchaseNet>>
        /\ lines' = lines \cup {l}
    BY <1>4 DEF CreateInvoiceConcept, purchaseVars
  <2>2. l \in Lines
    BY <1>1, RequestsAssumption
  <2>3. UnitsAreBought'
    BY <1>1, <2>1, <2>2 DEF UnitsAreBought
  <2> QED BY <1>2, <1>4, <2>1, <2>3
<1>5. ASSUME NEW s \in Spents, NEW ls \in SUBSET load.spentLines,
             NEW new \in SUBSET (load.spentLines \X load.units),
             CreateSpent(s, "open", ls, new), Creates(UnitsIn(new))
      PROVE  SparedInv'
  <2>1. ls \subseteq SpentLines /\ new \subseteq SpentLines \X Units
    BY <1>1, RequestsAssumption
  <2>2. /\ spent[s] = "absent" /\ spent' = [spent EXCEPT ![s] = "open"] /\ spentLines' = spentLines \cup ls
        /\ \A u \in UnitsIn(new) : status[u] = "absent"
        /\ status' = [u \in Units |-> IF u \in UnitsIn(new) THEN "in_stock" ELSE status[u]]
        /\ purchaseNet' = [u \in Units |-> IF u \in UnitsIn(new) THEN 1 ELSE purchaseNet[u]]
        /\ purchaseRows' = purchaseRows \cup new /\ purchaseMoves' = purchaseMoves \cup new
        /\ lines' = lines /\ rows' = rows
        /\ IsGraph(s, ls, new)
    BY <1>5 DEF CreateSpent, RegisterPairs, saleVars
  <2>3. /\ \A k \in ls : SpentOf[k] = s
        /\ new \subseteq ls \X Units
        /\ \A p, q \in new : p[2] = q[2] => p = q
    BY <2>1, <2>2 DEF IsGraph
  <2>4. \A p \in new : p[2] \in UnitsIn(new)
    BY <2>3 DEF UnitsIn
  <2>5. \A p \in purchaseRows : p[2] \in Units /\ p[2] \notin UnitsIn(new)
    BY <1>1, <2>2 DEF UnitsAreBought
  <2>6. UnitsAreBought'
    <3>1. /\ status' \in [Units -> UnitStatus] /\ lines' \subseteq Lines /\ rows' \subseteq Lines \X Units
          /\ spent' \in [Spents -> SpentStatus] /\ spentLines' \subseteq SpentLines
          /\ purchaseRows' \subseteq spentLines' \X Units /\ purchaseMoves' = purchaseRows'
          /\ purchaseNet' \in [Units -> Int]
      BY <1>1, <2>1, <2>2, <2>3 DEF UnitsAreBought, UnitStatus, SpentStatus
    <3>2. \A k \in spentLines' : spent'[SpentOf[k]] # "absent"
      BY <1>1, <2>2, <2>3 DEF UnitsAreBought
    <3>3. \A p, q \in purchaseRows' : p[2] = q[2] => p = q
      BY <1>1, <2>2, <2>3, <2>4, <2>5 DEF UnitsAreBought
    <3>4. ASSUME NEW u \in Units, status'[u] # "absent"
          PROVE  purchaseNet'[u] = 1 /\ \E p \in purchaseRows' : p[2] = u
      <4>1. CASE u \in UnitsIn(new)
        BY <2>2, <4>1 DEF UnitsIn
      <4>2. CASE u \notin UnitsIn(new)
        BY <1>1, <2>2, <3>4, <4>2 DEF UnitsAreBought
      <4> QED BY <4>1, <4>2
    <3>5. \A p \in purchaseRows' : status'[p[2]] # "absent"
      BY <1>1, <2>2, <2>3, <2>4, <2>5 DEF UnitsAreBought
    <3>6. \A r \in rows' : status'[r[2]] # "absent"
      BY <1>1, <2>2 DEF UnitsAreBought
    <3> QED BY <3>1, <3>2, <3>3, <3>4, <3>5, <3>6 DEF UnitsAreBought
  <2>7. \A r \in purchaseRows' \ purchaseRows : r[1] \notin spentLines
    BY <1>1, <2>2, <2>3 DEF UnitsAreBought
  <2>8. purchaseRows \subseteq purchaseRows' /\ spentLines \subseteq spentLines'
    BY <2>2
  <2> QED BY <1>2, <1>5, <2>5, <2>6, <2>7, <2>8
<1>6. ASSUME NEW k \in load.spentLines, CreateSpentConcept(k), Creates({}) PROVE SparedInv'
  <2>1. /\ UNCHANGED <<status, lines, rows, spent, purchaseRows, purchaseMoves, purchaseNet>>
        /\ spentLines' = spentLines \cup {k} /\ spent[SpentOf[k]] # "absent"
    BY <1>6 DEF CreateSpentConcept, SpentExists, saleVars
  <2>2. k \in SpentLines
    BY <1>1, RequestsAssumption
  <2>3. UnitsAreBought'
    BY <1>1, <2>1, <2>2 DEF UnitsAreBought
  <2> QED BY <1>2, <1>6, <2>1, <2>3
<1> QED BY <1>3, <1>4, <1>5, <1>6 DEF Create

(* Nothing is sold or bought at first.                                        *)
LEMMA SparedInit == RequestsInit => SparedInv
<1> SUFFICES ASSUME RequestsInit PROVE SparedInv
  OBVIOUS
<1>1. load \in Loads /\ job = [w \in Workers |-> Idle]
  BY DEF RequestsInit
<1>2. UnitsAreBought
  BY DEF RequestsInit, Init, UnitsAreBought, UnitStatus, SpentStatus
<1>3. JobsKnow
  BY <1>1 DEF JobsKnow, Serves
<1> QED BY <1>1, <1>2, <1>3 DEF SparedInv

(* Every step of every request.                                               *)
LEMMA SparedNext == SparedInv /\ [RequestsNext]_requestVars => SparedInv'
<1> SUFFICES ASSUME SparedInv, [RequestsNext]_requestVars PROVE SparedInv'
  OBVIOUS
<1>1. CASE ~Careful
  <2>1. ASSUME NEW w \in Workers, Step(w) PROVE load' = load
    BY <2>1 DEF Step, Execute, ReadInvoice, LoadInvoiceLines, ReadLine, LoadLineRows, CountRows, ReadRow,
                ReadUnit, ReadSpent, LoadSpentRows, ReadSpentLine, ReadUnitExists, LoadPurgeRows,
                CheckSpentIdle, ListSpentLines, PurgeNextLine, LoadGraph, CheckGraphUnits, ReadSpentRow, Query
  <2>2. Create => load' = load
    BY DEF Create, Creates
  <2>3. load' = load
    BY <2>1, <2>2 DEF RequestsNext, Serve, Start, Crash, requestVars
  <2> QED BY <1>1, <2>3 DEF SparedInv, Careful, Serving
<1>2. CASE Careful
  <2>1. ASSUME NEW w \in Workers, \E j : Turns(w, j), UNCHANGED <<vars, load>> PROVE SparedInv'
    BY <2>1, TurnKeeps
  <2>2. ASSUME NEW w \in Workers,
               NEW req \in Requests(load.units, load.lines, load.most, load.spentLines), Start(w, req)
        PROVE  SparedInv'
    <3>1. UNCHANGED <<vars, load>>
      BY <2>2 DEF Start
    <3> QED BY <1>2, <2>1, <2>2, <3>1, StartTurns
  <2>3. ASSUME NEW w \in Workers, Step(w) PROVE SparedInv'
    <3>1. CASE Execute(w)
      BY <1>2, <3>1, ExecuteKeeps
    <3>2. CASE \/ ReadInvoice(w) \/ LoadInvoiceLines(w) \/ ReadLine(w) \/ LoadLineRows(w) \/ CountRows(w)
               \/ ReadRow(w) \/ ReadUnit(w) \/ ReadSpent(w) \/ LoadGraph(w) \/ CheckGraphUnits(w)
      <4>1. UNCHANGED <<vars, load>>
        BY <3>2 DEF ReadInvoice, LoadInvoiceLines, ReadLine, LoadLineRows, CountRows, ReadRow, ReadUnit,
                    ReadSpent, LoadGraph, CheckGraphUnits, Query
      <4>2. CASE ReadSpent(w) \/ LoadGraph(w) \/ CheckGraphUnits(w)
        BY <1>2, <2>1, <4>1, <4>2, ReadSpentTurns, LoadGraphTurns, CheckGraphUnitsTurns
      <4>3. CASE \/ ReadInvoice(w) \/ LoadInvoiceLines(w) \/ ReadLine(w) \/ LoadLineRows(w) \/ CountRows(w)
                 \/ ReadRow(w) \/ ReadUnit(w)
        <5>1. job[w].at # "idle" /\ job[w].req[1] # "edit_spent"
          BY <4>3 DEF ReadInvoice, LoadInvoiceLines, ReadLine, LoadLineRows, CountRows, ReadRow, ReadUnit, Query
        <5>2. Selling(w)
          BY <1>2, <5>1, OthersSell
        <5>3. \E j : SaleTurn(w, j)
          BY <4>3, <5>2, ReadInvoiceTurns, LoadInvoiceLinesTurns, ReadLineTurns, LoadLineRowsTurns,
             CountRowsTurns, ReadRowTurns, ReadUnitTurns
        <5> QED BY <1>2, <2>1, <4>1, <5>1, <5>3, OthersSell
      <4> QED BY <3>2, <4>2, <4>3
    <3> QED BY <1>2, <2>3, <3>1, <3>2, NotServed, NoPurge DEF Step
  <2>4. ASSUME NEW w \in Workers, Crash(w) PROVE SparedInv'
    <3>1. Turns(w, Idle) /\ UNCHANGED <<vars, load>>
      BY <2>4 DEF Crash, Ends, Turns
    <3> QED BY <2>1, <3>1
  <2>5. CASE Create
    BY <1>2, <2>5, CreateKeeps
  <2>6. CASE UNCHANGED requestVars
    <3>1. UNCHANGED <<vars, job, load>>
      BY <2>6 DEF requestVars
    <3> QED BY <3>1 DEF SparedInv, Careful, Serving, UnitsAreBought, JobsKnow, Serves, Knows, EditKnows,
                        SaleKnows, IsRequest, IsJob, vars
  <2> QED BY <2>2, <2>3, <2>4, <2>5, <2>6 DEF RequestsNext, Serve
<1> QED BY <1>1, <1>2

(* A row names a unit that exists, hence one that was bought.                 *)
LEMMA SparedImplies == SparedInv => EditsSpareClaimedUnits
<1> SUFFICES ASSUME SparedInv, Careful, NEW r \in rows
             PROVE  (\E k \in spentLines : <<k, r[2]>> \in purchaseRows) /\ purchaseNet[r[2]] = 1
  BY DEF EditsSpareClaimedUnits, Careful
<1>1. UnitsAreBought
  BY DEF SparedInv
<1>2. r[2] \in Units /\ status[r[2]] # "absent"
  BY <1>1 DEF UnitsAreBought
<1>3. PICK p \in purchaseRows : p[2] = r[2]
  BY <1>1, <1>2 DEF UnitsAreBought
<1>4. p[1] \in spentLines /\ p = <<p[1], r[2]>>
  BY <1>1, <1>3 DEF UnitsAreBought
<1> QED BY <1>1, <1>2, <1>3, <1>4 DEF UnitsAreBought

(* Sales and at most one edit of a spent at a time, with crashes, failures and *)
(* new documents at any step: a unit on an invoice row has the spent line it   *)
(* was bought with, and one entry in the kardex of purchases, however old the  *)
(* reads were that updateSpentGraph decided on.                                *)
THEOREM ClaimedUnitsAreSpared == RequestsSpec => []EditsSpareClaimedUnits
<1>1. RequestsSpec => []SparedInv
  BY SparedInit, SparedNext, PTL DEF RequestsSpec
<1> QED BY <1>1, SparedImplies, PTL

-----------------------------------------------------------------------------
(* The statements, and their fields.                                          *)
LEMMA WipeStatementsAre ==
  /\ SaleStatements \subseteq WipeStatements
  /\ \A u \in Units : /\ SetUnit(u, "voided") \in WipeStatements
                      /\ \A op \in {"delete_unit", "delete_unit_moves"} : OnUnit(op, u) \in WipeStatements
  /\ \A k \in SpentLines, u \in Units : \A op \in {"purchase_out", "drop_bought"} :
       OnPair(op, k, u) \in WipeStatements
  /\ \A k \in SpentLines : \A op \in {"delete_line_moves", "delete_spent_line", "purge_line"} :
       OnLine(op, k) \in WipeStatements
  /\ \A s \in Spents : /\ SetSpent(s, "cancelled") \in WipeStatements
                       /\ [op |-> "delete_spent", spent |-> s] \in WipeStatements
BY DEF WipeStatements, SetUnit, OnUnit, OnPair, OnLine, SetSpent

LEMMA WipeOperations ==
  ASSUME NEW x \in WipeStatements
  PROVE  /\ x.op \in {"unit", "sale_out", "sale_in", "add_row", "drop_row", "swap_row", "invoice",
                      "delete_invoice", "delete_line", "quantity", "fail", "nothing",
                      "purchase_out", "drop_bought", "delete_unit", "delete_unit_moves", "spent",
                      "delete_spent", "delete_line_moves", "delete_spent_line", "purge_line"}
         /\ x.op = "unit" => "unit" \in DOMAIN x /\ x.unit \in Units /\ x.to \in Held \cup {"voided"}
         /\ x.op \in {"purchase_out", "drop_bought"} =>
              "unit" \in DOMAIN x /\ x.line \in SpentLines /\ x.unit \in Units
         /\ x.op \in {"delete_unit", "delete_unit_moves"} =>
              "unit" \in DOMAIN x /\ "line" \notin DOMAIN x /\ x.unit \in Units
         /\ x.op \in {"delete_line_moves", "delete_spent_line", "purge_line"} =>
              "unit" \notin DOMAIN x /\ "line" \in DOMAIN x /\ x.line \in SpentLines
         /\ x.op \in {"add_row", "drop_row", "swap_row"} => x.line \in Lines /\ x.unit \in Units
         /\ x.op = "swap_row" => x.next \in Units
<1>1. \/ x \in SaleStatements
      \/ x \in [op : {"unit"}, unit : Units, to : {"voided"}]
      \/ x \in [op : {"purchase_out", "drop_bought"}, line : SpentLines, unit : Units]
      \/ x \in [op : {"delete_unit", "delete_unit_moves"}, unit : Units]
      \/ x \in [op : {"delete_line_moves", "delete_spent_line", "purge_line"}, line : SpentLines]
      \/ x \in [op : {"spent"}, spent : Spents, to : {"cancelled"}]
      \/ x \in [op : {"delete_spent"}, spent : Spents]
  BY DEF WipeStatements
<1>2. CASE x \in SaleStatements
  BY <1>2, SaleOperations
<1>3. CASE x \in [op : {"unit"}, unit : Units, to : {"voided"}]
  BY <1>3
<1>4. CASE x \in [op : {"purchase_out", "drop_bought"}, line : SpentLines, unit : Units]
  BY <1>4
<1>5. CASE x \in [op : {"delete_unit", "delete_unit_moves"}, unit : Units]
  BY <1>5
<1>6. CASE x \in [op : {"delete_line_moves", "delete_spent_line", "purge_line"}, line : SpentLines]
  BY <1>6
<1>7. CASE x \in [op : {"spent"}, spent : Spents, to : {"cancelled"}]
  BY <1>7
<1>8. CASE x \in [op : {"delete_spent"}, spent : Spents]
  BY <1>8
<1> QED BY <1>1, <1>2, <1>3, <1>4, <1>5, <1>6, <1>7, <1>8

(* A sale voids no unit.                                                      *)
LEMMA SalesVoidNothing ==
  ASSUME NEW x \in SaleStatements
  PROVE  ~Voids(x) /\ x.op # "purchase_out"
BY SaleOperations DEF Voids, Held

(* How such plans are put together, and taken apart.                          *)
LEMMA WipesAre ==
  /\ <<>> \in Wipes /\ Seq(SaleStatements) \subseteq Wipes
  /\ \A s, t \in Wipes : s \o t \in Wipes
  /\ \A x \in WipeStatements : ~Voids(x) => <<x>> \in Wipes
  /\ \A t \in Wipes, x \in WipeStatements : ~Voids(x) => Append(t, x) \in Wipes
  /\ \A t \in Wipes : t # <<>> => Tail(t) \in Wipes /\ Head(t) \in WipeStatements
  /\ \A k \in SpentLines, u \in Units :
       <<SetUnit(u, "voided"), OnPair("purchase_out", k, u)>> \in Wipes
<1>1. <<>> \in Wipes
  BY DEF Wipes, Paired
<1>2. ASSUME NEW t \in Seq(SaleStatements) PROVE t \in Wipes
  <2>1. t \in Seq(WipeStatements) /\ \A n \in DOMAIN t : t[n] \in SaleStatements
    BY WipeStatementsAre
  <2> QED BY <2>1, SalesVoidNothing DEF Wipes, Paired
<1>3. ASSUME NEW s \in Wipes, NEW t \in Wipes PROVE s \o t \in Wipes
  <2>1. /\ s \in Seq(WipeStatements) /\ t \in Seq(WipeStatements) /\ Paired(s) /\ Paired(t)
        /\ Len(s) \in Nat /\ Len(t) \in Nat
    BY DEF Wipes
  <2>2. /\ s \o t \in Seq(WipeStatements) /\ DOMAIN (s \o t) = 1..(Len(s) + Len(t))
        /\ \A n \in 1..(Len(s) + Len(t)) : (s \o t)[n] = IF n <= Len(s) THEN s[n] ELSE t[n - Len(s)]
    BY <2>1
  <2>3. ASSUME NEW n \in 1..(Len(s) + Len(t)), Voids((s \o t)[n])
        PROVE  /\ n + 1 \in 1..(Len(s) + Len(t)) /\ (s \o t)[n + 1].op = "purchase_out"
               /\ (s \o t)[n + 1].unit = (s \o t)[n].unit
    <3>1. CASE n <= Len(s)
      <4>1. n \in DOMAIN s /\ DOMAIN s = 1..Len(s) /\ Voids(s[n])
        BY <2>1, <2>2, <2>3, <3>1
      <4>2. n + 1 \in 1..Len(s) /\ s[n + 1].op = "purchase_out" /\ s[n + 1].unit = s[n].unit
        BY <2>1, <4>1 DEF Paired
      <4> QED BY <2>1, <2>2, <3>1, <4>2
    <3>2. CASE ~(n <= Len(s))
      <4> DEFINE m == n - Len(s)
      <4>1. m \in 1..Len(t) /\ DOMAIN t = 1..Len(t) /\ (s \o t)[n] = t[m] /\ n = m + Len(s)
        BY <2>1, <2>2, <3>2
      <4> HIDE DEF m
      <4>2. m + 1 \in 1..Len(t) /\ t[m + 1].op = "purchase_out" /\ t[m + 1].unit = t[m].unit
        BY <2>1, <2>3, <4>1 DEF Paired
      <4>3. n + 1 \in 1..(Len(s) + Len(t)) /\ ~(n + 1 <= Len(s)) /\ n + 1 - Len(s) = m + 1
        BY <2>1, <3>2, <4>1, <4>2
      <4>4. (s \o t)[n + 1] = t[m + 1]
        BY <2>2, <4>3
      <4> QED BY <4>1, <4>2, <4>3, <4>4
    <3> QED BY <3>1, <3>2
  <2> QED BY <2>2, <2>3 DEF Wipes, Paired
<1>4. ASSUME NEW x \in WipeStatements, ~Voids(x) PROVE <<x>> \in Wipes
  <2>1. <<x>> \in Seq(WipeStatements) /\ \A n \in DOMAIN <<x>> : <<x>>[n] = x
    OBVIOUS
  <2> QED BY <1>4, <2>1 DEF Wipes, Paired
<1>5. ASSUME NEW t \in Wipes, NEW x \in WipeStatements, ~Voids(x) PROVE Append(t, x) \in Wipes
  <2>1. Append(t, x) = t \o <<x>>
    BY DEF Wipes
  <2> QED BY <1>3, <1>4, <1>5, <2>1
<1>6. ASSUME NEW t \in Wipes, t # <<>> PROVE Tail(t) \in Wipes /\ Head(t) \in WipeStatements
  <2>1. /\ t \in Seq(WipeStatements) /\ Paired(t) /\ Len(t) \in Nat /\ Len(t) # 0
        /\ DOMAIN t = 1..Len(t)
    BY <1>6 DEF Wipes
  <2>2. /\ Tail(t) \in Seq(WipeStatements) /\ DOMAIN Tail(t) = 1..(Len(t) - 1)
        /\ \A n \in 1..(Len(t) - 1) : Tail(t)[n] = t[n + 1]
    BY <1>6, <2>1
  <2>3. ASSUME NEW n \in 1..(Len(t) - 1), Voids(Tail(t)[n])
        PROVE  /\ n + 1 \in 1..(Len(t) - 1) /\ Tail(t)[n + 1].op = "purchase_out"
               /\ Tail(t)[n + 1].unit = Tail(t)[n].unit
    <3> DEFINE m == n + 1
    <3>1. m \in 1..Len(t) /\ Tail(t)[n] = t[m] /\ Voids(t[m])
      BY <2>1, <2>2, <2>3
    <3>2. m + 1 \in 1..Len(t) /\ t[m + 1].op = "purchase_out" /\ t[m + 1].unit = t[m].unit
      <4> HIDE DEF m
      <4> QED BY <2>1, <3>1 DEF Paired
    <3>3. m \in 1..(Len(t) - 1)
      BY <2>1, <3>2
    <3>4. Tail(t)[m] = t[m + 1]
      BY <2>2, <3>3
    <3> QED BY <3>1, <3>2, <3>3, <3>4
  <2>4. Head(t) \in WipeStatements
    BY <1>6, <2>1
  <2> QED BY <2>2, <2>3, <2>4 DEF Wipes, Paired
<1>7. ASSUME NEW k \in SpentLines, NEW u \in Units
      PROVE  <<SetUnit(u, "voided"), OnPair("purchase_out", k, u)>> \in Wipes
  <2> DEFINE v == SetUnit(u, "voided")
             o == OnPair("purchase_out", k, u)
  <2>1. v \in WipeStatements /\ o \in WipeStatements
    BY WipeStatementsAre
  <2>2. v.unit = u /\ o.unit = u /\ o.op = "purchase_out"
    BY DEF SetUnit, OnPair
  <2>3. ~Voids(o)
    BY <2>2 DEF Voids
  <2> HIDE DEF v, o
  <2>4. <<v, o>> \in Seq(WipeStatements) /\ DOMAIN <<v, o>> = {1, 2}
    BY <2>1
  <2>5. Paired(<<v, o>>)
    BY <2>2, <2>3, <2>4 DEF Paired
  <2> QED BY <2>4, <2>5 DEF Wipes, v, o
<1> QED BY <1>1, <1>2, <1>3, <1>4, <1>5, <1>6, <1>7

(* What the plans of each kind refer to, bear and tend.                       *)
LEMMA SalesRefer ==
  ASSUME NEW t \in Seq(SaleStatements)
  PROVE  \A k, u : ~Refers(t, k, u) /\ ~Bears(t, k, u) /\ ~Tends(t, u)
<1>1. \A n \in DOMAIN t : t[n] \in SaleStatements
  OBVIOUS
<1>2. \A x \in SaleStatements : x.op \notin {"purchase_in", "add_bought", "purchase_out"}
  BY SaleOperations
<1>3. t # <<>> => Head(t) \in SaleStatements
  OBVIOUS
<1>4. \A k, u : OnPair("purchase_in", k, u).op = "purchase_in"
  BY DEF OnPair
<1> QED BY <1>1, <1>2, <1>3, <1>4 DEF Refers, Bears, Tends, Enters

LEMMA EditsRefer ==
  ASSUME NEW t, Edits(t)
  PROVE  \A k, u : ~Refers(t, k, u) /\ ~Bears(t, k, u) /\ ~Tends(t, u)
<1>1. PICK x : t = <<x>> /\ x.op = "save_graph"
  BY DEF Edits
<1>2. \A k, u : OnPair("purchase_in", k, u).op = "purchase_in"
  BY DEF OnPair
<1>3. DOMAIN t = {1} /\ t[1] = x /\ Head(t) = x
  BY <1>1
<1> QED BY <1>1, <1>2, <1>3 DEF Refers, Bears, Tends, Enters

LEMMA WipesBear ==
  ASSUME NEW t \in Wipes
  PROVE  /\ \A k, u : ~Bears(t, k, u)
         /\ t # <<>> => Head(t).op \notin {"create_unit", "purchase_in", "add_bought", "save_graph"}
<1>1. t # <<>> => Head(t).op \notin {"create_unit", "purchase_in", "add_bought", "save_graph"}
  BY WipesAre, WipeOperations
<1>2. \A k, u : OnPair("purchase_in", k, u).op = "purchase_in"
  BY DEF OnPair
<1> QED BY <1>1, <1>2 DEF Bears

LEMMA BuysRefer ==
  ASSUME NEW k, NEW u, NEW t, BuyOf(t, k, u)
  PROVE  /\ \A k2, u2 : Refers(t, k2, u2) => k2 = k /\ u2 = u
         /\ \A k2, u2 : Bears(t, k2, u2) => k2 = k /\ u2 = u /\ Refers(t, k, u)
         /\ \A u2 : ~Tends(t, u2)
         /\ t # <<>> /\ (Head(t).op # "create_unit" => Refers(t, k, u))
<1> DEFINE c == OnUnit("create_unit", u)
           p == OnPair("purchase_in", k, u)
           a == OnPair("add_bought", k, u)
<1>1. /\ c.op = "create_unit"
      /\ p.op = "purchase_in" /\ p.line = k /\ p.unit = u
      /\ a.op = "add_bought" /\ a.line = k /\ a.unit = u
  BY DEF OnUnit, OnPair
<1>2. \A k2, u2 : LET q == OnPair("purchase_in", k2, u2) IN q.op = "purchase_in" /\ q.line = k2 /\ q.unit = u2
  BY DEF OnPair
<1> HIDE DEF c, p, a
<1>3. t = <<c, p, a>> \/ t = <<p, a>> \/ t = <<a>>
  BY DEF BuyOf, c, p, a
<1>4. CASE t = <<c, p, a>>
  BY <1>1, <1>2, <1>4 DEF Refers, Bears, Tends, Enters
<1>5. CASE t = <<p, a>>
  <2>1. t # <<>> /\ Head(t) = p /\ DOMAIN t = {1, 2} /\ t[1] = p /\ t[2] = a
    BY <1>5
  <2> QED BY <1>1, <1>2, <2>1 DEF Refers, Bears, Tends, Enters
<1>6. CASE t = <<a>>
  <2>1. t # <<>> /\ Head(t) = a /\ DOMAIN t = {1} /\ t[1] = a
    BY <1>6
  <2> QED BY <1>1, <1>2, <2>1 DEF Refers, Bears, Tends, Enters
<1> QED BY <1>3, <1>4, <1>5, <1>6

(* A plan keeps its shape while units are replaced, and loses what it was to  *)
(* do with them: a registration whose unit went and came again fails.         *)
LEMMA RenewedWipe ==
  ASSUME NEW t \in Wipes, NEW units, NEW pairs, NEW bought
  PROVE  LET r == Renew(t, units, pairs, bought) IN
           r \in Wipes /\ (t # <<>> => r # <<>>) /\ Follows(t, r, units)
<1> DEFINE r == [n \in DOMAIN t |->
                   IF ~Outdated(t[n], units, pairs, bought) THEN t[n]
                   ELSE IF t[n].op \in Deletes THEN Nothing ELSE Fail]
<1>1. Renew(t, units, pairs, bought) = r
  BY WipesBear DEF Renew
<1>2. /\ t \in Seq(WipeStatements) /\ Paired(t) /\ DOMAIN t = 1..Len(t) /\ Len(t) \in Nat
      /\ \A n \in 1..Len(t) : t[n] \in WipeStatements
  BY DEF Wipes
<1>3. /\ Fail \in WipeStatements /\ Nothing \in WipeStatements /\ Fail.op = "fail" /\ Nothing.op = "nothing"
  BY SaleStatementsAre, WipeStatementsAre DEF Fail, Nothing
<1>4. /\ DOMAIN r = 1..Len(t)
      /\ \A n \in 1..Len(t) :
           /\ ~Outdated(t[n], units, pairs, bought) => r[n] = t[n]
           /\ Outdated(t[n], units, pairs, bought) => r[n] \in {Fail, Nothing}
  BY <1>2
<1> HIDE DEF r
<1>5. r = [n \in DOMAIN r |-> r[n]]
  BY DEF r
<1>6. r \in Seq(WipeStatements) /\ (t # <<>> => r # <<>>)
  <2>1. r \in [1..Len(t) -> WipeStatements]
    BY <1>2, <1>3, <1>4, <1>5
  <2>2. t # <<>> => Len(t) # 0
    BY <1>2
  <2> QED BY <1>2, <1>4, <2>1, <2>2
<1>7. \A x \in WipeStatements : x.op \in {"unit", "purchase_out"} =>
        (Outdated(x, units, pairs, bought) <=> x.unit \in units)
  <2> SUFFICES ASSUME NEW x \in WipeStatements, x.op \in {"unit", "purchase_out"}
               PROVE  Outdated(x, units, pairs, bought) <=> x.unit \in units
    OBVIOUS
  <2>1. "unit" \in DOMAIN x
    BY WipeOperations
  <2>2. "next" \notin DOMAIN x
    <3>1. \/ x \in [op : {"unit"}, unit : Units, to : Held]
          \/ x \in [op : {"unit"}, unit : Units, to : {"voided"}]
          \/ x \in [op : {"purchase_out", "drop_bought"}, line : SpentLines, unit : Units]
      <4>1. x \in SaleStatements => x \in [op : {"unit"}, unit : Units, to : Held]
        BY DEF SaleStatements, Fail, Nothing
      <4>2. x \in [op : {"delete_unit", "delete_unit_moves"}, unit : Units] \cup
                  [op : {"delete_line_moves", "delete_spent_line", "purge_line"}, line : SpentLines] => FALSE
        OBVIOUS
      <4>3. x \in [op : {"spent"}, spent : Spents, to : {"cancelled"}] \cup
                  [op : {"delete_spent"}, spent : Spents] => FALSE
        OBVIOUS
      <4> QED BY <4>1, <4>2, <4>3 DEF WipeStatements
    <3> QED BY <3>1
  <2> QED BY <2>1, <2>2 DEF Outdated, Names
<1>8. ASSUME NEW n \in 1..Len(t), r[n].op \in {"unit", "purchase_out"}
      PROVE  r[n] = t[n] /\ t[n].unit \notin units
  BY <1>2, <1>3, <1>4, <1>7, <1>8
<1>9. Paired(r)
  <2> SUFFICES ASSUME NEW n \in 1..Len(t), Voids(r[n])
               PROVE  n + 1 \in 1..Len(t) /\ r[n + 1].op = "purchase_out" /\ r[n + 1].unit = r[n].unit
    BY <1>4 DEF Paired
  <2>1. r[n] = t[n] /\ t[n].unit \notin units /\ Voids(t[n])
    BY <1>8 DEF Voids
  <2>2. n + 1 \in 1..Len(t) /\ t[n + 1].op = "purchase_out" /\ t[n + 1].unit = t[n].unit
    BY <1>2, <2>1 DEF Paired
  <2>3. ~Outdated(t[n + 1], units, pairs, bought)
    BY <1>2, <1>7, <2>1, <2>2
  <2> QED BY <1>4, <2>1, <2>2, <2>3
<1>10. r \in Wipes
  BY <1>6, <1>9 DEF Wipes
<1>11. Head(t) = t[1] /\ Head(r) = r[1] /\ (t # <<>> <=> 1 \in 1..Len(t)) /\ (r # <<>> <=> 1 \in 1..Len(t))
  BY <1>2, <1>4, <1>6
<1>12. ASSUME NEW k \in SpentLines, NEW u \in Units, Refers(r, k, u)
       PROVE  Refers(t, k, u) /\ u \notin units
  <2>1. PICK n \in 1..Len(t) : Enters(r[n], k, u)
    BY <1>4, <1>12 DEF Refers
  <2>2. r[n] \in WipeStatements
    BY <1>4, <1>6
  <2>3. r[n].op = "purchase_out" /\ r[n].unit = u
    BY <2>1, <2>2, WipeOperations DEF Enters
  <2>4. r[n] = t[n] /\ u \notin units
    BY <1>8, <2>3
  <2>5. t # <<>> /\ Head(t).op # "create_unit"
    BY <1>11, <1>12, WipesBear DEF Refers
  <2> QED BY <1>2, <2>1, <2>4, <2>5 DEF Refers
<1>13. ASSUME NEW u \in Units \ units, Tends(t, u)
       PROVE  Tends(r, u)
  <2>1. 1 \in 1..Len(t) /\ t[1].op = "purchase_out" /\ t[1].unit = u
    BY <1>11, <1>13 DEF Tends
  <2>2. ~Outdated(t[1], units, pairs, bought)
    BY <1>2, <1>7, <2>1
  <2> QED BY <1>4, <1>11, <2>1, <2>2 DEF Tends
<1>14. Follows(t, r, units)
  BY <1>10, <1>12, <1>13, WipesBear DEF Follows
<1> QED BY <1>1, <1>6, <1>10, <1>14

LEMMA FollowsItself == \A t : Follows(t, t, {})
BY DEF Follows

LEMMA RenewedBuy ==
  ASSUME NEW t, Buys(t), NEW units, NEW pairs, NEW bought
  PROVE  LET r == Renew(t, units, pairs, bought) IN
           (r \in Wipes \/ Buys(r)) /\ r # <<>> /\ Follows(t, r, units)
<1> DEFINE r == Renew(t, units, pairs, bought)
<1>1. PICK k \in SpentLines, u \in Units : BuyOf(t, k, u)
  BY DEF Buys
<1>2. t # <<>> /\ \A h : ~Tends(t, h)
  BY <1>1, BuysRefer
<1>3. CASE Head(t).op = "create_unit"
  <2>1. r = t
    BY <1>2, <1>3 DEF Renew
  <2>2. \A h, v : ~Refers(t, h, v) /\ ~Bears(t, h, v) /\ ~Tends(t, v)
    BY <1>3 DEF Refers, Bears, Tends, OnPair
  <2> QED BY <1>2, <2>1, <2>2 DEF Follows
<1>4. CASE Head(t).op # "create_unit"
  <2> DEFINE p == OnPair("purchase_in", k, u)
             a == OnPair("add_bought", k, u)
  <2>1. t = <<p, a>> \/ t = <<a>>
    BY <1>1, <1>4 DEF BuyOf, OnUnit
  <2>2. /\ "unit" \in DOMAIN p /\ p.unit = u /\ "next" \notin DOMAIN p /\ p.op = "purchase_in"
        /\ "unit" \in DOMAIN a /\ a.unit = u /\ "next" \notin DOMAIN a /\ a.op = "add_bought"
    BY DEF OnPair
  <2>3. \A x \in {p, a} : /\ Outdated(x, units, pairs, bought) <=> u \in units
                          /\ x.op \notin Deletes /\ x.op # "save_graph"
    <3> HIDE DEF p, a
    <3> QED BY <2>2 DEF Outdated, Names, Deletes
  <2> HIDE DEF p, a
  <2>4. Head(t) \in {p, a} /\ \A n \in DOMAIN t : t[n] \in {p, a}
    BY <2>1
  <2>5. r = [n \in DOMAIN t |-> IF u \notin units THEN t[n] ELSE Fail]
    BY <1>2, <1>4, <2>3, <2>4 DEF Renew
  <2> HIDE DEF r
  <2>6. CASE u \notin units
    <3>1. r = t
      BY <2>1, <2>5, <2>6
    <3>2. Follows(t, t, units)
      BY <1>1, <2>6, BuysRefer DEF Follows
    <3> QED BY <1>2, <3>1, <3>2 DEF r
  <2>7. CASE u \in units
    <3>1. r = <<Fail, Fail>> \/ r = <<Fail>>
      BY <2>1, <2>5, <2>7
    <3>2. r \in Seq(SaleStatements) /\ r # <<>>
      <4>1. \A x \in SaleStatements : <<x, x>> \in Seq(SaleStatements) /\ <<x>> \in Seq(SaleStatements)
        OBVIOUS
      <4>2. Fail \in SaleStatements
        BY SaleStatementsAre
      <4>3. <<Fail, Fail>> # <<>> /\ <<Fail>> # <<>>
        OBVIOUS
      <4>4. <<Fail, Fail>> \in Seq(SaleStatements) /\ <<Fail>> \in Seq(SaleStatements)
        BY <4>1, <4>2
      <4> QED BY <3>1, <4>3, <4>4
    <3>3. \A h, v : ~Tends(t, v) /\ ~Refers(r, h, v) /\ ~Bears(r, h, v)
      BY <1>2, <3>2, SalesRefer
    <3> QED BY <3>2, <3>3, WipesAre DEF r, Follows
  <2> QED BY <2>6, <2>7 DEF r
<1> QED BY <1>3, <1>4

LEMMA RenewedEdit ==
  ASSUME NEW t, Edits(t), NEW units, NEW pairs, NEW bought
  PROVE  LET r == Renew(t, units, pairs, bought) IN Edits(r) /\ r # <<>> /\ Follows(t, r, units)
<1>1. PICK x : /\ t = <<x>>
               /\ x = [op |-> "save_graph", spent |-> x.spent, to |-> x.to, lines |-> x.lines,
                       dropped |-> x.dropped, out |-> x.out, new |-> x.new]
               /\ x.lines \subseteq SpentLines /\ x.new \subseteq x.lines \X Units
               /\ \A p, q \in x.new : p[2] = q[2] => p = q
  BY DEF Edits
<1> DEFINE out == {r \in x.out \ bought : r[2] \notin units}
           y == [op |-> "save_graph", spent |-> x.spent, to |-> x.to, lines |-> x.lines,
                 dropped |-> x.dropped, out |-> out, new |-> x.new]
<1>2. x.op = "save_graph" /\ Head(t) = x /\ t # <<>>
  BY <1>1
<1>3. Renew(t, units, pairs, bought) = <<[x EXCEPT !.out = out]>>
  BY <1>2 DEF Renew
<1> HIDE DEF out
<1>4. [x EXCEPT !.out = out] = y
  BY <1>1
<1>5. Edits(<<y>>)
  <2>1. /\ y = [op |-> "save_graph", spent |-> y.spent, to |-> y.to, lines |-> y.lines,
                dropped |-> y.dropped, out |-> y.out, new |-> y.new]
        /\ y.lines = x.lines /\ y.new = x.new
    OBVIOUS
  <2> HIDE DEF y
  <2> QED BY <1>1, <2>1 DEF Edits
<1> HIDE DEF y
<1>6. Follows(t, <<y>>, units)
  BY <1>5, EditsRefer DEF Follows
<1> QED BY <1>3, <1>4, <1>5, <1>6

LEMMA RenewedPlan ==
  ASSUME NEW t, Plan(t), NEW units, NEW pairs, NEW bought
  PROVE  LET r == Renew(t, units, pairs, bought) IN
           /\ Plan(r) /\ (t # <<>> => r # <<>>) /\ Follows(t, r, units)
           /\ t \in Seq(SaleStatements) => r \in Seq(SaleStatements)
           /\ Edits(t) => Edits(r)
BY RenewedWipe, RenewedBuy, RenewedEdit, RenewSale DEF Plan

-----------------------------------------------------------------------------
(* A step that is lawful for those who act, and that the others follow, keeps *)
(* the invariant.                                                             *)
LEMMA CoreKeeps ==
  ASSUME RaceInv, RaceTables', NEW W, W \subseteq Workers, \A v, z \in W : v = z, NEW units,
         Served(W, units), Lawful(W, units)
  PROVE  RaceInv'
<1>1. load' \in Loads
  BY DEF RaceInv, Served
<1>2. RaceJobs'
  <2>1. \A v \in Workers : Prepared(v, job[v])'
    <3> SUFFICES ASSUME NEW v \in Workers PROVE Prepared(v, job[v])'
      OBVIOUS
    <3>1. Prepared(v, job'[v]) /\ load' = load
      BY DEF Served
    <3> QED BY <3>1 DEF Prepared, Serves, IsRequest, IsJob
  <2> QED BY <2>1 DEF RaceJobs, Served
<1>3. ASSUME NEW v \in Workers, NEW k \in SpentLines, NEW u \in Units, Refers(job'[v].todo, k, u)
      PROVE  \/ Refers(job[v].todo, k, u) /\ u \notin units
             \/ v \in W /\ u \in units
             \/ v \in W /\ <<k, u>> \in purchaseRows /\ u \notin units
  BY <1>3 DEF Served, Follows
<1>4. OneLineEach'
  <2> SUFFICES ASSUME NEW u \in Units, NEW k \in SpentLines, NEW h \in SpentLines,
                      status'[u] # "absent", Refs(k, u)', Refs(h, u)'
               PROVE  k = h
    BY DEF OneLineEach
  <2>1. ASSUME NEW l \in SpentLines, Refs(l, u)'
        PROVE  IF u \in units THEN Written(l, u)' \/ Acted(W, l, u) ELSE Refs(l, u)
    <3>1. Written(l, u)' \/ \E v \in Workers : Refers(job'[v].todo, l, u)
      BY <2>1 DEF Refs
    <3>2. CASE Written(l, u)'
      BY <3>2 DEF Lawful
    <3>3. CASE \E v \in Workers : Refers(job'[v].todo, l, u)
      BY <1>3, <3>3 DEF Refs, Written, Acted
    <3> QED BY <3>1, <3>2, <3>3
  <2>2. CASE u \in units
    BY <2>1, <2>2 DEF Lawful
  <2>3. CASE u \notin units
    <3>1. status[u] # "absent" /\ Refs(k, u) /\ Refs(h, u)
      BY <2>1, <2>3 DEF Lawful
    <3> QED BY <3>1 DEF RaceInv, OneLineEach
  <2> QED BY <2>2, <2>3
<1>5. NewbornsAreNew'
  <2> SUFFICES ASSUME NEW v \in Workers, NEW k \in SpentLines, NEW u \in Units,
                      Bears(job'[v].todo, k, u), status'[u] # "absent"
               PROVE  /\ Unspoiled(u)'
                      /\ \A z \in Workers \ {v}, h \in SpentLines : ~Refers(job'[z].todo, h, u)
    BY DEF NewbornsAreNew
  <2>1. CASE v \in W
    <3>1. u \in units /\ Unspoiled(u)'
      BY <2>1 DEF Lawful
    <3>2. ASSUME NEW z \in Workers \ {v}, NEW h \in SpentLines, Refers(job'[z].todo, h, u) PROVE FALSE
      BY <1>3, <2>1, <3>1, <3>2
    <3> QED BY <3>1, <3>2
  <2>2. CASE v \notin W
    <3>1. Bears(job[v].todo, k, u) /\ u \notin units
      BY <2>2 DEF Served, Follows
    <3>2. status[u] # "absent"
      BY <3>1 DEF Lawful
    <3>3. Unspoiled(u) /\ \A z \in Workers \ {v}, h \in SpentLines : ~Refers(job[z].todo, h, u)
      BY <3>1, <3>2 DEF RaceInv, NewbornsAreNew
    <3>4. \A z \in W, h \in SpentLines : ~Refers(job[z].todo, h, u)
      BY <2>2, <3>3
    <3>5. Unspoiled(u)'
      BY <3>1, <3>2, <3>3, <3>4 DEF Lawful
    <3>6. ASSUME NEW z \in Workers \ {v}, NEW h \in SpentLines, Refers(job'[z].todo, h, u) PROVE FALSE
      <4>1. <<h, u>> \in purchaseRows
        BY <1>3, <3>1, <3>3, <3>6
      <4>2. <<h, u>>[2] = u
        OBVIOUS
      <4> QED BY <3>3, <4>1, <4>2 DEF Unspoiled
    <3> QED BY <3>5, <3>6
  <2> QED BY <2>1, <2>2
<1> QED BY <1>1, <1>2, <1>4, <1>5 DEF RaceInv

(* No unit that is voided and counted is left to itself but by a crash.       *)
LEMMA FewKeeps ==
  ASSUME FewUntended, crashes' = crashes, NEW W, W \subseteq Workers, NEW units, Served(W, units),
         \A u \in Units :
           /\ purchaseNet'[u] > 0 /\ status'[u] = "voided" /\ \A v \in W : ~Tends(job'[v].todo, u)
           => /\ u \notin units /\ purchaseNet[u] > 0 /\ status[u] = "voided"
              /\ \A v \in W : ~Tends(job[v].todo, u)
  PROVE  FewUntended'
<1>1. ASSUME NEW u \in Untended' PROVE u \in Untended
  <2>1. /\ u \in Units /\ purchaseNet'[u] > 0 /\ status'[u] = "voided"
        /\ \A v \in Workers : ~Tends(job'[v].todo, u)
    BY DEF Untended
  <2>2. /\ u \notin units /\ purchaseNet[u] > 0 /\ status[u] = "voided"
        /\ \A v \in W : ~Tends(job[v].todo, u)
    BY <2>1
  <2>3. \A v \in Workers \ W : ~Tends(job[v].todo, u)
    BY <2>1, <2>2 DEF Served, Follows
  <2> QED BY <2>1, <2>2, <2>3 DEF Untended
<1>2. IsFiniteSet(Untended) /\ Untended' \subseteq Untended
  BY <1>1, FS_Subset DEF Untended
<1>3. /\ Cardinality(Untended') <= Cardinality(Untended)
      /\ Cardinality(Untended') \in Nat /\ Cardinality(Untended) \in Nat
  BY <1>2, FS_Subset, FS_CardinalityType
<1> QED BY <1>3 DEF FewUntended

-----------------------------------------------------------------------------
(* The queries: one request goes on, the tables and the others stay.          *)
LEMMA TablesStay ==
  ASSUME RaceInv, UNCHANGED <<vars, load>>
  PROVE  /\ RaceTables' /\ purchaseNet' = purchaseNet /\ status' = status
         /\ \A u \in Units : Unspoiled(u)' <=> Unspoiled(u)
         /\ \A k, u : Written(k, u)' <=> Written(k, u)
<1>1. UNCHANGED <<status, lines, rows, spentLines, purchaseRows, purchaseMoves, purchaseNet>>
  BY DEF vars
<1> QED BY <1>1 DEF RaceInv, RaceTables, Unspoiled, Written

LEMMA RaceTurnKeeps ==
  ASSUME RaceInv, NEW w \in Workers, NEW j, RaceTurn(w, j), UNCHANGED <<vars, load>>
  PROVE  /\ RaceInv'
         /\ FewUntended /\ crashes' = crashes /\ (\A u \in Untended' : ~Tends(job[w].todo, u)) => FewUntended'
<1>1. job = [v \in Workers |-> job[v]]
  BY DEF RaceInv, RaceJobs
<1>2. job' = [v \in Workers |-> IF v = w THEN j ELSE job[v]]
  BY <1>1 DEF RaceTurn
<1>3. Served({w}, {})
  <2>1. job' = [v \in Workers |-> job'[v]] /\ load' = load
    BY <1>2
  <2>2. \A v \in Workers : Prepared(v, job'[v])
    BY <1>2 DEF RaceTurn, RaceInv, RaceJobs
  <2>3. \A v \in Workers \ {w} : Follows(job[v].todo, job'[v].todo, {})
    BY <1>2, FollowsItself
  <2>4. \A k \in SpentLines, u \in Units :
          Refers(job'[w].todo, k, u) => Refers(job[w].todo, k, u) \/ <<k, u>> \in purchaseRows
    BY <1>2 DEF RaceTurn
  <2> QED BY <2>1, <2>2, <2>3, <2>4 DEF Served
<1>4. Lawful({w}, {})
  <2>1. \A k \in SpentLines, u \in Units : ~Bears(job'[w].todo, k, u)
    BY <1>2 DEF RaceTurn
  <2> QED BY <2>1, TablesStay DEF Lawful, Refs
<1>5. RaceInv'
  BY <1>3, <1>4, TablesStay, CoreKeeps
<1>6. ASSUME FewUntended, crashes' = crashes, \A u \in Untended' : ~Tends(job[w].todo, u)
      PROVE  FewUntended'
  <2>1. ASSUME NEW u \in Untended' PROVE u \in Untended
    <3>1. u \in Units /\ purchaseNet[u] > 0 /\ status[u] = "voided" /\ \A v \in Workers : ~Tends(job'[v].todo, u)
      BY TablesStay DEF Untended
    <3>2. \A v \in Workers : ~Tends(job[v].todo, u)
      BY <1>2, <1>6, <3>1
    <3> QED BY <3>1, <3>2 DEF Untended
  <2>2. IsFiniteSet(Untended) /\ Untended' \subseteq Untended
    BY <2>1, FS_Subset DEF Untended
  <2>3. /\ Cardinality(Untended') <= Cardinality(Untended)
        /\ Cardinality(Untended') \in Nat /\ Cardinality(Untended) \in Nat
    BY <2>2, FS_Subset, FS_CardinalityType
  <2> QED BY <1>6, <2>3 DEF FewUntended
<1> QED BY <1>5, <1>6

(* What a query may rely on.                                                  *)
LEMMA AskIs ==
  ASSUME RaceInv, NEW w \in Workers, job[w].at # "idle"
  PROVE  /\ job = [v \in Workers |-> job[v]] /\ job[w] # Idle /\ IsJob(job[w])
         /\ IsRequest(w, job[w].req) /\ RaceKnows(job[w]) /\ load \in Loads /\ RaceTables
         /\ job[w].at # "write" => Idles(w)
<1>1. /\ job = [v \in Workers |-> job[v]] /\ job[w] # Idle /\ IsJob(job[w])
      /\ IsRequest(w, job[w].req) /\ RaceKnows(job[w]) /\ load \in Loads /\ RaceTables
  BY DEF RaceInv, RaceJobs, Prepared, Serves, Idle
<1>2. job[w].at # "write" => job[w].todo \in Seq(SaleStatements) \/ Edits(job[w].todo)
  BY <1>1 DEF RaceKnows
<1>3. job[w].at # "write" => Idles(w)
  BY <1>2, SalesRefer, EditsRefer DEF Idles
<1> QED BY <1>1, <1>3

(* How the queries of the purchase side end.                                  *)
LEMMA RaceBecomes ==
  ASSUME RaceInv, NEW w \in Workers, job[w].at # "idle", job[w].req[1] \notin SaleKinds,
         NEW at, NEW seen, NEW todo, BecomesJob(w, at, seen, todo),
         at # "idle", Plan(todo), at = "write" => todo # <<>>,
         at # "write" => todo \in Seq(SaleStatements) \/ Edits(todo),
         at = "graph_units" => Edits(todo),
         \A k \in SpentLines, u \in Units :
           /\ ~Bears(todo, k, u)
           /\ Refers(todo, k, u) => Refers(job[w].todo, k, u) \/ <<k, u>> \in purchaseRows
  PROVE  \E j : RaceTurn(w, j)
<1> DEFINE j == [at |-> at, req |-> job[w].req, seen |-> seen, todo |-> todo]
<1>1. j.req = job[w].req /\ j.at = at /\ j.todo = todo /\ IsJob(j)
  BY DEF IsJob
<1>2. job' = [job EXCEPT ![w] = j]
  BY DEF BecomesJob
<1> HIDE DEF j
<1>3. IsRequest(w, job[w].req) /\ RaceKnows(job[w])
  BY AskIs
<1>4. RaceKnows(j)
  BY <1>1, <1>3 DEF RaceKnows
<1>5. Prepared(w, j)
  BY <1>1, <1>3, <1>4 DEF Prepared, Serves
<1> QED BY <1>1, <1>2, <1>5 DEF RaceTurn

LEMMA EndsTurn ==
  ASSUME NEW w \in Workers, Ends(w)
  PROVE  RaceTurn(w, Idle)
<1>1. Idle.todo = <<>>
  BY DEF Idle
<1> QED BY <1>1 DEF Ends, RaceTurn, Prepared, Serves, Refers, Bears

LEMMA WritesTurn ==
  ASSUME RaceInv, NEW w \in Workers, job[w].at # "idle", job[w].req[1] \notin SaleKinds,
         NEW todo, Plan(todo), Writes(w, todo),
         \A k \in SpentLines, u \in Units :
           /\ ~Bears(todo, k, u)
           /\ Refers(todo, k, u) => Refers(job[w].todo, k, u) \/ <<k, u>> \in purchaseRows
  PROVE  \E j : RaceTurn(w, j)
<1>1. CASE todo = <<>>
  <2>1. Ends(w)
    BY <1>1 DEF Writes, Ends
  <2> QED BY <2>1, EndsTurn
<1>2. CASE todo # <<>>
  <2>1. job = [v \in Workers |-> job[v]] /\ IsJob(job[w])
    BY AskIs
  <2>2. job' = [job EXCEPT ![w] = [job[w] EXCEPT !.at = "write", !.seen = {}, !.todo = todo]]
    BY <1>2, <2>1 DEF Writes
  <2>3. [job[w] EXCEPT !.at = "write", !.seen = {}, !.todo = todo]
          = [at |-> "write", req |-> job[w].req, seen |-> {}, todo |-> todo]
    <3>1. job[w] \in [at : {job[w].at}, req : {job[w].req}, seen : {job[w].seen}, todo : {job[w].todo}]
      BY <2>1 DEF IsJob
    <3>2. [job[w] EXCEPT !.at = "write", !.seen = {}, !.todo = todo]
            \in [at : {"write"}, req : {job[w].req}, seen : {{}}, todo : {todo}]
      BY <3>1
    <3> QED BY <3>2, JobIs
  <2>4. BecomesJob(w, "write", {}, todo)
    BY <2>2, <2>3 DEF BecomesJob
  <2> QED BY <1>2, <2>4, RaceBecomes
<1> QED BY <1>1, <1>2

LEMMA GoesTurn ==
  ASSUME RaceInv, NEW w \in Workers, job[w].at \notin {"idle", "write"}, job[w].req[1] \notin SaleKinds,
         NEW at, NEW seen, Goes(w, at, seen), at \notin {"idle", "write", "graph_units"}
  PROVE  \E j : RaceTurn(w, j)
<1>1. job = [v \in Workers |-> job[v]] /\ IsJob(job[w]) /\ RaceKnows(job[w]) /\ Idles(w)
  BY AskIs
<1>2. job' = [job EXCEPT ![w] = [job[w] EXCEPT !.at = at, !.seen = seen]]
  BY <1>1 DEF Goes
<1>3. [job[w] EXCEPT !.at = at, !.seen = seen]
        = [at |-> at, req |-> job[w].req, seen |-> seen, todo |-> job[w].todo]
  <2> DEFINE k == job[w]
  <2>1. IsJob(k)
    BY <1>1
  <2> HIDE DEF k
  <2>2. [k EXCEPT !.at = at, !.seen = seen] = [at |-> at, req |-> k.req, seen |-> seen, todo |-> k.todo]
    BY <2>1, JobsChange
  <2> QED BY <2>2 DEF k
<1>4. BecomesJob(w, at, seen, job[w].todo)
  BY <1>2, <1>3 DEF BecomesJob
<1>5. Plan(job[w].todo) /\ (job[w].todo \in Seq(SaleStatements) \/ Edits(job[w].todo))
  BY <1>1 DEF RaceKnows
<1> QED BY <1>1, <1>4, <1>5, RaceBecomes DEF Idles

(* The queries of the sales, by what is known of them.                        *)
LEMMA SellersRace ==
  ASSUME RaceInv, NEW w \in Workers, job[w].at # "idle", job[w].req[1] \in SaleKinds
  PROVE  /\ Selling(w)
         /\ \A j : SaleTurn(w, j) => RaceTurn(w, j)
<1>1. /\ job = [v \in Workers |-> job[v]] /\ job[w] # Idle /\ IsJob(job[w])
      /\ IsRequest(w, job[w].req) /\ RaceKnows(job[w]) /\ load \in Loads /\ RaceTables
  BY AskIs
<1>2. Selling(w)
  BY <1>1 DEF Selling, Serves, SaleKnows, RaceKnows, RaceTables
<1>3. ASSUME NEW j, SaleTurn(w, j) PROVE RaceTurn(w, j)
  <2>1. CASE j = Idle
    BY <1>3, <2>1, EndsTurn DEF SaleTurn, Ends
  <2>2. CASE j # Idle
    <3>1. Serves(w, j) /\ SaleKnows(j) /\ j.req = job[w].req /\ job' = [job EXCEPT ![w] = j]
      BY <1>3, <2>2 DEF SaleTurn
    <3>2. j.todo \in Seq(SaleStatements) /\ j.req[1] # "edit_spent"
      BY <3>1 DEF SaleKnows, SaleKinds
    <3>3. Plan(j.todo) /\ \A k, u : ~Refers(j.todo, k, u) /\ ~Bears(j.todo, k, u)
      BY <3>2, WipesAre, SalesRefer DEF Plan
    <3>4. RaceKnows(j)
      BY <3>1, <3>2, <3>3 DEF RaceKnows, SaleKnows
    <3> QED BY <3>1, <3>3, <3>4 DEF RaceTurn, Prepared
  <2> QED BY <2>1, <2>2
<1> QED BY <1>2, <1>3

LEMMA TakingsAre ==
  /\ <<>> \in Takings
  /\ \A s, t \in Takings : s \o t \in Takings
  /\ \A x \in WipeStatements : ~Voids(x) /\ x.op # "purchase_out" => <<x>> \in Takings
  /\ \A k \in SpentLines, u \in Units :
       <<k, u>> \in purchaseRows => <<SetUnit(u, "voided"), OnPair("purchase_out", k, u)>> \in Takings
  /\ \A t \in Takings :
       /\ Plan(t)
       /\ \A k \in SpentLines, u \in Units : ~Bears(t, k, u) /\ (Refers(t, k, u) => <<k, u>> \in purchaseRows)
<1>1. <<>> \in Takings
  BY WipesAre DEF Takings, Takes
<1>2. ASSUME NEW s \in Takings, NEW t \in Takings PROVE s \o t \in Takings
  <2>1. s \o t \in Wipes /\ s \in Seq(WipeStatements) /\ t \in Seq(WipeStatements) /\ Takes(s) /\ Takes(t)
    BY WipesAre DEF Takings, Wipes
  <2>2. ASSUME NEW n \in DOMAIN (s \o t)
        PROVE  (n \in DOMAIN s /\ (s \o t)[n] = s[n]) \/ (n - Len(s) \in DOMAIN t /\ (s \o t)[n] = t[n - Len(s)])
    BY <2>1
  <2>3. Takes(s \o t)
    BY <2>1, <2>2 DEF Takes
  <2> QED BY <2>1, <2>3 DEF Takings
<1>3. ASSUME NEW x \in WipeStatements, ~Voids(x), x.op # "purchase_out" PROVE <<x>> \in Takings
  <2>1. <<x>> \in Wipes /\ DOMAIN <<x>> = {1} /\ <<x>>[1] = x
    BY <1>3, WipesAre
  <2>2. x.op \notin {"purchase_in", "add_bought", "purchase_out"}
    BY <1>3, WipeOperations
  <2> QED BY <2>1, <2>2 DEF Takings, Takes, Enters
<1>4. ASSUME NEW k \in SpentLines, NEW u \in Units, <<k, u>> \in purchaseRows
      PROVE  <<SetUnit(u, "voided"), OnPair("purchase_out", k, u)>> \in Takings
  <2> DEFINE v == SetUnit(u, "voided")
             o == OnPair("purchase_out", k, u)
  <2>1. <<v, o>> \in Wipes /\ v.op = "unit" /\ o.line = k /\ o.unit = u
    BY WipesAre DEF SetUnit, OnPair
  <2> HIDE DEF v, o
  <2>2. DOMAIN <<v, o>> = {1, 2} /\ <<v, o>>[1] = v /\ <<v, o>>[2] = o
    OBVIOUS
  <2>3. Takes(<<v, o>>)
    BY <1>4, <2>1, <2>2 DEF Takes, Enters
  <2> QED BY <2>1, <2>3 DEF Takings, v, o
<1>5. ASSUME NEW t \in Takings
      PROVE  /\ Plan(t)
             /\ \A k \in SpentLines, u \in Units : ~Bears(t, k, u) /\ (Refers(t, k, u) => <<k, u>> \in purchaseRows)
  BY WipesBear DEF Takings, Plan, Takes, Refers
<1> QED BY <1>1, <1>2, <1>3, <1>4, <1>5

LEMMA PurchasesAreFinite ==
  ASSUME RaceTables
  PROVE  /\ \A S : S \subseteq purchaseRows => IsFiniteSet(S) /\ S \subseteq SpentLines \X Units
         /\ \A S : S \subseteq spentLines => IsFiniteSet(S) /\ S \subseteq SpentLines
<1>1. IsFiniteSet(SpentLines \X Units)
  BY FS_Product
<1> QED BY <1>1, FS_Subset DEF RaceTables

LEMMA ReadSpentRaces ==
  ASSUME RaceInv, NEW w \in Workers, ReadSpent(w)
  PROVE  \E j : RaceTurn(w, j)
<1>1. job[w].at = "spent" /\ job[w].req[1] \notin SaleKinds
  BY DEF ReadSpent, Query, SaleKinds
<1>2. Ends(w) \/ \E at \in {"spent_rows", "graph_lines", "spent_idle"} : \E seen : Goes(w, at, seen)
  BY DEF ReadSpent
<1>3. CASE \E at \in {"spent_rows", "graph_lines", "spent_idle"} : \E seen : Goes(w, at, seen)
  BY <1>1, <1>3, GoesTurn
<1> QED BY <1>2, <1>3, EndsTurn

LEMMA LoadSpentRowsRaces ==
  ASSUME RaceInv, NEW w \in Workers, LoadSpentRows(w)
  PROVE  \E j : RaceTurn(w, j)
<1> DEFINE s == job[w].req[2]
           out == {r \in purchaseRows : SpentOf[r[1]] = s}
           seq == SetToSeq(out)
           f == [n \in DOMAIN seq |-> <<SetUnit(seq[n][2], "voided"), OnPair("purchase_out", seq[n][1], seq[n][2])>>]
           todo == FlattenSeq(f) \o <<SetSpent(s, "cancelled")>>
<1>1. job[w].at = "spent_rows" /\ job[w].req[1] = "cancel_spent"
  BY DEF LoadSpentRows, Query
<1>2. RaceTables /\ s \in Spents
  BY <1>1, AskIs, RequestsAre DEF IsRequest
<1>3. IsFiniteSet(out) /\ out \subseteq SpentLines \X Units /\ out \subseteq purchaseRows
  BY <1>2, PurchasesAreFinite
<1> HIDE DEF out
<1>4. Cardinality(out) \in Nat /\ seq \in [1..Cardinality(out) -> out]
  BY <1>3, SetAsSequence
<1> HIDE DEF seq
<1>5. f \in [1..Cardinality(out) -> Takings]
  <2> SUFFICES ASSUME NEW n \in 1..Cardinality(out) PROVE f[n] \in Takings
    BY <1>4
  <2>1. seq[n] \in out /\ seq[n][1] \in SpentLines /\ seq[n][2] \in Units /\ seq[n] = <<seq[n][1], seq[n][2]>>
    BY <1>3, <1>4
  <2> QED BY <1>3, <1>4, <2>1, TakingsAre
<1> HIDE DEF f
<1>6. FlattenSeq(f) \in Takings
  BY <1>4, <1>5, TakingsAre, FlattenedIn
<1>7. <<SetSpent(s, "cancelled")>> \in Takings
  <2>1. SetSpent(s, "cancelled") \in WipeStatements
    BY <1>2, WipeStatementsAre
  <2>2. SetSpent(s, "cancelled").op = "spent"
    BY DEF SetSpent
  <2> QED BY <2>1, <2>2, TakingsAre DEF Voids
<1>8. todo \in Takings
  BY <1>6, <1>7, TakingsAre
<1>9. Ends(w) \/ Writes(w, todo)
  <2>1. FlattenSeq(f) \in Seq(WipeStatements)
    BY <1>6 DEF Takings, Wipes
  <2>2. Append(FlattenSeq(f), SetSpent(s, "cancelled")) = todo
    BY <2>1
  <2> QED BY <2>2 DEF LoadSpentRows, Concat, f, seq, out
<1> HIDE DEF todo
<1>10. job[w].at # "idle" /\ job[w].req[1] \notin SaleKinds
  BY <1>1 DEF SaleKinds
<1> QED BY <1>8, <1>9, <1>10, TakingsAre, WritesTurn, EndsTurn

LEMMA ReadSpentLineRaces ==
  ASSUME RaceInv, NEW w \in Workers, ReadSpentLine(w)
  PROVE  \E j : RaceTurn(w, j)
<1>1. job[w].at = "spent_line" /\ job[w].req[1] \notin SaleKinds
  BY DEF ReadSpentLine, Query, SaleKinds
<1>2. Ends(w) \/ \E at \in {"unit_exists", "purge_rows"} : \E seen : Goes(w, at, seen)
  BY DEF ReadSpentLine
<1>3. CASE \E at \in {"unit_exists", "purge_rows"} : \E seen : Goes(w, at, seen)
  BY <1>1, <1>3, GoesTurn
<1> QED BY <1>2, <1>3, EndsTurn

LEMMA ReadUnitExistsRaces ==
  ASSUME RaceInv, NEW w \in Workers, ReadUnitExists(w)
  PROVE  \E j : RaceTurn(w, j)
<1> DEFINE k == job[w].req[2]
           u == job[w].req[3]
           todo == <<OnUnit("create_unit", u), OnPair("purchase_in", k, u), OnPair("add_bought", k, u)>>
<1>1. job[w].at = "unit_exists" /\ job[w].req[1] = "buy_serial"
  BY DEF ReadUnitExists, Query
<1>2. k \in SpentLines /\ u \in Units
  BY <1>1, AskIs, RequestsAre DEF IsRequest
<1>3. Ends(w) \/ Writes(w, todo)
  BY DEF ReadUnitExists
<1>4. BuyOf(todo, k, u)
  BY DEF BuyOf
<1>5. Head(todo).op = "create_unit"
  BY DEF OnUnit
<1>6. Plan(todo)
  BY <1>2, <1>4 DEF Plan, Buys
<1> HIDE DEF todo
<1>7. \A h, v : ~Bears(todo, h, v) /\ ~Refers(todo, h, v)
  BY <1>5 DEF Bears, Refers, OnPair
<1>8. job[w].at # "idle" /\ job[w].req[1] \notin SaleKinds
  BY <1>1 DEF SaleKinds
<1> QED BY <1>3, <1>6, <1>7, <1>8, WritesTurn, EndsTurn

LEMMA PurgePlanIs ==
  ASSUME RaceTables, NEW k \in SpentLines
  PROVE  PurgePlan(k) \in Takings
<1> DEFINE out == {r \in purchaseRows : r[1] = k}
           seq == SetToSeq(out)
           f == [n \in DOMAIN seq |-> <<OnPair("drop_bought", k, seq[n][2]), OnUnit("delete_unit", seq[n][2])>>]
<1>1. IsFiniteSet(out) /\ out \subseteq SpentLines \X Units
  BY PurchasesAreFinite
<1>2. PurgePlan(k) = IF LineIdle(k) THEN <<OnLine("delete_line_moves", k)>> \o FlattenSeq(f) ELSE <<Fail>>
  BY DEF PurgePlan, Concat
<1> HIDE DEF out
<1>3. Cardinality(out) \in Nat /\ seq \in [1..Cardinality(out) -> out]
  BY <1>1, SetAsSequence
<1> HIDE DEF seq
<1>4. ASSUME NEW u \in Units
      PROVE  <<OnPair("drop_bought", k, u), OnUnit("delete_unit", u)>> \in Takings
  <2> DEFINE d == OnPair("drop_bought", k, u)
             e == OnUnit("delete_unit", u)
  <2>1. d \in WipeStatements /\ e \in WipeStatements /\ d.op = "drop_bought" /\ e.op = "delete_unit"
    BY WipeStatementsAre DEF OnPair, OnUnit
  <2> HIDE DEF d, e
  <2>2. <<d, e>> \in Seq(WipeStatements) /\ DOMAIN <<d, e>> = {1, 2}
    BY <2>1
  <2>3. Paired(<<d, e>>) /\ Takes(<<d, e>>)
    BY <2>1, <2>2 DEF Paired, Takes, Voids, Enters
  <2> QED BY <2>2, <2>3 DEF Takings, Wipes, d, e
<1>5. f \in [1..Cardinality(out) -> Takings]
  <2> SUFFICES ASSUME NEW n \in 1..Cardinality(out) PROVE f[n] \in Takings
    BY <1>3
  <2>1. seq[n][2] \in Units
    BY <1>1, <1>3
  <2> QED BY <1>3, <1>4, <2>1
<1> HIDE DEF f
<1>6. FlattenSeq(f) \in Takings
  BY <1>3, <1>5, TakingsAre, FlattenedIn
<1>7. <<OnLine("delete_line_moves", k)>> \in Takings
  <2>1. OnLine("delete_line_moves", k) \in WipeStatements /\ OnLine("delete_line_moves", k).op = "delete_line_moves"
    BY WipeStatementsAre DEF OnLine
  <2> QED BY <2>1, TakingsAre DEF Voids
<1>8. <<Fail>> \in Takings
  <2>1. Fail \in WipeStatements /\ Fail.op = "fail"
    BY SaleStatementsAre, WipeStatementsAre DEF Fail
  <2> QED BY <2>1, TakingsAre DEF Voids
<1> QED BY <1>2, <1>6, <1>7, <1>8, TakingsAre

(* One statement more, neither of the kardex nor of a unit's status.          *)
LEMMA TakingsGrow ==
  ASSUME NEW t \in Takings, NEW x \in WipeStatements, x.op \notin {"unit", "purchase_out"}
  PROVE  Append(t, x) \in Takings
<1>1. t \in Seq(WipeStatements) /\ <<x>> \in Takings
  BY TakingsAre DEF Takings, Wipes, Voids
<1>2. Append(t, x) = t \o <<x>>
  BY <1>1
<1> QED BY <1>1, <1>2, TakingsAre

LEMMA LoadPurgeRowsRaces ==
  ASSUME RaceInv, NEW w \in Workers, LoadPurgeRows(w)
  PROVE  \E j : RaceTurn(w, j)
<1> DEFINE k == job[w].req[2]
           x == OnLine("delete_spent_line", k)
           todo == Append(PurgePlan(k), x)
<1>1. job[w].at = "purge_rows" /\ job[w].req[1] = "delete_spent_line"
  BY DEF LoadPurgeRows, Query
<1>2. RaceTables /\ k \in SpentLines
  BY <1>1, AskIs, RequestsAre DEF IsRequest
<1>3. x \in WipeStatements /\ x.op = "delete_spent_line"
  BY <1>2, WipeStatementsAre DEF OnLine
<1>4. Writes(w, todo)
  BY DEF LoadPurgeRows
<1> HIDE DEF x
<1>5. todo \in Takings
  BY <1>2, <1>3, PurgePlanIs, TakingsGrow
<1> HIDE DEF todo
<1>6. job[w].at # "idle" /\ job[w].req[1] \notin SaleKinds
  BY <1>1 DEF SaleKinds
<1> QED BY <1>4, <1>5, <1>6, TakingsAre, WritesTurn

LEMMA CheckSpentIdleRaces ==
  ASSUME RaceInv, NEW w \in Workers, CheckSpentIdle(w)
  PROVE  \E j : RaceTurn(w, j)
<1>1. job[w].at = "spent_idle" /\ job[w].req[1] \notin SaleKinds
  BY DEF CheckSpentIdle, Query, SaleKinds
<1>2. Ends(w) \/ Goes(w, "spent_lines", {})
  BY DEF CheckSpentIdle
<1>3. CASE \E seen : Goes(w, "spent_lines", seen)
  BY <1>1, <1>3, GoesTurn
<1> QED BY <1>2, <1>3, EndsTurn

LEMMA ListSpentLinesRaces ==
  ASSUME RaceInv, NEW w \in Workers, ListSpentLines(w)
  PROVE  \E j : RaceTurn(w, j)
<1> DEFINE s == job[w].req[2]
           seq == SetToSeq(SpentLinesOf(s))
           f == [n \in DOMAIN seq |-> <<OnLine("purge_line", seq[n])>>]
<1>1. job[w].at = "spent_lines" /\ job[w].req[1] = "delete_spent"
  BY DEF ListSpentLines, Query
<1>2. RaceTables /\ s \in Spents
  BY <1>1, AskIs, RequestsAre DEF IsRequest
<1>3. IsFiniteSet(SpentLinesOf(s)) /\ SpentLinesOf(s) \subseteq SpentLines
  BY <1>2, PurchasesAreFinite DEF SpentLinesOf
<1>4. Cardinality(SpentLinesOf(s)) \in Nat /\ seq \in [1..Cardinality(SpentLinesOf(s)) -> SpentLinesOf(s)]
  BY <1>3, SetAsSequence
<1>5. PICK end : /\ end \in {Fail, [op |-> "delete_spent", spent |-> s]}
                 /\ Writes(w, Append(FlattenSeq(f), end))
  BY DEF ListSpentLines, Concat
<1> HIDE DEF seq
<1>6. ASSUME NEW k \in SpentLines PROVE <<OnLine("purge_line", k)>> \in Takings
  <2>1. OnLine("purge_line", k) \in WipeStatements /\ OnLine("purge_line", k).op = "purge_line"
    BY WipeStatementsAre DEF OnLine
  <2> QED BY <2>1, TakingsAre DEF Voids
<1>7. f \in [1..Cardinality(SpentLinesOf(s)) -> Takings]
  <2> SUFFICES ASSUME NEW n \in 1..Cardinality(SpentLinesOf(s)) PROVE f[n] \in Takings
    BY <1>4
  <2>1. seq[n] \in SpentLines
    BY <1>3, <1>4
  <2> QED BY <1>4, <1>6, <2>1
<1> HIDE DEF f
<1>8. FlattenSeq(f) \in Takings
  BY <1>4, <1>7, TakingsAre, FlattenedIn
<1>9. end \in WipeStatements /\ end.op \notin {"unit", "purchase_out"}
  <2>1. Fail \in WipeStatements /\ Fail.op = "fail"
    BY SaleStatementsAre, WipeStatementsAre DEF Fail
  <2>2. /\ [op |-> "delete_spent", spent |-> s] \in WipeStatements
        /\ [op |-> "delete_spent", spent |-> s].op = "delete_spent"
    BY <1>2, WipeStatementsAre
  <2> QED BY <1>5, <2>1, <2>2
<1> DEFINE todo == Append(FlattenSeq(f), end)
<1>10. todo \in Takings
  BY <1>8, <1>9, TakingsGrow
<1>11. Writes(w, todo)
  BY <1>5
<1> HIDE DEF todo
<1>12. job[w].at # "idle" /\ job[w].req[1] \notin SaleKinds
  BY <1>1 DEF SaleKinds
<1> QED BY <1>10, <1>11, <1>12, TakingsAre, WritesTurn

(* The rest of a plan refers to what the plan refers to.                      *)
LEMMA RestRefers ==
  ASSUME NEW t, Plan(t), t # <<>>, Head(t).op # "create_unit"
  PROVE  \A k \in SpentLines, u \in Units : Refers(Tail(t), k, u) => Refers(t, k, u)
<1>1. SUFFICES ASSUME NEW k \in SpentLines, NEW u \in Units, Refers(Tail(t), k, u) PROVE Refers(t, k, u)
  OBVIOUS
<1>2. CASE t \in Wipes
  <2>1. t \in Seq(WipeStatements) /\ Len(t) \in Nat /\ Len(t) # 0
    BY <1>2 DEF Wipes
  <2>2. DOMAIN Tail(t) = 1..(Len(t) - 1) /\ \A n \in 1..(Len(t) - 1) : Tail(t)[n] = t[n + 1]
    BY <2>1
  <2>3. PICK n \in 1..(Len(t) - 1) : Enters(t[n + 1], k, u)
    BY <1>1, <2>2 DEF Refers
  <2>4. n + 1 \in DOMAIN t
    BY <2>1, <2>3
  <2> QED BY <2>3, <2>4 DEF Refers
<1>3. CASE Edits(t)
  <2>1. Tail(t) = <<>>
    BY <1>3 DEF Edits
  <2> QED BY <1>1, <2>1 DEF Refers
<1>4. CASE Buys(t)
  <2>1. PICK h \in SpentLines, v \in Units : BuyOf(t, h, v)
    BY <1>4 DEF Buys
  <2> DEFINE c == OnUnit("create_unit", v)
             p == OnPair("purchase_in", h, v)
             a == OnPair("add_bought", h, v)
  <2>2. c.op = "create_unit"
    BY DEF OnUnit
  <2>3. t = <<c, p, a>> \/ t = <<p, a>> \/ t = <<a>>
    BY <2>1 DEF BuyOf
  <2> HIDE DEF c, p, a
  <2>4. Tail(t) = <<a>> \/ Tail(t) = <<>>
    <3>1. t # <<c, p, a>>
      BY <2>2
    <3>2. Tail(<<p, a>>) = <<a>> /\ Tail(<<a>>) = <<>>
      OBVIOUS
    <3> QED BY <2>3, <3>1, <3>2
  <2>5. Tail(t) = <<a>>
    BY <1>1, <2>4 DEF Refers
  <2>6. BuyOf(Tail(t), h, v)
    BY <2>5 DEF BuyOf, a
  <2> QED BY <1>1, <2>1, <2>6, BuysRefer
<1> QED BY <1>2, <1>3, <1>4 DEF Plan

LEMMA PurgeNextLineRaces ==
  ASSUME RaceInv, NEW w \in Workers, PurgeNextLine(w)
  PROVE  /\ \E j : RaceTurn(w, j)
         /\ \A u : ~Tends(job[w].todo, u)
<1> DEFINE t == job[w].todo
           x == Head(t)
           todo == PurgePlan(x.line) \o Tail(t)
<1>1. job[w].at = "write" /\ x.op = "purge_line" /\ Writes(w, todo)
  BY DEF PurgeNextLine
<1>2. RaceKnows(job[w]) /\ RaceTables /\ t # <<>> /\ Plan(t)
  BY <1>1, AskIs DEF RaceKnows
<1>3. t \in Wipes
  <2>1. ~Edits(t)
    BY <1>1 DEF Edits
  <2>2. ~Buys(t)
    <3> SUFFICES ASSUME NEW k \in SpentLines, NEW u \in Units, BuyOf(t, k, u) PROVE FALSE
      BY DEF Buys
    <3>1. x \in {OnUnit("create_unit", u), OnPair("purchase_in", k, u), OnPair("add_bought", k, u)}
      BY DEF BuyOf
    <3> QED BY <1>1, <3>1 DEF OnUnit, OnPair
  <2> QED BY <1>2, <2>1, <2>2 DEF Plan
<1>4. x \in WipeStatements /\ Tail(t) \in Wipes
  BY <1>2, <1>3, WipesAre
<1>5. x.line \in SpentLines
  BY <1>1, <1>4, WipeOperations
<1> DEFINE p == PurgePlan(x.line)
<1>6. p \in Takings
  BY <1>2, <1>5, PurgePlanIs
<1>7. job[w].req[1] \notin SaleKinds
  <2>1. t \notin Seq(SaleStatements)
    <3>1. \A y \in SaleStatements : y.op # "purge_line"
      BY SaleOperations
    <3> QED BY <1>1, <1>2, <3>1
  <2> QED BY <1>2, <2>1 DEF RaceKnows
<1>8. todo \in Wipes
  <2> HIDE DEF p
  <2> QED BY <1>4, <1>6, WipesAre DEF Takings, p
<1>9. ASSUME NEW k \in SpentLines, NEW u \in Units, Refers(todo, k, u)
      PROVE  Refers(t, k, u) \/ <<k, u>> \in purchaseRows
  <2> HIDE DEF p
  <2>1. p \in Seq(WipeStatements) /\ Tail(t) \in Seq(WipeStatements) /\ Takes(p)
    BY <1>4, <1>6 DEF Takings, Wipes
  <2>2. PICK n \in DOMAIN (p \o Tail(t)) : Enters((p \o Tail(t))[n], k, u)
    BY <1>9 DEF Refers, p
  <2>3. \/ n \in DOMAIN p /\ (p \o Tail(t))[n] = p[n]
        \/ n - Len(p) \in DOMAIN Tail(t) /\ (p \o Tail(t))[n] = Tail(t)[n - Len(p)]
    BY <2>1
  <2>4. CASE n \in DOMAIN p /\ (p \o Tail(t))[n] = p[n]
    BY <2>1, <2>2, <2>4 DEF Takes
  <2>5. CASE n - Len(p) \in DOMAIN Tail(t) /\ (p \o Tail(t))[n] = Tail(t)[n - Len(p)]
    <3>1. Refers(Tail(t), k, u)
      <4>1. \E m \in DOMAIN Tail(t) : Enters(Tail(t)[m], k, u)
        BY <2>2, <2>5
      <4>2. Tail(t) # <<>>
        BY <2>1, <4>1
      <4>3. Head(Tail(t)).op # "create_unit"
        BY <1>4, <4>2, WipesBear
      <4> QED BY <4>1, <4>2, <4>3 DEF Refers
    <3> QED BY <1>1, <1>2, <3>1, RestRefers
  <2> QED BY <2>3, <2>4, <2>5
<1>10. \A u : ~Tends(t, u)
  BY <1>1 DEF Tends
<1>11. Writes(w, todo) /\ job[w].at # "idle"
  BY <1>1
<1> HIDE DEF todo
<1>12. Plan(todo) /\ \A k, u : ~Bears(todo, k, u)
  BY <1>8, WipesBear DEF Plan
<1>13. \E j : RaceTurn(w, j)
  BY <1>7, <1>9, <1>11, <1>12, WritesTurn
<1> QED BY <1>10, <1>13

LEMMA LoadGraphRaces ==
  ASSUME RaceInv, NEW w \in Workers, LoadGraph(w)
  PROVE  \E j : RaceTurn(w, j)
<1> DEFINE s == job[w].req[2]
           ls == job[w].req[3]
           pairs == job[w].req[4]
           old == {r \in purchaseRows : SpentOf[r[1]] = s}
           live == job[w].seen[1] # "cancelled"
           out == {r \in old \ pairs : live \/ r[1] \notin ls}
           new == IF live THEN pairs \ old ELSE {}
           graph == [op |-> "save_graph", spent |-> s, to |-> job[w].seen[1],
                     lines |-> ls, dropped |-> SpentLinesOf(s) \ ls, out |-> out, new |-> new]
<1>1. job[w].at = "graph_lines" /\ job[w].req[1] = "edit_spent"
  BY DEF LoadGraph, Query
<1>2. job = [v \in Workers |-> job[v]] /\ IsJob(job[w]) /\ IsRequest(w, job[w].req) /\ load \in Loads
  BY <1>1, AskIs
<1>3. ls \subseteq SpentLines /\ pairs \subseteq SpentLines \X Units
  BY <1>1, <1>2, RequestsAre DEF IsRequest
<1>4. IsGraph(s, ls, pairs)
  BY <1>1, AskIs DEF RaceKnows
<1>5. Ends(w) \/ job' = [job EXCEPT ![w].at = "graph_units", ![w].seen = {}, ![w].todo = <<graph>>]
  BY DEF LoadGraph
<1>6. Edits(<<graph>>)
  <2>1. /\ graph.lines = ls /\ graph.new = new
        /\ graph = [op |-> "save_graph", spent |-> graph.spent, to |-> graph.to, lines |-> graph.lines,
                    dropped |-> graph.dropped, out |-> graph.out, new |-> graph.new]
    OBVIOUS
  <2>2. new \subseteq ls \X Units /\ \A p, q \in new : p[2] = q[2] => p = q
    <3>1. new \subseteq pairs
      OBVIOUS
    <3>2. pairs \subseteq ls \X Units
      BY <1>3, <1>4 DEF IsGraph
    <3> QED BY <1>4, <3>1, <3>2 DEF IsGraph
  <2> HIDE DEF graph, new
  <2> QED BY <1>3, <2>1, <2>2 DEF Edits
<1> HIDE DEF graph
<1>7. CASE job' = [job EXCEPT ![w].at = "graph_units", ![w].seen = {}, ![w].todo = <<graph>>]
  <2> DEFINE j == [at |-> "graph_units", req |-> job[w].req, seen |-> {}, todo |-> <<graph>>]
  <2>1. job' = [job EXCEPT ![w] = [job[w] EXCEPT !.at = "graph_units", !.seen = {}, !.todo = <<graph>>]]
    BY <1>2, <1>7
  <2>2. job[w] \in [at : {job[w].at}, req : {job[w].req}, seen : {job[w].seen}, todo : {job[w].todo}]
    BY <1>2 DEF IsJob
  <2>3. [job[w] EXCEPT !.at = "graph_units", !.seen = {}, !.todo = <<graph>>]
          \in [at : {"graph_units"}, req : {job[w].req}, seen : {{}}, todo : {<<graph>>}]
    BY <2>2
  <2>4. job' = [job EXCEPT ![w] = j]
    BY <2>1, <2>3, JobIs
  <2>5. BecomesJob(w, "graph_units", {}, <<graph>>)
    BY <2>4 DEF BecomesJob
  <2> DEFINE todo == <<graph>>
  <2>6. Edits(todo) /\ BecomesJob(w, "graph_units", {}, todo)
    BY <1>6, <2>5
  <2> HIDE DEF todo
  <2>7. Plan(todo) /\ \A k, u : ~Refers(todo, k, u) /\ ~Bears(todo, k, u)
    BY <2>6, EditsRefer DEF Plan
  <2>8. job[w].at # "idle" /\ job[w].req[1] \notin SaleKinds
    BY <1>1 DEF SaleKinds
  <2> QED BY <2>6, <2>7, <2>8, RaceBecomes
<1> QED BY <1>5, <1>7, EndsTurn

LEMMA CheckGraphUnitsRaces ==
  ASSUME RaceInv, NEW w \in Workers, CheckGraphUnits(w)
  PROVE  \E j : RaceTurn(w, j)
<1> DEFINE todo == job[w].todo
<1>1. job[w].at = "graph_units" /\ job[w].req[1] = "edit_spent"
  BY DEF CheckGraphUnits, Query
<1>2. Edits(todo)
  BY <1>1, AskIs DEF RaceKnows
<1>3. Ends(w) \/ Writes(w, todo)
  BY DEF CheckGraphUnits
<1> HIDE DEF todo
<1>4. Plan(todo) /\ \A k, u : ~Refers(todo, k, u) /\ ~Bears(todo, k, u)
  BY <1>2, EditsRefer DEF Plan
<1>5. job[w].at # "idle" /\ job[w].req[1] \notin SaleKinds
  BY <1>1 DEF SaleKinds
<1> QED BY <1>3, <1>4, <1>5, WritesTurn, EndsTurn

LEMMA ReadSpentRowRaces ==
  ASSUME RaceInv, NEW w \in Workers, ReadSpentRow(w)
  PROVE  \E j : RaceTurn(w, j)
<1> DEFINE k == job[w].req[2]
           u == job[w].req[3]
           d == OnPair("drop_bought", k, u)
           m == OnUnit("delete_unit_moves", u)
           e == OnUnit("delete_unit", u)
<1>1. job[w].at = "spent_row" /\ job[w].req[1] = "return_serial"
  BY DEF ReadSpentRow, Query
<1>2. k \in SpentLines /\ u \in Units
  BY <1>1, AskIs, RequestsAre DEF IsRequest
<1>3. Ends(w) \/ Writes(w, <<d>> \o <<m, e>>) \/ Writes(w, <<d>> \o <<Fail>>)
  BY DEF ReadSpentRow
<1>4. /\ d \in WipeStatements /\ m \in WipeStatements /\ e \in WipeStatements /\ Fail \in WipeStatements
      /\ d.op = "drop_bought" /\ m.op = "delete_unit_moves" /\ e.op = "delete_unit" /\ Fail.op = "fail"
  BY <1>2, WipeStatementsAre, SaleStatementsAre DEF OnPair, OnUnit, Fail
<1> HIDE DEF d, m, e
<1>5. <<m, e>> \in Takings /\ <<d>> \in Takings /\ <<Fail>> \in Takings
  <2>1. <<m, e>> \in Seq(WipeStatements) /\ DOMAIN <<m, e>> = {1, 2}
    BY <1>4
  <2>2. Paired(<<m, e>>) /\ Takes(<<m, e>>)
    BY <1>4, <2>1 DEF Paired, Takes, Voids, Enters
  <2>3. <<d>> \in Takings /\ <<Fail>> \in Takings
    BY <1>4, TakingsAre DEF Voids
  <2> QED BY <2>1, <2>2, <2>3 DEF Takings, Wipes
<1> DEFINE a == <<d>>
           b == <<m, e>>
           c == <<Fail>>
<1>6. /\ Ends(w) \/ Writes(w, a \o b) \/ Writes(w, a \o c)
      /\ a \in Takings /\ b \in Takings /\ c \in Takings
  BY <1>3, <1>5
<1> HIDE DEF a, b, c
<1>7. job[w].at # "idle" /\ job[w].req[1] \notin SaleKinds
  BY <1>1 DEF SaleKinds
<1>8. ASSUME NEW todo \in Takings, Writes(w, todo) PROVE \E j : RaceTurn(w, j)
  BY <1>7, <1>8, TakingsAre, WritesTurn
<1>9. a \o b \in Takings /\ a \o c \in Takings
  BY <1>6, TakingsAre
<1> QED BY <1>6, <1>8, <1>9, EndsTurn

LEMMA StartRaces ==
  ASSUME RaceInv, NEW w \in Workers,
         NEW req \in Requests(load.units, load.lines, load.most, load.spentLines), Start(w, req)
  PROVE  /\ \E j : RaceTurn(w, j)
         /\ job[w] = Idle
<1> DEFINE seen == IF req[1] = "edit_spent" THEN req[3] \cap spentLines ELSE {}
           j == [at |-> FirstQuery(req[1]), req |-> req, seen |-> seen, todo |-> <<>>]
<1>1. job = [v \in Workers |-> job[v]] /\ load \in Loads
  BY DEF RaceInv, RaceJobs
<1>2. req[1] \in load.kinds[w] /\ (req[1] = "edit_spent" => IsGraph(req[2], req[3], req[4]))
  BY DEF Start
<1>3. [Idle EXCEPT !.at = FirstQuery(req[1]), !.req = req, !.seen = seen] = j
  <2> DEFINE first == FirstQuery(req[1])
             k == [Idle EXCEPT !.at = first, !.req = req, !.seen = seen]
  <2> HIDE DEF seen, first
  <2>1. k \in [at : {first}, req : {req}, seen : {seen}, todo : {<<>>}]
    BY DEF Idle
  <2> HIDE DEF k
  <2>2. k = [at |-> first, req |-> req, seen |-> seen, todo |-> <<>>]
    BY <2>1, JobIs
  <2> QED BY <2>2 DEF k, first, seen
<1>4. job' = [job EXCEPT ![w] = j]
  BY <1>3 DEF Start
<1>5. req[1] \in AllKinds
  BY <1>1, <1>2, RequestsAssumption
<1>6. FirstQuery(req[1]) \notin {"idle", "write", "graph_units"}
  BY <1>5 DEF FirstQuery, AllKinds
<1>7. j.at = FirstQuery(req[1]) /\ j.req = req /\ j.todo = <<>> /\ IsJob(j)
  BY DEF IsJob
<1> HIDE DEF j
<1>8. Serves(w, j)
  BY <1>2, <1>6, <1>7 DEF Serves, IsRequest
<1>9. <<>> \in Seq(SaleStatements) /\ Plan(<<>>)
  BY WipesAre DEF Plan
<1>10. RaceKnows(j)
  BY <1>2, <1>6, <1>7, <1>9 DEF RaceKnows
<1>11. \A k, u : ~Bears(j.todo, k, u) /\ ~Refers(j.todo, k, u)
  BY <1>7 DEF Bears, Refers
<1>12. job[w] = Idle
  BY DEF Start, Busy, RaceInv, RaceJobs, Prepared, Serves
<1> QED BY <1>4, <1>8, <1>10, <1>11, <1>12 DEF RaceTurn, Prepared

-----------------------------------------------------------------------------
(* The statements.  The request that performs one goes on with the rest of    *)
(* its plan.                                                                  *)
LEMMA HeadOfBuy ==
  ASSUME NEW k, NEW u, NEW t, BuyOf(t, k, u)
  PROVE  /\ Head(t).op \in {"create_unit", "purchase_in", "add_bought"}
         /\ Head(t).unit = u /\ "unit" \in DOMAIN Head(t)
         /\ Head(t).op # "create_unit" => Head(t).line = k
         /\ Head(t).op = "purchase_in" => Bears(t, k, u)
<1> DEFINE c == OnUnit("create_unit", u)
           p == OnPair("purchase_in", k, u)
           a == OnPair("add_bought", k, u)
<1>1. /\ c.op = "create_unit" /\ c.unit = u /\ "unit" \in DOMAIN c
      /\ p.op = "purchase_in" /\ p.line = k /\ p.unit = u /\ "unit" \in DOMAIN p
      /\ a.op = "add_bought" /\ a.line = k /\ a.unit = u /\ "unit" \in DOMAIN a
  BY DEF OnUnit, OnPair
<1>2. Head(t) \in {c, p, a} /\ t # <<>>
  BY DEF BuyOf
<1>3. Head(t) = p => Bears(t, k, u)
  BY <1>2 DEF Bears
<1> HIDE DEF c, p, a
<1> QED BY <1>1, <1>2, <1>3

LEMMA RestOfBuy ==
  ASSUME NEW k, NEW u, NEW t, BuyOf(t, k, u)
  PROVE  /\ Tail(t) = <<>> \/ BuyOf(Tail(t), k, u)
         /\ \A h, v : Bears(Tail(t), h, v) => Head(t).op = "create_unit"
<1> DEFINE c == OnUnit("create_unit", u)
           p == OnPair("purchase_in", k, u)
           a == OnPair("add_bought", k, u)
<1>1. c.op = "create_unit" /\ a.op = "add_bought"
  BY DEF OnUnit, OnPair
<1>2. \A h, v : OnPair("purchase_in", h, v).op = "purchase_in"
  BY DEF OnPair
<1>3. t = <<c, p, a>> \/ t = <<p, a>> \/ t = <<a>>
  BY DEF BuyOf
<1>4. BuyOf(<<p, a>>, k, u) /\ BuyOf(<<a>>, k, u)
  BY DEF BuyOf
<1> HIDE DEF c, p, a
<1>5. CASE t = <<c, p, a>>
  <2>1. Head(<<c, p, a>>) = c /\ Tail(<<c, p, a>>) = <<p, a>>
    OBVIOUS
  <2> QED BY <1>1, <1>4, <1>5, <2>1
<1>6. CASE t = <<p, a>>
  <2>1. Tail(<<p, a>>) = <<a>> /\ Head(<<a>>) = a
    OBVIOUS
  <2> QED BY <1>1, <1>2, <1>4, <1>6, <2>1 DEF Bears
<1>7. CASE t = <<a>>
  <2>1. Tail(<<a>>) = <<>>
    OBVIOUS
  <2> QED BY <1>1, <1>7, <2>1 DEF Bears
<1> QED BY <1>3, <1>5, <1>6, <1>7

LEMMA RestOfPlan ==
  ASSUME NEW t, Plan(t), t # <<>>
  PROVE  /\ Plan(Tail(t)) /\ (t \in Seq(SaleStatements) => Tail(t) \in Seq(SaleStatements))
         /\ \/ t \in Wipes /\ Head(t) \in WipeStatements
            \/ Head(t).op \in {"create_unit", "purchase_in", "add_bought"} /\ Buys(t)
            \/ Head(t).op = "save_graph" /\ Edits(t) /\ Tail(t) = <<>>
         /\ \A k \in SpentLines, u \in Units :
              /\ Refers(Tail(t), k, u) =>
                   Refers(t, k, u) \/ (Head(t).op = "create_unit" /\ Head(t).unit = u)
              /\ Bears(Tail(t), k, u) => Head(t).op = "create_unit" /\ Head(t).unit = u
<1>1. t \in Seq(SaleStatements) => Tail(t) \in Seq(SaleStatements)
  OBVIOUS
<1>2. CASE t \in Wipes
  <2>1. Tail(t) \in Wipes /\ Head(t) \in WipeStatements
    BY <1>2, WipesAre
  <2>2. Head(t).op # "create_unit"
    BY <1>2, WipesBear
  <2> QED BY <1>1, <1>2, <2>1, <2>2, RestRefers, WipesBear DEF Plan
<1>3. CASE Edits(t)
  <2>1. Tail(t) = <<>> /\ Head(t).op = "save_graph"
    BY <1>3 DEF Edits
  <2>2. Plan(<<>>)
    BY WipesAre DEF Plan
  <2> QED BY <1>1, <1>3, <2>1, <2>2 DEF Refers, Bears
<1>4. CASE Buys(t)
  <2>1. PICK h \in SpentLines, v \in Units : BuyOf(t, h, v)
    BY <1>4 DEF Buys
  <2>2. /\ Tail(t) = <<>> \/ BuyOf(Tail(t), h, v)
        /\ Head(t).op \in {"create_unit", "purchase_in", "add_bought"} /\ Head(t).unit = v
        /\ \A k, u : Bears(Tail(t), k, u) => Head(t).op = "create_unit"
    BY <2>1, HeadOfBuy, RestOfBuy
  <2>3. Plan(Tail(t))
    BY <2>2, WipesAre DEF Plan, Buys
  <2>4. ASSUME NEW k, NEW u, Refers(Tail(t), k, u) \/ Bears(Tail(t), k, u) PROVE k = h /\ u = v
    <3>1. Tail(t) # <<>>
      BY <2>4 DEF Refers, Bears
    <3> QED BY <2>2, <2>4, <3>1, BuysRefer
  <2>5. Head(t).op # "create_unit" => Refers(t, h, v)
    BY <2>1, BuysRefer
  <2> QED BY <1>1, <1>4, <2>2, <2>3, <2>4, <2>5
<1> QED BY <1>2, <1>3, <1>4 DEF Plan

(* The others.                                                                *)
LEMMA OthersFollow ==
  ASSUME RaceInv, NEW W, W \subseteq Workers, NEW units, NEW pairs, NEW bought,
         OthersRenew(W, units, pairs, bought), NEW v \in Workers \ W
  PROVE  Prepared(v, job'[v]) /\ Follows(job[v].todo, job'[v].todo, units)
<1> DEFINE j == job[v]
           todo == Renew(j.todo, units, pairs, bought)
           k == [at |-> j.at, req |-> j.req, seen |-> j.seen, todo |-> todo]
<1>1. Prepared(v, j)
  BY DEF RaceInv, RaceJobs
<1>2. IsJob(j)
  BY <1>1 DEF Prepared, Serves, IsJob, Idle
<1>3. job'[v] = k
  <2>1. job'[v] = [j EXCEPT !.todo = todo]
    BY DEF OthersRenew, Renewed
  <2> HIDE DEF todo
  <2> QED BY <1>2, <2>1, JobsChange
<1>4. k.at = j.at /\ k.req = j.req /\ k.seen = j.seen /\ k.todo = todo /\ IsJob(k)
  BY DEF IsJob
<1>5. CASE j = Idle
  <2>1. todo = <<>> /\ j.todo = <<>>
    BY <1>5, RenewNothing DEF Idle
  <2>2. k = Idle
    BY <1>5, <2>1 DEF Idle
  <2> QED BY <1>3, <1>5, <2>1, <2>2, <1>4 DEF Prepared, Serves, Follows, Refers, Bears, Tends
<1>6. CASE j # Idle
  <2>1. RaceKnows(j) /\ Plan(j.todo) /\ j.at # "idle" /\ IsRequest(v, j.req)
    BY <1>1, <1>6 DEF Prepared, RaceKnows, Serves
  <2>2. /\ Plan(todo) /\ (j.todo # <<>> => todo # <<>>) /\ Follows(j.todo, todo, units)
        /\ j.todo \in Seq(SaleStatements) => todo \in Seq(SaleStatements)
        /\ Edits(j.todo) => Edits(todo)
    BY <2>1, RenewedPlan
  <2> HIDE DEF k, todo, j
  <2>3. RaceKnows(k)
    BY <1>4, <2>1, <2>2 DEF RaceKnows
  <2>4. Prepared(v, k)
    BY <1>4, <2>1, <2>3 DEF Prepared, Serves
  <2> QED BY <1>3, <1>4, <2>2, <2>4 DEF j
<1> QED BY <1>5, <1>6

LEMMA ExecuteActs ==
  ASSUME RaceInv, NEW w \in Workers, job[w].at = "write", load' = load,
         NEW units, NEW pairs, NEW bought,
         Continue(w, Tail(job[w].todo), units, pairs, bought),
         Head(job[w].todo).op = "create_unit" => Head(job[w].todo).unit \in units
  PROVE  Acts(w, Head(job[w].todo), units)
<1> DEFINE t == job[w].todo
           rest == Tail(t)
<1>1. /\ job = [v \in Workers |-> job[v]] /\ IsJob(job[w]) /\ IsRequest(w, job[w].req)
      /\ RaceKnows(job[w]) /\ job[w] # Idle
  BY AskIs
<1>2. Plan(t) /\ t # <<>>
  BY <1>1 DEF RaceKnows
<1>3. job' = [v \in Workers |-> IF v # w THEN Renewed(job[v], units, pairs, bought)
                                ELSE IF rest = <<>> THEN Idle ELSE [job[w] EXCEPT !.todo = rest]]
  BY DEF Continue, Renewed
<1>4. OthersRenew({w}, units, pairs, bought)
  BY <1>3 DEF OthersRenew
<1>5. job'[w].todo = rest /\ Prepared(w, job'[w])
  <2>1. CASE rest = <<>>
    <3>1. job'[w] = Idle
      BY <1>3, <2>1
    <3> QED BY <2>1, <3>1 DEF Prepared, Serves, Idle
  <2>2. CASE rest # <<>>
    <3> DEFINE k == [at |-> job[w].at, req |-> job[w].req, seen |-> job[w].seen, todo |-> rest]
    <3>1. job'[w] = [job[w] EXCEPT !.todo = rest]
      BY <1>3, <2>2
    <3>2. job'[w] = k
      <4> HIDE DEF rest
      <4> QED BY <1>1, <3>1, JobsChange
    <3>3. k.at = "write" /\ k.req = job[w].req /\ k.todo = rest /\ IsJob(k)
      BY DEF IsJob
    <3>4. Plan(rest) /\ (t \in Seq(SaleStatements) => rest \in Seq(SaleStatements))
      BY <1>2, RestOfPlan
    <3> HIDE DEF k, rest
    <3>5. RaceKnows(k)
      BY <1>1, <2>2, <3>3, <3>4 DEF RaceKnows
    <3>6. Prepared(w, k)
      BY <1>1, <3>3, <3>5 DEF Prepared, Serves
    <3> QED BY <3>2, <3>3, <3>6
  <2> QED BY <2>1, <2>2
<1>6. \A k \in SpentLines, u \in Units : Refers(rest, k, u) => Refers(t, k, u) \/ u \in units
  BY <1>2, RestOfPlan
<1>7. \A v \in Workers \ {w} : Prepared(v, job'[v]) /\ Follows(job[v].todo, job'[v].todo, units)
  BY <1>4, OthersFollow
<1>8. job' = [v \in Workers |-> job'[v]]
  BY <1>3
<1> HIDE DEF rest
<1>9. Served({w}, units)
  BY <1>5, <1>6, <1>7, <1>8 DEF Served
<1> QED BY <1>2, <1>5, <1>9 DEF Acts, rest

LEMMA ActsKeep ==
  ASSUME RaceInv, FewUntended, NEW w \in Workers, NEW x, NEW units,
         Acts(w, x, units), Outcome(w, units), crashes' = crashes
  PROVE  RaceInv' /\ FewUntended'
<1>1. RaceInv'
  BY CoreKeeps DEF Acts, Outcome
<1>2. FewUntended'
  BY FewKeeps DEF Acts, Outcome, Tended
<1> QED BY <1>1, <1>2

(* A statement that creates no unit.                                          *)
LEMMA PlainOutcome ==
  ASSUME RaceInv, NEW w \in Workers, NEW x, Acts(w, x, {}), x.op # "create_unit", RaceTables',
         \A u \in Units : status'[u] # "absent" => status[u] # "absent",
         \A k \in SpentLines, u \in Units : Written(k, u)' => Written(k, u) \/ Enters(x, k, u),
         \A u \in Units : /\ status[u] # "absent" /\ Unspoiled(u)
                          /\ \A k \in SpentLines : ~Refers(job[w].todo, k, u)
                          => Unspoiled(u)',
         \A u \in Units : purchaseNet'[u] > 0 /\ status'[u] = "voided" /\ ~Tends(job'[w].todo, u) =>
                            purchaseNet[u] > 0 /\ status[u] = "voided" /\ ~Tends(job[w].todo, u)
  PROVE  Outcome(w, {})
<1>1. Tended(w, {})
  BY DEF Tended
<1>2. ASSUME NEW k \in SpentLines, NEW u \in Units, Enters(x, k, u) PROVE Refers(job[w].todo, k, u)
  <2>1. job[w].todo # <<>> /\ x = Head(job[w].todo) /\ Plan(job[w].todo)
    BY DEF Acts
  <2>2. 1 \in DOMAIN job[w].todo /\ job[w].todo[1] = x
    <3>1. CASE job[w].todo \in Wipes
      <4>1. job[w].todo \in Seq(WipeStatements)
        BY <3>1 DEF Wipes
      <4> QED BY <2>1, <4>1
    <3>2. CASE Buys(job[w].todo)
      BY <2>1, <3>2 DEF Buys, BuyOf
    <3>3. CASE Edits(job[w].todo)
      BY <2>1, <3>3 DEF Edits
    <3> QED BY <2>1, <3>1, <3>2, <3>3 DEF Plan
  <2> QED BY <1>2, <2>1, <2>2 DEF Refers
<1>3. \A k \in SpentLines, u \in Units : Written(k, u)' => Refs(k, u)
  BY <1>2 DEF Refs
<1>4. \A k \in SpentLines, u \in Units : ~Bears(job'[w].todo, k, u)
  BY RestOfPlan DEF Acts
<1>5. Lawful({w}, {})
  BY <1>3, <1>4 DEF Lawful
<1> QED BY <1>1, <1>5 DEF Outcome

(* The statements that leave the purchases alone and void no unit.            *)
LEMMA QuietStatement ==
  ASSUME RaceInv, NEW w \in Workers, NEW x, Acts(w, x, {}), x.op \notin {"create_unit", "purchase_out"},
         UNCHANGED <<spentLines, purchaseRows, purchaseMoves, purchaseNet>>,
         status' \in [Units -> UnitStatus], lines' \subseteq Lines, rows' \subseteq Lines \X Units,
         \A u \in Units : status'[u] # status[u] => status[u] # "absent" /\ status'[u] \in Held
  PROVE  Outcome(w, {})
<1>1. RaceTables
  BY DEF RaceInv
<1>2. \A u \in Units : status[u] # "absent" <=> status'[u] # "absent"
  BY DEF Held
<1>3. \A p \in purchaseRows \cup purchaseMoves : p[2] \in Units
  BY <1>1 DEF RaceTables
<1>4. RaceTables'
  BY <1>1, <1>2, <1>3 DEF RaceTables
<1>5. \A u \in Units : Unspoiled(u) => Unspoiled(u)'
  BY DEF Unspoiled, Held
<1>6. \A k, u : Written(k, u)' <=> Written(k, u)
  BY DEF Written
<1>7. \A u \in Units : ~Tends(job[w].todo, u)
  BY DEF Acts, Tends
<1>8. \A u \in Units : status'[u] = "voided" => status[u] = "voided"
  BY DEF Held
<1> QED BY <1>2, <1>4, <1>5, <1>6, <1>7, <1>8, PlainOutcome

(* A unit is voided: it is taken out of the kardex next.                      *)
LEMMA VoidStatement ==
  ASSUME RaceInv, NEW w \in Workers, NEW x, Acts(w, x, {}), x \in WipeStatements, Voids(x),
         job[w].todo \in Wipes, status[x.unit] # "absent", status' = [status EXCEPT ![x.unit] = "voided"],
         UNCHANGED <<lines, rows, spentLines, purchaseRows, purchaseMoves, purchaseNet>>
  PROVE  Outcome(w, {})
<1> DEFINE t == job[w].todo
<1>1. RaceTables /\ x.unit \in Units /\ x.op = "unit"
  BY WipeOperations DEF RaceInv, Voids
<1>2. t \in Seq(WipeStatements) /\ t # <<>> /\ x = t[1] /\ Head(t) = x /\ Paired(t) /\ Len(t) \in Nat /\ Len(t) # 0
  BY DEF Acts, Wipes
<1>3. 2 \in 1..Len(t) /\ t[2].op = "purchase_out" /\ t[2].unit = x.unit
  <2>1. DOMAIN t = 1..Len(t) /\ 1 \in 1..Len(t) /\ 1 + 1 = 2
    BY <1>2
  <2> QED BY <1>2, <2>1 DEF Paired
<1>4. t[2] \in WipeStatements /\ t[2].line \in SpentLines
  BY <1>2, <1>3, WipeOperations
<1>5. Refers(t, t[2].line, x.unit)
  BY <1>1, <1>2, <1>3 DEF Refers, Enters
<1>6. Tends(job'[w].todo, x.unit)
  <2>1. Tail(t) \in Seq(WipeStatements) /\ Len(Tail(t)) = Len(t) - 1 /\ Tail(t)[1] = t[2]
    BY <1>2, <1>3
  <2>2. Tail(t) # <<>> /\ Head(Tail(t)) = Tail(t)[1]
    <3> DEFINE r == Tail(t)
    <3>1. r \in Seq(WipeStatements) /\ Len(r) # 0
      BY <1>2, <1>3, <2>1
    <3> HIDE DEF r
    <3>2. r # <<>> /\ Head(r) = r[1]
      BY <3>1
    <3> QED BY <3>2 DEF r
  <2> QED BY <1>3, <2>1, <2>2 DEF Acts, Tends
<1>7. RaceTables'
  BY <1>1 DEF RaceTables, UnitStatus
<1>8. \A u \in Units : status'[u] # "absent" => status[u] # "absent"
  BY <1>1 DEF RaceTables
<1>9. \A k, u : Written(k, u)' <=> Written(k, u)
  BY DEF Written
<1>10. ASSUME NEW u \in Units, Unspoiled(u), \A k \in SpentLines : ~Refers(t, k, u)
       PROVE  Unspoiled(u)'
  <2>1. u # x.unit
    BY <1>4, <1>5, <1>10
  <2> QED BY <1>1, <1>10, <2>1 DEF Unspoiled, RaceTables
<1>11. ASSUME NEW u \in Units, status'[u] = "voided", ~Tends(job'[w].todo, u)
       PROVE  status[u] = "voided" /\ ~Tends(t, u)
  <2>1. u # x.unit
    BY <1>6, <1>11
  <2> QED BY <1>1, <1>2, <1>11, <2>1 DEF RaceTables, Tends
<1> QED BY <1>1, <1>7, <1>8, <1>9, <1>10, <1>11, PlainOutcome

(* Its entry is reversed.                                                     *)
LEMMA TakeOutStatement ==
  ASSUME RaceInv, NEW w \in Workers, NEW x, Acts(w, x, {}), x \in WipeStatements, x.op = "purchase_out",
         status[x.unit] # "absent", x.line \in spentLines,
         purchaseNet' = [purchaseNet EXCEPT ![x.unit] = @ - 1],
         purchaseMoves' = purchaseMoves \cup {<<x.line, x.unit>>},
         UNCHANGED <<status, lines, rows, spentLines, purchaseRows>>
  PROVE  Outcome(w, {})
<1>1. RaceTables /\ x.unit \in Units /\ x.line \in SpentLines
  BY WipeOperations DEF RaceInv
<1>2. \A u \in Units : purchaseNet'[u] = IF u = x.unit THEN purchaseNet[u] - 1 ELSE purchaseNet[u]
  BY <1>1 DEF RaceTables
<1>3. RaceTables'
  <2>1. /\ purchaseMoves' \subseteq spentLines' \X Units /\ purchaseNet' \in [Units -> Int]
        /\ \A p \in purchaseRows' \cup purchaseMoves' : status'[p[2]] # "absent"
    BY <1>1 DEF RaceTables
  <2>2. \A u \in Units : purchaseNet'[u] <= 1 /\ (purchaseNet'[u] > 0 => \E m \in purchaseMoves' : m[2] = u)
    BY <1>1, <1>2 DEF RaceTables
  <2> QED BY <1>1, <2>1, <2>2 DEF RaceTables
<1>4. ASSUME NEW k \in SpentLines, NEW u \in Units, Written(k, u)' PROVE Written(k, u) \/ Enters(x, k, u)
  BY <1>4 DEF Written, Enters
<1>5. \A u \in Units : Unspoiled(u) => Unspoiled(u)'
  BY <1>1, <1>2 DEF Unspoiled, RaceTables
<1>6. ASSUME NEW u \in Units, purchaseNet'[u] > 0 PROVE purchaseNet[u] > 0 /\ ~Tends(job[w].todo, u)
  <2>1. u # x.unit
    BY <1>1, <1>2, <1>6 DEF RaceTables
  <2> QED BY <1>2, <1>6, <2>1 DEF Acts, Tends
<1> QED BY <1>3, <1>4, <1>5, <1>6, PlainOutcome

(* The unit that was created is counted.                                      *)
LEMMA CountStatement ==
  ASSUME RaceInv, NEW w \in Workers, NEW x, Acts(w, x, {}), Buys(job[w].todo), x.op = "purchase_in",
         status[x.unit] # "absent", x.line \in spentLines,
         purchaseNet' = [purchaseNet EXCEPT ![x.unit] = @ + 1],
         purchaseMoves' = purchaseMoves \cup {<<x.line, x.unit>>},
         UNCHANGED <<status, lines, rows, spentLines, purchaseRows>>
  PROVE  Outcome(w, {})
<1>1. PICK k \in SpentLines, b \in Units : BuyOf(job[w].todo, k, b)
  BY DEF Buys
<1>2. /\ x.unit = b /\ x.line = k /\ Bears(job[w].todo, k, b) /\ Refers(job[w].todo, k, b)
  BY <1>1, HeadOfBuy, BuysRefer DEF Acts
<1>3. RaceTables /\ Unspoiled(b)
  BY <1>2 DEF RaceInv, NewbornsAreNew
<1>4. \A u \in Units : purchaseNet'[u] = IF u = b THEN purchaseNet[u] + 1 ELSE purchaseNet[u]
  BY <1>2, <1>3 DEF RaceTables
<1>5. RaceTables'
  <2>1. /\ purchaseMoves' \subseteq spentLines' \X Units /\ purchaseNet' \in [Units -> Int]
        /\ \A p \in purchaseRows' \cup purchaseMoves' : status'[p[2]] # "absent"
    BY <1>2, <1>3 DEF RaceTables
  <2>2. \E m \in purchaseMoves' : m[2] = b
    <3>1. <<k, b>> \in purchaseMoves' /\ <<k, b>>[2] = b
      BY <1>2
    <3> QED BY <3>1
  <2>3. \A u \in Units : purchaseNet'[u] <= 1 /\ (purchaseNet'[u] > 0 => \E m \in purchaseMoves' : m[2] = u)
    BY <1>3, <1>4, <2>2 DEF RaceTables, Unspoiled
  <2> QED BY <1>3, <2>1, <2>3 DEF RaceTables
<1>6. ASSUME NEW h \in SpentLines, NEW u \in Units, Written(h, u)' PROVE Written(h, u) \/ Enters(x, h, u)
  BY <1>6 DEF Written, Enters
<1>7. ASSUME NEW u \in Units, Unspoiled(u), \A h \in SpentLines : ~Refers(job[w].todo, h, u)
      PROVE  Unspoiled(u)'
  <2>1. u # b
    BY <1>2, <1>7
  <2> QED BY <1>4, <1>7, <2>1 DEF Unspoiled
<1>8. ASSUME NEW u \in Units, purchaseNet'[u] > 0, status'[u] = "voided"
      PROVE  purchaseNet[u] > 0 /\ status[u] = "voided" /\ ~Tends(job[w].todo, u)
  <2>1. u # b
    BY <1>3, <1>8 DEF Unspoiled
  <2> QED BY <1>4, <1>8, <2>1 DEF Acts, Tends
<1> QED BY <1>5, <1>6, <1>7, <1>8, PlainOutcome

(* Its row is written.                                                        *)
LEMMA RowStatement ==
  ASSUME RaceInv, NEW w \in Workers, NEW x, Acts(w, x, {}), Buys(job[w].todo), x.op = "add_bought",
         status[x.unit] # "absent",
         purchaseRows' = purchaseRows \cup {<<x.line, x.unit>>},
         UNCHANGED <<status, lines, rows, spentLines, purchaseNet, purchaseMoves>>
  PROVE  Outcome(w, {})
<1>1. PICK k \in SpentLines, b \in Units : BuyOf(job[w].todo, k, b)
  BY DEF Buys
<1>2. x.unit = b /\ x.line = k /\ Refers(job[w].todo, k, b)
  <2> DEFINE t == job[w].todo
  <2>1. x = Head(t) /\ BuyOf(t, k, b)
    BY <1>1 DEF Acts
  <2> HIDE DEF t
  <2>2. Head(t).unit = b /\ (Head(t).op # "create_unit" => Head(t).line = k)
    BY <2>1, HeadOfBuy
  <2>3. Head(t).op # "create_unit" => Refers(t, k, b)
    BY <2>1, BuysRefer
  <2>4. x.unit = b /\ x.line = k /\ Refers(t, k, b)
    BY <2>1, <2>2, <2>3
  <2> QED BY <2>4 DEF t
<1>3. RaceTables
  BY DEF RaceInv
<1>4. RaceTables'
  BY <1>2, <1>3 DEF RaceTables
<1>5. ASSUME NEW h \in SpentLines, NEW u \in Units, Written(h, u)' PROVE Written(h, u) \/ Enters(x, h, u)
  BY <1>5 DEF Written, Enters
<1>6. ASSUME NEW u \in Units, Unspoiled(u), \A h \in SpentLines : ~Refers(job[w].todo, h, u)
      PROVE  Unspoiled(u)'
  <2>1. u # b
    BY <1>2, <1>6
  <2> QED BY <1>2, <1>6, <2>1 DEF Unspoiled
<1>7. \A u \in Units : ~Tends(job[w].todo, u)
  BY DEF Acts, Tends
<1> QED BY <1>4, <1>5, <1>6, <1>7, PlainOutcome

(* A row goes.                                                                *)
LEMMA DropStatement ==
  ASSUME RaceInv, NEW w \in Workers, NEW x, Acts(w, x, {}), x.op \notin {"create_unit", "purchase_out"},
         purchaseRows' \subseteq purchaseRows, spentLines' \subseteq spentLines,
         purchaseMoves \subseteq spentLines' \X Units,
         UNCHANGED <<status, lines, rows, purchaseNet, purchaseMoves>>
  PROVE  Outcome(w, {})
<1>1. RaceTables
  BY DEF RaceInv
<1>2. RaceTables'
  BY <1>1 DEF RaceTables
<1>3. \A u \in Units : Unspoiled(u) => Unspoiled(u)'
  BY DEF Unspoiled
<1>4. \A k, u : Written(k, u)' => Written(k, u)
  BY DEF Written
<1>5. \A u \in Units : ~Tends(job[w].todo, u)
  BY DEF Acts, Tends
<1> QED BY <1>2, <1>3, <1>4, <1>5, PlainOutcome

(* A unit goes that nothing refers to, or that is gone already.               *)
LEMMA DeleteUnitStatement ==
  ASSUME RaceInv, NEW w \in Workers, NEW x, Acts(w, x, {}), x.op \notin {"create_unit", "purchase_out"},
         x.unit \in Units, status[x.unit] = "absent" \/ ~Bought(x.unit),
         status' = [status EXCEPT ![x.unit] = "absent"],
         UNCHANGED <<lines, rows, spentLines, purchaseRows, purchaseNet, purchaseMoves>>
  PROVE  Outcome(w, {})
<1>1. RaceTables
  BY DEF RaceInv
<1>2. \A p \in purchaseRows \cup purchaseMoves : p[2] \in Units /\ p[2] # x.unit
  <2> SUFFICES ASSUME NEW p \in purchaseRows \cup purchaseMoves, p[2] = x.unit PROVE FALSE
    BY <1>1 DEF RaceTables
  <2>1. p[1] \in SpentLines /\ p = <<p[1], p[2]>> /\ status[p[2]] # "absent"
    BY <1>1 DEF RaceTables
  <2> QED BY <2>1 DEF Bought
<1>3. RaceTables'
  BY <1>1, <1>2 DEF RaceTables, UnitStatus
<1>4. \A u \in Units : status'[u] = status[u] \/ status'[u] = "absent"
  BY <1>1 DEF RaceTables
<1>5. \A u \in Units : Unspoiled(u) => Unspoiled(u)'
  BY <1>4 DEF Unspoiled
<1>6. \A k, u : Written(k, u)' => Written(k, u)
  BY DEF Written
<1>7. \A u \in Units : ~Tends(job[w].todo, u)
  BY DEF Acts, Tends
<1>8. \A u \in Units : status'[u] = "voided" => status[u] = "voided"
  BY <1>4
<1>9. \A u \in Units : status'[u] # "absent" => status[u] # "absent"
  BY <1>4
<1> QED BY <1>3, <1>5, <1>6, <1>7, <1>8, <1>9, PlainOutcome

(* Entries go, and with them what they counted.                               *)
LEMMA DeleteMovesStatement ==
  ASSUME RaceInv, NEW w \in Workers, NEW x, Acts(w, x, {}), x.op \notin {"create_unit", "purchase_out"},
         NEW gone, purchaseMoves' = purchaseMoves \ gone,
         purchaseNet' = [u \in Units |-> IF u \in UnitsIn(gone) THEN 0 ELSE purchaseNet[u]],
         UNCHANGED <<status, lines, rows, spentLines, purchaseRows>>
  PROVE  Outcome(w, {})
<1>1. RaceTables
  BY DEF RaceInv
<1>2. \A u \in Units : \/ purchaseNet'[u] = 0
                       \/ purchaseNet'[u] = purchaseNet[u] /\ \A m \in gone : m[2] # u
  BY DEF UnitsIn
<1>3. purchaseNet' \in [Units -> Int]
  BY <1>1 DEF RaceTables
<1>4. RaceTables'
  <2>1. \A u \in Units : purchaseNet'[u] <= 1 /\ (purchaseNet'[u] > 0 => \E m \in purchaseMoves' : m[2] = u)
    BY <1>1, <1>2 DEF RaceTables
  <2> QED BY <1>1, <1>3, <2>1 DEF RaceTables
<1>5. \A u \in Units : Unspoiled(u) => Unspoiled(u)'
  BY <1>2 DEF Unspoiled
<1>6. \A k, u : Written(k, u)' => Written(k, u)
  BY DEF Written
<1>7. \A u \in Units : ~Tends(job[w].todo, u)
  BY DEF Acts, Tends
<1>8. \A u \in Units : purchaseNet'[u] > 0 => purchaseNet[u] > 0
  BY <1>2
<1> QED BY <1>4, <1>5, <1>6, <1>7, <1>8, PlainOutcome

(* A unit is created, of which the tables know nothing.                       *)
LEMMA CreateUnitStatement ==
  ASSUME RaceInv, NEW w \in Workers, NEW x, Buys(job[w].todo), x.op = "create_unit",
         Acts(w, x, {x.unit}), status[x.unit] = "absent", status' = [status EXCEPT ![x.unit] = "in_stock"],
         UNCHANGED <<lines, rows, spentLines, purchaseRows, purchaseNet, purchaseMoves>>
  PROVE  Outcome(w, {x.unit})
<1> DEFINE t == job[w].todo
<1>1. PICK k \in SpentLines, b \in Units : BuyOf(t, k, b)
  BY DEF Buys
<1>2. x = Head(t) /\ job'[w].todo = Tail(t) /\ Plan(t) /\ t # <<>>
  BY DEF Acts
<1>3. x.unit = b
  <2> HIDE DEF t
  <2> QED BY <1>1, <1>2, HeadOfBuy
<1>4. RaceTables
  BY DEF RaceInv
<1>5. \A p \in purchaseRows \cup purchaseMoves : p[2] \in Units /\ p[2] # b
  BY <1>3, <1>4 DEF RaceTables
<1>6. \A u \in Units : status'[u] = IF u = b THEN "in_stock" ELSE status[u]
  BY <1>3, <1>4 DEF RaceTables
<1>7. RaceTables'
  BY <1>3, <1>4, <1>5, <1>6 DEF RaceTables, UnitStatus
<1>8. ASSUME NEW h \in SpentLines, NEW u \in Units, Refers(Tail(t), h, u) PROVE h = k
  <2> DEFINE r == Tail(t)
  <2>1. r = <<>> \/ BuyOf(r, k, b)
    <3> HIDE DEF t
    <3> QED BY <1>1, RestOfBuy
  <2>2. r # <<>>
    BY <1>8 DEF Refers
  <2>3. Refers(r, h, u)
    BY <1>8
  <2> HIDE DEF r
  <2> QED BY <2>1, <2>2, <2>3, BuysRefer
<1>9. ASSUME NEW h \in SpentLines, NEW u \in Units, Bears(Tail(t), h, u) PROVE u = b
  BY <1>2, <1>3, <1>9, RestOfPlan
<1>10. Unspoiled(b)'
  <2>1. purchaseNet[b] <= 0
    <3>1. purchaseNet[b] \in Int /\ ~(purchaseNet[b] > 0)
      BY <1>4, <1>5 DEF RaceTables
    <3> QED BY <3>1
  <2>2. status'[b] = "in_stock" /\ purchaseNet'[b] <= 0 /\ \A r \in purchaseRows' : r[2] # b
    BY <1>5, <1>6, <2>1
  <2> QED BY <2>2 DEF Unspoiled
<1>11. \A h, u : Written(h, u)' <=> Written(h, u)
  BY DEF Written
<1>12. ASSUME NEW h \in SpentLines, Written(h, b) PROVE FALSE
  <2>1. <<h, b>>[2] = b
    OBVIOUS
  <2> QED BY <1>5, <1>12, <2>1 DEF Written
<1>13. \A u \in Units : u # b /\ Unspoiled(u) => Unspoiled(u)'
  BY <1>6 DEF Unspoiled
<1>14. Lawful({w}, {b})
  <2>1. \A u \in Units \ {b} : status'[u] # "absent" => status[u] # "absent"
    BY <1>6
  <2>2. \A u \in Units \ {b}, h \in SpentLines : Written(h, u)' => Refs(h, u)
    BY <1>11 DEF Refs
  <2>3. \A u \in {b}, h \in SpentLines : Written(h, u)' \/ Acted({w}, h, u) => h = k
    BY <1>2, <1>8, <1>11, <1>12 DEF Acted
  <2>4. \A h \in SpentLines, u \in Units : Bears(job'[w].todo, h, u) => u \in {b} /\ Unspoiled(u)'
    BY <1>2, <1>9, <1>10
  <2> HIDE DEF t
  <2> QED BY <1>13, <2>1, <2>2, <2>3, <2>4 DEF Lawful
<1>15. Tended(w, {b})
  <2>1. \A u \in Units : ~Tends(t, u)
    BY <1>2 DEF Tends
  <2> QED BY <1>6, <2>1 DEF Tended
<1> QED BY <1>3, <1>7, <1>14, <1>15 DEF Outcome

(* The graph of a spent: its new units are on one line, and nothing remains   *)
(* of those of the same serial number that went.                              *)
LEMMA SaveGraphStatement ==
  ASSUME RaceInv, NEW w \in Workers, NEW x, Edits(job[w].todo), Acts(w, x, UnitsIn(x.new)),
         SaveGraph(x), ~GraphRefused(x)
  PROVE  Outcome(w, UnitsIn(x.new))
<1> DEFINE t == job[w].todo
           units == UnitsIn(x.new)
           keptRows == purchaseRows \ GraphRows(x)
           keptMoves == purchaseMoves \ GraphMoves(x)
<1>1. x = Head(t) /\ job'[w].todo = Tail(t) /\ t # <<>>
  BY DEF Acts
<1>2. /\ x.op = "save_graph" /\ Tail(t) = <<>>
      /\ x.lines \subseteq SpentLines /\ x.new \subseteq x.lines \X Units
      /\ \A p, q \in x.new : p[2] = q[2] => p = q
  <2>1. PICK y : /\ t = <<y>> /\ y.op = "save_graph"
                 /\ y.lines \subseteq SpentLines /\ y.new \subseteq y.lines \X Units
                 /\ \A p, q \in y.new : p[2] = q[2] => p = q
    BY DEF Edits
  <2>2. Head(<<y>>) = y /\ Tail(<<y>>) = <<>>
    OBVIOUS
  <2>3. x = y /\ Tail(t) = <<>>
    BY <1>1, <2>1, <2>2
  <2> QED BY <2>1, <2>3
<1>3. RaceTables
  BY DEF RaceInv
<1>4. /\ spentLines' = (spentLines \ x.dropped) \cup x.lines
      /\ purchaseRows' = keptRows \cup x.new /\ purchaseMoves' = keptMoves \cup x.new
      /\ status' = [u \in Units |-> IF u \in units THEN "in_stock"
                                    ELSE IF u \in GraphUnits(x) THEN "absent" ELSE status[u]]
      /\ purchaseNet' = [u \in Units |-> IF u \in units THEN 1
                                         ELSE IF u \in UnitsIn(GraphMoves(x)) THEN 0 ELSE purchaseNet[u]]
      /\ lines' = lines /\ rows' = rows
  BY DEF SaveGraph, RegisterPairs
<1>5. /\ \A u \in GraphUnits(x) : \A r \in keptRows \cup keptMoves : r[2] # u
      /\ \A u \in units : status[u] = "absent" \/ u \in UnitsIn(x.out)
  BY <1>2 DEF GraphRefused
<1>6. \A p \in x.new : p[2] \in units /\ p[1] \in x.lines /\ p[2] \in Units /\ p = <<p[1], p[2]>>
  BY <1>2 DEF UnitsIn
<1>7. units \subseteq Units
  BY DEF UnitsIn
<1>8. ASSUME NEW p \in keptRows \cup keptMoves
      PROVE  p[2] \in Units /\ status[p[2]] # "absent" /\ p[2] \notin units /\ p[2] \notin GraphUnits(x)
  <2>1. p[2] \in Units /\ status[p[2]] # "absent"
    BY <1>3 DEF RaceTables
  <2>2. p[2] \notin GraphUnits(x)
    BY <1>5
  <2>3. p[2] \notin units
    BY <1>5, <2>1, <2>2 DEF GraphUnits
  <2> QED BY <2>1, <2>2, <2>3
<1>9. ASSUME NEW m \in keptMoves PROVE m[1] \in spentLines' /\ m \in spentLines' \X Units
  <2>1. m[1] \in spentLines /\ m \in spentLines \X Units /\ m[1] \notin x.dropped
    BY <1>3 DEF RaceTables, GraphMoves
  <2> QED BY <1>4, <2>1
<1> HIDE DEF keptRows, keptMoves, units
<1>10. RaceTables'
  <2>1. /\ status' \in [Units -> UnitStatus] /\ spentLines' \subseteq SpentLines
        /\ purchaseNet' \in [Units -> Int] /\ lines' \subseteq Lines /\ rows' \subseteq Lines \X Units
    BY <1>2, <1>3, <1>4 DEF RaceTables, UnitStatus
  <2>2. purchaseRows' \subseteq SpentLines \X Units
    <3>1. keptRows \subseteq SpentLines \X Units
      BY <1>3 DEF RaceTables, keptRows
    <3> QED BY <1>2, <1>4, <3>1
  <2>3. purchaseMoves' \subseteq spentLines' \X Units
    <3>1. \A p \in x.new : p \in spentLines' \X Units
      BY <1>2, <1>4, <1>6
    <3> QED BY <1>4, <1>9, <3>1
  <2>4. \A p \in purchaseRows' \cup purchaseMoves' : status'[p[2]] # "absent"
    BY <1>4, <1>6, <1>8
  <2>5. ASSUME NEW u \in Units
        PROVE  purchaseNet'[u] <= 1 /\ (purchaseNet'[u] > 0 => \E m \in purchaseMoves' : m[2] = u)
    <3>1. CASE u \in units
      <4>1. \E m \in x.new : m[2] = u
        BY <3>1 DEF units, UnitsIn
      <4> QED BY <1>4, <3>1, <4>1
    <3>2. CASE u \notin units /\ u \in UnitsIn(GraphMoves(x))
      BY <1>4, <3>2
    <3>3. CASE u \notin units /\ u \notin UnitsIn(GraphMoves(x))
      <4>1. purchaseNet'[u] = purchaseNet[u] /\ \A m \in GraphMoves(x) : m[2] # u
        BY <1>4, <3>3 DEF UnitsIn
      <4>2. purchaseNet[u] <= 1 /\ (purchaseNet[u] > 0 => \E m \in purchaseMoves : m[2] = u)
        BY <1>3 DEF RaceTables
      <4>3. keptMoves \subseteq purchaseMoves' /\ \A m \in purchaseMoves \ keptMoves : m \in GraphMoves(x)
        BY <1>4 DEF keptMoves
      <4> QED BY <4>1, <4>2, <4>3
    <3> QED BY <3>1, <3>2, <3>3
  <2> QED BY <2>1, <2>2, <2>3, <2>4, <2>5 DEF RaceTables
<1>11. \A h, u : ~Refers(job'[w].todo, h, u) /\ ~Bears(job'[w].todo, h, u)
  BY <1>1, <1>2 DEF Refers, Bears
<1>12. ASSUME NEW h \in SpentLines, NEW u \in Units, Written(h, u)'
       PROVE  /\ u \notin units => Written(h, u)
              /\ u \in units => <<h, u>> \in x.new
  <2>1. <<h, u>> \in keptRows \cup keptMoves \cup x.new /\ <<h, u>>[2] = u
    BY <1>4, <1>12 DEF Written
  <2>2. <<h, u>> \in keptRows \cup keptMoves => u \notin units /\ Written(h, u)
    BY <1>8, <2>1 DEF keptRows, keptMoves, Written
  <2>3. <<h, u>> \in x.new => u \in units
    BY <1>6, <2>1
  <2> QED BY <2>1, <2>2, <2>3
<1>13. Lawful({w}, units)
  <2>1. \A u \in Units \ units : status'[u] # "absent" => status[u] # "absent"
    BY <1>4
  <2>2. \A u \in Units \ units, h \in SpentLines : Written(h, u)' => Refs(h, u)
    BY <1>12 DEF Refs
  <2>3. ASSUME NEW u \in units, NEW h \in SpentLines, NEW k \in SpentLines, Written(h, u)', Written(k, u)'
        PROVE  h = k
    <3>1. <<h, u>> \in x.new /\ <<k, u>> \in x.new /\ <<h, u>>[2] = <<k, u>>[2]
      BY <1>7, <1>12, <2>3
    <3>2. <<h, u>> = <<k, u>>
      BY <1>2, <3>1
    <3> QED BY <3>2
  <2>4. ASSUME NEW u \in Units \ units, Unspoiled(u) PROVE Unspoiled(u)'
    <3>1. status'[u] # "voided" /\ purchaseNet'[u] <= 0
      BY <1>4, <2>4 DEF Unspoiled
    <3>2. \A r \in purchaseRows' : r[2] # u
      BY <1>4, <1>6, <2>4 DEF Unspoiled, keptRows
    <3> QED BY <3>1, <3>2 DEF Unspoiled
  <2> QED BY <1>11, <2>1, <2>2, <2>3, <2>4 DEF Lawful, Acted
<1>14. Tended(w, units)
  <2> SUFFICES ASSUME NEW u \in Units, purchaseNet'[u] > 0, status'[u] = "voided"
               PROVE  u \notin units /\ purchaseNet[u] > 0 /\ status[u] = "voided" /\ ~Tends(t, u)
    BY DEF Tended
  <2>1. ~Tends(t, u)
    BY <1>1, <1>2 DEF Tends
  <2> QED BY <1>4, <2>1
<1> QED BY <1>10, <1>13, <1>14 DEF Outcome, units

(* What is refused changes nothing; a unit that was voided is not refused its *)
(* entry, since its only line is still there.                                 *)
LEMMA RefusedKeeps ==
  ASSUME RaceInv, FewUntended, NEW w \in Workers, job[w].at = "write",
         Refused(Head(job[w].todo)), Ends(w), UNCHANGED <<vars, crashes, load>>
  PROVE  RaceInv' /\ FewUntended'
<1> DEFINE t == job[w].todo
           x == Head(t)
<1>1. RaceTurn(w, Idle)
  BY EndsTurn
<1>2. UNCHANGED <<vars, load>>
  OBVIOUS
<1>3. RaceTables /\ Plan(t) /\ t # <<>>
  BY AskIs DEF RaceKnows
<1>4. ASSUME NEW u \in Untended', Tends(t, u) PROVE FALSE
  <2>1. u \in Units /\ purchaseNet[u] > 0 /\ status[u] = "voided"
    BY TablesStay DEF Untended
  <2>2. x.op = "purchase_out" /\ x.unit = u
    BY <1>4 DEF Tends
  <2>3. x \in WipeStatements /\ t \in Wipes
    BY <1>3, <2>2, RestOfPlan
  <2>4. x.line \in SpentLines
    BY <2>2, <2>3, WipeOperations
  <2>5. PICK m \in purchaseMoves : m[2] = u
    BY <1>3, <2>1 DEF RaceTables
  <2>6. m[1] \in spentLines /\ m[1] \in SpentLines /\ m = <<m[1], u>>
    BY <1>3, <2>5 DEF RaceTables
  <2>7. Refs(m[1], u)
    BY <2>5, <2>6 DEF Refs, Written
  <2>8. Refers(t, x.line, u)
    <3>1. t \in Seq(WipeStatements)
      BY <2>3 DEF Wipes
    <3>2. 1 \in DOMAIN t /\ t[1] = x
      BY <1>3, <3>1
    <3> HIDE DEF x
    <3>3. Enters(t[1], x.line, u)
      BY <2>2, <3>2 DEF Enters
    <3>4. Head(t).op # "create_unit"
      BY <2>2 DEF x
    <3> QED BY <1>3, <3>2, <3>3, <3>4 DEF Refers
  <2>9. x.line = m[1]
    <3>1. Refs(x.line, u)
      BY <2>8 DEF Refs
    <3>2. status[u] # "absent"
      BY <2>1
    <3> HIDE DEF x
    <3> QED BY <2>1, <2>4, <2>6, <2>7, <3>1, <3>2 DEF RaceInv, OneLineEach
  <2> HIDE DEF x
  <2>10. Refused(x)
    BY DEF x
  <2>11. ~NoUnit(x)
    BY <2>1, <2>2 DEF NoUnit
  <2>12. ~Missing(x) /\ ~Duplicate(x) /\ ~GraphRefused(x)
    BY <2>2 DEF Missing, Duplicate, GraphRefused
  <2>13. ~Dangling(x)
    BY <2>2, <2>6, <2>9, <2>11 DEF Dangling
  <2> QED BY <2>2, <2>10, <2>12, <2>13 DEF Refused
<1>5. \A u \in Untended' : ~Tends(t, u)
  BY <1>4
<1>6. crashes' = crashes
  OBVIOUS
<1> QED BY <1>1, <1>2, <1>5, <1>6, RaceTurnKeeps

(* Each operation has one statement.                                          *)
LEMMA StatementIs ==
  ASSUME NEW x, Statement(x)
  PROVE  /\ x.op \in {"unit", "create_unit", "delete_unit"} => SaveStatus(x)
         /\ x.op = "invoice" => SaveInvoice(x)
         /\ x.op \in {"delete_invoice", "delete_line"} => DeleteSaleRows(x)
         /\ x.op \in {"sale_out", "sale_in"} => InsertSaleMove(x)
         /\ x.op \in {"add_row", "swap_row", "drop_row"} => SaveRows(x)
         /\ x.op = "quantity" => SaveQuantity(x)
         /\ x.op \in {"purchase_in", "purchase_out"} => InsertPurchaseMove(x)
         /\ x.op \in {"add_bought", "drop_bought"} => SaveBought(x)
         /\ x.op \in {"delete_line_moves", "delete_unit_moves"} => DeleteMoves(x)
         /\ x.op = "spent" => SaveSpent(x)
         /\ x.op = "delete_spent_line" => DeleteSpentLine(x)
         /\ x.op = "delete_spent" => DeleteSpentRow(x)
         /\ x.op = "save_graph" => SaveGraph(x)
         /\ x.op = "nothing" => UNCHANGED vars
<1>1. /\ SaveStatus(x) => x.op \in {"unit", "create_unit", "delete_unit"}
      /\ SaveInvoice(x) => x.op = "invoice"
      /\ DeleteSaleRows(x) => x.op \in {"delete_invoice", "delete_line"}
      /\ InsertSaleMove(x) => x.op \in {"sale_out", "sale_in"}
      /\ SaveRows(x) => x.op \in {"add_row", "swap_row", "drop_row"}
      /\ SaveQuantity(x) => x.op = "quantity"
      /\ InsertPurchaseMove(x) => x.op \in {"purchase_in", "purchase_out"}
      /\ SaveBought(x) => x.op \in {"add_bought", "drop_bought"}
      /\ DeleteMoves(x) => x.op \in {"delete_line_moves", "delete_unit_moves"}
      /\ SaveSpent(x) => x.op = "spent"
      /\ DeleteSpentLine(x) => x.op = "delete_spent_line"
      /\ DeleteSpentRow(x) => x.op = "delete_spent"
      /\ SaveGraph(x) => x.op = "save_graph"
  BY DEF SaveStatus, SaveInvoice, DeleteSaleRows, InsertSaleMove, SaveRows, SaveQuantity,
         InsertPurchaseMove, SaveBought, DeleteMoves, SaveSpent, DeleteSpentLine, DeleteSpentRow, SaveGraph
<1> QED BY <1>1 DEF Statement

(* The statements of the sales.                                               *)
LEMMA SaleStatementIsQuiet ==
  ASSUME RaceInv, NEW x \in WipeStatements, Statement(x),
         x.op \in {"sale_out", "sale_in", "add_row", "drop_row", "swap_row", "invoice", "delete_invoice",
                   "delete_line", "quantity", "spent", "nothing"}
  PROVE  /\ UNCHANGED <<spentLines, purchaseRows, purchaseMoves, purchaseNet, status>>
         /\ lines' \subseteq Lines /\ rows' \subseteq Lines \X Units
<1>1. lines \subseteq Lines /\ rows \subseteq Lines \X Units
  BY DEF RaceInv, RaceTables
<1>2. CASE x.op \in {"sale_out", "sale_in"}
  BY <1>1, <1>2, StatementIs DEF InsertSaleMove, purchaseVars
<1>3. CASE x.op \in {"add_row", "drop_row", "swap_row"}
  <2>1. SaveRows(x) /\ x.line \in Lines /\ x.unit \in Units /\ (x.op = "swap_row" => x.next \in Units)
    BY <1>3, StatementIs, WipeOperations
  <2> QED BY <1>1, <1>3, <2>1 DEF SaveRows, purchaseVars
<1>4. CASE x.op = "invoice"
  BY <1>1, <1>4, StatementIs DEF SaveInvoice, purchaseVars
<1>5. CASE x.op \in {"delete_invoice", "delete_line"}
  BY <1>1, <1>5, StatementIs DEF DeleteSaleRows, purchaseVars
<1>6. CASE x.op = "quantity"
  BY <1>1, <1>6, StatementIs DEF SaveQuantity, purchaseVars
<1>7. CASE x.op = "spent"
  BY <1>1, <1>7, StatementIs DEF SaveSpent, saleVars
<1>8. CASE x.op = "nothing"
  BY <1>1, <1>8, StatementIs DEF vars
<1> QED BY <1>2, <1>3, <1>4, <1>5, <1>6, <1>7, <1>8

LEMMA WipeStatementOutcome ==
  ASSUME RaceInv, NEW w \in Workers, NEW x \in WipeStatements, job[w].todo \in Wipes,
         Acts(w, x, {}), ~Refused(x), Statement(x), x.op # "purge_line"
  PROVE  Outcome(w, {})
<1>1. RaceTables
  BY DEF RaceInv
<1>2. CASE x.op = "unit"
  <2>1. SaveStatus(x) /\ x.unit \in Units /\ x.to \in Held \cup {"voided"}
    BY <1>2, StatementIs, WipeOperations
  <2>2. status' = [status EXCEPT ![x.unit] = x.to]
    BY <1>2, <2>1 DEF SaveStatus
  <2>3. UNCHANGED <<lines, rows, spentLines, purchaseRows, purchaseMoves, purchaseNet>>
    BY <2>1 DEF SaveStatus, saleVars, purchaseVars
  <2>4. status[x.unit] # "absent"
    BY <1>2, WipeOperations DEF Refused, Missing, NoUnit
  <2>5. CASE x.to = "voided"
    BY <1>2, <2>2, <2>3, <2>4, <2>5, VoidStatement DEF Voids
  <2>6. CASE x.to \in Held
    <3>1. status' \in [Units -> UnitStatus]
      BY <1>1, <2>2, <2>6 DEF RaceTables, UnitStatus, Held
    <3>2. \A u \in Units : status'[u] # status[u] => status[u] # "absent" /\ status'[u] \in Held
      BY <1>1, <2>1, <2>2, <2>4, <2>6 DEF RaceTables
    <3>3. lines' \subseteq Lines /\ rows' \subseteq Lines \X Units
      BY <1>1, <2>3 DEF RaceTables
    <3> QED BY <1>2, <2>3, <3>1, <3>2, <3>3, QuietStatement
  <2> QED BY <2>1, <2>5, <2>6
<1>3. CASE x.op \in {"sale_out", "sale_in", "add_row", "drop_row", "swap_row", "invoice", "delete_invoice",
                     "delete_line", "quantity", "spent", "nothing"}
  <2>1. /\ UNCHANGED <<spentLines, purchaseRows, purchaseMoves, purchaseNet, status>>
        /\ lines' \subseteq Lines /\ rows' \subseteq Lines \X Units
    BY <1>3, SaleStatementIsQuiet
  <2>2. status' \in [Units -> UnitStatus] /\ \A u \in Units : status'[u] = status[u]
    BY <1>1, <2>1 DEF RaceTables
  <2>3. x.op \notin {"create_unit", "purchase_out"}
    BY <1>3
  <2> QED BY <2>1, <2>2, <2>3, QuietStatement
<1>4. CASE x.op = "purchase_out"
  <2>1. InsertPurchaseMove(x) /\ "unit" \in DOMAIN x
    BY <1>4, StatementIs, WipeOperations
  <2>2. status[x.unit] # "absent" /\ x.line \in spentLines
    BY <1>4, <2>1 DEF Refused, Dangling, NoUnit
  <2>3. /\ purchaseNet' = [purchaseNet EXCEPT ![x.unit] = @ + (-1)]
        /\ purchaseMoves' = purchaseMoves \cup {<<x.line, x.unit>>}
        /\ UNCHANGED <<status, lines, rows, spentLines, purchaseRows>>
    BY <1>4, <2>1 DEF InsertPurchaseMove, saleVars
  <2>4. x.unit \in Units /\ purchaseNet[x.unit] \in Int
    BY <1>1, <1>4, WipeOperations DEF RaceTables
  <2>5. purchaseNet' = [purchaseNet EXCEPT ![x.unit] = @ - 1]
    <3>1. purchaseNet[x.unit] + (-1) = purchaseNet[x.unit] - 1
      BY <2>4
    <3> QED BY <2>3, <3>1
  <2> QED BY <1>4, <2>2, <2>3, <2>5, TakeOutStatement
<1>5. CASE x.op = "drop_bought"
  <2>1. SaveBought(x)
    BY <1>5, StatementIs
  <2>2. /\ purchaseRows' \subseteq purchaseRows
        /\ UNCHANGED <<status, lines, rows, spentLines, purchaseNet, purchaseMoves>>
    BY <1>5, <2>1 DEF SaveBought, saleVars
  <2>3. spentLines' \subseteq spentLines /\ purchaseMoves \subseteq spentLines' \X Units
    BY <1>1, <2>2 DEF RaceTables
  <2> QED BY <1>5, <2>2, <2>3, DropStatement
<1>6. CASE x.op = "delete_unit"
  <2>1. SaveStatus(x) /\ "unit" \in DOMAIN x /\ x.unit \in Units
    BY <1>6, StatementIs, WipeOperations
  <2>2. /\ status' = [status EXCEPT ![x.unit] = "absent"]
        /\ UNCHANGED <<lines, rows, spentLines, purchaseRows, purchaseNet, purchaseMoves>>
    BY <1>6, <2>1 DEF SaveStatus, saleVars, purchaseVars
  <2>3. status[x.unit] = "absent" \/ ~Bought(x.unit)
    BY <1>6, <2>1 DEF Refused, Dangling, NoUnit
  <2> QED BY <1>6, <2>1, <2>2, <2>3, DeleteUnitStatement
<1>7. CASE x.op \in {"delete_line_moves", "delete_unit_moves"}
  <2> DEFINE gone == {m \in purchaseMoves : Names(x, "line", m[1]) \/ Names(x, "unit", m[2])}
  <2>1. DeleteMoves(x)
    BY <1>7, StatementIs
  <2>2. /\ purchaseMoves' = purchaseMoves \ gone
        /\ purchaseNet' = [u \in Units |-> IF u \in UnitsIn(gone) THEN 0 ELSE purchaseNet[u]]
        /\ UNCHANGED <<status, lines, rows, spentLines, purchaseRows>>
    BY <2>1 DEF DeleteMoves
  <2>3. x.op \notin {"create_unit", "purchase_out"}
    BY <1>7
  <2> HIDE DEF gone
  <2> QED BY <2>2, <2>3, DeleteMovesStatement
<1>8. CASE x.op = "delete_spent_line"
  <2>1. DeleteSpentLine(x)
    BY <1>8, StatementIs
  <2>2. /\ spentLines' = spentLines \ {x.line} /\ purchaseRows' \subseteq purchaseRows
        /\ UNCHANGED <<status, lines, rows, purchaseNet, purchaseMoves>>
    BY <2>1 DEF DeleteSpentLine, saleVars
  <2>3. \A m \in purchaseMoves : m[1] # x.line
    BY <1>8 DEF Refused, Dangling
  <2>4. spentLines' \subseteq spentLines /\ purchaseMoves \subseteq spentLines' \X Units
    BY <1>1, <2>2, <2>3 DEF RaceTables
  <2> QED BY <1>8, <2>2, <2>4, DropStatement
<1>9. CASE x.op = "delete_spent"
  <2>1. DeleteSpentRow(x)
    BY <1>9, StatementIs
  <2>2. /\ spentLines' = {k \in spentLines : SpentOf[k] # x.spent} /\ purchaseRows' \subseteq purchaseRows
        /\ UNCHANGED <<status, lines, rows, purchaseNet, purchaseMoves>>
    BY <2>1 DEF DeleteSpentRow, saleVars
  <2>3. \A m \in purchaseMoves : SpentOf[m[1]] # x.spent
    BY <1>9 DEF Refused, Dangling
  <2>4. spentLines' \subseteq spentLines /\ purchaseMoves \subseteq spentLines' \X Units
    BY <1>1, <2>2, <2>3 DEF RaceTables
  <2> QED BY <1>9, <2>2, <2>4, DropStatement
<1>10. x.op # "fail"
  BY DEF Refused
<1>11. x.op \in {"unit", "sale_out", "sale_in", "add_row", "drop_row", "swap_row", "invoice",
                 "delete_invoice", "delete_line", "quantity", "fail", "nothing",
                 "purchase_out", "drop_bought", "delete_unit", "delete_unit_moves", "spent",
                 "delete_spent", "delete_line_moves", "delete_spent_line", "purge_line"}
  BY WipeOperations
<1> QED BY <1>2, <1>3, <1>4, <1>5, <1>6, <1>7, <1>8, <1>9, <1>10, <1>11

LEMMA BuyStatementOutcome ==
  ASSUME RaceInv, NEW w \in Workers, NEW x, Buys(job[w].todo), x.op \in {"purchase_in", "add_bought"},
         Acts(w, x, {}), ~Refused(x), Statement(x)
  PROVE  Outcome(w, {})
<1>1. "unit" \in DOMAIN x
  <2>1. PICK k \in SpentLines, u \in Units : BuyOf(job[w].todo, k, u)
    BY DEF Buys
  <2>2. x = Head(job[w].todo)
    BY DEF Acts
  <2> DEFINE t == job[w].todo
  <2>3. BuyOf(t, k, u) /\ x = Head(t)
    BY <2>1, <2>2
  <2> HIDE DEF t
  <2> QED BY <2>3, HeadOfBuy
<1>2. status[x.unit] # "absent" /\ x.line \in spentLines
  BY <1>1 DEF Refused, Dangling, NoUnit
<1>3. CASE x.op = "purchase_in"
  <2>1. InsertPurchaseMove(x)
    BY <1>3, StatementIs
  <2>2. /\ purchaseNet' = [purchaseNet EXCEPT ![x.unit] = @ + 1]
        /\ purchaseMoves' = purchaseMoves \cup {<<x.line, x.unit>>}
        /\ UNCHANGED <<status, lines, rows, spentLines, purchaseRows>>
    BY <1>3, <2>1 DEF InsertPurchaseMove, saleVars
  <2> QED BY <1>2, <1>3, <2>2, CountStatement
<1>4. CASE x.op = "add_bought"
  <2>1. SaveBought(x)
    BY <1>4, StatementIs
  <2>2. /\ purchaseRows' = purchaseRows \cup {<<x.line, x.unit>>}
        /\ UNCHANGED <<status, lines, rows, spentLines, purchaseNet, purchaseMoves>>
    BY <1>4, <2>1 DEF SaveBought, saleVars
  <2> QED BY <1>2, <1>4, <2>2, RowStatement
<1> QED BY <1>3, <1>4

LEMMA ExecuteRaces ==
  ASSUME RaceInv, FewUntended, NEW w \in Workers, Execute(w)
  PROVE  RaceInv' /\ FewUntended'
<1> DEFINE t == job[w].todo
           x == Head(t)
           units == CASE x.op = "create_unit" -> {x.unit}
                      [] x.op = "save_graph" -> UnitsIn(x.new)
                      [] OTHER -> {}
           pairs == CASE x.op = "add_row" -> {<<x.line, x.unit>>}
                      [] x.op = "swap_row" -> {<<x.line, x.next>>}
                      [] OTHER -> {}
           bought == CASE x.op = "add_bought" -> {<<x.line, x.unit>>}
                       [] x.op = "save_graph" -> x.new
                       [] OTHER -> {}
<1>1. job[w].at = "write" /\ load' = load /\ crashes' = crashes /\ x.op # "purge_line"
  BY DEF Execute
<1>2. RaceKnows(job[w]) /\ Plan(t) /\ t # <<>>
  BY <1>1, AskIs DEF RaceKnows
<1>3. CASE Refused(x) /\ Ends(w) /\ UNCHANGED vars
  <2> HIDE DEF units, pairs, bought
  <2>1. UNCHANGED <<vars, crashes, load>>
    BY <1>1, <1>3
  <2> QED BY <1>1, <1>3, <2>1, RefusedKeeps
<1>4. CASE ~Refused(x) /\ Statement(x) /\ Continue(w, Tail(t), units, pairs, bought)
  <2>1. x.op = "create_unit" => x.unit \in units
    OBVIOUS
  <2>2. Acts(w, x, units)
    <3> HIDE DEF units, pairs, bought
    <3> QED BY <1>1, <1>4, <2>1, ExecuteActs
  <2>3. CASE t \in Wipes /\ x \in WipeStatements
    <3>1. x.op \notin {"create_unit", "save_graph"}
      BY <1>2, <2>3, WipesBear
    <3>2. units = {}
      BY <3>1
    <3> HIDE DEF units, pairs, bought, x
    <3>3. Acts(w, x, {})
      BY <2>2, <3>2
    <3>4. Outcome(w, {})
      BY <1>1, <1>4, <2>3, <3>3, WipeStatementOutcome
    <3> QED BY <1>1, <3>3, <3>4, ActsKeep
  <2>4. CASE x.op = "create_unit" /\ Buys(t)
    <3>1. units = {x.unit}
      BY <2>4
    <3>2. PICK k \in SpentLines, u \in Units : BuyOf(t, k, u)
      BY <2>4 DEF Buys
    <3>3. "unit" \in DOMAIN x
      <4> HIDE DEF t
      <4> QED BY <3>2, HeadOfBuy
    <3> HIDE DEF units, pairs, bought, x
    <3>4. SaveStatus(x)
      BY <1>4, <2>4, StatementIs
    <3>5. status' = [status EXCEPT ![x.unit] = "in_stock"]
      BY <2>4, <3>4 DEF SaveStatus
    <3>6. UNCHANGED <<lines, rows, spentLines, purchaseRows, purchaseNet, purchaseMoves>>
      BY <3>4 DEF SaveStatus, saleVars, purchaseVars
    <3>7. status[x.unit] = "absent"
      BY <1>4, <2>4, <3>3 DEF Refused, Duplicate, NoUnit
    <3>8. Acts(w, x, {x.unit})
      BY <2>2, <3>1
    <3>9. Outcome(w, {x.unit})
      BY <2>4, <3>5, <3>6, <3>7, <3>8, CreateUnitStatement
    <3> QED BY <1>1, <3>8, <3>9, ActsKeep
  <2>5. CASE x.op \in {"purchase_in", "add_bought"} /\ Buys(t)
    <3>1. units = {}
      BY <2>5
    <3> HIDE DEF units, pairs, bought, x
    <3>2. Acts(w, x, {})
      BY <2>2, <3>1
    <3>3. Outcome(w, {})
      BY <1>4, <2>5, <3>2, BuyStatementOutcome
    <3> QED BY <1>1, <3>2, <3>3, ActsKeep
  <2>6. CASE x.op = "save_graph" /\ Edits(t)
    <3>1. units = UnitsIn(x.new)
      BY <2>6
    <3> HIDE DEF units, pairs, bought, x
    <3>2. SaveGraph(x) /\ ~GraphRefused(x)
      BY <1>4, <2>6, StatementIs DEF Refused
    <3>3. Acts(w, x, UnitsIn(x.new))
      BY <2>2, <3>1
    <3>4. Outcome(w, UnitsIn(x.new))
      BY <2>6, <3>2, <3>3, SaveGraphStatement
    <3> QED BY <1>1, <3>3, <3>4, ActsKeep
  <2> HIDE DEF units, pairs, bought
  <2> QED BY <1>2, <2>3, <2>4, <2>5, <2>6, RestOfPlan
<1>5. \/ Refused(x) /\ Ends(w) /\ UNCHANGED vars
      \/ ~Refused(x) /\ Statement(x) /\ Continue(w, Tail(t), units, pairs, bought)
  BY DEF Execute
<1> HIDE DEF units, pairs, bought
<1> QED BY <1>3, <1>4, <1>5

(* A crash leaves at most the unit to itself that its request was to take out *)
(* of the kardex.                                                             *)
LEMMA CrashRaces ==
  ASSUME RaceInv, FewUntended, NEW w \in Workers, Crash(w)
  PROVE  RaceInv' /\ FewUntended'
<1> DEFINE t == job[w].todo
           h == Head(t).unit
<1>1. RaceTurn(w, Idle) /\ UNCHANGED <<vars, load>> /\ crashes' = crashes + 1
  BY EndsTurn DEF Crash
<1>2. RaceInv'
  BY <1>1, RaceTurnKeeps
<1>3. job' = [v \in Workers |-> IF v = w THEN Idle ELSE job[v]]
  BY <1>1 DEF RaceTurn, RaceInv, RaceJobs
<1>4. \A u : Tends(t, u) => u = h
  BY DEF Tends
<1> HIDE DEF t, h
<1>5. ASSUME NEW u \in Untended' PROVE u \in Untended \cup {h}
  <2>1. u \in Units /\ purchaseNet[u] > 0 /\ status[u] = "voided" /\ \A v \in Workers : ~Tends(job'[v].todo, u)
    BY <1>1, TablesStay DEF Untended
  <2>2. \A v \in Workers \ {w} : ~Tends(job[v].todo, u)
    BY <1>3, <2>1
  <2>3. Tends(job[w].todo, u) => u = h
    BY <1>4 DEF t
  <2> QED BY <2>1, <2>2, <2>3 DEF Untended
<1>6. IsFiniteSet(Untended)
  BY FS_Subset DEF Untended
<1>7. /\ IsFiniteSet(Untended \cup {h})
      /\ Cardinality(Untended \cup {h}) = IF h \in Untended THEN Cardinality(Untended)
                                          ELSE Cardinality(Untended) + 1
  BY <1>6, FS_AddElement
<1>8. /\ Cardinality(Untended') <= Cardinality(Untended \cup {h})
      /\ Cardinality(Untended') \in Nat /\ Cardinality(Untended) \in Nat
  <2>1. Untended' \subseteq Untended \cup {h}
    BY <1>5
  <2>2. IsFiniteSet(Untended')
    BY <1>7, <2>1, FS_Subset
  <2> QED BY <1>6, <1>7, <2>1, <2>2, FS_Subset, FS_CardinalityType
<1>9. FewUntended'
  BY <1>1, <1>7, <1>8 DEF FewUntended
<1> QED BY <1>2, <1>9

(* A document is created: every request under way follows.                    *)
LEMMA CreatesKeep ==
  ASSUME RaceInv, FewUntended, NEW units, Creates(units), RaceTables', Lawful({}, units),
         \A u \in Units : purchaseNet'[u] > 0 /\ status'[u] = "voided" =>
                            u \notin units /\ purchaseNet[u] > 0 /\ status[u] = "voided"
  PROVE  RaceInv' /\ FewUntended'
<1>1. load' = load /\ crashes' = crashes /\ job' = [v \in Workers |-> Renewed(job[v], units, {}, {})]
  BY DEF Creates, Renewed
<1>2. OthersRenew({}, units, {}, {})
  BY <1>1 DEF OthersRenew
<1>3. \A v \in Workers : Prepared(v, job'[v]) /\ Follows(job[v].todo, job'[v].todo, units)
  BY <1>2, OthersFollow
<1>4. job' = [v \in Workers |-> job'[v]]
  BY <1>1
<1>5. Served({}, units)
  BY <1>1, <1>3, <1>4 DEF Served
<1>6. RaceInv'
  BY <1>5, CoreKeeps
<1>7. FewUntended'
  <2>1. crashes' = crashes /\ {} \subseteq Workers
    BY <1>1
  <2>2. \A u \in Units :
          /\ purchaseNet'[u] > 0 /\ status'[u] = "voided" /\ \A v \in {} : ~Tends(job'[v].todo, u)
          => /\ u \notin units /\ purchaseNet[u] > 0 /\ status[u] = "voided"
             /\ \A v \in {} : ~Tends(job[v].todo, u)
    OBVIOUS
  <2> QED BY <1>5, <2>1, <2>2, FewKeeps
<1> QED BY <1>6, <1>7

LEMMA CreateRaces ==
  ASSUME RaceInv, FewUntended, Create
  PROVE  RaceInv' /\ FewUntended'
<1>1. RaceTables /\ load \in Loads
  BY DEF RaceInv
<1>2. ASSUME Creates({}), lines' \subseteq Lines, spentLines \subseteq spentLines', spentLines' \subseteq SpentLines,
             UNCHANGED <<status, rows, purchaseRows, purchaseMoves, purchaseNet>>
      PROVE  RaceInv' /\ FewUntended'
  <2>1. purchaseMoves' \subseteq spentLines' \X Units
    BY <1>1, <1>2 DEF RaceTables
  <2>2. RaceTables'
    BY <1>1, <1>2, <2>1 DEF RaceTables
  <2>3. Lawful({}, {})
    BY <1>2 DEF Lawful, Refs, Written, Unspoiled
  <2> QED BY <1>2, <2>2, <2>3, CreatesKeep
<1>3. ASSUME NEW i \in Invoices, CreateInvoice(i, "draft"), Creates({}) PROVE RaceInv' /\ FewUntended'
  BY <1>1, <1>2, <1>3 DEF CreateInvoice, purchaseVars, RaceTables
<1>4. ASSUME NEW l \in load.lines, NEW q \in 0..load.most, CreateInvoiceConcept(l, q), Creates({})
      PROVE  RaceInv' /\ FewUntended'
  <2>1. l \in Lines
    BY <1>1, RequestsAssumption
  <2> QED BY <1>1, <1>2, <1>4, <2>1 DEF CreateInvoiceConcept, purchaseVars, RaceTables
<1>5. ASSUME NEW k \in load.spentLines, CreateSpentConcept(k), Creates({})
      PROVE  RaceInv' /\ FewUntended'
  <2>1. k \in SpentLines
    BY <1>1, RequestsAssumption
  <2> QED BY <1>1, <1>2, <1>5, <2>1 DEF CreateSpentConcept, saleVars, RaceTables
<1>6. ASSUME NEW s \in Spents, NEW ls \in SUBSET load.spentLines,
             NEW new \in SUBSET (load.spentLines \X load.units),
             CreateSpent(s, "open", ls, new), Creates(UnitsIn(new))
      PROVE  RaceInv' /\ FewUntended'
  <2> DEFINE units == UnitsIn(new)
  <2>1. ls \subseteq SpentLines /\ new \subseteq SpentLines \X Units
    BY <1>1, RequestsAssumption
  <2>2. /\ \A u \in units : status[u] = "absent"
        /\ spentLines' = spentLines \cup ls
        /\ status' = [u \in Units |-> IF u \in units THEN "in_stock" ELSE status[u]]
        /\ purchaseNet' = [u \in Units |-> IF u \in units THEN 1 ELSE purchaseNet[u]]
        /\ purchaseRows' = purchaseRows \cup new /\ purchaseMoves' = purchaseMoves \cup new
        /\ lines' = lines /\ rows' = rows
        /\ IsGraph(s, ls, new)
    BY <1>6 DEF CreateSpent, RegisterPairs, saleVars
  <2>3. /\ new \subseteq ls \X Units
        /\ \A p, q \in new : p[2] = q[2] => p = q
    BY <2>1, <2>2 DEF IsGraph
  <2>4. \A p \in new : p[2] \in units /\ p[2] \in Units
    BY <2>3 DEF UnitsIn
  <2>5. units \subseteq Units /\ \A u \in units : \E p \in new : p[2] = u
    BY DEF UnitsIn
  <2> HIDE DEF units
  <2>6. \A p \in purchaseRows \cup purchaseMoves : p[2] \in Units /\ status[p[2]] # "absent" /\ p[2] \notin units
    BY <1>1, <2>2 DEF RaceTables
  <2>7. RaceTables'
    <3>1. /\ status' \in [Units -> UnitStatus] /\ lines' \subseteq Lines /\ rows' \subseteq Lines \X Units
          /\ spentLines' \subseteq SpentLines /\ purchaseNet' \in [Units -> Int]
      BY <1>1, <2>1, <2>2 DEF RaceTables, UnitStatus
    <3>2. purchaseRows' \subseteq SpentLines \X Units
      BY <1>1, <2>1, <2>2 DEF RaceTables
    <3>3. purchaseMoves' \subseteq spentLines' \X Units
      <4>1. purchaseMoves \subseteq spentLines \X Units
        BY <1>1 DEF RaceTables
      <4> QED BY <2>2, <2>3, <4>1
    <3>4. \A p \in purchaseRows' \cup purchaseMoves' : status'[p[2]] # "absent"
      BY <2>2, <2>4, <2>6
    <3>5. ASSUME NEW u \in Units
          PROVE  purchaseNet'[u] <= 1 /\ (purchaseNet'[u] > 0 => \E m \in purchaseMoves' : m[2] = u)
      <4>1. CASE u \in units
        BY <2>2, <2>5, <4>1
      <4>2. CASE u \notin units
        <5>1. purchaseNet[u] <= 1 /\ (purchaseNet[u] > 0 => \E m \in purchaseMoves : m[2] = u)
          BY <1>1 DEF RaceTables
        <5> QED BY <2>2, <4>2, <5>1
      <4> QED BY <4>1, <4>2
    <3> QED BY <3>1, <3>2, <3>3, <3>4, <3>5 DEF RaceTables
  <2>8. ASSUME NEW h \in SpentLines, NEW u \in Units, Written(h, u)'
        PROVE  /\ u \notin units => Written(h, u)
               /\ u \in units => <<h, u>> \in new
    <3>1. <<h, u>> \in purchaseRows \cup purchaseMoves \cup new /\ <<h, u>>[2] = u
      BY <2>2, <2>8 DEF Written
    <3> QED BY <2>4, <2>6, <3>1 DEF Written
  <2>9. Lawful({}, units)
    <3>1. \A u \in Units \ units : status'[u] # "absent" => status[u] # "absent"
      BY <2>2
    <3>2. \A u \in Units \ units, h \in SpentLines : Written(h, u)' => Refs(h, u)
      BY <2>8 DEF Refs
    <3>3. ASSUME NEW u \in units, NEW h \in SpentLines, NEW k \in SpentLines, Written(h, u)', Written(k, u)'
          PROVE  h = k
      <4>1. <<h, u>> \in new /\ <<k, u>> \in new /\ <<h, u>>[2] = <<k, u>>[2]
        BY <2>5, <2>8, <3>3
      <4>2. <<h, u>> = <<k, u>>
        BY <2>3, <4>1
      <4> QED BY <4>2
    <3>4. ASSUME NEW u \in Units \ units, Unspoiled(u) PROVE Unspoiled(u)'
      BY <2>2, <2>4, <3>4 DEF Unspoiled
    <3> QED BY <3>1, <3>2, <3>3, <3>4 DEF Lawful, Acted
  <2>10. \A u \in Units : purchaseNet'[u] > 0 /\ status'[u] = "voided" =>
                            u \notin units /\ purchaseNet[u] > 0 /\ status[u] = "voided"
    BY <2>2
  <2> QED BY <1>6, <2>7, <2>9, <2>10, CreatesKeep DEF units
<1> QED BY <1>3, <1>4, <1>5, <1>6 DEF Create

(* From the empty tables on.                                                  *)
LEMMA RacesInit == RequestsInit => RaceInv /\ FewUntended
<1> SUFFICES ASSUME RequestsInit PROVE RaceInv /\ FewUntended
  OBVIOUS
<1>1. /\ status = [u \in Units |-> "absent"] /\ lines = {} /\ rows = {} /\ spentLines = {}
      /\ purchaseRows = {} /\ purchaseMoves = {} /\ purchaseNet = [u \in Units |-> 0]
      /\ job = [w \in Workers |-> Idle] /\ crashes = 0 /\ load \in Loads
  BY DEF RequestsInit, Init
<1>2. RaceTables
  BY <1>1 DEF RaceTables, UnitStatus
<1>3. RaceJobs
  BY <1>1 DEF RaceJobs, Prepared, Serves
<1>4. \A w \in Workers : \A k, u : ~Bears(job[w].todo, k, u)
  BY <1>1 DEF Bears, Idle
<1>5. OneLineEach /\ NewbornsAreNew
  BY <1>1, <1>4 DEF OneLineEach, NewbornsAreNew
<1>6. Untended = {}
  BY <1>1 DEF Untended
<1>7. FewUntended
  BY <1>1, <1>6, FS_EmptySet DEF FewUntended
<1> QED BY <1>1, <1>2, <1>3, <1>5, <1>7 DEF RaceInv

(* A query of any request.                                                    *)
LEMMA QueriesRace ==
  ASSUME RaceInv, FewUntended, NEW w \in Workers, Step(w), ~Execute(w)
  PROVE  RaceInv' /\ FewUntended'
<1>1. CASE PurgeNextLine(w)
  <2>1. UNCHANGED <<vars, load>> /\ crashes' = crashes
    BY <1>1 DEF PurgeNextLine
  <2> QED BY <1>1, <2>1, PurgeNextLineRaces, RaceTurnKeeps
<1>2. CASE /\ UNCHANGED <<vars, load>> /\ crashes' = crashes
           /\ job[w].at \notin {"idle", "write"}
           /\ \E j : RaceTurn(w, j)
  <2>1. \A u : ~Tends(job[w].todo, u)
    BY <1>2, AskIs DEF Idles
  <2> QED BY <1>2, <2>1, RaceTurnKeeps
<1>3. CASE \/ ReadInvoice(w) \/ LoadInvoiceLines(w) \/ ReadLine(w) \/ LoadLineRows(w) \/ CountRows(w)
           \/ ReadRow(w) \/ ReadUnit(w)
  <2>1. /\ UNCHANGED <<vars, load>> /\ crashes' = crashes
        /\ job[w].at \notin {"idle", "write"} /\ job[w].req[1] \in SaleKinds
    BY <1>3 DEF ReadInvoice, LoadInvoiceLines, ReadLine, LoadLineRows, CountRows, ReadRow, ReadUnit, Query,
                SaleKinds
  <2>2. Selling(w) /\ \A j : SaleTurn(w, j) => RaceTurn(w, j)
    BY <2>1, SellersRace
  <2>3. \E j : SaleTurn(w, j)
    BY <1>3, <2>2, ReadInvoiceTurns, LoadInvoiceLinesTurns, ReadLineTurns, LoadLineRowsTurns,
       CountRowsTurns, ReadRowTurns, ReadUnitTurns
  <2> QED BY <1>2, <2>1, <2>2, <2>3
<1>4. CASE \/ ReadSpent(w) \/ LoadSpentRows(w) \/ ReadSpentLine(w) \/ ReadUnitExists(w) \/ LoadPurgeRows(w)
           \/ CheckSpentIdle(w) \/ ListSpentLines(w) \/ LoadGraph(w) \/ CheckGraphUnits(w) \/ ReadSpentRow(w)
  <2>1. /\ UNCHANGED <<vars, load>> /\ crashes' = crashes
        /\ job[w].at \notin {"idle", "write"}
    BY <1>4 DEF ReadSpent, LoadSpentRows, ReadSpentLine, ReadUnitExists, LoadPurgeRows, CheckSpentIdle,
                ListSpentLines, LoadGraph, CheckGraphUnits, ReadSpentRow, Query
  <2>2. \E j : RaceTurn(w, j)
    BY <1>4, ReadSpentRaces, LoadSpentRowsRaces, ReadSpentLineRaces, ReadUnitExistsRaces, LoadPurgeRowsRaces,
       CheckSpentIdleRaces, ListSpentLinesRaces, LoadGraphRaces, CheckGraphUnitsRaces, ReadSpentRowRaces
  <2> QED BY <1>2, <2>1, <2>2
<1> QED BY <1>1, <1>3, <1>4 DEF Step

LEMMA RacesNext == RaceInv /\ FewUntended /\ [RequestsNext]_requestVars => RaceInv' /\ FewUntended'
<1> SUFFICES ASSUME RaceInv, FewUntended, [RequestsNext]_requestVars PROVE RaceInv' /\ FewUntended'
  OBVIOUS
<1>1. ASSUME NEW w \in Workers,
             NEW req \in Requests(load.units, load.lines, load.most, load.spentLines), Start(w, req)
      PROVE  RaceInv' /\ FewUntended'
  <2>1. UNCHANGED <<vars, load>> /\ crashes' = crashes
    BY <1>1 DEF Start
  <2>2. (\E j : RaceTurn(w, j)) /\ job[w] = Idle
    BY <1>1, StartRaces
  <2>3. \A u : ~Tends(job[w].todo, u)
    BY <2>2 DEF Tends, Idle
  <2> QED BY <2>1, <2>2, <2>3, RaceTurnKeeps
<1>2. ASSUME NEW w \in Workers, Step(w) PROVE RaceInv' /\ FewUntended'
  BY <1>2, QueriesRace, ExecuteRaces
<1>3. ASSUME NEW w \in Workers, Crash(w) PROVE RaceInv' /\ FewUntended'
  BY <1>3, CrashRaces
<1>4. CASE Create
  BY <1>4, CreateRaces
<1>5. CASE UNCHANGED requestVars
  <2>1. UNCHANGED <<vars, job, crashes, load>>
    BY <1>5 DEF requestVars
  <2>2. /\ UNCHANGED <<status, lines, rows, spentLines, purchaseRows, purchaseMoves, purchaseNet>>
    BY <2>1 DEF vars
  <2>3. RaceTables' /\ RaceJobs' /\ OneLineEach' /\ NewbornsAreNew'
    BY <2>1, <2>2 DEF RaceInv, RaceTables, RaceJobs, Prepared, Serves, IsRequest, IsJob, OneLineEach, Refs,
                      Written, NewbornsAreNew, Unspoiled
  <2>4. Untended' = Untended
    BY <2>1, <2>2 DEF Untended
  <2> QED BY <2>1, <2>3, <2>4 DEF RaceInv, FewUntended
<1> QED BY <1>1, <1>2, <1>3, <1>4, <1>5 DEF RequestsNext, Serve

(* Once no request is under way nobody tends a unit.                          *)
LEMMA RacesImply == RaceInv /\ FewUntended => RacesNeverOverstate
<1> SUFFICES ASSUME RaceInv, FewUntended, Quiet
             PROVE  Cardinality({u \in Units : Overstated(u)}) <= crashes
  BY DEF RacesNeverOverstate
<1> DEFINE over == {u \in Units : Overstated(u)}
<1>1. RaceTables
  BY DEF RaceInv
<1>2. \A w \in Workers : \A u : ~Tends(job[w].todo, u)
  <2> SUFFICES ASSUME NEW w \in Workers, NEW u PROVE ~Tends(job[w].todo, u)
    OBVIOUS
  <2>1. job[w] = Idle
    BY DEF Quiet, Busy, RaceInv, RaceJobs, Prepared, Serves
  <2> QED BY <2>1 DEF Tends, Idle
<1>3. ASSUME NEW u \in over PROVE u \in Untended
  <2>1. /\ purchaseNet[u] \in Int /\ purchaseNet[u] <= 1 /\ status[u] \in UnitStatus
        /\ purchaseNet[u] > 0 => \E m \in purchaseMoves : m[2] = u
    BY <1>1 DEF RaceTables
  <2>2. purchaseNet[u] > 0 /\ status[u] \notin {"in_stock", "reserved", "sold"}
    BY <1>3, <2>1 DEF Overstated
  <2>3. status[u] # "absent"
    BY <1>1, <2>1, <2>2 DEF RaceTables
  <2>4. status[u] = "voided"
    BY <2>1, <2>2, <2>3 DEF UnitStatus
  <2> QED BY <1>2, <2>2, <2>4 DEF Untended
<1>4. over \subseteq Untended /\ IsFiniteSet(Untended)
  BY <1>3, FS_Subset DEF Untended
<1>5. /\ Cardinality(over) <= Cardinality(Untended)
      /\ Cardinality(over) \in Nat /\ Cardinality(Untended) \in Nat
  BY <1>4, FS_Subset, FS_CardinalityType
<1> QED BY <1>5 DEF FewUntended

(* Requests of all kinds, with crashes, failures and new documents at any     *)
(* step, overstate no purchase but for one a crash: once they are done, every  *)
(* unit but as many as there were crashes is counted at most once if it is     *)
(* held and not at all if it is voided or gone.                                *)
THEOREM RacesOverstateNothing == RequestsSpec => []RacesNeverOverstate
<1>1. RequestsSpec => [](RaceInv /\ FewUntended)
  BY RacesInit, RacesNext, PTL DEF RequestsSpec
<1> QED BY <1>1, RacesImply, PTL

-----------------------------------------------------------------------------
(* Plans of sales are put together of blocks that mark different units.       *)
LEMMA BlocksJoin ==
  ASSUME NEW U, NEW V, U \cap V = {}, NEW s \in Blocks(U), NEW t \in Blocks(V)
  PROVE  s \o t \in Blocks(U \cup V)
<1> DEFINE st == s \o t
           a == Len(s)
           b == Len(t)
<1>1. /\ s \in Seq(SaleStatements) /\ t \in Seq(SaleStatements) /\ Coupled(s) /\ Coupled(t)
      /\ a \in Nat /\ b \in Nat /\ DOMAIN s = 1..a /\ DOMAIN t = 1..b
  BY DEF Blocks
<1>2. st \in Seq(SaleStatements) /\ DOMAIN st = 1..(a + b)
  BY <1>1
<1>3. /\ \A n \in 1..a : n \in 1..(a + b) /\ st[n] = s[n]
      /\ \A n \in 1..b : n + a \in 1..(a + b) /\ st[n + a] = t[n]
  BY <1>1
<1>4. \A n \in 1..(a + b) : n \in 1..a \/ \E m \in 1..b : n = m + a
  <2> SUFFICES ASSUME NEW n \in 1..(a + b), n \notin 1..a PROVE \E m \in 1..b : n = m + a
    OBVIOUS
  <2>1. n - a \in 1..b /\ n = (n - a) + a
    BY <1>1
  <2> QED BY <2>1
<1> HIDE DEF st, a, b
<1>5. ASSUME NEW n \in 1..(a + b), TurnsOver(st[n])
      PROVE  n + 1 \in 1..(a + b) /\ Books(st[n], st[n + 1])
  <2>1. CASE n \in 1..a
    <3>1. n + 1 \in 1..a /\ Books(s[n], s[n + 1])
      BY <1>1, <1>3, <1>5, <2>1 DEF Coupled
    <3> QED BY <1>3, <2>1, <3>1
  <2>2. CASE \E m \in 1..b : n = m + a
    <3>1. PICK m \in 1..b : n = m + a
      BY <2>2
    <3>2. m + 1 \in 1..b /\ Books(t[m], t[m + 1])
      BY <1>1, <1>3, <1>5, <3>1 DEF Coupled
    <3>3. n + 1 = (m + 1) + a
      BY <1>1, <3>1
    <3> QED BY <1>3, <3>1, <3>2, <3>3
  <2> QED BY <1>4, <2>1, <2>2
<1>6. ASSUME NEW n \in 1..(a + b), st[n].op \in SaleOps
      PROVE  n - 1 \in 1..(a + b) /\ Books(st[n - 1], st[n])
  <2>1. CASE n \in 1..a
    <3>1. n - 1 \in 1..a /\ Books(s[n - 1], s[n])
      BY <1>1, <1>3, <1>6, <2>1 DEF Coupled
    <3> QED BY <1>3, <2>1, <3>1
  <2>2. CASE \E m \in 1..b : n = m + a
    <3>1. PICK m \in 1..b : n = m + a
      BY <2>2
    <3>2. m - 1 \in 1..b /\ Books(t[m - 1], t[m])
      BY <1>1, <1>3, <1>6, <3>1 DEF Coupled
    <3>3. n - 1 = (m - 1) + a
      BY <1>1, <3>1
    <3> QED BY <1>3, <3>1, <3>2, <3>3
  <2> QED BY <1>4, <2>1, <2>2
<1>7. /\ \A n \in 1..a : (s[n].op = "unit" => s[n].unit \in U) /\ s[n].op \notin Deletions
      /\ \A n \in 1..b : (t[n].op = "unit" => t[n].unit \in V) /\ t[n].op \notin Deletions
  BY <1>1 DEF Blocks
<1>8. ASSUME NEW m \in 1..(a + b), NEW n \in 1..(a + b), st[m].op = "unit", st[n].op = "unit",
             st[m].unit = st[n].unit
      PROVE  m = n
  <2>1. CASE m \in 1..a /\ n \in 1..a
    BY <1>1, <1>3, <1>8, <2>1 DEF Coupled
  <2>2. CASE m \in 1..a /\ \E k \in 1..b : n = k + a
    BY <1>3, <1>7, <1>8, <2>2
  <2>3. CASE n \in 1..a /\ \E k \in 1..b : m = k + a
    BY <1>3, <1>7, <1>8, <2>3
  <2>4. CASE (\E k \in 1..b : m = k + a) /\ \E k \in 1..b : n = k + a
    <3>1. PICK k \in 1..b : m = k + a
      BY <2>4
    <3>2. PICK h \in 1..b : n = h + a
      BY <2>4
    <3>3. k = h
      <4>1. t[k].op = "unit" /\ t[h].op = "unit" /\ t[k].unit = t[h].unit
        BY <1>3, <1>8, <3>1, <3>2
      <4> QED BY <1>1, <4>1 DEF Coupled
    <3> QED BY <3>1, <3>2, <3>3
  <2> QED BY <1>4, <2>1, <2>2, <2>3, <2>4
<1>9. \A n \in 1..(a + b) : (st[n].op = "unit" => st[n].unit \in U \cup V) /\ st[n].op \notin Deletions
  BY <1>3, <1>4, <1>7
<1>10. Coupled(st)
  BY <1>2, <1>5, <1>6, <1>8, <1>9 DEF Coupled
<1> QED BY <1>2, <1>9, <1>10 DEF Blocks, st

LEMMA BlocksAre ==
  /\ \A U : <<>> \in Blocks(U) /\ <<Fail>> \in Blocks(U)
  /\ \A U, V : U \subseteq V => Blocks(U) \subseteq Blocks(V)
  /\ \A u \in Units, st \in Held : status[u] # "sold" /\ st # "sold" => <<SetUnit(u, st)>> \in Blocks({u})
  /\ \A l \in lines, u \in Units : l \in Lines =>
       /\ Saleable(u) => <<SetUnit(u, "sold"), OnPair("sale_out", l, u)>> \in Blocks({u})
       /\ status[u] = "sold" => <<SetUnit(u, "in_stock"), OnPair("sale_in", l, u)>> \in Blocks({u})
<1>1. \A U : <<>> \in Blocks(U)
  BY DEF Blocks, Coupled
<1>2. ASSUME NEW U PROVE <<Fail>> \in Blocks(U)
  <2>1. <<Fail>> \in Seq(SaleStatements) /\ DOMAIN <<Fail>> = {1} /\ <<Fail>>[1] = Fail /\ Fail.op = "fail"
    BY SaleStatementsAre DEF Fail
  <2>2. \A n \in DOMAIN <<Fail>> : <<Fail>>[n].op = "fail"
    BY <2>1
  <2>3. Coupled(<<Fail>>)
    BY <2>2 DEF Coupled, TurnsOver, SaleOps, Deletions
  <2> QED BY <2>1, <2>2, <2>3 DEF Blocks, Deletions
<1>3. \A U, V : U \subseteq V => Blocks(U) \subseteq Blocks(V)
  BY DEF Blocks
<1>4. ASSUME NEW u \in Units, NEW st \in Held, status[u] # "sold", st # "sold"
      PROVE  <<SetUnit(u, st)>> \in Blocks({u})
  <2> DEFINE x == SetUnit(u, st)
  <2>1. x \in SaleStatements /\ x.op = "unit" /\ x.unit = u /\ x.to = st
    BY SaleStatementsAre DEF SetUnit
  <2> HIDE DEF x
  <2>2. <<x>> \in Seq(SaleStatements) /\ DOMAIN <<x>> = {1} /\ <<x>>[1] = x
    BY <2>1
  <2>3. Coupled(<<x>>)
    BY <1>4, <2>1, <2>2 DEF Coupled, TurnsOver, SaleOps, Deletions
  <2> QED BY <2>1, <2>2, <2>3 DEF Blocks, Deletions, x
<1>5. ASSUME NEW u \in Units, NEW x \in SaleStatements, NEW y \in SaleStatements,
             x.op = "unit", x.unit = u, TurnsOver(x), Books(x, y)
      PROVE  <<x, y>> \in Blocks({u})
  <2>1. /\ <<x, y>> \in Seq(SaleStatements) /\ DOMAIN <<x, y>> = {1, 2}
        /\ <<x, y>>[1] = x /\ <<x, y>>[2] = y
    OBVIOUS
  <2>2. y.op \in SaleOps /\ y.op \notin {"unit"} \cup Deletions /\ x.op \notin SaleOps \cup Deletions
    BY <1>5 DEF Books, SaleOps, Deletions
  <2> DEFINE t == <<x, y>>
  <2> HIDE DEF t
  <2>3. DOMAIN t = {1, 2} /\ t[1] = x /\ t[2] = y
    BY <2>1 DEF t
  <2>4. Coupled(t)
    BY <1>5, <2>2, <2>3 DEF Coupled, TurnsOver
  <2> QED BY <1>5, <2>1, <2>2, <2>3, <2>4 DEF Blocks, t
<1>6. ASSUME NEW l \in lines, NEW u \in Units, l \in Lines
      PROVE  /\ Saleable(u) => <<SetUnit(u, "sold"), OnPair("sale_out", l, u)>> \in Blocks({u})
             /\ status[u] = "sold" => <<SetUnit(u, "in_stock"), OnPair("sale_in", l, u)>> \in Blocks({u})
  <2>1. /\ \A st \in Held : SetUnit(u, st) \in SaleStatements
        /\ \A op \in SaleOps : OnPair(op, l, u) \in SaleStatements
    BY <1>6, SaleStatementsAre DEF SaleOps
  <2>2. /\ \A st : SetUnit(u, st).op = "unit" /\ SetUnit(u, st).unit = u /\ SetUnit(u, st).to = st
        /\ \A op : OnPair(op, l, u).op = op /\ OnPair(op, l, u).line = l /\ OnPair(op, l, u).unit = u
    BY DEF SetUnit, OnPair
  <2>3. ASSUME Saleable(u)
        PROVE  <<SetUnit(u, "sold"), OnPair("sale_out", l, u)>> \in Blocks({u})
    <3>1. Books(SetUnit(u, "sold"), OnPair("sale_out", l, u)) /\ TurnsOver(SetUnit(u, "sold"))
      BY <2>2, <2>3 DEF Books, TurnsOver, SaleOps
    <3>2. SetUnit(u, "sold") \in SaleStatements /\ OnPair("sale_out", l, u) \in SaleStatements
      BY <2>1 DEF SaleOps, Held
    <3> QED BY <1>5, <2>2, <3>1, <3>2
  <2>4. ASSUME status[u] = "sold"
        PROVE  <<SetUnit(u, "in_stock"), OnPair("sale_in", l, u)>> \in Blocks({u})
    <3>1. Books(SetUnit(u, "in_stock"), OnPair("sale_in", l, u)) /\ TurnsOver(SetUnit(u, "in_stock"))
      BY <2>2, <2>4 DEF Books, TurnsOver, SaleOps
    <3>2. SetUnit(u, "in_stock") \in SaleStatements /\ OnPair("sale_in", l, u) \in SaleStatements
      BY <2>1 DEF SaleOps, Held
    <3> QED BY <1>5, <2>2, <3>1, <3>2
  <2> QED BY <2>3, <2>4
<1> QED BY <1>1, <1>2, <1>3, <1>4, <1>6

(* A block for each of the pairs of some set, whose units differ.             *)
LEMMA BlocksOfPairs ==
  ASSUME NEW pairs, IsFiniteSet(pairs), \A p, q \in pairs : p[2] = q[2] => p = q,
         NEW seq, seq = SetToSeq(pairs),
         NEW f, f = [n \in DOMAIN seq |-> f[n]],
         \A n \in DOMAIN seq : f[n] \in Blocks({seq[n][2]})
  PROVE  FlattenSeq(f) \in Blocks(UnitsOf(pairs))
<1> DEFINE k == Cardinality(pairs)
           upto(n) == UNION {{seq[i][2]} : i \in 1..n}
           C == [n \in 0..k |-> Blocks(upto(n))]
<1>1. /\ k \in Nat /\ seq \in [1..k -> pairs]
      /\ \A i, j \in 1..k : seq[i] = seq[j] => i = j
  BY SetAsSequence
<1> HIDE DEF k
<1>2. DOMAIN f = 1..k /\ \A n \in 1..k : f[n] \in Blocks({seq[n][2]})
  BY <1>1
<1>3. <<>> \in C[0]
  BY <1>1, BlocksAre
<1>4. k > 0 => f[1] \in C[1]
  <2> SUFFICES ASSUME k > 0 PROVE f[1] \in C[1]
    OBVIOUS
  <2>1. 1 \in 1..k /\ 1 \in 0..k
    BY <1>1
  <2>2. f[1] \in Blocks({seq[1][2]}) /\ {seq[1][2]} \subseteq upto(1)
    BY <1>2, <2>1
  <2>3. C[1] = Blocks(upto(1))
    BY <2>1
  <2> HIDE DEF upto, C
  <2> QED BY <2>2, <2>3, BlocksAre
<1>5. ASSUME NEW n \in 2..k, NEW s \in C[n - 1] PROVE s \o f[n] \in C[n]
  <2>1. n \in 1..k /\ n \in 0..k /\ n - 1 \in 0..k /\ \A i \in 1..(n - 1) : i \in 1..k /\ i # n
    BY <1>1
  <2>2. s \in Blocks(upto(n - 1)) /\ f[n] \in Blocks({seq[n][2]}) /\ C[n] = Blocks(upto(n))
    BY <1>2, <1>5, <2>1
  <2>3. upto(n - 1) \cap {seq[n][2]} = {}
    <3> SUFFICES ASSUME NEW i \in 1..(n - 1), seq[i][2] = seq[n][2] PROVE FALSE
      OBVIOUS
    <3>1. seq[i] = seq[n]
      BY <1>1, <2>1
    <3> QED BY <1>1, <2>1, <3>1
  <2>4. upto(n - 1) \cup {seq[n][2]} \subseteq upto(n)
    <3>1. 1..(n - 1) \subseteq 1..n /\ n \in 1..n
      BY <1>1
    <3> QED BY <3>1
  <2> HIDE DEF upto, C
  <2>5. s \o f[n] \in Blocks(upto(n - 1) \cup {seq[n][2]})
    BY <2>2, <2>3, BlocksJoin
  <2> QED BY <2>2, <2>4, <2>5, BlocksAre
<1>6. f \in [1..k -> Seq(SaleStatements)]
  <2>1. \A n \in 1..k : f[n] \in Seq(SaleStatements)
    BY <1>2 DEF Blocks
  <2>2. f = [n \in 1..k |-> f[n]]
    BY <1>2
  <2> QED BY <2>1, <2>2
<1>7. C[k] = Blocks(upto(k)) /\ upto(k) \subseteq UnitsOf(pairs)
  BY <1>1 DEF UnitsOf
<1> HIDE DEF C, upto
<1>8. FlattenSeq(f) \in C[k]
  BY <1>1, <1>3, <1>4, <1>5, <1>6, FlattenedThrough
<1> QED BY <1>7, <1>8, BlocksAre

(* The last statement of a plan marks and books nothing.                      *)
LEMMA BlocksEnd ==
  ASSUME NEW U, NEW t \in Blocks(U), NEW x \in SaleStatements, x.op \notin {"unit"} \cup SaleOps
  PROVE  Append(t, x) \in Seq(SaleStatements) /\ Coupled(Append(t, x))
         /\ \A u : Marks(Append(t, x), u) => u \in U
<1> DEFINE s == Append(t, x)
           a == Len(t)
<1>1. /\ t \in Seq(SaleStatements) /\ Coupled(t) /\ a \in Nat /\ DOMAIN t = 1..a
      /\ \A n \in 1..a : (t[n].op = "unit" => t[n].unit \in U) /\ t[n].op \notin Deletions
  BY DEF Blocks
<1>2. s \in Seq(SaleStatements) /\ DOMAIN s = 1..(a + 1) /\ s[a + 1] = x /\ \A n \in 1..a : s[n] = t[n]
  BY <1>1
<1>3. \A n \in 1..(a + 1) : n \in 1..a \/ n = a + 1
  BY <1>1
<1>4. \A n \in 1..a : n \in 1..(a + 1)
  BY <1>1
<1> HIDE DEF s, a
<1>5. ASSUME NEW n \in 1..(a + 1), TurnsOver(s[n])
      PROVE  n + 1 \in 1..(a + 1) /\ Books(s[n], s[n + 1])
  <2>1. n \in 1..a
    BY <1>2, <1>3, <1>5 DEF TurnsOver
  <2>2. n + 1 \in 1..a /\ Books(t[n], t[n + 1])
    BY <1>1, <1>2, <1>5, <2>1 DEF Coupled
  <2> QED BY <1>2, <1>4, <2>1, <2>2
<1>6. ASSUME NEW n \in 1..(a + 1), s[n].op \in SaleOps
      PROVE  n - 1 \in 1..(a + 1) /\ Books(s[n - 1], s[n])
  <2>1. n \in 1..a
    BY <1>2, <1>3, <1>6
  <2>2. n - 1 \in 1..a /\ Books(t[n - 1], t[n])
    BY <1>1, <1>2, <1>6, <2>1 DEF Coupled
  <2> QED BY <1>2, <1>4, <2>1, <2>2
<1>7. ASSUME NEW m \in 1..(a + 1), NEW n \in 1..(a + 1), s[m].op = "unit", s[n].op = "unit",
             s[m].unit = s[n].unit
      PROVE  m = n
  <2>1. m \in 1..a /\ n \in 1..a
    BY <1>2, <1>3, <1>7
  <2> QED BY <1>1, <1>2, <1>7, <2>1 DEF Coupled
<1>8. ASSUME NEW n \in 1..(a + 1), s[n].op \in Deletions PROVE n + 1 \notin 1..(a + 1)
  <2>1. n = a + 1
    BY <1>1, <1>2, <1>3, <1>8
  <2> QED BY <1>1, <2>1
<1>9. Coupled(s)
  BY <1>2, <1>5, <1>6, <1>7, <1>8 DEF Coupled
<1>10. \A u : Marks(s, u) => u \in U
  BY <1>1, <1>2, <1>3 DEF Marks
<1> QED BY <1>2, <1>9, <1>10 DEF s

-----------------------------------------------------------------------------
(* On one line a unit has one row.                                            *)
LEMMA OneLineOnly ==
  ASSUME load \in Loads, Lone, LoneTables
  PROVE  /\ \A k, h \in lines : k = h
         /\ \A p, q \in rows : p[2] = q[2] => p = q
         /\ lines \subseteq Lines /\ rows \subseteq Lines \X Units
         /\ \A p \in rows : p[1] \in lines /\ p[1] \in Lines /\ p[2] \in Units
         /\ \A i : Cardinality(LinesOf(i)) <= 1
<1>1. load.lines \subseteq Lines /\ IsFiniteSet(load.lines)
  BY RequestsAssumption, FS_Subset
<1>2. PICK l : load.lines = {l}
  BY <1>1, FS_Singleton DEF Lone
<1>3. lines \subseteq {l} /\ rows \subseteq lines \X Units
  BY <1>2 DEF LoneTables
<1>4. ASSUME NEW i PROVE Cardinality(LinesOf(i)) <= 1
  <2>1. LinesOf(i) \subseteq load.lines
    BY <1>2, <1>3 DEF LinesOf
  <2>2. Cardinality(LinesOf(i)) <= Cardinality(load.lines) /\ Cardinality(load.lines) = 1
    BY <1>1, <2>1, FS_Subset DEF Lone
  <2> QED BY <2>2
<1> QED BY <1>1, <1>2, <1>3, <1>4

LEMMA SellBlocks ==
  ASSUME OneRowEach, NEW pairs, pairs \subseteq rows
  PROVE  SellPlan(pairs) \in Blocks(UnitsOf(pairs))
<1> DEFINE seq == SetToSeq(pairs)
           f == [n \in DOMAIN seq |-> IF Saleable(seq[n][2])
                         THEN <<SetUnit(seq[n][2], "sold"), OnPair("sale_out", seq[n][1], seq[n][2])>>
                         ELSE <<Fail>>]
<1>1. SellPlan(pairs) = FlattenSeq(f)
  BY DEF SellPlan, Concat
<1>2. IsFiniteSet(pairs) /\ \A p, q \in pairs : p[2] = q[2] => p = q
  BY RowsAreFinite DEF OneRowEach
<1>3. Cardinality(pairs) \in Nat /\ seq \in [1..Cardinality(pairs) -> pairs]
  BY <1>2, SetAsSequence
<1> HIDE DEF seq
<1>4. ASSUME NEW n \in DOMAIN seq PROVE f[n] \in Blocks({seq[n][2]})
  <2>1. seq[n] \in rows /\ seq[n][1] \in lines /\ seq[n][1] \in Lines /\ seq[n][2] \in Units
    BY <1>3 DEF OneRowEach
  <2> QED BY <2>1, BlocksAre
<1>5. f = [n \in DOMAIN seq |-> f[n]] /\ DOMAIN f = DOMAIN seq
  OBVIOUS
<1> HIDE DEF f
<1>6. seq = SetToSeq(pairs)
  BY DEF seq
<1>7. FlattenSeq(f) \in Blocks(UnitsOf(pairs))
  BY <1>2, <1>4, <1>5, <1>6, BlocksOfPairs
<1> QED BY <1>1, <1>7

(* confirmInvoiceIssue.                                                       *)
LEMMA IssueBlocks ==
  ASSUME OneRowEach, NEW i
  PROVE  \E U : IssuePlan(i) \in Blocks(U)
<1> DEFINE seq == LinesInOrder(i)
           f == [n \in DOMAIN seq |-> IF Complete(seq[n]) THEN SellPlan(RowsOfLine(seq[n])) ELSE <<Fail>>]
           k == Cardinality(LinesOf(i))
           U == UnitsOf(rows)
           C == [n \in 0..k |-> Blocks(U)]
<1>1. IssuePlan(i) = FlattenSeq(f)
  BY DEF IssuePlan, Concat
<1>2. k \in Nat /\ k <= 1 /\ DOMAIN seq = 1..k
  <2>1. lines \subseteq Lines
    BY DEF OneRowEach
  <2>2. seq \in [1..k -> LinesOf(i)] /\ k \in Nat
    BY <2>1, LinesInOrderIs
  <2> QED BY <2>2 DEF OneRowEach
<1> HIDE DEF seq, k
<1>3. ASSUME NEW n \in 1..k PROVE f[n] \in Blocks(U)
  <2>1. RowsOfLine(seq[n]) \subseteq rows
    BY DEF RowsOfLine
  <2>2. SellPlan(RowsOfLine(seq[n])) \in Blocks(UnitsOf(RowsOfLine(seq[n])))
    BY <2>1, SellBlocks
  <2>3. UnitsOf(RowsOfLine(seq[n])) \subseteq U
    BY <2>1 DEF UnitsOf
  <2> HIDE DEF U
  <2>4. SellPlan(RowsOfLine(seq[n])) \in Blocks(U) /\ <<Fail>> \in Blocks(U)
    BY <2>2, <2>3, BlocksAre
  <2> QED BY <1>2, <2>4
<1>4. f \in [1..k -> Blocks(U)]
  BY <1>2, <1>3
<1> HIDE DEF f, U
<1>5. <<>> \in C[0] /\ (k > 0 => f[1] \in C[1])
  BY <1>2, <1>4, BlocksAre
<1>6. \A n \in 2..k : \A s \in C[n - 1] : s \o f[n] \in C[n]
  BY <1>2
<1>7. C[k] = Blocks(U)
  BY <1>2
<1> HIDE DEF C
<1>8. FlattenSeq(f) \in C[k]
  BY <1>2, <1>4, <1>5, <1>6, FlattenedThrough
<1> QED BY <1>1, <1>7, <1>8

LEMMA ReleaseBlock ==
  ASSUME NEW r, r[2] \in Units
  PROVE  Release(r) \in Blocks({r[2]})
<1>1. status[r[2]] = "reserved" => <<SetUnit(r[2], "in_stock")>> \in Blocks({r[2]})
  BY BlocksAre DEF Held
<1> QED BY <1>1, BlocksAre DEF Release

LEMMA ReleaseBlocks ==
  ASSUME OneRowEach, NEW pairs, pairs \subseteq rows
  PROVE  ReleasePlan(pairs) \in Blocks(UnitsOf(pairs))
<1> DEFINE seq == SetToSeq(pairs)
           f == [n \in DOMAIN seq |-> Release(seq[n])]
<1>1. ReleasePlan(pairs) = FlattenSeq(f)
  BY DEF ReleasePlan, Concat
<1>2. IsFiniteSet(pairs) /\ \A p, q \in pairs : p[2] = q[2] => p = q
  BY RowsAreFinite DEF OneRowEach
<1>3. Cardinality(pairs) \in Nat /\ seq \in [1..Cardinality(pairs) -> pairs]
  BY <1>2, SetAsSequence
<1> HIDE DEF seq
<1>4. ASSUME NEW n \in DOMAIN seq PROVE f[n] \in Blocks({seq[n][2]})
  <2>1. seq[n][2] \in Units
    BY <1>3 DEF OneRowEach
  <2> QED BY <2>1, ReleaseBlock
<1>5. f = [n \in DOMAIN seq |-> f[n]] /\ DOMAIN f = DOMAIN seq
  OBVIOUS
<1> HIDE DEF f
<1>6. seq = SetToSeq(pairs)
  BY DEF seq
<1>7. FlattenSeq(f) \in Blocks(UnitsOf(pairs))
  BY <1>2, <1>4, <1>5, <1>6, BlocksOfPairs
<1> QED BY <1>1, <1>7

(* reverseInvoiceCancellation.                                                *)
LEMMA ReturnBlocks ==
  ASSUME OneRowEach, NEW i
  PROVE  \E U : ReturnPlan(i) \in Blocks(U)
<1> DEFINE pairs == RowsOfInvoice(i)
           seq == SetToSeq(pairs)
           f == [n \in DOMAIN seq |->
                   IF status[seq[n][2]] = "sold"
                   THEN <<SetUnit(seq[n][2], "in_stock"), OnPair("sale_in", seq[n][1], seq[n][2])>>
                   ELSE Release(seq[n])]
<1>1. ReturnPlan(i) = FlattenSeq(f)
  BY DEF ReturnPlan, Concat
<1>2. pairs \subseteq rows
  BY DEF RowsOfInvoice
<1> HIDE DEF pairs
<1>3. IsFiniteSet(pairs) /\ \A p, q \in pairs : p[2] = q[2] => p = q
  BY <1>2, RowsAreFinite DEF OneRowEach
<1>4. Cardinality(pairs) \in Nat /\ seq \in [1..Cardinality(pairs) -> pairs]
  BY <1>3, SetAsSequence
<1> HIDE DEF seq
<1>5. ASSUME NEW n \in DOMAIN seq PROVE f[n] \in Blocks({seq[n][2]})
  <2>1. seq[n] \in rows /\ seq[n][1] \in lines /\ seq[n][1] \in Lines /\ seq[n][2] \in Units
    BY <1>2, <1>4 DEF OneRowEach
  <2> QED BY <2>1, BlocksAre, ReleaseBlock
<1>6. f = [n \in DOMAIN seq |-> f[n]] /\ DOMAIN f = DOMAIN seq
  OBVIOUS
<1> HIDE DEF f
<1>7. seq = SetToSeq(pairs)
  BY DEF seq
<1>8. FlattenSeq(f) \in Blocks(UnitsOf(pairs))
  BY <1>3, <1>5, <1>6, <1>7, BlocksOfPairs
<1> QED BY <1>1, <1>8

-----------------------------------------------------------------------------
(* The queries of a sale make plans that couple what they turn over.          *)
LEMMA CalmEnds ==
  ASSUME NEW w, Ends(w)
  PROVE  \E j : CalmTurn(w, j)
  BY DEF Ends, CalmTurn

LEMMA CalmGoes ==
  ASSUME NEW w \in Workers, job = [v \in Workers |-> job[v]], IsJob(job[w]), Calm(job[w]),
         NEW at, NEW seen, at # "unit", Goes(w, at, seen)
  PROVE  \E j : CalmTurn(w, j)
<1> DEFINE k == job[w]
           j == [at |-> at, req |-> k.req, seen |-> seen, todo |-> k.todo]
<1>1. job' = [job EXCEPT ![w] = [k EXCEPT !.at = at, !.seen = seen]]
  BY DEF Goes
<1>2. [k EXCEPT !.at = at, !.seen = seen] = j
  <2> HIDE DEF k
  <2> QED BY JobsChange DEF k
<1>3. j.at = at /\ j.req = k.req /\ j.todo = k.todo
  OBVIOUS
<1> HIDE DEF j
<1>4. Calm(j)
  BY <1>3 DEF Calm
<1> QED BY <1>1, <1>2, <1>4 DEF CalmTurn

LEMMA CalmBecomes ==
  ASSUME NEW w \in Workers, NEW at, NEW seen, NEW todo, BecomesJob(w, at, seen, todo),
         job[w].req[1] \in SaleKinds =>
           Coupled(todo) /\ (at = "unit" => ~Marks(todo, Reserves(job[w].req))),
         job[w].req[1] \notin SaleKinds => Harmless(todo)
  PROVE  \E j : CalmTurn(w, j)
<1> DEFINE j == [at |-> at, req |-> job[w].req, seen |-> seen, todo |-> todo]
<1>1. j.at = at /\ j.req = job[w].req /\ j.todo = todo /\ job' = [job EXCEPT ![w] = j]
  BY DEF BecomesJob
<1> HIDE DEF j
<1>2. Calm(j)
  BY <1>1 DEF Calm
<1> QED BY <1>1, <1>2 DEF CalmTurn

LEMMA CalmWrites ==
  ASSUME NEW w \in Workers, job = [v \in Workers |-> job[v]], IsJob(job[w]),
         NEW todo, Writes(w, todo),
         job[w].req[1] \in SaleKinds => Coupled(todo),
         job[w].req[1] \notin SaleKinds => Harmless(todo)
  PROVE  \E j : CalmTurn(w, j)
<1>1. CASE todo = <<>>
  BY <1>1 DEF Writes, CalmTurn
<1>2. CASE todo # <<>>
  <2> DEFINE k == job[w]
  <2>1. job' = [job EXCEPT ![w] = [k EXCEPT !.at = "write", !.seen = {}, !.todo = todo]]
    BY <1>2 DEF Writes
  <2>2. [k EXCEPT !.at = "write", !.seen = {}, !.todo = todo]
          = [at |-> "write", req |-> k.req, seen |-> {}, todo |-> todo]
    <3>1. k \in [at : {k.at}, req : {k.req}, seen : {k.seen}, todo : {k.todo}]
      BY DEF IsJob
    <3> HIDE DEF k
    <3>2. [k EXCEPT !.at = "write", !.seen = {}, !.todo = todo]
            \in [at : {"write"}, req : {k.req}, seen : {{}}, todo : {todo}]
      BY <3>1
    <3> QED BY <3>2, JobIs
  <2>3. BecomesJob(w, "write", {}, todo)
    BY <2>1, <2>2 DEF BecomesJob
  <2> QED BY <2>3, CalmBecomes
<1> QED BY <1>1, <1>2

(* One statement alone, and one unit marked before a plan that does not.      *)
LEMMA Single ==
  ASSUME NEW x \in SaleStatements, x.op \notin {"unit"} \cup SaleOps
  PROVE  Coupled(<<x>>) /\ \A u : ~Marks(<<x>>, u)
<1>1. <<>> \in Blocks({})
  BY BlocksAre
<1>2. Append(<<>>, x) = <<x>>
  OBVIOUS
<1> DEFINE none == <<>>
           one == <<x>>
           U == {}
<1>3. none \in Blocks(U) /\ Append(none, x) = one /\ \A u : u \notin U
  BY <1>1, <1>2
<1> HIDE DEF none, one, U
<1>4. Coupled(Append(none, x)) /\ \A u : Marks(Append(none, x), u) => u \in U
  BY <1>3, BlocksEnd
<1>5. Coupled(one) /\ \A u : ~Marks(one, u)
  BY <1>3, <1>4
<1> QED BY <1>5 DEF one

LEMMA MarkFirst ==
  ASSUME NEW x, x.op = "unit", ~TurnsOver(x),
         NEW t \in Seq(SaleStatements), Coupled(t), ~Marks(t, x.unit)
  PROVE  Coupled(<<x>> \o t)
<1> DEFINE s == <<x>> \o t
           b == Len(t)
<1>1. b \in Nat /\ DOMAIN t = 1..b
  OBVIOUS
<1>2. DOMAIN s = 1..(b + 1) /\ s[1] = x /\ \A n \in 1..b : n + 1 \in 1..(b + 1) /\ s[n + 1] = t[n]
  OBVIOUS
<1>3. \A n \in 1..(b + 1) : n = 1 \/ \E m \in 1..b : n = m + 1
  <2> SUFFICES ASSUME NEW n \in 1..(b + 1), n # 1 PROVE \E m \in 1..b : n = m + 1
    OBVIOUS
  <2>1. n - 1 \in 1..b /\ n = (n - 1) + 1
    BY <1>1
  <2> QED BY <2>1
<1> HIDE DEF s, b
<1>4. ASSUME NEW n \in 1..(b + 1), TurnsOver(s[n])
      PROVE  n + 1 \in 1..(b + 1) /\ Books(s[n], s[n + 1])
  <2>1. n # 1
    BY <1>2, <1>4
  <2>2. PICK m \in 1..b : n = m + 1
    BY <1>3, <2>1
  <2>3. m + 1 \in 1..b /\ Books(t[m], t[m + 1])
    BY <1>1, <1>2, <1>4, <2>2 DEF Coupled
  <2> QED BY <1>2, <2>2, <2>3
<1>5. ASSUME NEW n \in 1..(b + 1), s[n].op \in SaleOps
      PROVE  n - 1 \in 1..(b + 1) /\ Books(s[n - 1], s[n])
  <2>1. n # 1
    BY <1>2, <1>5 DEF SaleOps
  <2>2. PICK m \in 1..b : n = m + 1
    BY <1>3, <2>1
  <2>3. m - 1 \in 1..b /\ Books(t[m - 1], t[m])
    BY <1>1, <1>2, <1>5, <2>2 DEF Coupled
  <2>4. n - 1 = (m - 1) + 1
    BY <1>1, <2>2
  <2> QED BY <1>2, <2>2, <2>3, <2>4
<1>6. \A n \in 1..b : t[n].op = "unit" => t[n].unit # x.unit
  BY <1>1 DEF Marks
<1>7. ASSUME NEW m \in 1..(b + 1), NEW n \in 1..(b + 1), s[m].op = "unit", s[n].op = "unit",
             s[m].unit = s[n].unit
      PROVE  m = n
  <2>1. CASE m = 1 /\ n # 1
    <3>1. PICK h \in 1..b : n = h + 1
      BY <1>3, <2>1
    <3> QED BY <1>2, <1>6, <1>7, <2>1, <3>1
  <2>2. CASE n = 1 /\ m # 1
    <3>1. PICK h \in 1..b : m = h + 1
      BY <1>3, <2>2
    <3> QED BY <1>2, <1>6, <1>7, <2>2, <3>1
  <2>3. CASE m # 1 /\ n # 1
    <3>1. PICK h \in 1..b : n = h + 1
      BY <1>3, <2>3
    <3>2. PICK k \in 1..b : m = k + 1
      BY <1>3, <2>3
    <3>3. t[k].op = "unit" /\ t[h].op = "unit" /\ t[k].unit = t[h].unit
      BY <1>2, <1>7, <3>1, <3>2
    <3>4. k = h
      BY <1>1, <3>3 DEF Coupled
    <3> QED BY <3>1, <3>2, <3>4
  <2> QED BY <2>1, <2>2, <2>3
<1>8. ASSUME NEW n \in 1..(b + 1), s[n].op \in Deletions PROVE n + 1 \notin 1..(b + 1)
  <2>1. n # 1
    BY <1>2, <1>8 DEF Deletions
  <2>2. PICK m \in 1..b : n = m + 1
    BY <1>3, <2>1
  <2>3. m + 1 \notin 1..b
    BY <1>1, <1>2, <1>8, <2>2 DEF Coupled
  <2> QED BY <1>1, <2>2, <2>3
<1>9. Coupled(s)
  BY <1>2, <1>4, <1>5, <1>7, <1>8 DEF Coupled
<1> QED BY <1>9 DEF s

LEMMA AsksIs ==
  ASSUME NEW w \in Workers, Asks(w)
  PROVE  /\ job = [v \in Workers |-> job[v]] /\ IsJob(job[w]) /\ IsRequest(w, job[w].req)
         /\ load \in Loads /\ RaceTables /\ OneRowEach /\ Calm(job[w]) /\ RaceInv
         /\ job[w].req[1] \in SaleKinds => job[w].todo \in Seq(SaleStatements) /\ Coupled(job[w].todo)
         /\ job[w].req[1] \notin SaleKinds => Harmless(job[w].todo)
<1>1. /\ job = [v \in Workers |-> job[v]] /\ IsJob(job[w]) /\ IsRequest(w, job[w].req)
      /\ load \in Loads /\ RaceTables /\ RaceKnows(job[w])
  BY AskIs DEF Asks
<1> QED BY <1>1 DEF Asks, Calm, RaceKnows

LEMMA AsksTurn ==
  ASSUME NEW w \in Workers, Asks(w)
  PROVE  /\ Ends(w) => \E j : CalmTurn(w, j)
         /\ \A at, seen : at # "unit" /\ Goes(w, at, seen) => \E j : CalmTurn(w, j)
         /\ \A todo : /\ job[w].req[1] \in SaleKinds => Coupled(todo)
                      /\ job[w].req[1] \notin SaleKinds => Harmless(todo)
                      /\ Writes(w, todo)
                      => \E j : CalmTurn(w, j)
BY AsksIs, CalmEnds, CalmGoes, CalmWrites

LEMMA ReadInvoiceCalm ==
  ASSUME NEW w \in Workers, Asks(w), ReadInvoice(w)
  PROVE  \E j : CalmTurn(w, j)
<1> DEFINE i == job[w].req[2]
<1>1. job[w].req[1] \in {"status", "patch_invoice", "delete_invoice"} /\ IsRequest(w, job[w].req) /\ load \in Loads
  BY AsksIs DEF ReadInvoice, Query
<1>2. i \in Invoices /\ (job[w].req[1] = "status" => job[w].req[3] \in {"issued", "cancelled"})
  BY <1>1, RequestsAre DEF IsRequest
<1>3. \A st \in InvoiceStatus : Coupled(<<SetInvoice(i, st)>>)
  <2> SUFFICES ASSUME NEW st \in InvoiceStatus PROVE Coupled(<<SetInvoice(i, st)>>)
    OBVIOUS
  <2>1. SetInvoice(i, st) \in SaleStatements /\ SetInvoice(i, st).op = "invoice"
    BY <1>2, SaleStatementsAre DEF SetInvoice
  <2> QED BY <2>1, Single DEF SaleOps
<1>4. \/ Ends(w)
      \/ \E seen : Goes(w, "invoice_lines", seen)
      \/ \E st \in InvoiceStatus : Writes(w, <<SetInvoice(i, st)>>)
  BY <1>2 DEF ReadInvoice, InvoiceStatus
<1>5. CASE \E st \in InvoiceStatus : Writes(w, <<SetInvoice(i, st)>>)
  <2>1. PICK st \in InvoiceStatus : Writes(w, <<SetInvoice(i, st)>>)
    BY <1>5
  <2> DEFINE todo == <<SetInvoice(i, st)>>
  <2>2. Coupled(todo) /\ Writes(w, todo) /\ job[w].req[1] \in SaleKinds
    BY <1>1, <1>3, <2>1 DEF SaleKinds
  <2> HIDE DEF todo
  <2> QED BY <2>2, AsksTurn
<1>6. CASE \E seen : Goes(w, "invoice_lines", seen)
  BY <1>6, AsksTurn
<1> QED BY <1>4, <1>5, <1>6, AsksTurn

(* A plan that a block begins and one more statement ends.                    *)
LEMMA BlockWrites ==
  ASSUME NEW w \in Workers, Asks(w), job[w].req[1] \in SaleKinds,
         NEW U, NEW t \in Blocks(U), NEW x \in SaleStatements, x.op \notin {"unit"} \cup SaleOps,
         Writes(w, Append(t, x))
  PROVE  \E j : CalmTurn(w, j)
<1> DEFINE todo == Append(t, x)
<1>1. Coupled(todo) /\ Writes(w, todo)
  BY BlocksEnd
<1> HIDE DEF todo
<1> QED BY <1>1, AsksTurn

LEMMA LoadInvoiceLinesCalm ==
  ASSUME NEW w \in Workers, Asks(w), LoadInvoiceLines(w)
  PROVE  \E j : CalmTurn(w, j)
<1> DEFINE i == job[w].req[2]
           st == job[w].req[3]
           moves == CASE st = "issued" -> IssuePlan(i)
                      [] st = "cancelled" /\ job[w].seen = "draft" -> ReleasePlan(RowsOfInvoice(i))
                      [] OTHER -> ReturnPlan(i)
           release == ReleasePlan(RowsOfInvoice(i))
           x == SetInvoice(i, st)
           y == [op |-> "delete_invoice", invoice |-> i]
<1>1. /\ job[w].req[1] \in {"status", "delete_invoice"} /\ IsRequest(w, job[w].req) /\ load \in Loads
      /\ OneRowEach
  BY AsksIs DEF LoadInvoiceLines, Query
<1>2. i \in Invoices /\ (job[w].req[1] = "status" => st \in {"issued", "cancelled"})
  BY <1>1, RequestsAre DEF IsRequest
<1>3. release \in Blocks(UnitsOf(RowsOfInvoice(i)))
  <2>1. RowsOfInvoice(i) \subseteq rows
    BY DEF RowsOfInvoice
  <2> QED BY <1>1, <2>1, ReleaseBlocks
<1>4. \E U : moves \in Blocks(U)
  BY <1>1, <1>3, IssueBlocks, ReturnBlocks
<1>5. /\ job[w].req[1] = "status" => x \in SaleStatements /\ x.op = "invoice"
      /\ y \in SaleStatements /\ y.op = "delete_invoice"
  BY <1>2, SaleStatementsAre DEF InvoiceStatus, SetInvoice
<1>6. \/ job[w].req[1] = "status" /\ Writes(w, Append(moves, x))
      \/ Writes(w, Append(release, y))
  BY <1>1 DEF LoadInvoiceLines
<1>7. job[w].req[1] \in SaleKinds
  BY <1>1 DEF SaleKinds
<1> HIDE DEF moves, release, x, y
<1>8. CASE job[w].req[1] = "status" /\ Writes(w, Append(moves, x))
  BY <1>4, <1>5, <1>7, <1>8, BlockWrites DEF SaleOps
<1>9. CASE Writes(w, Append(release, y))
  BY <1>3, <1>5, <1>7, <1>9, BlockWrites DEF SaleOps
<1> QED BY <1>6, <1>8, <1>9

LEMMA ReadLineCalm ==
  ASSUME NEW w \in Workers, Asks(w), ReadLine(w)
  PROVE  \E j : CalmTurn(w, j)
<1>1. Ends(w) \/ \E at \in {"line_rows", "count"} : \E seen : Goes(w, at, seen)
  BY DEF ReadLine
<1>2. CASE \E at \in {"line_rows", "count"} : \E seen : Goes(w, at, seen)
  BY <1>2, AsksTurn
<1> QED BY <1>1, <1>2, AsksTurn

LEMMA LoadLineRowsCalm ==
  ASSUME NEW w \in Workers, Asks(w), LoadLineRows(w)
  PROVE  \E j : CalmTurn(w, j)
<1> DEFINE l == job[w].req[2]
           release == ReleasePlan(RowsOfLine(l))
           x == OnLine("delete_line", l)
<1>1. job[w].req[1] = "delete_line" /\ IsRequest(w, job[w].req) /\ load \in Loads /\ OneRowEach
  BY AsksIs DEF LoadLineRows, Query
<1>2. x \in SaleStatements /\ x.op = "delete_line"
  BY <1>1, RequestsAre, SaleStatementsAre DEF IsRequest, OnLine
<1>3. release \in Blocks(UnitsOf(RowsOfLine(l)))
  <2>1. RowsOfLine(l) \subseteq rows
    BY DEF RowsOfLine
  <2> QED BY <1>1, <2>1, ReleaseBlocks
<1>4. Writes(w, Append(release, x))
  BY DEF LoadLineRows
<1>5. job[w].req[1] \in SaleKinds
  BY <1>1 DEF SaleKinds
<1> HIDE DEF release, x
<1> QED BY <1>2, <1>3, <1>4, <1>5, BlockWrites DEF SaleOps

LEMMA CountRowsCalm ==
  ASSUME NEW w \in Workers, Asks(w), CountRows(w)
  PROVE  \E j : CalmTurn(w, j)
<1> DEFINE l == job[w].req[2]
           row == OnPair("add_row", l, job[w].req[3])
           change == [op |-> "quantity", line |-> l, to |-> job[w].req[3]]
<1>1. /\ job[w].req[1] \in {"add_serial", "quantity"} /\ IsRequest(w, job[w].req) /\ load \in Loads
      /\ job = [v \in Workers |-> job[v]] /\ IsJob(job[w])
  BY AsksIs DEF CountRows, Query
<1>2. job[w].req[1] \in SaleKinds
  BY <1>1 DEF SaleKinds
<1>3. CASE job[w].req[1] = "add_serial"
  <2>1. row \in SaleStatements /\ row.op = "add_row"
    BY <1>1, <1>3, RequestsAre, SaleStatementsAre DEF IsRequest, OnPair
  <2> HIDE DEF row
  <2>2. \/ Ends(w)
        \/ job' = [job EXCEPT ![w].at = "unit", ![w].seen = {}, ![w].todo = <<row>>]
    BY <1>3 DEF CountRows, row
  <2>3. CASE job' = [job EXCEPT ![w].at = "unit", ![w].seen = {}, ![w].todo = <<row>>]
    <3>1. job' = [job EXCEPT ![w] = [job[w] EXCEPT !.at = "unit", !.seen = {}, !.todo = <<row>>]]
      BY <1>1, <2>3
    <3>2. job[w] \in [at : {job[w].at}, req : {job[w].req}, seen : {job[w].seen}, todo : {job[w].todo}]
      BY <1>1 DEF IsJob
    <3>3. [job[w] EXCEPT !.at = "unit", !.seen = {}, !.todo = <<row>>]
            \in [at : {"unit"}, req : {job[w].req}, seen : {{}}, todo : {<<row>>}]
      BY <3>2
    <3>4. BecomesJob(w, "unit", {}, <<row>>)
      BY <3>1, <3>3, JobIs DEF BecomesJob
    <3> DEFINE todo == <<row>>
    <3>5. Coupled(todo) /\ (\A u : ~Marks(todo, u)) /\ BecomesJob(w, "unit", {}, todo)
      BY <2>1, <3>4, Single DEF SaleOps
    <3> HIDE DEF todo
    <3> QED BY <1>2, <3>5, CalmBecomes
  <2> QED BY <2>2, <2>3, AsksTurn
<1>4. CASE job[w].req[1] = "quantity"
  <2>1. change \in SaleStatements /\ change.op = "quantity"
    BY <1>1, <1>4, RequestsAre, SaleStatementsAre DEF IsRequest
  <2>2. Ends(w) \/ Writes(w, <<change>>)
    BY <1>4 DEF CountRows
  <2> HIDE DEF change
  <2> DEFINE todo == <<change>>
  <2>3. Coupled(todo) /\ (Ends(w) \/ Writes(w, todo))
    BY <2>1, <2>2, Single DEF SaleOps
  <2> HIDE DEF todo
  <2> QED BY <1>2, <2>3, AsksTurn
<1> QED BY <1>1, <1>3, <1>4

LEMMA ReadRowCalm ==
  ASSUME NEW w \in Workers, Asks(w), ReadRow(w)
  PROVE  \E j : CalmTurn(w, j)
<1> DEFINE l == job[w].req[2]
           u == job[w].req[3]
           next == job[w].req[4]
           drop == OnPair("drop_row", l, u)
           swap == [op |-> "swap_row", line |-> l, unit |-> u, next |-> next]
           release == Release(<<l, u>>)
<1>1. /\ job[w].req[1] \in {"swap_serial", "drop_serial"} /\ IsRequest(w, job[w].req) /\ load \in Loads
      /\ job = [v \in Workers |-> job[v]] /\ IsJob(job[w])
  BY AsksIs DEF ReadRow, Query
<1>2. l \in Lines /\ u \in Units /\ (job[w].req[1] = "swap_serial" => next \in Units)
  BY <1>1, RequestsAre DEF IsRequest
<1>3. /\ drop \in SaleStatements /\ drop.op = "drop_row"
      /\ job[w].req[1] = "swap_serial" => swap \in SaleStatements /\ swap.op = "swap_row"
  BY <1>2, SaleStatementsAre DEF OnPair
<1>4. release \in Blocks({u})
  <2>1. <<l, u>>[2] = u
    OBVIOUS
  <2> QED BY <1>2, <2>1, ReleaseBlock
<1>5. \/ Ends(w)
      \/ Writes(w, Append(release, drop))
      \/ /\ job[w].req[1] = "swap_serial" /\ next # u
         /\ job' = [job EXCEPT ![w].at = "unit", ![w].todo = Append(release, swap)]
  BY <1>1 DEF ReadRow
<1>6. job[w].req[1] \in SaleKinds
  BY <1>1 DEF SaleKinds
<1> HIDE DEF swap, drop, release
<1>7. CASE Writes(w, Append(release, drop))
  BY <1>3, <1>4, <1>6, <1>7, BlockWrites DEF SaleOps
<1>8. CASE /\ job[w].req[1] = "swap_serial" /\ next # u
           /\ job' = [job EXCEPT ![w].at = "unit", ![w].todo = Append(release, swap)]
  <2> DEFINE todo == Append(release, swap)
  <2>1. Coupled(todo) /\ \A v : Marks(todo, v) => v \in {u}
    BY <1>3, <1>4, <1>8, BlocksEnd DEF SaleOps
  <2>2. job' = [job EXCEPT ![w].at = "unit", ![w].todo = todo]
    BY <1>8
  <2> HIDE DEF todo
  <2>3. job' = [job EXCEPT ![w] = [job[w] EXCEPT !.at = "unit", !.todo = todo]]
    BY <1>1, <2>2
  <2>4. job[w] \in [at : {job[w].at}, req : {job[w].req}, seen : {job[w].seen}, todo : {job[w].todo}]
    BY <1>1 DEF IsJob
  <2>5. [job[w] EXCEPT !.at = "unit", !.todo = todo]
            \in [at : {"unit"}, req : {job[w].req}, seen : {job[w].seen}, todo : {todo}]
    BY <2>4
  <2>6. BecomesJob(w, "unit", job[w].seen, todo)
    BY <2>3, <2>5, JobIs DEF BecomesJob
  <2>7. ~Marks(todo, Reserves(job[w].req))
    BY <1>8, <2>1 DEF Reserves
  <2> QED BY <1>6, <2>1, <2>6, <2>7, CalmBecomes
<1> QED BY <1>5, <1>7, <1>8, AsksTurn

LEMMA ReadUnitCalm ==
  ASSUME NEW w \in Workers, Asks(w), ReadUnit(w)
  PROVE  \E j : CalmTurn(w, j)
<1> DEFINE u == Reserves(job[w].req)
           x == SetUnit(u, "reserved")
           rest == job[w].todo
           todo == <<x>> \o rest
<1>1. job[w].req[1] \in {"add_serial", "swap_serial"} /\ job[w].at = "unit"
  BY DEF ReadUnit, Query
<1>2. job[w].req[1] \in SaleKinds
  BY <1>1 DEF SaleKinds
<1>3. rest \in Seq(SaleStatements) /\ Coupled(rest) /\ ~Marks(rest, u)
  BY <1>1, <1>2, AsksIs DEF Calm
<1>4. Ends(w) \/ (Reservable(u) /\ Writes(w, todo))
  BY DEF ReadUnit, Reserves
<1>5. CASE Reservable(u) /\ Writes(w, todo)
  <2>1. x.op = "unit" /\ x.unit = u /\ x.to = "reserved"
    BY DEF SetUnit
  <2> HIDE DEF x, rest
  <2>2. ~TurnsOver(x)
    BY <1>5, <2>1 DEF TurnsOver
  <2>3. Coupled(todo)
    BY <1>3, <2>1, <2>2, MarkFirst
  <2>4. Writes(w, todo)
    BY <1>5
  <2> HIDE DEF todo
  <2> QED BY <1>2, <2>3, <2>4, AsksTurn
<1> QED BY <1>4, <1>5, AsksTurn

-----------------------------------------------------------------------------
(* The plans of the purchase side harm no sale.                               *)
LEMMA HarmlessAre ==
  /\ <<>> \in Harms
  /\ \A s, t \in Harms : s \o t \in Harms
  /\ \A x \in WipeStatements : Mild(x) => <<x>> \in Harms
  /\ \A t \in Harms, x \in WipeStatements : Mild(x) => Append(t, x) \in Harms
  /\ \A t \in Harms : t # <<>> => Tail(t) \in Harms /\ Mild(Head(t))
<1>1. <<>> \in Harms
  BY DEF Harms, Harmless
<1>2. ASSUME NEW s \in Harms, NEW t \in Harms PROVE s \o t \in Harms
  <2>1. s \in Seq(WipeStatements) /\ t \in Seq(WipeStatements) /\ Harmless(s) /\ Harmless(t)
    BY DEF Harms
  <2>2. s \o t \in Seq(WipeStatements)
    BY <2>1
  <2>3. \A n \in DOMAIN (s \o t) :
          (n \in DOMAIN s /\ (s \o t)[n] = s[n]) \/ (n - Len(s) \in DOMAIN t /\ (s \o t)[n] = t[n - Len(s)])
    BY <2>1
  <2> QED BY <2>1, <2>2, <2>3 DEF Harms, Harmless
<1>3. ASSUME NEW x \in WipeStatements, Mild(x) PROVE <<x>> \in Harms
  <2>1. <<x>> \in Seq(WipeStatements) /\ \A n \in DOMAIN <<x>> : <<x>>[n] = x
    OBVIOUS
  <2> QED BY <1>3, <2>1 DEF Harms, Harmless
<1>4. ASSUME NEW t \in Harms, NEW x \in WipeStatements, Mild(x) PROVE Append(t, x) \in Harms
  <2>1. Append(t, x) = t \o <<x>>
    BY DEF Harms
  <2> QED BY <1>2, <1>3, <1>4, <2>1
<1>5. ASSUME NEW t \in Harms, t # <<>> PROVE Tail(t) \in Harms /\ Mild(Head(t))
  <2>1. t \in Seq(WipeStatements) /\ Harmless(t) /\ Len(t) \in Nat /\ Len(t) # 0
    BY <1>5 DEF Harms
  <2>2. /\ Tail(t) \in Seq(WipeStatements) /\ 1 \in DOMAIN t /\ Head(t) = t[1]
        /\ \A n \in DOMAIN Tail(t) : n + 1 \in DOMAIN t /\ Tail(t)[n] = t[n + 1]
    BY <2>1
  <2> QED BY <2>1, <2>2 DEF Harms, Harmless
<1> QED BY <1>1, <1>2, <1>3, <1>4, <1>5

LEMMA TwoMild ==
  ASSUME NEW d \in WipeStatements, NEW e \in WipeStatements, Mild(d), Mild(e)
  PROVE  <<d, e>> \in Harms
<1>1. <<d, e>> \in Seq(WipeStatements) /\ DOMAIN <<d, e>> = {1, 2} /\ <<d, e>>[1] = d /\ <<d, e>>[2] = e
  OBVIOUS
<1> QED BY <1>1 DEF Harms, Harmless

LEMMA PurgeIsMild ==
  ASSUME RaceTables, NEW k \in SpentLines
  PROVE  PurgePlan(k) \in Harms
<1> DEFINE out == {r \in purchaseRows : r[1] = k}
           seq == SetToSeq(out)
           f == [n \in DOMAIN seq |-> <<OnPair("drop_bought", k, seq[n][2]), OnUnit("delete_unit", seq[n][2])>>]
<1>1. IsFiniteSet(out) /\ out \subseteq SpentLines \X Units
  BY PurchasesAreFinite
<1>2. PurgePlan(k) = IF LineIdle(k) THEN <<OnLine("delete_line_moves", k)>> \o FlattenSeq(f) ELSE <<Fail>>
  BY DEF PurgePlan, Concat
<1> HIDE DEF out
<1>3. Cardinality(out) \in Nat /\ seq \in [1..Cardinality(out) -> out]
  BY <1>1, SetAsSequence
<1> HIDE DEF seq
<1>4. ASSUME NEW u \in Units
      PROVE  <<OnPair("drop_bought", k, u), OnUnit("delete_unit", u)>> \in Harms
  <2> DEFINE d == OnPair("drop_bought", k, u)
             e == OnUnit("delete_unit", u)
  <2>1. d \in WipeStatements /\ e \in WipeStatements /\ d.op = "drop_bought" /\ e.op = "delete_unit"
    BY WipeStatementsAre DEF OnPair, OnUnit
  <2> HIDE DEF d, e
  <2>2. Mild(d) /\ Mild(e)
    BY <2>1 DEF Mild, SaleOps
  <2>3. <<d, e>> \in Harms
    BY <2>1, <2>2, TwoMild
  <2> QED BY <2>3 DEF d, e
<1>5. f \in [1..Cardinality(out) -> Harms]
  <2> SUFFICES ASSUME NEW n \in 1..Cardinality(out) PROVE f[n] \in Harms
    BY <1>3
  <2>1. seq[n][2] \in Units
    BY <1>1, <1>3
  <2> QED BY <1>3, <1>4, <2>1
<1> HIDE DEF f
<1>6. FlattenSeq(f) \in Harms
  BY <1>3, <1>5, HarmlessAre, FlattenedIn
<1>7. <<OnLine("delete_line_moves", k)>> \in Harms
  <2>1. OnLine("delete_line_moves", k) \in WipeStatements /\ OnLine("delete_line_moves", k).op = "delete_line_moves"
    BY WipeStatementsAre DEF OnLine
  <2>2. Mild(OnLine("delete_line_moves", k))
    BY <2>1 DEF Mild, SaleOps
  <2> QED BY <2>1, <2>2, HarmlessAre
<1>8. <<Fail>> \in Harms
  <2>1. Fail \in WipeStatements /\ Fail.op = "fail"
    BY SaleStatementsAre, WipeStatementsAre DEF Fail
  <2>2. Mild(Fail)
    BY <2>1 DEF Mild, SaleOps
  <2> QED BY <2>1, <2>2, HarmlessAre
<1> QED BY <1>2, <1>6, <1>7, <1>8, HarmlessAre

LEMMA HarmlessTurn ==
  ASSUME NEW w \in Workers, Asks(w), job[w].req[1] \notin SaleKinds,
         NEW todo, Harmless(todo), Writes(w, todo)
  PROVE  \E j : CalmTurn(w, j)
  BY AsksTurn

LEMMA GoingCalm ==
  ASSUME NEW w \in Workers, Asks(w), ReadSpent(w) \/ ReadSpentLine(w) \/ CheckSpentIdle(w)
  PROVE  \E j : CalmTurn(w, j)
<1>1. Ends(w) \/ \E at \in {"spent_rows", "graph_lines", "spent_idle", "unit_exists", "purge_rows", "spent_lines"} :
                   \E seen : Goes(w, at, seen)
  BY DEF ReadSpent, ReadSpentLine, CheckSpentIdle
<1>2. CASE \E at \in {"spent_rows", "graph_lines", "spent_idle", "unit_exists", "purge_rows", "spent_lines"} :
             \E seen : Goes(w, at, seen)
  BY <1>2, AsksTurn
<1> QED BY <1>1, <1>2, AsksTurn

LEMMA LoadSpentRowsCalm ==
  ASSUME NEW w \in Workers, Asks(w), LoadSpentRows(w)
  PROVE  \E j : CalmTurn(w, j)
<1> DEFINE s == job[w].req[2]
           out == {r \in purchaseRows : SpentOf[r[1]] = s}
           seq == SetToSeq(out)
           f == [n \in DOMAIN seq |-> <<SetUnit(seq[n][2], "voided"), OnPair("purchase_out", seq[n][1], seq[n][2])>>]
           todo == Append(FlattenSeq(f), SetSpent(s, "cancelled"))
<1>1. job[w].req[1] = "cancel_spent" /\ RaceTables /\ s \in Spents
  BY AsksIs, RequestsAre DEF LoadSpentRows, Query, IsRequest
<1>2. \/ Ends(w)
      \/ Writes(w, todo) /\ \A r \in out : Mutable(r[2])
  <2>1. (\A u \in UnitsIn(out) : Mutable(u)) => \A r \in out : Mutable(r[2])
    BY <1>1 DEF UnitsIn, RaceTables
  <2>2. IF \A u \in UnitsIn(out) : Mutable(u) THEN Writes(w, todo) ELSE Ends(w)
    BY DEF LoadSpentRows, Concat
  <2> QED BY <2>1, <2>2
<1>3. CASE Writes(w, todo) /\ \A r \in out : Mutable(r[2])
  <2>1. IsFiniteSet(out) /\ out \subseteq SpentLines \X Units
    BY <1>1, PurchasesAreFinite
  <2>2. \A r \in out : Mutable(r[2])
    BY <1>3
  <2> HIDE DEF out
  <2>3. Cardinality(out) \in Nat /\ seq \in [1..Cardinality(out) -> out]
    BY <2>1, SetAsSequence
  <2> HIDE DEF seq
  <2>4. ASSUME NEW k \in SpentLines, NEW u \in Units, Mutable(u)
        PROVE  <<SetUnit(u, "voided"), OnPair("purchase_out", k, u)>> \in Harms
    <3> DEFINE d == SetUnit(u, "voided")
               e == OnPair("purchase_out", k, u)
    <3>1. /\ d \in WipeStatements /\ e \in WipeStatements
          /\ d.op = "unit" /\ d.to = "voided" /\ d.unit = u /\ e.op = "purchase_out"
      BY WipeStatementsAre DEF OnPair, SetUnit
    <3> HIDE DEF d, e
    <3>2. Mild(d) /\ Mild(e)
      BY <2>4, <3>1 DEF Mild, SaleOps, Mutable
    <3>3. <<d, e>> \in Harms
      BY <3>1, <3>2, TwoMild
    <3> QED BY <3>3 DEF d, e
  <2>5. f \in [1..Cardinality(out) -> Harms]
    <3> SUFFICES ASSUME NEW n \in 1..Cardinality(out) PROVE f[n] \in Harms
      BY <2>3
    <3>1. seq[n] \in out /\ seq[n][1] \in SpentLines /\ seq[n][2] \in Units
      BY <2>1, <2>3
    <3> QED BY <2>2, <2>3, <2>4, <3>1
  <2> HIDE DEF f
  <2>6. FlattenSeq(f) \in Harms
    BY <2>3, <2>5, HarmlessAre, FlattenedIn
  <2>7. SetSpent(s, "cancelled") \in WipeStatements /\ Mild(SetSpent(s, "cancelled"))
    <3>1. SetSpent(s, "cancelled").op = "spent"
      BY DEF SetSpent
    <3> QED BY <1>1, <3>1, WipeStatementsAre DEF Mild, SaleOps
  <2>8. Harmless(todo)
    BY <2>6, <2>7, HarmlessAre DEF Harms
  <2>9. Writes(w, todo) /\ job[w].req[1] \notin SaleKinds
    BY <1>1, <1>3 DEF SaleKinds
  <2> HIDE DEF todo
  <2> QED BY <2>8, <2>9, HarmlessTurn
<1> QED BY <1>2, <1>3, AsksTurn

LEMMA ReadUnitExistsCalm ==
  ASSUME NEW w \in Workers, Asks(w), ReadUnitExists(w)
  PROVE  \E j : CalmTurn(w, j)
<1> DEFINE k == job[w].req[2]
           u == job[w].req[3]
           todo == <<OnUnit("create_unit", u), OnPair("purchase_in", k, u), OnPair("add_bought", k, u)>>
<1>1. job[w].req[1] \notin SaleKinds
  BY DEF ReadUnitExists, Query, SaleKinds
<1>2. Ends(w) \/ Writes(w, todo)
  BY DEF ReadUnitExists
<1>3. \A n \in DOMAIN todo : todo[n].op \in {"create_unit", "purchase_in", "add_bought"}
  BY DEF OnUnit, OnPair
<1> HIDE DEF todo
<1>4. Harmless(todo)
  BY <1>3 DEF Harmless, Mild, SaleOps
<1> QED BY <1>1, <1>2, <1>4, HarmlessTurn, AsksTurn

LEMMA LoadPurgeRowsCalm ==
  ASSUME NEW w \in Workers, Asks(w), LoadPurgeRows(w)
  PROVE  \E j : CalmTurn(w, j)
<1> DEFINE k == job[w].req[2]
           x == OnLine("delete_spent_line", k)
           todo == Append(PurgePlan(k), x)
<1>1. job[w].req[1] = "delete_spent_line" /\ RaceTables /\ k \in SpentLines
  BY AsksIs, RequestsAre DEF LoadPurgeRows, Query, IsRequest
<1>2. x \in WipeStatements /\ Mild(x)
  <2>1. x.op = "delete_spent_line"
    BY DEF OnLine
  <2> QED BY <1>1, <2>1, WipeStatementsAre DEF Mild, SaleOps
<1>3. Writes(w, todo)
  BY DEF LoadPurgeRows
<1> HIDE DEF x
<1>4. Harmless(todo)
  BY <1>1, <1>2, PurgeIsMild, HarmlessAre DEF Harms
<1> HIDE DEF todo
<1>5. job[w].req[1] \notin SaleKinds
  BY <1>1 DEF SaleKinds
<1> QED BY <1>3, <1>4, <1>5, HarmlessTurn

LEMMA ListSpentLinesCalm ==
  ASSUME NEW w \in Workers, Asks(w), ListSpentLines(w)
  PROVE  \E j : CalmTurn(w, j)
<1> DEFINE s == job[w].req[2]
           seq == SetToSeq(SpentLinesOf(s))
           f == [n \in DOMAIN seq |-> <<OnLine("purge_line", seq[n])>>]
<1>1. job[w].req[1] = "delete_spent" /\ RaceTables /\ s \in Spents
  BY AsksIs, RequestsAre DEF ListSpentLines, Query, IsRequest
<1>2. IsFiniteSet(SpentLinesOf(s)) /\ SpentLinesOf(s) \subseteq SpentLines
  BY <1>1, PurchasesAreFinite DEF SpentLinesOf
<1>3. Cardinality(SpentLinesOf(s)) \in Nat /\ seq \in [1..Cardinality(SpentLinesOf(s)) -> SpentLinesOf(s)]
  BY <1>2, SetAsSequence
<1>4. PICK end : /\ end \in {Fail, [op |-> "delete_spent", spent |-> s]}
                 /\ Writes(w, Append(FlattenSeq(f), end))
  BY DEF ListSpentLines, Concat
<1> HIDE DEF seq
<1>5. ASSUME NEW k \in SpentLines PROVE <<OnLine("purge_line", k)>> \in Harms
  <2>1. OnLine("purge_line", k) \in WipeStatements /\ OnLine("purge_line", k).op = "purge_line"
    BY WipeStatementsAre DEF OnLine
  <2>2. Mild(OnLine("purge_line", k))
    BY <2>1 DEF Mild, SaleOps
  <2> QED BY <2>1, <2>2, HarmlessAre
<1>6. f \in [1..Cardinality(SpentLinesOf(s)) -> Harms]
  <2> SUFFICES ASSUME NEW n \in 1..Cardinality(SpentLinesOf(s)) PROVE f[n] \in Harms
    BY <1>3
  <2>1. seq[n] \in SpentLines
    BY <1>2, <1>3
  <2> QED BY <1>3, <1>5, <2>1
<1> HIDE DEF f
<1>7. FlattenSeq(f) \in Harms
  BY <1>3, <1>6, HarmlessAre, FlattenedIn
<1>8. end \in WipeStatements /\ Mild(end)
  <2>1. Fail \in WipeStatements /\ Fail.op = "fail"
    BY SaleStatementsAre, WipeStatementsAre DEF Fail
  <2>2. /\ [op |-> "delete_spent", spent |-> s] \in WipeStatements
        /\ [op |-> "delete_spent", spent |-> s].op = "delete_spent"
    BY <1>1, WipeStatementsAre
  <2> QED BY <1>4, <2>1, <2>2 DEF Mild, SaleOps
<1> DEFINE todo == Append(FlattenSeq(f), end)
<1>9. Harmless(todo) /\ Writes(w, todo)
  BY <1>4, <1>7, <1>8, HarmlessAre DEF Harms
<1> HIDE DEF todo
<1>10. job[w].req[1] \notin SaleKinds
  BY <1>1 DEF SaleKinds
<1> QED BY <1>9, <1>10, HarmlessTurn

LEMMA LoadGraphCalm ==
  ASSUME NEW w \in Workers, Asks(w), LoadGraph(w)
  PROVE  \E j : CalmTurn(w, j)
<1> DEFINE s == job[w].req[2]
           ls == job[w].req[3]
           pairs == job[w].req[4]
           old == {r \in purchaseRows : SpentOf[r[1]] = s}
           live == job[w].seen[1] # "cancelled"
           graph == [op |-> "save_graph", spent |-> s, to |-> job[w].seen[1],
                     lines |-> ls, dropped |-> SpentLinesOf(s) \ ls,
                     out |-> {r \in old \ pairs : live \/ r[1] \notin ls},
                     new |-> IF live THEN pairs \ old ELSE {}]
<1>1. job[w].req[1] = "edit_spent" /\ job = [v \in Workers |-> job[v]] /\ IsJob(job[w])
  BY AsksIs DEF LoadGraph, Query
<1>2. /\ graph.op = "save_graph"
      /\ Ends(w) \/ job' = [job EXCEPT ![w].at = "graph_units", ![w].seen = {}, ![w].todo = <<graph>>]
  BY DEF LoadGraph
<1> HIDE DEF graph
<1>3. CASE job' = [job EXCEPT ![w].at = "graph_units", ![w].seen = {}, ![w].todo = <<graph>>]
  <2>1. job' = [job EXCEPT ![w] = [job[w] EXCEPT !.at = "graph_units", !.seen = {}, !.todo = <<graph>>]]
    BY <1>1, <1>3
  <2>2. job[w] \in [at : {job[w].at}, req : {job[w].req}, seen : {job[w].seen}, todo : {job[w].todo}]
    BY <1>1 DEF IsJob
  <2>3. [job[w] EXCEPT !.at = "graph_units", !.seen = {}, !.todo = <<graph>>]
          \in [at : {"graph_units"}, req : {job[w].req}, seen : {{}}, todo : {<<graph>>}]
    BY <2>2
  <2>4. BecomesJob(w, "graph_units", {}, <<graph>>)
    BY <2>1, <2>3, JobIs DEF BecomesJob
  <2> DEFINE todo == <<graph>>
  <2>5. BecomesJob(w, "graph_units", {}, todo) /\ \A n \in DOMAIN todo : todo[n].op = "save_graph"
    BY <1>2, <2>4
  <2> HIDE DEF todo
  <2>6. Harmless(todo)
    BY <2>5 DEF Harmless, Mild, SaleOps
  <2>7. job[w].req[1] \notin SaleKinds
    BY <1>1 DEF SaleKinds
  <2> QED BY <2>5, <2>6, <2>7, CalmBecomes
<1> QED BY <1>2, <1>3, AsksTurn

LEMMA CheckGraphUnitsCalm ==
  ASSUME NEW w \in Workers, Asks(w), CheckGraphUnits(w)
  PROVE  \E j : CalmTurn(w, j)
<1>1. job[w].req[1] \notin SaleKinds /\ Harmless(job[w].todo)
  BY AsksIs DEF CheckGraphUnits, Query, SaleKinds
<1>2. Ends(w) \/ Writes(w, job[w].todo)
  BY DEF CheckGraphUnits
<1> QED BY <1>1, <1>2, HarmlessTurn, AsksTurn

LEMMA ReadSpentRowCalm ==
  ASSUME NEW w \in Workers, Asks(w), ReadSpentRow(w)
  PROVE  \E j : CalmTurn(w, j)
<1> DEFINE k == job[w].req[2]
           u == job[w].req[3]
           d == OnPair("drop_bought", k, u)
           m == OnUnit("delete_unit_moves", u)
           e == OnUnit("delete_unit", u)
<1>1. job[w].req[1] = "return_serial" /\ IsRequest(w, job[w].req) /\ load \in Loads
  BY AsksIs DEF ReadSpentRow, Query
<1>2. k \in SpentLines /\ u \in Units
  BY <1>1, RequestsAre DEF IsRequest
<1>3. \/ Ends(w)
      \/ Mutable(u) /\ Writes(w, <<d>> \o <<m, e>>)
      \/ Writes(w, <<d>> \o <<Fail>>)
  BY DEF ReadSpentRow
<1>4. /\ d \in WipeStatements /\ m \in WipeStatements /\ e \in WipeStatements /\ Fail \in WipeStatements
      /\ d.op = "drop_bought" /\ m.op = "delete_unit_moves" /\ e.op = "delete_unit" /\ Fail.op = "fail"
      /\ m.unit = u
  BY <1>2, WipeStatementsAre, SaleStatementsAre DEF OnPair, OnUnit, Fail
<1> HIDE DEF d, m, e
<1>5. Mild(d) /\ Mild(e) /\ Mild(Fail) /\ (Mutable(u) => Mild(m))
  BY <1>4 DEF Mild, SaleOps, Mutable
<1>6. <<d>> \in Harms /\ <<Fail>> \in Harms /\ (Mutable(u) => <<m, e>> \in Harms)
  BY <1>4, <1>5, HarmlessAre, TwoMild
<1> DEFINE a == <<d>>
           b == <<m, e>>
           c == <<Fail>>
<1>7. /\ Ends(w) \/ (Mutable(u) /\ Writes(w, a \o b)) \/ Writes(w, a \o c)
      /\ a \in Harms /\ c \in Harms /\ (Mutable(u) => b \in Harms)
  BY <1>3, <1>6
<1> HIDE DEF a, b, c
<1>8. Harmless(a \o c) /\ (Mutable(u) => Harmless(a \o b))
  BY <1>7, HarmlessAre DEF Harms
<1>9. job[w].req[1] \notin SaleKinds
  BY <1>1 DEF SaleKinds
<1> QED BY <1>7, <1>8, <1>9, HarmlessTurn, AsksTurn

LEMMA PurgeNextLineCalm ==
  ASSUME NEW w \in Workers, Asks(w), PurgeNextLine(w)
  PROVE  \E j : CalmTurn(w, j)
<1> DEFINE t == job[w].todo
           x == Head(t)
           todo == PurgePlan(x.line) \o Tail(t)
<1>1. job[w].at = "write" /\ x.op = "purge_line" /\ Writes(w, todo)
  BY DEF PurgeNextLine
<1>2. RaceKnows(job[w]) /\ RaceTables /\ t # <<>> /\ Plan(t)
  BY <1>1, AskIs DEF RaceKnows, Asks
<1>3. t \in Wipes
  <2>1. ~Edits(t)
    BY <1>1 DEF Edits
  <2>2. ~Buys(t)
    <3> SUFFICES ASSUME NEW k \in SpentLines, NEW u \in Units, BuyOf(t, k, u) PROVE FALSE
      BY DEF Buys
    <3>1. x \in {OnUnit("create_unit", u), OnPair("purchase_in", k, u), OnPair("add_bought", k, u)}
      BY DEF BuyOf
    <3> QED BY <1>1, <3>1 DEF OnUnit, OnPair
  <2> QED BY <1>2, <2>1, <2>2 DEF Plan
<1>4. x \in WipeStatements /\ t \in Seq(WipeStatements)
  BY <1>2, <1>3, WipesAre DEF Wipes
<1>5. x.line \in SpentLines
  BY <1>1, <1>4, WipeOperations
<1>6. job[w].req[1] \notin SaleKinds
  <2>1. t \notin Seq(SaleStatements)
    <3>1. \A y \in SaleStatements : y.op # "purge_line"
      BY SaleOperations
    <3> QED BY <1>1, <1>2, <3>1
  <2> QED BY <1>2, <2>1 DEF RaceKnows
<1>7. t \in Harms
  BY <1>4, <1>6, AsksIs DEF Harms
<1> DEFINE p == PurgePlan(x.line)
<1>8. p \in Harms /\ Tail(t) \in Harms
  BY <1>2, <1>5, <1>7, PurgeIsMild, HarmlessAre
<1>9. Harmless(todo)
  <2> HIDE DEF p
  <2>1. p \o Tail(t) \in Harms
    BY <1>8, HarmlessAre
  <2> QED BY <2>1 DEF Harms, p
<1> HIDE DEF todo
<1> QED BY <1>1, <1>6, <1>9, HarmlessTurn

(* Every query of a request.                                                  *)
LEMMA QueriesCalm ==
  ASSUME NEW w \in Workers, Asks(w), Step(w), ~Execute(w)
  PROVE  \E j : CalmTurn(w, j)
BY ReadInvoiceCalm, LoadInvoiceLinesCalm, ReadLineCalm, LoadLineRowsCalm, CountRowsCalm, ReadRowCalm,
   ReadUnitCalm, GoingCalm, LoadSpentRowsCalm, ReadUnitExistsCalm, LoadPurgeRowsCalm, ListSpentLinesCalm,
   PurgeNextLineCalm, LoadGraphCalm, CheckGraphUnitsCalm, ReadSpentRowCalm
DEF Step

-----------------------------------------------------------------------------
(* One request at a time: the other workers are idle.                         *)
LEMMA LoneWorker ==
  ASSUME RaceInv, Lone, NEW w \in Workers, NEW req, IsRequest(w, req)
  PROVE  \A v \in Workers \ {w} : job[v] = Idle
<1>1. load \in Loads /\ load.kinds \in [Workers -> SUBSET AllKinds] /\ IsFiniteSet(Workers)
  BY RequestsAssumption DEF RaceInv
<1>2. \A v \in Workers : \A r : IsRequest(v, r) => v \in Serving(AllKinds)
  BY <1>1 DEF IsRequest, Serving
<1>3. IsFiniteSet(Serving(AllKinds))
  BY <1>1, FS_Subset DEF Serving
<1>4. PICK v : Serving(AllKinds) = {v}
  BY <1>3, FS_Singleton DEF Lone
<1>5. \A x \in Workers : job[x] # Idle => x \in Serving(AllKinds)
  BY <1>2 DEF RaceInv, RaceJobs, Prepared, Serves
<1> QED BY <1>2, <1>4, <1>5

LEMMA PendingIs ==
  ASSUME NEW w \in Workers
  PROVE  /\ (\A v \in Workers \ {w} : job[v] = Idle) =>
              \A op, u : Pending(op, u) <=> Heads(job[w], op, u)
         /\ (\A v \in Workers \ {w} : job'[v] = Idle) =>
              \A op, u : Pending(op, u)' <=> Heads(job'[w], op, u)
<1>1. Idle.todo = <<>>
  BY DEF Idle
<1> QED BY <1>1 DEF Pending, Heads

(* A plan begins with its first statement.                                    *)
LEMMA FirstOfPlan ==
  ASSUME NEW t, Plan(t), t # <<>>
  PROVE  1 \in DOMAIN t /\ Head(t) = t[1]
<1>1. CASE t \in Wipes
  <2>1. t \in Seq(WipeStatements)
    BY <1>1 DEF Wipes
  <2> QED BY <2>1
<1>2. CASE Edits(t)
  <2>1. PICK x : t = <<x>>
    BY <1>2 DEF Edits
  <2> QED BY <2>1
<1>3. CASE Buys(t)
  <2>1. PICK k \in SpentLines, u \in Units : BuyOf(t, k, u)
    BY <1>3 DEF Buys
  <2> DEFINE c == OnUnit("create_unit", u)
             p == OnPair("purchase_in", k, u)
             a == OnPair("add_bought", k, u)
  <2>2. t = <<c, p, a>> \/ t = <<p, a>> \/ t = <<a>>
    BY <2>1 DEF BuyOf
  <2> HIDE DEF c, p, a
  <2> QED BY <2>2
<1> QED BY <1>1, <1>2, <1>3 DEF Plan

LEMMA CalmHead ==
  ASSUME NEW j, RaceKnows(j), Calm(j), j.todo # <<>>
  PROVE  Head(j.todo).op \notin SaleOps
<1>1. 1 \in DOMAIN j.todo /\ Head(j.todo) = j.todo[1]
  BY FirstOfPlan DEF RaceKnows
<1>2. CASE j.req[1] \in SaleKinds
  <2>1. j.todo \in Seq(SaleStatements) /\ Coupled(j.todo)
    BY <1>2 DEF RaceKnows, Calm
  <2>2. 0 \notin DOMAIN j.todo
    BY <2>1
  <2> QED BY <1>1, <2>1, <2>2 DEF Coupled
<1>3. CASE j.req[1] \notin SaleKinds
  BY <1>1, <1>3 DEF Calm, Harmless, Mild
<1> QED BY <1>2, <1>3

LEMMA LoneKeeps ==
  ASSUME LoneInv, NEW w \in Workers, UNCHANGED <<crashes, load>>, crashes \in Nat, Lone => LoneOutcome(w)
  PROVE  LoneInv'
<1> SUFFICES ASSUME Lone PROVE (LoneTables /\ LonePlans /\ Cardinality(AtOdds) <= crashes)'
  BY DEF LoneInv, Lone, Serving
<1>1. LonePlans'
  BY DEF LonePlans, LoneOutcome
<1>2. IsFiniteSet(AtOdds)
  BY FS_Subset DEF AtOdds
<1>3. /\ Cardinality(AtOdds') <= Cardinality(AtOdds)
      /\ Cardinality(AtOdds') \in Nat /\ Cardinality(AtOdds) \in Nat
  BY <1>2, FS_Subset, FS_CardinalityType DEF LoneOutcome
<1>4. Cardinality(AtOdds)' <= crashes'
  BY <1>3 DEF LoneInv
<1> QED BY <1>1, <1>4 DEF LoneOutcome

(* What depends on the status of units and on the lines.                      *)
LEMMA PlansStay ==
  ASSUME UNCHANGED <<status, lines>>
  PROVE  /\ \A j : Calm(j)' <=> Calm(j)
         /\ \A j : LonePlan(j)' <=> LonePlan(j)
         /\ \A t : Coupled(t)' <=> Coupled(t)
<1>1. \A x : TurnsOver(x)' <=> TurnsOver(x)
  BY DEF TurnsOver
<1>2. \A x, y : Books(x, y)' <=> Books(x, y)
  BY DEF Books
<1>3. \A t : Coupled(t)' <=> Coupled(t)
  BY <1>1, <1>2 DEF Coupled
<1>4. \A t : Harmless(t)' <=> Harmless(t)
  BY DEF Harmless, Mild
<1>5. \A t : Halfway(t)' <=> Halfway(t)
  BY <1>3 DEF Halfway
<1>6. \A j : Calm(j)' <=> Calm(j)
  BY <1>3, <1>4 DEF Calm, Marks
<1> QED BY <1>3, <1>5, <1>6 DEF LonePlan

(* A turn of the request keeps the invariant.                                 *)
LEMMA LoneTurnKeeps ==
  ASSUME RaceInv, RaceInv', LoneInv, FewUntended, NEW w \in Workers, NEW j, CalmTurn(w, j),
         UNCHANGED <<vars, crashes, load>>,
         job[w] = Idle \/ Calm(job[w]), job[w] # Idle \/ (j # Idle /\ IsRequest(w, j.req))
  PROVE  LoneInv'
<1> SUFFICES ASSUME Lone PROVE LoneOutcome(w)
  BY LoneKeeps DEF FewUntended
<1>1. UNCHANGED <<status, lines, rows, saleNet, saleMoves>>
  BY DEF vars, saleVars
<1>2. job = [v \in Workers |-> job[v]] /\ job' = [job EXCEPT ![w] = j]
  BY DEF RaceInv, RaceJobs, CalmTurn
<1>3. \A v \in Workers \ {w} : job[v] = Idle
  <2>1. job[w] # Idle => IsRequest(w, job[w].req)
    BY DEF RaceInv, RaceJobs, Prepared, Serves
  <2> QED BY <2>1, LoneWorker
<1>4. job'[w] = j /\ \A v \in Workers \ {w} : job'[v] = Idle
  BY <1>2, <1>3
<1>5. LoneTables'
  BY <1>1 DEF LoneInv, LoneTables
<1>6. Idle.todo = <<>>
  BY DEF Idle
<1>7. \A op \in SaleOps : \A u : ~Heads(job[w], op, u)
  <2>1. job[w] # Idle => RaceKnows(job[w])
    BY DEF RaceInv, RaceJobs, Prepared
  <2> QED BY <1>6, <2>1, CalmHead DEF Heads
<1>8. \A op \in SaleOps : \A u : ~Heads(j, op, u)
  <2>1. j # Idle => RaceKnows(j)
    BY <1>4 DEF RaceInv, RaceJobs, Prepared, RaceKnows, Serves
  <2> QED BY <1>6, <2>1, CalmHead DEF Heads, CalmTurn
<1>9. \A op \in SaleOps : \A u : ~Pending(op, u) /\ ~Pending(op, u)'
  BY <1>3, <1>4, <1>7, <1>8, PendingIs
<1>10. AtOdds' \subseteq AtOdds
  BY <1>1, <1>9 DEF AtOdds, Booked, SaleOps
<1>11. j # Idle => LonePlan(j)'
  BY <1>1, PlansStay DEF CalmTurn, LonePlan
<1> QED BY <1>4, <1>5, <1>10, <1>11 DEF LoneOutcome

-----------------------------------------------------------------------------
(* The steps that perform no statement.                                       *)
LEMMA LoneQuery ==
  ASSUME RaceInv, FewUntended, LoneInv, NEW w \in Workers, Step(w), ~Execute(w)
  PROVE  LoneInv'
<1>1. UNCHANGED <<vars, load>> /\ crashes' = crashes
  BY DEF Step, ReadInvoice, LoadInvoiceLines, ReadLine, LoadLineRows, CountRows, ReadRow, ReadUnit, Query,
         ReadSpent, LoadSpentRows, ReadSpentLine, ReadUnitExists, LoadPurgeRows, CheckSpentIdle,
         ListSpentLines, LoadGraph, CheckGraphUnits, ReadSpentRow, PurgeNextLine
<1>2. CASE ~Lone
  BY <1>1, <1>2 DEF LoneInv, Lone, Serving
<1>3. CASE Lone
  <2>1. LoneTables /\ LonePlans /\ load \in Loads
    BY <1>3 DEF LoneInv, RaceInv
  <2>2. OneRowEach
    BY <1>3, <2>1, OneLineOnly DEF OneRowEach
  <2>3. PurgeNextLine(w) \/ job[w].at \notin {"idle", "write"}
    BY DEF Step, ReadInvoice, LoadInvoiceLines, ReadLine, LoadLineRows, CountRows, ReadRow, ReadUnit, Query,
           ReadSpent, LoadSpentRows, ReadSpentLine, ReadUnitExists, LoadPurgeRows, CheckSpentIdle,
           ListSpentLines, LoadGraph, CheckGraphUnits, ReadSpentRow
  <2>4. job[w].at # "idle" /\ (job[w].at = "write" => Head(job[w].todo).op = "purge_line")
    BY <2>3 DEF PurgeNextLine
  <2>5. job[w] # Idle
    BY <2>4 DEF Idle
  <2>6. Calm(job[w])
    BY <2>1, <2>4, <2>5 DEF LonePlans, LonePlan, Halfway, SaleOps
  <2>7. Asks(w)
    BY <2>2, <2>4, <2>6 DEF Asks
  <2>8. PICK j : CalmTurn(w, j)
    BY <2>7, QueriesCalm
  <2>9. RaceInv'
    BY QueriesRace
  <2> QED BY <1>1, <2>5, <2>6, <2>8, <2>9, LoneTurnKeeps
<1> QED BY <1>2, <1>3

LEMMA LoneStart ==
  ASSUME RaceInv, FewUntended, LoneInv, NEW w \in Workers,
         NEW req \in Requests(load.units, load.lines, load.most, load.spentLines), Start(w, req)
  PROVE  LoneInv'
<1> DEFINE seen == IF req[1] = "edit_spent" THEN req[3] \cap spentLines ELSE {}
           first == FirstQuery(req[1])
           j == [at |-> first, req |-> req, seen |-> seen, todo |-> <<>>]
<1>1. load \in Loads /\ req[1] \in load.kinds[w]
  BY DEF RaceInv, Start
<1>2. UNCHANGED <<vars, crashes, load>>
  BY DEF Start
<1>3. [Idle EXCEPT !.at = first, !.req = req, !.seen = seen] = j
  <2> DEFINE k == [Idle EXCEPT !.at = first, !.req = req, !.seen = seen]
  <2> HIDE DEF seen, first
  <2>1. k \in [at : {first}, req : {req}, seen : {seen}, todo : {<<>>}]
    BY DEF Idle
  <2> HIDE DEF k
  <2>2. k = [at |-> first, req |-> req, seen |-> seen, todo |-> <<>>]
    BY <2>1, JobIs
  <2> QED BY <2>2 DEF k
<1>4. job' = [job EXCEPT ![w] = j]
  BY <1>3 DEF Start
<1>5. req[1] \in AllKinds
  BY <1>1, RequestsAssumption
<1>6. first \notin {"idle", "unit"}
  BY <1>5 DEF FirstQuery, AllKinds
<1>7. j.at = first /\ j.req = req /\ j.todo = <<>>
  OBVIOUS
<1> HIDE DEF j, first, seen
<1>8. Coupled(<<>>) /\ Harmless(<<>>)
  BY BlocksAre, HarmlessAre DEF Blocks, Harms
<1>9. Calm(j)
  BY <1>6, <1>7, <1>8 DEF Calm
<1>10. IsRequest(w, j.req) /\ j # Idle
  BY <1>1, <1>6, <1>7 DEF IsRequest, Idle
<1>11. job[w] = Idle
  BY DEF Start, Busy, RaceInv, RaceJobs, Prepared, Serves
<1>12. RaceInv'
  BY <1>2, RacesNext DEF RequestsNext, Serve
<1>13. CalmTurn(w, j)
  BY <1>4, <1>9 DEF CalmTurn
<1> QED BY <1>2, <1>10, <1>11, <1>12, <1>13, LoneTurnKeeps

(* A crash leaves at odds the unit whose movement was to be written next.     *)
LEMMA LoneCrash ==
  ASSUME RaceInv, FewUntended, LoneInv, NEW w \in Workers, Crash(w)
  PROVE  LoneInv'
<1> DEFINE t == job[w].todo
           h == Head(t).unit
<1>1. UNCHANGED <<vars, load>> /\ crashes' = crashes + 1 /\ crashes \in Nat /\ job' = [job EXCEPT ![w] = Idle]
  BY DEF Crash, Ends, FewUntended
<1>2. UNCHANGED <<status, lines, rows, saleNet, saleMoves>>
  BY <1>1 DEF vars, saleVars
<1> SUFFICES ASSUME Lone PROVE (LoneTables /\ LonePlans /\ Cardinality(AtOdds) <= crashes)'
  BY <1>1 DEF LoneInv, Lone, Serving
<1>3. LoneTables /\ Cardinality(AtOdds) <= crashes
  BY DEF LoneInv
<1>4. IsRequest(w, job[w].req) /\ job = [v \in Workers |-> job[v]]
  BY DEF Crash, Busy, RaceInv, RaceJobs, Prepared, Serves, Idle
<1>5. \A v \in Workers : job'[v] = Idle
  BY <1>1, <1>4, LoneWorker
<1>6. LonePlans' /\ LoneTables'
  BY <1>1, <1>2, <1>3, <1>5 DEF LonePlans, LoneTables
<1>7. \A op, u : /\ ~Pending(op, u)'
                 /\ Pending(op, u) => u = h
  <2>1. Idle.todo = <<>>
    BY DEF Idle
  <2>2. \A op, u : Pending(op, u) <=> Heads(job[w], op, u)
    BY <1>4, LoneWorker, PendingIs
  <2> QED BY <1>5, <2>1, <2>2 DEF Pending, Heads
<1> HIDE DEF t, h
<1>8. AtOdds' \subseteq AtOdds \cup {h}
  BY <1>2, <1>7 DEF AtOdds, Booked
<1>9. IsFiniteSet(AtOdds)
  BY FS_Subset DEF AtOdds
<1>10. /\ IsFiniteSet(AtOdds \cup {h})
       /\ Cardinality(AtOdds \cup {h}) = IF h \in AtOdds THEN Cardinality(AtOdds)
                                         ELSE Cardinality(AtOdds) + 1
  BY <1>9, FS_AddElement
<1>11. /\ Cardinality(AtOdds') <= Cardinality(AtOdds \cup {h})
       /\ Cardinality(AtOdds') \in Nat /\ Cardinality(AtOdds) \in Nat
  <2>1. IsFiniteSet(AtOdds')
    BY <1>8, <1>10, FS_Subset
  <2> QED BY <1>8, <1>9, <1>10, <2>1, FS_Subset, FS_CardinalityType
<1>12. Cardinality(AtOdds)' <= crashes'
  BY <1>1, <1>3, <1>10, <1>11
<1> QED BY <1>6, <1>12

-----------------------------------------------------------------------------
(* A plan while the tables change, some of its statements replaced.           *)
LEMMA MarksAndMoves ==
  ASSUME NEW x \in SaleStatements, x.op \in {"unit"} \cup SaleOps
  PROVE  /\ x.unit \in Units /\ (x.op \in SaleOps => x.line \in Lines)
         /\ \A units : Outdated(x, units, {}, {}) <=> x.unit \in units
<1>1. \/ x \in [op : {"unit"}, unit : Units, to : Held]
      \/ x \in [op : {"sale_out", "sale_in", "add_row", "drop_row"}, line : Lines, unit : Units]
  BY DEF SaleStatements, SaleOps, Fail, Nothing
<1>2. x.unit \in Units /\ "unit" \in DOMAIN x /\ "next" \notin DOMAIN x /\ (x.op \in SaleOps => x.line \in Lines)
  BY <1>1 DEF SaleOps
<1>3. x.op \notin {"drop_row", "swap_row", "drop_bought"}
  BY DEF SaleOps
<1> QED BY <1>2, <1>3 DEF Outdated, Names

LEMMA CoupledStays ==
  ASSUME NEW t, NEW r, NEW units, Recalls(t, r, units), Coupled(t),
         \A n \in DOMAIN t : t[n].op = "unit" /\ t[n].unit \notin units => status'[t[n].unit] = status[t[n].unit],
         \A n \in DOMAIN t : t[n].op \in SaleOps /\ t[n].line \in lines => t[n].line \in lines'
  PROVE  Coupled(r)' /\ \A u : Marks(r, u) => Marks(t, u)
<1>1. Fail.op = "fail" /\ Nothing.op = "nothing"
  BY DEF Fail, Nothing
<1>2. ASSUME NEW n \in DOMAIN t, r[n].op \in {"unit"} \cup SaleOps \cup Deletions
      PROVE  r[n] = t[n] /\ (t[n].op \notin Deletions => t[n].unit \notin units)
  <2>1. r[n] = t[n]
    BY <1>1, <1>2 DEF Recalls, SaleOps, Deletions
  <2> QED BY <1>2, <2>1 DEF Recalls
<1>3. ASSUME NEW n \in DOMAIN t, TurnsOver(r[n])'
      PROVE  n + 1 \in DOMAIN t /\ Books(r[n], r[n + 1])'
  <2>1. r[n].op = "unit" /\ (r[n].to = "sold" \/ status'[r[n].unit] = "sold")
    BY <1>3 DEF TurnsOver
  <2>2. r[n] = t[n] /\ t[n].unit \notin units
    BY <1>2, <2>1 DEF Deletions
  <2>3. status'[t[n].unit] = status[t[n].unit]
    BY <2>1, <2>2
  <2>4. n + 1 \in DOMAIN t /\ Books(t[n], t[n + 1])
    BY <2>1, <2>2, <2>3 DEF Coupled, TurnsOver
  <2>5. t[n + 1].op \in SaleOps /\ t[n + 1].unit = t[n].unit /\ t[n + 1].line \in lines
    BY <2>4 DEF Books
  <2>6. r[n + 1] = t[n + 1] /\ t[n + 1].line \in lines'
    BY <2>2, <2>4, <2>5 DEF Recalls
  <2> QED BY <2>2, <2>3, <2>4, <2>6 DEF Books, Saleable
<1>4. ASSUME NEW n \in DOMAIN t, r[n].op \in SaleOps
      PROVE  n - 1 \in DOMAIN t /\ Books(r[n - 1], r[n])'
  <2>1. r[n] = t[n] /\ t[n].unit \notin units
    BY <1>2, <1>4 DEF Deletions, SaleOps
  <2>2. n - 1 \in DOMAIN t /\ Books(t[n - 1], t[n])
    BY <1>4, <2>1 DEF Coupled
  <2>3. t[n - 1].op = "unit" /\ t[n - 1].unit = t[n].unit /\ t[n].line \in lines
    BY <2>2 DEF Books
  <2>4. r[n - 1] = t[n - 1] /\ t[n].line \in lines' /\ status'[t[n].unit] = status[t[n].unit]
    BY <1>4, <2>1, <2>2, <2>3 DEF Recalls
  <2> QED BY <2>1, <2>2, <2>3, <2>4 DEF Books, Saleable
<1>5. ASSUME NEW m \in DOMAIN t, NEW n \in DOMAIN t, r[m].op = "unit", r[n].op = "unit", r[m].unit = r[n].unit
      PROVE  m = n
  BY <1>2, <1>5 DEF Coupled
<1>6. ASSUME NEW n \in DOMAIN t, r[n].op \in Deletions PROVE n + 1 \notin DOMAIN t
  BY <1>2, <1>6 DEF Coupled
<1>7. Coupled(r)'
  BY <1>3, <1>4, <1>5, <1>6 DEF Coupled, Recalls
<1>8. \A u : Marks(r, u) => Marks(t, u)
  BY <1>2 DEF Marks, Recalls
<1> QED BY <1>7, <1>8

LEMMA RenewRecalls ==
  ASSUME NEW t \in Seq(SaleStatements), NEW units
  PROVE  Recalls(t, Renew(t, units, {}, {}), units)
<1> DEFINE r == [n \in DOMAIN t |->
                   IF ~Outdated(t[n], units, {}, {}) THEN t[n]
                   ELSE IF t[n].op \in Deletes THEN Nothing ELSE Fail]
<1>1. t # <<>> => Head(t).op \notin {"create_unit", "save_graph"}
  <2>1. t # <<>> => Head(t) \in SaleStatements
    OBVIOUS
  <2> QED BY <2>1, SaleOperations
<1>2. Renew(t, units, {}, {}) = r
  BY <1>1 DEF Renew
<1>3. DOMAIN r = DOMAIN t /\ \A n \in DOMAIN t : r[n] = t[n] \/ r[n] \in {Fail, Nothing}
  OBVIOUS
<1>4. ASSUME NEW n \in DOMAIN t, t[n].op \in {"unit"} \cup SaleOps
      PROVE  r[n] = t[n] <=> t[n].unit \notin units
  <2>1. t[n] \in SaleStatements
    OBVIOUS
  <2>2. Outdated(t[n], units, {}, {}) <=> t[n].unit \in units
    BY <1>4, <2>1, MarksAndMoves
  <2>3. Outdated(t[n], units, {}, {}) => r[n] \in {Fail, Nothing}
    OBVIOUS
  <2>4. ~Outdated(t[n], units, {}, {}) => r[n] = t[n]
    OBVIOUS
  <2>5. Fail.op = "fail" /\ Nothing.op = "nothing"
    BY DEF Fail, Nothing
  <2> HIDE DEF r
  <2> QED BY <1>4, <2>2, <2>3, <2>4, <2>5 DEF SaleOps
<1> HIDE DEF r
<1> QED BY <1>2, <1>3, <1>4 DEF Recalls

LEMMA RecallsTail ==
  ASSUME NEW t \in Seq(SaleStatements), t # <<>>, NEW r, NEW units,
         Recalls(t, r, units), r \in Seq(SaleStatements)
  PROVE  /\ Recalls(Tail(t), Tail(r), units) /\ r # <<>>
         /\ 1 \in DOMAIN t /\ Head(t) = t[1] /\ Head(r) = r[1]
<1>1. DOMAIN r = DOMAIN t
  BY DEF Recalls
<1>2. Len(t) \in Nat /\ Len(t) # 0 /\ Len(r) \in Nat /\ DOMAIN t = 1..Len(t) /\ DOMAIN r = 1..Len(r)
  OBVIOUS
<1>3. Len(r) = Len(t)
  BY <1>1, <1>2
<1>4. r # <<>> /\ 1 \in DOMAIN t /\ Head(t) = t[1] /\ Head(r) = r[1]
  BY <1>2, <1>3
<1>5. /\ DOMAIN Tail(t) = 1..(Len(t) - 1) /\ DOMAIN Tail(r) = 1..(Len(t) - 1)
      /\ \A n \in 1..(Len(t) - 1) : n + 1 \in DOMAIN t /\ Tail(t)[n] = t[n + 1] /\ Tail(r)[n] = r[n + 1]
  BY <1>2, <1>3, <1>4
<1> QED BY <1>4, <1>5 DEF Recalls

-----------------------------------------------------------------------------
(* Units that enter stock, and lines that are added, leave every plan as good *)
(* as it was: none of them was sold.                                          *)
LEMMA RenewedSale ==
  ASSUME NEW t \in Seq(SaleStatements), NEW units, Enter(units), NEW r, r = Renew(t, units, {}, {})
  PROVE  /\ Coupled(t) => Coupled(r)'
         /\ \A u : Marks(r, u) => Marks(t, u)
         /\ Halfway(t) => Halfway(r)'
         /\ Halfway(t) => Head(r) = Head(t) /\ r # <<>>
<1>1. Recalls(t, r, units) /\ r \in Seq(SaleStatements)
  BY RenewRecalls, RenewSale
<1>2. ASSUME NEW s \in Seq(SaleStatements), NEW q, Recalls(s, q, units), Coupled(s) PROVE Coupled(q)'
  <2>1. ASSUME NEW n \in DOMAIN s, s[n].op = "unit", s[n].unit \notin units
        PROVE  status'[s[n].unit] = status[s[n].unit]
    <3>1. s[n] \in SaleStatements
      OBVIOUS
    <3>2. s[n].unit \in Units
      BY <2>1, <3>1, MarksAndMoves
    <3> QED BY <2>1, <3>2 DEF Enter
  <2>2. \A n \in DOMAIN s : s[n].op \in SaleOps /\ s[n].line \in lines => s[n].line \in lines'
    BY DEF Enter
  <2> QED BY <1>2, <2>1, <2>2, CoupledStays
<1>3. \A u : Marks(r, u) => Marks(t, u)
  BY <1>1 DEF Marks, Recalls, Fail, Nothing
<1>4. ASSUME Halfway(t) PROVE Halfway(r)' /\ Head(r) = Head(t) /\ r # <<>>
  <2> DEFINE x == Head(t)
  <2>1. /\ t # <<>> /\ x.op \in SaleOps /\ x.line \in lines /\ Coupled(Tail(t))
        /\ status[x.unit] = IF x.op = "sale_out" THEN "sold" ELSE "in_stock"
    BY <1>4 DEF Halfway
  <2>2. x \in SaleStatements /\ Tail(t) \in Seq(SaleStatements)
    BY <2>1
  <2>3. x.unit \in Units /\ x.unit \notin units
    BY <2>1, <2>2, MarksAndMoves DEF Enter
  <2>4. status'[x.unit] = status[x.unit]
    BY <2>3 DEF Enter
  <2>5. /\ Recalls(Tail(t), Tail(r), units) /\ r # <<>>
        /\ 1 \in DOMAIN t /\ x = t[1] /\ Head(r) = r[1]
    BY <1>1, <2>1, RecallsTail
  <2>6. Head(r) = x
    BY <1>1, <2>1, <2>3, <2>5 DEF Recalls
  <2>7. Coupled(Tail(r))'
    BY <1>2, <2>1, <2>2, <2>5
  <2>8. x.line \in lines'
    BY <2>1 DEF Enter
  <2> HIDE DEF x
  <2>9. Halfway(r)'
    BY <2>1, <2>4, <2>5, <2>6, <2>7, <2>8 DEF Halfway
  <2> QED BY <2>5, <2>6, <2>9 DEF x
<1>5. Coupled(t) => Coupled(r)'
  BY <1>1, <1>2
<1> QED BY <1>3, <1>4, <1>5

LEMMA RenewedHarmless ==
  ASSUME NEW t, Plan(t), Harmless(t), NEW units, Enter(units), NEW r, r = Renew(t, units, {}, {}),
         \A n \in DOMAIN t : t[n].op \in {"unit", "delete_unit_moves"} => t[n].unit \in Units
  PROVE  Harmless(r)'
<1>1. CASE t # <<>> /\ Head(t).op = "save_graph"
  <2>1. Edits(t)
    <3>1. t \notin Wipes
      BY <1>1, WipesBear
    <3>2. ~Buys(t)
      BY <1>1, HeadOfBuy DEF Buys
    <3> QED BY <3>1, <3>2 DEF Plan
  <2>2. Edits(r)
    BY <2>1, RenewedEdit
  <2>3. \A n \in DOMAIN r : r[n].op = "save_graph"
    BY <2>2 DEF Edits
  <2> QED BY <2>3 DEF Harmless, Mild, SaleOps
<1>2. CASE t = <<>> \/ Head(t).op # "save_graph"
  <2>1. r = t \/ r = [n \in DOMAIN t |-> IF ~Outdated(t[n], units, {}, {}) THEN t[n]
                                         ELSE IF t[n].op \in Deletes THEN Nothing ELSE Fail]
    BY <1>2 DEF Renew
  <2>2. DOMAIN r = DOMAIN t /\ \A n \in DOMAIN t : r[n] = t[n] \/ r[n] \in {Fail, Nothing}
    BY <2>1
  <2>3. \A u \in Units : status[u] # "sold" => status'[u] # "sold"
    BY DEF Enter
  <2>4. \A n \in DOMAIN t : Mild(t[n])'
    BY <2>3 DEF Harmless, Mild
  <2>5. Mild(Fail)' /\ Mild(Nothing)'
    BY DEF Mild, Fail, Nothing, SaleOps
  <2> QED BY <2>2, <2>4, <2>5 DEF Harmless
<1> QED BY <1>1, <1>2

(* The units that a plan names.                                               *)
LEMMA PlansNameUnits ==
  ASSUME NEW t, Plan(t)
  PROVE  \A n \in DOMAIN t : t[n].op \in {"unit", "delete_unit_moves"} => t[n].unit \in Units
<1> SUFFICES ASSUME NEW n \in DOMAIN t, t[n].op \in {"unit", "delete_unit_moves"} PROVE t[n].unit \in Units
  OBVIOUS
<1>1. CASE t \in Wipes
  <2>1. t[n] \in WipeStatements
    BY <1>1 DEF Wipes
  <2> QED BY <2>1, WipeOperations
<1>2. CASE Edits(t)
  BY <1>2 DEF Edits
<1>3. CASE Buys(t)
  <2>1. PICK k \in SpentLines, u \in Units : BuyOf(t, k, u)
    BY <1>3 DEF Buys
  <2> DEFINE c == OnUnit("create_unit", u)
             p == OnPair("purchase_in", k, u)
             a == OnPair("add_bought", k, u)
  <2>2. \A x \in {c, p, a} : x.unit \in Units
    BY DEF OnUnit, OnPair
  <2>3. t = <<c, p, a>> \/ t = <<p, a>> \/ t = <<a>>
    BY <2>1 DEF BuyOf
  <2> HIDE DEF c, p, a
  <2>4. t[n] \in {c, p, a}
    BY <2>3
  <2> QED BY <2>2, <2>4
<1> QED BY <1>1, <1>2, <1>3 DEF Plan

LEMMA RenewedPlanStays ==
  ASSUME NEW j, IsJob(j), RaceKnows(j), LonePlan(j), NEW units, Enter(units),
         NEW k, k = Renewed(j, units, {}, {})
  PROVE  LonePlan(k)' /\ \A op \in SaleOps : \A u : Heads(k, op, u) <=> Heads(j, op, u)
<1> DEFINE t == j.todo
           r == Renew(t, units, {}, {})
<1>1. k.at = j.at /\ k.req = j.req /\ k.todo = r
  <2> HIDE DEF r
  <2>1. k = [j EXCEPT !.todo = r]
    BY DEF Renewed, r
  <2>2. k = [at |-> j.at, req |-> j.req, seen |-> j.seen, todo |-> r]
    BY <2>1, JobsChange
  <2> QED BY <2>2
<1>2. Plan(t) /\ Plan(r) /\ (t # <<>> => r # <<>>)
  BY RenewedPlan DEF RaceKnows
<1>3. t = <<>> => r = <<>>
  BY DEF Renew
<1>4. CASE j.req[1] \notin SaleKinds
  <2>1. Harmless(t)
    BY <1>4 DEF LonePlan, Calm
  <2>2. Harmless(r)'
    BY <1>2, <2>1, RenewedHarmless, PlansNameUnits
  <2>3. \A op \in SaleOps : \A u : ~Heads(j, op, u)
    <3>1. t # <<>> => Mild(Head(t))
      BY <1>2, <2>1, FirstOfPlan DEF Harmless
    <3> QED BY <3>1 DEF Heads, Mild
  <2>4. \A op \in SaleOps : \A u : ~Heads(k, op, u)
    <3> HIDE DEF r
    <3>1. r # <<>> => Mild(Head(r))'
      BY <1>2, <2>2, FirstOfPlan DEF Harmless
    <3> QED BY <1>1, <3>1 DEF Heads, Mild
  <2> HIDE DEF r, t
  <2> QED BY <1>1, <1>4, <2>2, <2>3, <2>4 DEF LonePlan, Calm
<1>5. CASE j.req[1] \in SaleKinds
  <2>1. t \in Seq(SaleStatements)
    BY <1>5 DEF RaceKnows
  <2>2. /\ Coupled(t) => Coupled(r)'
        /\ \A u : Marks(r, u) => Marks(t, u)
        /\ Halfway(t) => Halfway(r)'
        /\ Halfway(t) => Head(r) = Head(t) /\ r # <<>>
    BY <2>1, RenewedSale
  <2>3. r \in Seq(SaleStatements)
    BY <2>1, RenewSale
  <2> HIDE DEF r, t
  <2>4. Calm(j) => Calm(k)'
    BY <1>1, <1>5, <2>2 DEF Calm, t, Marks
  <2>5. Halfway(t) /\ j.at = "write" => LonePlan(k)'
    BY <1>1, <1>5, <2>2 DEF LonePlan
  <2>6. LonePlan(k)'
    BY <1>5, <2>4, <2>5 DEF LonePlan, t
  <2>7. ASSUME Coupled(t), NEW op \in SaleOps, NEW u PROVE ~Heads(j, op, u)
    <3>1. t # <<>> => Head(t).op \notin SaleOps
      <4>1. t # <<>> => Head(t) = t[1] /\ 1 \in DOMAIN t /\ 1 - 1 \notin DOMAIN t
        BY <2>1
      <4> QED BY <2>7, <4>1 DEF Coupled
    <3> QED BY <3>1 DEF Heads, t
  <2>8. ASSUME Coupled(t), NEW op \in SaleOps, NEW u PROVE ~Heads(k, op, u)
    <3>1. r # <<>> => Head(r).op \notin SaleOps
      <4>1. r # <<>> => Head(r) = r[1] /\ 1 \in DOMAIN r /\ 1 - 1 \notin DOMAIN r
        BY <2>3
      <4>2. Coupled(r)'
        BY <2>2, <2>8
      <4>3. \A n \in DOMAIN r : r[n].op \in SaleOps => n - 1 \in DOMAIN r
        BY <4>2 DEF Coupled
      <4> QED BY <4>1, <4>3
    <3> QED BY <1>1, <3>1 DEF Heads
  <2>9. Halfway(t) => \A op, u : Heads(k, op, u) <=> Heads(j, op, u)
    BY <1>1, <2>2 DEF Heads, Halfway, t
  <2>10. Coupled(t) \/ Halfway(t)
    BY <1>5 DEF LonePlan, Calm, t
  <2> QED BY <2>6, <2>7, <2>8, <2>9, <2>10
<1> QED BY <1>4, <1>5

(* A document is created.                                                     *)
LEMMA CreatesAlone ==
  ASSUME RaceInv, LoneInv, FewUntended, NEW units, Creates(units), Enter(units),
         UNCHANGED <<rows, saleNet, saleMoves>>, Lone => lines' \subseteq load.lines
  PROVE  LoneInv'
<1>1. /\ load' = load /\ crashes' = crashes /\ job = [v \in Workers |-> job[v]]
      /\ job' = [v \in Workers |-> Renewed(job[v], units, {}, {})]
  BY DEF Creates, Renewed, RaceInv, RaceJobs
<1> SUFFICES ASSUME Lone PROVE (LoneTables /\ LonePlans /\ Cardinality(AtOdds) <= crashes)'
  BY <1>1 DEF LoneInv, Lone, Serving
<1>2. LoneTables /\ LonePlans /\ Cardinality(AtOdds) <= crashes
  BY DEF LoneInv
<1>3. LoneTables'
  BY <1>1, <1>2 DEF LoneTables, Enter
<1>4. ASSUME NEW v \in Workers
      PROVE  /\ job'[v] # Idle => LonePlan(job[v])'
             /\ \A op \in SaleOps : \A u : Heads(job'[v], op, u) <=> Heads(job[v], op, u)
  <2>1. job'[v] = Renewed(job[v], units, {}, {})
    BY <1>1
  <2>2. CASE job[v] = Idle
    <3>1. Renew(Idle.todo, units, {}, {}) = <<>> /\ Idle.todo = <<>>
      BY RenewNothing DEF Idle
    <3>2. [Idle EXCEPT !.todo = <<>>] = Idle
      BY DEF Idle
    <3>3. job'[v] = Idle
      BY <2>1, <2>2, <3>1, <3>2 DEF Renewed
    <3> QED BY <2>2, <3>3
  <2>3. CASE job[v] # Idle
    <3>1. IsJob(job[v]) /\ RaceKnows(job[v]) /\ LonePlan(job[v])
      BY <1>2, <2>3 DEF RaceInv, RaceJobs, Prepared, Serves, LonePlans
    <3> QED BY <2>1, <3>1, RenewedPlanStays
  <2> QED BY <2>2, <2>3
<1>5. LonePlans'
  BY <1>4 DEF LonePlans
<1>6. \A op \in SaleOps : \A u : Pending(op, u)' <=> Pending(op, u)
  <2>1. \A op, u : /\ Pending(op, u) <=> \E v \in Workers : Heads(job[v], op, u)
                   /\ Pending(op, u)' <=> \E v \in Workers : Heads(job'[v], op, u)
    BY DEF Pending, Heads
  <2> QED BY <1>4, <2>1
<1>7. \A u \in Units : status'[u] = "sold" <=> status[u] = "sold"
  BY DEF Enter
<1>8. AtOdds' = AtOdds
  BY <1>6, <1>7 DEF AtOdds, Booked, SaleOps
<1> QED BY <1>1, <1>2, <1>3, <1>5, <1>8

LEMMA LoneCreate ==
  ASSUME RaceInv, FewUntended, LoneInv, Create
  PROVE  LoneInv'
<1>1. RaceTables /\ load \in Loads /\ (Lone => lines \subseteq load.lines)
  BY DEF RaceInv, LoneInv, LoneTables
<1>2. ASSUME Creates({}), lines \subseteq lines', Lone => lines' \subseteq load.lines,
             UNCHANGED <<status, rows, saleNet, saleMoves>>
      PROVE  LoneInv'
  <2>1. status' = [u \in Units |-> IF u \in {} THEN "in_stock" ELSE status[u]]
    BY <1>1, <1>2 DEF RaceTables
  <2> DEFINE none == {}
  <2>2. Creates(none) /\ Enter(none)
    BY <1>1, <1>2, <2>1 DEF Enter, RaceTables
  <2> HIDE DEF none
  <2> QED BY <1>2, <2>2, CreatesAlone
<1>3. ASSUME NEW i \in Invoices, CreateInvoice(i, "draft"), Creates({}) PROVE LoneInv'
  BY <1>1, <1>2, <1>3 DEF CreateInvoice
<1>4. ASSUME NEW l \in load.lines, NEW q \in 0..load.most, CreateInvoiceConcept(l, q), Creates({})
      PROVE  LoneInv'
  BY <1>1, <1>2, <1>4 DEF CreateInvoiceConcept
<1>5. ASSUME NEW k \in load.spentLines, CreateSpentConcept(k), Creates({}) PROVE LoneInv'
  BY <1>1, <1>2, <1>5 DEF CreateSpentConcept, saleVars
<1>6. ASSUME NEW s \in Spents, NEW ls \in SUBSET load.spentLines,
             NEW new \in SUBSET (load.spentLines \X load.units),
             CreateSpent(s, "open", ls, new), Creates(UnitsIn(new))
      PROVE  LoneInv'
  <2> DEFINE units == UnitsIn(new)
  <2>1. /\ \A u \in units : status[u] = "absent"
        /\ status' = [u \in Units |-> IF u \in units THEN "in_stock" ELSE status[u]]
        /\ UNCHANGED <<lines, rows, saleNet, saleMoves>>
    BY <1>6 DEF CreateSpent, RegisterPairs, saleVars
  <2> HIDE DEF units
  <2>2. Enter(units) /\ Creates(units)
    BY <1>1, <1>6, <2>1 DEF Enter, RaceTables, units
  <2> QED BY <1>1, <2>1, <2>2, CreatesAlone
<1> QED BY <1>3, <1>4, <1>5, <1>6 DEF Create

-----------------------------------------------------------------------------
(* The statements.  What a plan is once its first one is done.                *)
LEMMA CoupledFrom ==
  ASSUME NEW t, NEW a \in Nat, DOMAIN t = 1..a, Coupled(t), NEW k \in Nat, k <= a,
         NEW r, DOMAIN r = 1..(a - k), \A n \in 1..(a - k) : r[n] = t[n + k],
         a - k > 0 => r[1].op \notin SaleOps
  PROVE  Coupled(r)
<1>1. ASSUME NEW n \in 1..(a - k), TurnsOver(r[n]) PROVE n + 1 \in 1..(a - k) /\ Books(r[n], r[n + 1])
  <2>1. n + k \in 1..a /\ r[n] = t[n + k]
    OBVIOUS
  <2>2. (n + k) + 1 \in 1..a /\ Books(t[n + k], t[(n + k) + 1])
    BY <1>1, <2>1 DEF Coupled
  <2>3. n + 1 \in 1..(a - k) /\ (n + k) + 1 = (n + 1) + k
    BY <2>1, <2>2
  <2> QED BY <2>1, <2>2, <2>3
<1>2. ASSUME NEW n \in 1..(a - k), r[n].op \in SaleOps PROVE n - 1 \in 1..(a - k) /\ Books(r[n - 1], r[n])
  <2>1. n + k \in 1..a /\ r[n] = t[n + k] /\ n # 1
    BY <1>2
  <2>2. Books(t[(n + k) - 1], t[n + k])
    BY <1>2, <2>1 DEF Coupled
  <2>3. n \in Int /\ n >= 2 /\ n <= a - k
    BY <2>1
  <2>4. n - 1 \in 1..(a - k) /\ (n + k) - 1 = (n - 1) + k
    BY <2>3
  <2>5. r[n - 1] = t[(n + k) - 1]
    BY <2>4
  <2> QED BY <2>1, <2>2, <2>4, <2>5
<1>3. ASSUME NEW m \in 1..(a - k), NEW n \in 1..(a - k), r[m].op = "unit", r[n].op = "unit", r[m].unit = r[n].unit
      PROVE  m = n
  <2>1. m + k \in 1..a /\ n + k \in 1..a /\ r[m] = t[m + k] /\ r[n] = t[n + k]
    OBVIOUS
  <2>2. m + k = n + k
    BY <1>3, <2>1 DEF Coupled
  <2> QED BY <2>2
<1>4. ASSUME NEW n \in 1..(a - k), r[n].op \in Deletions PROVE n + 1 \notin 1..(a - k)
  <2>1. n + k \in 1..a /\ r[n] = t[n + k]
    OBVIOUS
  <2>2. (n + k) + 1 \notin 1..a
    BY <1>4, <2>1 DEF Coupled
  <2> QED BY <2>2
<1> QED BY <1>1, <1>2, <1>3, <1>4 DEF Coupled

LEMMA TailIs ==
  ASSUME NEW S, NEW s \in Seq(S), s # <<>>
  PROVE  /\ Len(s) \in Nat /\ Len(s) # 0 /\ DOMAIN s = 1..Len(s) /\ Head(s) = s[1] /\ Head(s) \in S
         /\ Tail(s) \in Seq(S) /\ Len(Tail(s)) = Len(s) - 1 /\ DOMAIN Tail(s) = 1..(Len(s) - 1)
         /\ \A n \in 1..(Len(s) - 1) : Tail(s)[n] = s[n + 1] /\ n + 1 \in 1..Len(s)
  OBVIOUS

LEMMA CoupledRest ==
  ASSUME NEW t \in Seq(SaleStatements), t # <<>>, Coupled(t)
  PROVE  LET x == Head(t)
             r == Tail(t) IN
         /\ x \in SaleStatements /\ x.op \notin SaleOps /\ r \in Seq(SaleStatements)
         /\ TurnsOver(x) => r # <<>> /\ Books(x, Head(r)) /\ Coupled(Tail(r))
         /\ ~TurnsOver(x) => Coupled(r)
         /\ x.op \in Deletions => r = <<>>
         /\ x.op = "unit" => \A n \in DOMAIN r : r[n].op = "unit" => r[n].unit # x.unit
<1> DEFINE a == Len(t)
           x == Head(t)
           r == Tail(t)
           q == Tail(r)
<1>1. /\ a \in Nat /\ a # 0 /\ DOMAIN t = 1..a /\ x = t[1] /\ 1 \in 1..a /\ 0 \notin 1..a
      /\ x \in SaleStatements /\ r \in Seq(SaleStatements) /\ Len(r) = a - 1
      /\ DOMAIN r = 1..(a - 1) /\ \A n \in 1..(a - 1) : r[n] = t[n + 1] /\ n + 1 \in 1..a
  BY TailIs
<1> HIDE DEF a, r
<1>2. r # <<>> => /\ a - 1 > 0 /\ Head(r) = r[1] /\ r[1] = t[2] /\ 2 \in 1..a /\ a - 2 \in Nat
                  /\ DOMAIN q = 1..(a - 2) /\ \A n \in 1..(a - 2) : q[n] = t[n + 2]
  <2> SUFFICES ASSUME r # <<>>
               PROVE  /\ a - 1 > 0 /\ Head(r) = r[1] /\ r[1] = t[2] /\ 2 \in 1..a /\ a - 2 \in Nat
                      /\ DOMAIN q = 1..(a - 2) /\ \A n \in 1..(a - 2) : q[n] = t[n + 2]
    OBVIOUS
  <2>1. /\ Len(r) # 0 /\ Head(r) = r[1] /\ DOMAIN q = 1..(Len(r) - 1)
        /\ \A n \in 1..(Len(r) - 1) : q[n] = r[n + 1] /\ n + 1 \in 1..Len(r)
    BY <1>1, TailIs
  <2>2. a - 1 > 0 /\ a - 2 \in Nat /\ 1 \in 1..(a - 1) /\ (a - 1) - 1 = a - 2 /\ 2 \in 1..a
    BY <1>1, <2>1
  <2>3. r[1] = t[2]
    BY <1>1, <2>2
  <2>4. \A n \in 1..(a - 2) : q[n] = t[n + 2]
    <3> SUFFICES ASSUME NEW n \in 1..(a - 2) PROVE q[n] = t[n + 2]
      OBVIOUS
    <3>1. n + 1 \in 1..(a - 1) /\ (n + 1) + 1 = n + 2 /\ n \in 1..(Len(r) - 1)
      BY <1>1, <2>2
    <3> QED BY <1>1, <2>1, <3>1
  <2> QED BY <1>1, <2>1, <2>2, <2>3, <2>4
<1>3. x.op \notin SaleOps
  BY <1>1 DEF Coupled
<1>4. a - 1 > 0 <=> r # <<>>
  BY <1>1
<1> HIDE DEF x, q
<1>5. ASSUME TurnsOver(x) PROVE r # <<>> /\ Books(x, Head(r)) /\ Coupled(q)
  <2>1. 1 + 1 \in 1..a /\ Books(t[1], t[1 + 1])
    BY <1>1, <1>5 DEF Coupled
  <2>2. r # <<>> /\ 1 + 1 = 2
    BY <1>1, <1>4, <2>1
  <2>3. Books(x, Head(r))
    BY <1>1, <1>2, <2>1, <2>2
  <2>4. a - 2 > 0 => q[1].op \notin SaleOps
    <3> SUFFICES ASSUME a - 2 > 0, q[1].op \in SaleOps PROVE FALSE
      OBVIOUS
    <3>1. 3 \in 1..a /\ q[1] = t[3]
      <4>1. 1 \in 1..(a - 2) /\ 1 + 2 = 3 /\ 3 \in 1..a
        BY <1>1, <1>2, <2>2
      <4> QED BY <1>2, <2>2, <4>1
    <3>2. Books(t[3 - 1], t[3]) /\ 3 - 1 = 2
      <4>1. t[3].op \in SaleOps
        BY <3>1
      <4> QED BY <1>1, <3>1, <4>1 DEF Coupled
    <3>3. t[2].op = "unit"
      BY <3>2 DEF Books
    <3> QED BY <1>2, <2>2, <2>3, <3>3 DEF Books, SaleOps
  <2>5. Coupled(q)
    <3>1. 2 \in Nat /\ 2 <= a
      BY <1>1, <1>2, <2>2
    <3>2. DOMAIN q = 1..(a - 2) /\ \A n \in 1..(a - 2) : q[n] = t[n + 2]
      BY <1>2, <2>2
    <3>3. DOMAIN t = 1..a /\ a \in Nat
      BY <1>1
    <3> QED BY ONLY <2>4, <3>1, <3>2, <3>3, CoupledFrom, Coupled(t)
  <2> QED BY <2>2, <2>3, <2>5
<1>6. ASSUME ~TurnsOver(x) PROVE Coupled(r)
  <2>1. a - 1 > 0 => r[1].op \notin SaleOps
    <3> SUFFICES ASSUME a - 1 > 0, r[1].op \in SaleOps PROVE FALSE
      OBVIOUS
    <3>1. 2 \in 1..a /\ r[1] = t[2]
      BY <1>2, <1>4
    <3>2. Books(t[2 - 1], t[2]) /\ 2 - 1 = 1
      <4>1. 2 \in DOMAIN t /\ t[2].op \in SaleOps
        BY <1>1, <3>1
      <4> QED BY <4>1 DEF Coupled
    <3>3. Books(x, t[2])
      BY <1>1, <3>2
    <3> QED BY <1>6, <3>3 DEF Books, TurnsOver
  <2>2. 1 \in Nat /\ 1 <= a
    BY <1>1
  <2> QED BY <1>1, <2>1, <2>2, CoupledFrom
<1>7. ASSUME x.op \in Deletions PROVE r = <<>>
  <2>1. 1 + 1 \notin 1..a
    BY <1>1, <1>7 DEF Coupled
  <2> QED BY <1>1, <1>4, <2>1
<1>8. ASSUME x.op = "unit", NEW n \in DOMAIN r, r[n].op = "unit" PROVE r[n].unit # x.unit
  <2>1. n + 1 \in 1..a /\ r[n] = t[n + 1] /\ n + 1 # 1
    BY <1>1
  <2> QED BY <1>1, <1>8, <2>1 DEF Coupled
<1>9. /\ x \in SaleStatements /\ x.op \notin SaleOps /\ r \in Seq(SaleStatements)
      /\ TurnsOver(x) => r # <<>> /\ Books(x, Head(r)) /\ Coupled(q)
      /\ ~TurnsOver(x) => Coupled(r)
      /\ x.op \in Deletions => r = <<>>
      /\ x.op = "unit" => \A n \in DOMAIN r : r[n].op = "unit" => r[n].unit # x.unit
  BY <1>1, <1>3, <1>5, <1>6, <1>7, <1>8
<1> QED BY <1>9 DEF x, r, q

LEMMA OwesWhatItIs ==
  ASSUME NEW t, ~Moves(t)
  PROVE  \A u : /\ Owes(t, u) <=> saleNet[u] # IF status[u] = "sold" THEN 1 ELSE 0
                /\ Owes(t, u)' <=> saleNet'[u] # IF status'[u] = "sold" THEN 1 ELSE 0
BY DEF Owes, Moves, SaleOps

LEMMA OddsAre ==
  ASSUME NEW w \in Workers, \A v \in Workers \ {w} : job[v] = Idle, \A v \in Workers \ {w} : job'[v] = Idle,
         NEW t, t = job[w].todo, NEW r, r = job'[w].todo, \A u \in Units : Owes(r, u)' => Owes(t, u)
  PROVE  AtOdds' \subseteq AtOdds
<1>1. \A op, u : /\ Pending(op, u) <=> t # <<>> /\ Head(t).op = op /\ Head(t).unit = u
                 /\ Pending(op, u)' <=> r # <<>> /\ Head(r).op = op /\ Head(r).unit = u
  BY PendingIs DEF Heads
<1>2. \A u : Owes(t, u) <=> saleNet[u] # IF Booked(u) THEN 1 ELSE 0
  BY <1>1 DEF Owes, Booked
<1>3. \A u : Owes(r, u)' <=> saleNet'[u] # IF Booked(u)' THEN 1 ELSE 0
  BY <1>1 DEF Owes, Booked
<1> QED BY <1>2, <1>3 DEF AtOdds

-----------------------------------------------------------------------------
\* The graph takes the movements of the units it frees, and the others it
\* deletes have none.
LEMMA GraphAlone ==
  ASSUME RaceTables, LoneTables, load' = load, NEW x, SaveGraph(x), ~GraphRefused(x), x.op = "save_graph"
  PROVE  LoneTables' /\ lines' = lines /\ \A u \in Units : (Odd(u)' => Odd(u)) /\ (status'[u] = "sold" => status[u] = "sold")
<1>1. /\ saleMoves' = {m \in saleMoves : m[2] \notin Freed(x)}
      /\ saleNet' = [u \in Units |-> IF u \in Freed(x) THEN 0 ELSE saleNet[u]]
      /\ lines' = lines /\ rows' = rows
      /\ status' = [u \in Units |-> IF u \in UnitsIn(x.new) THEN "in_stock"
                                    ELSE IF u \in GraphUnits(x) THEN "absent" ELSE status[u]]
  BY DEF SaveGraph, RegisterPairs
<1>2. \A u \in GraphUnits(x) \ Freed(x) : \A m \in saleMoves : m[2] # u
  BY DEF GraphRefused
<1>3. \A u \in UnitsIn(x.new) : status[u] = "absent" \/ u \in UnitsIn(x.out)
  BY DEF GraphRefused
<1>4. /\ Freed(x) \subseteq UnitsIn(x.out) /\ UnitsIn(x.out) \subseteq Units
      /\ \A u \in UnitsIn(x.out) : u \in GraphUnits(x) \/ status[u] = "absent"
  BY DEF Freed, UnitsIn, GraphUnits
<1>5. /\ saleNet \in [Units -> Int] /\ saleMoves \subseteq Lines \X Units
      /\ \A u \in Units : saleNet[u] # 0 => \E m \in saleMoves : m[2] = u
  BY DEF LoneTables
<1>6. LoneTables'
  <2>1. saleNet' \in [Units -> Int]
    BY <1>1, <1>5
  <2>2. \A u \in Units : saleNet'[u] # 0 => \E m \in saleMoves' : m[2] = u
    BY <1>1, <1>5
  <2> QED BY <1>1, <2>1, <2>2 DEF LoneTables
<1>7. ASSUME NEW u \in Units PROVE (Odd(u)' => Odd(u)) /\ (status'[u] = "sold" => status[u] = "sold")
  <2>1. CASE u \in Freed(x)
    <3>1. saleNet'[u] = 0 /\ status'[u] # "sold"
      BY <1>1, <1>4, <2>1
    <3> QED BY <3>1 DEF Odd
  <2>2. CASE u \notin Freed(x) /\ u \in UnitsIn(x.out)
    <3>1. status'[u] # "sold" /\ saleNet'[u] = saleNet[u]
      BY <1>1, <1>4, <2>2
    <3>2. status[u] # "absent" => saleNet[u] = 0
      BY <1>2, <1>4, <1>5, <2>2
    <3> QED BY <3>1, <3>2 DEF Odd
  <2>3. CASE u \notin UnitsIn(x.out)
    <3>1. u \notin Freed(x) /\ u \notin GraphUnits(x)
      BY <1>4, <2>3 DEF GraphUnits
    <3>2. saleNet'[u] = saleNet[u] /\ (status'[u] = "sold" <=> status[u] = "sold")
      BY <1>1, <1>3, <2>3, <3>1
    <3> QED BY <3>2 DEF Odd
  <2> QED BY <2>1, <2>2, <2>3
<1> QED BY <1>1, <1>6, <1>7

LEMMA TameStatement ==
  ASSUME RaceTables, LoneTables, load' = load, NEW x, Tame(x), ~Refused(x), Statement(x)
  PROVE  LoneTables' /\ lines' \subseteq lines
         /\ \A u \in Units : (Odd(u)' => Odd(u)) /\ (status'[u] = "sold" => status[u] = "sold")
<1>1. /\ saleNet \in [Units -> Int] /\ saleMoves \subseteq Lines \X Units
      /\ lines \subseteq load.lines /\ rows \subseteq lines \X Units
      /\ \A u \in Units : saleNet[u] # 0 => \E m \in saleMoves : m[2] = u
      /\ status \in [Units -> UnitStatus]
  BY DEF LoneTables, RaceTables
<1>2. ASSUME UNCHANGED <<status, saleNet, saleMoves>>, lines' \subseteq lines, rows' \subseteq lines' \X Units
      PROVE  LoneTables' /\ lines' \subseteq lines
             /\ \A u \in Units : (Odd(u)' => Odd(u)) /\ (status'[u] = "sold" => status[u] = "sold")
  BY <1>1, <1>2 DEF LoneTables, Odd
<1>3. CASE SaveStatus(x)
  <2>1. x.op \in {"unit", "create_unit", "delete_unit"} /\ UNCHANGED <<lines, rows, saleNet, saleMoves>>
    BY <1>3 DEF SaveStatus, saleVars
  <2>2. LoneTables'
    BY <1>1, <2>1 DEF LoneTables
  <2>3. x.unit \in Units
    BY <2>1 DEF Tame
  <2>4. \A u \in Units \ {x.unit} : status'[u] = status[u]
    BY <1>1, <1>3 DEF SaveStatus
  <2>5. status'[x.unit] # "sold"
    BY <1>1, <1>3, <2>1, <2>3 DEF SaveStatus, Tame
  <2>6. status[x.unit] = "sold" => saleNet[x.unit] = 0
    <3> SUFFICES ASSUME status[x.unit] = "sold" PROVE saleNet[x.unit] = 0
      OBVIOUS
    <3>1. x.op \in {"create_unit", "delete_unit"} /\ "unit" \in DOMAIN x
      BY <2>1 DEF Tame
    <3>2. ~NoUnit(x)
      BY DEF NoUnit
    <3>3. x.op = "delete_unit" /\ ~Blocked(x.unit)
      BY <3>1, <3>2 DEF Refused, Duplicate, Dangling
    <3>4. \A m \in saleMoves : m[2] # x.unit
      <4> SUFFICES ASSUME NEW m \in saleMoves, m[2] = x.unit PROVE FALSE
        OBVIOUS
      <4>1. m[1] \in Lines /\ m = <<m[1], x.unit>>
        BY <1>1
      <4> QED BY <3>3, <4>1 DEF Blocked
    <3> QED BY <1>1, <2>3, <3>4
  <2>7. \A u \in Units : (Odd(u)' => Odd(u)) /\ (status'[u] = "sold" => status[u] = "sold")
    BY <2>1, <2>4, <2>5, <2>6 DEF Odd
  <2> QED BY <2>1, <2>2, <2>7
<1>4. CASE SaveInvoice(x) \/ SaveQuantity(x)
  BY <1>1, <1>2, <1>4 DEF SaveInvoice, SaveQuantity
<1>5. CASE DeleteSaleRows(x)
  BY <1>1, <1>2, <1>5 DEF DeleteSaleRows
<1>6. CASE SaveRows(x)
  <2>1. UNCHANGED <<status, saleNet, saleMoves, lines>> /\ x.op \in {"add_row", "swap_row", "drop_row"}
    BY <1>6 DEF SaveRows
  <2>2. x.op = "add_row" => x.line \in lines /\ x.unit \in Units
    BY DEF Refused, Dangling, Tame
  <2>3. x.op = "swap_row" => <<x.line, x.unit>> \in rows /\ x.next \in Units
    BY DEF Refused, Missing, Tame
  <2>4. rows' \subseteq lines \X Units
    BY <1>1, <1>6, <2>1, <2>2, <2>3 DEF SaveRows
  <2> QED BY <1>2, <2>1, <2>4
<1>7. CASE InsertPurchaseMove(x) \/ SaveBought(x) \/ SaveSpent(x) \/ DeleteSpentLine(x) \/ DeleteSpentRow(x)
  BY <1>1, <1>2, <1>7 DEF InsertPurchaseMove, SaveBought, SaveSpent, DeleteSpentLine, DeleteSpentRow, saleVars
<1>8. CASE DeleteMoves(x)
  <2>1. /\ saleMoves' = {m \in saleMoves : ~Names(x, "unit", m[2])}
        /\ saleNet' = [u \in Units |-> IF Names(x, "unit", u) THEN 0 ELSE saleNet[u]]
        /\ UNCHANGED <<status, lines, rows>> /\ x.op \in {"delete_line_moves", "delete_unit_moves"}
    BY <1>8 DEF DeleteMoves
  <2>2. \A u \in Units : saleNet'[u] # 0 => \E m \in saleMoves' : m[2] = u
    BY <1>1, <2>1
  <2>3. LoneTables'
    BY <1>1, <2>1, <2>2 DEF LoneTables
  <2>4. \A u \in Units : Odd(u)' => Odd(u)
    BY <2>1 DEF Odd, Tame
  <2> QED BY <2>1, <2>3, <2>4
<1>9. CASE SaveGraph(x)
  BY <1>9, GraphAlone DEF Refused, SaveGraph
<1>10. CASE UNCHANGED vars
  BY <1>1, <1>2, <1>10 DEF vars, saleVars
<1>11. ~InsertSaleMove(x)
  BY DEF InsertSaleMove, Tame, SaleOps
<1> QED BY <1>3, <1>4, <1>5, <1>6, <1>7, <1>8, <1>9, <1>10, <1>11 DEF Statement

-----------------------------------------------------------------------------
(* A statement of a request that sells nothing.                               *)
LEMMA HarmlessTame ==
  ASSUME NEW t, Plan(t), t # <<>>, Harmless(t)
  PROVE  /\ Tame(Head(t)) /\ ~Moves(t)
         /\ \A n \in DOMAIN Tail(t) : n + 1 \in DOMAIN t /\ Tail(t)[n] = t[n + 1]
<1> DEFINE x == Head(t)
<1>1. 1 \in DOMAIN t /\ x = t[1] /\ Mild(x)
  BY FirstOfPlan DEF Harmless
<1>2. CASE t \in Wipes /\ x \in WipeStatements
  <2>1. \A n \in DOMAIN Tail(t) : n + 1 \in DOMAIN t /\ Tail(t)[n] = t[n + 1]
    <3>1. t \in Seq(WipeStatements)
      BY <1>2 DEF Wipes
    <3> QED BY <3>1, TailIs
  <2> HIDE DEF x
  <2>2. x.op \notin {"create_unit", "save_graph"}
    BY <1>2, WipeOperations
  <2>3. x.op = "delete_unit" => "unit" \in DOMAIN x /\ x.unit \in Units
    BY <1>2, WipeOperations
  <2>4. x.op = "delete_line_moves" => "unit" \notin DOMAIN x
    BY <1>2, WipeOperations
  <2>5. /\ x.op = "unit" => x.unit \in Units
        /\ x.op = "add_row" => x.unit \in Units
        /\ x.op = "swap_row" => x.next \in Units
    BY <1>2, WipeOperations
  <2>6. x.op \in {"delete_unit_moves", "delete_line_moves"} =>
          \A u \in Units : Names(x, "unit", u) => status[u] # "sold"
    BY <1>1, <2>4 DEF Mild, Names
  <2>7. Tame(x)
    BY <1>1, <2>2, <2>3, <2>5, <2>6 DEF Tame, Mild
  <2> QED BY <1>1, <2>1, <2>7 DEF x, Moves, Mild
<1>3. CASE x.op \in {"create_unit", "purchase_in", "add_bought"} /\ Buys(t)
  <2>1. PICK k \in SpentLines, u \in Units : BuyOf(t, k, u)
    BY <1>3 DEF Buys
  <2>2. x.unit \in Units /\ "unit" \in DOMAIN x
    BY <2>1, HeadOfBuy
  <2>3. \A n \in DOMAIN Tail(t) : n + 1 \in DOMAIN t /\ Tail(t)[n] = t[n + 1]
    <3> DEFINE c == OnUnit("create_unit", u)
               p == OnPair("purchase_in", k, u)
               a == OnPair("add_bought", k, u)
    <3>1. t = <<c, p, a>> \/ t = <<p, a>> \/ t = <<a>>
      BY <2>1 DEF BuyOf
    <3> HIDE DEF c, p, a
    <3>2. <<c, p, a>> \in Seq({c, p, a}) /\ <<p, a>> \in Seq({c, p, a}) /\ <<a>> \in Seq({c, p, a})
      OBVIOUS
    <3> DEFINE V == {c, p, a}
    <3>3. t \in Seq(V)
      BY <3>1, <3>2
    <3> HIDE DEF V
    <3> QED BY <3>3, TailIs
  <2> HIDE DEF x
  <2> QED BY <1>1, <1>3, <2>2, <2>3 DEF Tame, SaleOps, Moves, x
<1>4. CASE x.op = "save_graph" /\ Edits(t) /\ Tail(t) = <<>>
  <2>1. DOMAIN Tail(t) = {}
    BY <1>4
  <2>2. ~Moves(t)
    BY <1>4 DEF Moves, SaleOps
  <2> HIDE DEF x
  <2>3. Tame(x)
    BY <1>4 DEF Tame, SaleOps
  <2> QED BY <2>1, <2>2, <2>3 DEF x
<1> QED BY <1>2, <1>3, <1>4, RestOfPlan

LEMMA HarmlessRest ==
  ASSUME RaceTables, LoneTables, load' = load, NEW t, Plan(t), t # <<>>, Harmless(t),
         ~Refused(Head(t)), Statement(Head(t))
  PROVE  LoneTables' /\ Harmless(Tail(t))' /\ \A u \in Units : Owes(Tail(t), u)' => Owes(t, u)
<1> DEFINE x == Head(t)
           r == Tail(t)
<1>1. /\ Tame(x) /\ ~Moves(t)
      /\ \A n \in DOMAIN r : n + 1 \in DOMAIN t /\ r[n] = t[n + 1]
  BY HarmlessTame
<1>2. /\ LoneTables'
      /\ \A u \in Units : (Odd(u)' => Odd(u)) /\ (status'[u] = "sold" => status[u] = "sold")
  BY <1>1, TameStatement
<1>3. Plan(r)
  BY RestOfPlan
<1> HIDE DEF x, r
<1>4. ASSUME NEW n \in DOMAIN r PROVE Mild(r[n])'
  <2>1. r[n] = t[n + 1] /\ n + 1 \in DOMAIN t /\ Mild(r[n])
    BY <1>1 DEF Harmless
  <2>2. r[n].op \in {"unit", "delete_unit_moves"} => r[n].unit \in Units
    BY <1>3, PlansNameUnits
  <2> QED BY <1>2, <2>1, <2>2 DEF Mild
<1>5. Harmless(r)'
  BY <1>4 DEF Harmless
<1>6. ~Moves(r)
  <2>1. r # <<>> => 1 \in DOMAIN r /\ Head(r) = r[1]
    BY <1>3, FirstOfPlan
  <2> QED BY <1>4, <2>1 DEF Moves, Mild
<1>7. \A u \in Units : Owes(r, u)' => Owes(t, u)
  BY <1>1, <1>2, <1>6, OwesWhatItIs DEF Odd
<1> QED BY <1>2, <1>5, <1>7 DEF r

-----------------------------------------------------------------------------
(* A statement of a sale.                                                     *)
LEMMA CoupledBegins ==
  ASSUME NEW t \in Seq(SaleStatements)
  PROVE  /\ Coupled(t) => ~Moves(t)
         /\ Coupled(t)' => ~Moves(t)
<1>1. t # <<>> => 1 \in DOMAIN t /\ Head(t) = t[1] /\ 1 - 1 \notin DOMAIN t
  OBVIOUS
<1> QED BY <1>1 DEF Coupled, Moves

LEMMA CoupledStands ==
  ASSUME NEW t \in Seq(SaleStatements), Coupled(t),
         \A n \in DOMAIN t : t[n].op = "unit" => status'[t[n].unit] = status[t[n].unit],
         t = <<>> \/ lines' = lines
  PROVE  Coupled(t)'
<1> DEFINE none == {}
<1>1. \A u : u \notin none
  OBVIOUS
<1> HIDE DEF none
<1>2. Recalls(t, t, none)
  BY <1>1 DEF Recalls
<1>3. \A n \in DOMAIN t : t[n].op \in SaleOps /\ t[n].line \in lines => t[n].line \in lines'
  BY DEF SaleOps
<1> QED BY <1>1, <1>2, <1>3, CoupledStays

LEMMA TurnRest ==
  ASSUME RaceTables, LoneTables, load' = load, NEW t \in Seq(SaleStatements), t # <<>>, Coupled(t),
         TurnsOver(Head(t)), Statement(Head(t))
  PROVE  LoneTables' /\ Halfway(Tail(t))' /\ \A u \in Units : Owes(Tail(t), u)' => Owes(t, u)
<1> DEFINE x == Head(t)
           r == Tail(t)
           y == Head(r)
           q == Tail(r)
<1>1. /\ x \in SaleStatements /\ x.op = "unit" /\ r \in Seq(SaleStatements)
      /\ r # <<>> /\ Books(x, y) /\ Coupled(q)
      /\ \A n \in DOMAIN r : r[n].op = "unit" => r[n].unit # x.unit
  BY CoupledRest DEF TurnsOver
<1>2. /\ q \in Seq(SaleStatements) /\ y \in SaleStatements
      /\ \A n \in DOMAIN q : n + 1 \in DOMAIN r /\ q[n] = r[n + 1]
  BY <1>1, TailIs
<1>3. ~Moves(t) /\ ~Moves(q)
  BY <1>1, <1>2, CoupledBegins
<1> HIDE DEF x, r, y, q
<1>4. x.unit \in Units /\ status \in [Units -> UnitStatus]
  BY <1>1, SaleOperations DEF RaceTables
<1>5. status' = [status EXCEPT ![x.unit] = x.to] /\ UNCHANGED <<lines, rows, saleNet, saleMoves>>
  BY <1>1, StatementIs DEF SaveStatus, saleVars, x
<1>6. status'[x.unit] = x.to /\ \A u \in Units \ {x.unit} : status'[u] = status[u]
  BY <1>4, <1>5
<1>7. /\ y.op \in SaleOps /\ y.unit = x.unit /\ y.line \in lines'
      /\ \/ x.to = "sold" /\ y.op = "sale_out" /\ status[x.unit] # "sold"
         \/ x.to = "in_stock" /\ y.op = "sale_in" /\ status[x.unit] = "sold"
  BY <1>1, <1>5 DEF Books, Saleable
<1>8. LoneTables'
  BY <1>5 DEF LoneTables
<1>9. Coupled(q)'
  <2>1. ASSUME NEW n \in DOMAIN q, q[n].op = "unit" PROVE status'[q[n].unit] = status[q[n].unit]
    <3>1. q[n] = r[n + 1] /\ n + 1 \in DOMAIN r /\ q[n] \in SaleStatements
      BY <1>2
    <3>2. q[n].unit # x.unit /\ q[n].unit \in Units
      BY <1>1, <2>1, <3>1, SaleOperations
    <3> QED BY <1>6, <3>2
  <2> QED BY <1>1, <1>2, <1>5, <2>1, CoupledStands
<1>10. Halfway(r)'
  BY <1>1, <1>6, <1>7, <1>9 DEF Halfway, y, q
<1>11. ASSUME NEW u \in Units PROVE Owes(r, u)' => Owes(t, u)
  <2>1. Owes(t, u) <=> saleNet[u] # IF status[u] = "sold" THEN 1 ELSE 0
    BY <1>3, OwesWhatItIs
  <2>2. /\ Head(r).op = y.op /\ Head(r).unit = x.unit /\ saleNet'[u] = saleNet[u]
    BY <1>5, <1>7 DEF y
  <2>3. CASE u = x.unit
    BY <1>1, <1>6, <1>7, <2>1, <2>2, <2>3 DEF Owes
  <2>4. CASE u # x.unit
    BY <1>6, <2>1, <2>2, <2>4 DEF Owes
  <2> QED BY <2>3, <2>4
<1> QED BY <1>8, <1>10, <1>11 DEF r

LEMMA SaleStatementLeaves ==
  ASSUME NEW x \in SaleStatements, Statement(x)
  PROVE  /\ x.op # "unit" => status' = status
         /\ x.op \notin Deletions => lines' = lines
<1>1. x.op \in {"unit", "sale_out", "sale_in", "add_row", "drop_row", "swap_row", "invoice",
                "delete_invoice", "delete_line", "quantity", "fail", "nothing"}
  BY SaleOperations
<1>2. x.op # "fail"
  BY DEF Statement, SaveStatus, SaveInvoice, DeleteSaleRows, InsertSaleMove, SaveRows, SaveQuantity,
         InsertPurchaseMove, SaveBought, DeleteMoves, SaveSpent, DeleteSpentLine, DeleteSpentRow, SaveGraph
<1> QED BY <1>1, <1>2, StatementIs DEF SaveStatus, SaveInvoice, DeleteSaleRows, InsertSaleMove, SaveRows,
           SaveQuantity, saleVars, vars, Deletions

LEMMA StillRest ==
  ASSUME RaceTables, LoneTables, load' = load, NEW t \in Seq(SaleStatements), t # <<>>, Coupled(t),
         ~TurnsOver(Head(t)), ~Refused(Head(t)), Statement(Head(t))
  PROVE  LoneTables' /\ Coupled(Tail(t))' /\ \A u \in Units : Owes(Tail(t), u)' => Owes(t, u)
<1> DEFINE x == Head(t)
           r == Tail(t)
<1>1. /\ x \in SaleStatements /\ x.op \notin SaleOps /\ r \in Seq(SaleStatements) /\ Coupled(r)
      /\ x.op \in Deletions => r = <<>>
      /\ x.op = "unit" => \A n \in DOMAIN r : r[n].op = "unit" => r[n].unit # x.unit
  BY CoupledRest
<1> HIDE DEF x, r
<1>2. Tame(x)
  BY <1>1, SaleOperations DEF Tame, TurnsOver, x
<1>3. LoneTables' /\ \A u \in Units : Odd(u)' => Odd(u)
  BY <1>2, TameStatement DEF x
<1>4. ASSUME NEW u \in Units, x.op = "unit" => u # x.unit PROVE status'[u] = status[u]
  <2>1. CASE x.op = "unit"
    <3>1. status' = [status EXCEPT ![x.unit] = x.to]
      BY <2>1, StatementIs DEF SaveStatus, x
    <3> QED BY <1>4, <2>1, <3>1 DEF RaceTables
  <2>2. CASE x.op # "unit"
    BY <1>1, <2>2, SaleStatementLeaves DEF x
  <2> QED BY <2>1, <2>2
<1>5. ASSUME NEW n \in DOMAIN r, r[n].op = "unit" PROVE status'[r[n].unit] = status[r[n].unit]
  <2>1. r[n] \in SaleStatements
    BY <1>1
  <2>2. r[n].unit \in Units
    BY <1>5, <2>1, SaleOperations
  <2> QED BY <1>1, <1>4, <1>5, <2>2
<1>6. r = <<>> \/ lines' = lines
  BY <1>1, SaleStatementLeaves DEF x
<1>7. Coupled(r)'
  BY <1>1, <1>5, <1>6, CoupledStands
<1>8. ~Moves(t) /\ ~Moves(r)
  BY <1>1, CoupledBegins
<1>9. \A u \in Units : Owes(r, u)' => Owes(t, u)
  BY <1>3, <1>8, OwesWhatItIs DEF Odd
<1> QED BY <1>3, <1>7, <1>9 DEF r

LEMMA HalfwayRest ==
  ASSUME RaceTables, LoneTables, load' = load, NEW t \in Seq(SaleStatements), Halfway(t), Statement(Head(t))
  PROVE  LoneTables' /\ Coupled(Tail(t))' /\ \A u \in Units : Owes(Tail(t), u)' => Owes(t, u)
<1> DEFINE x == Head(t)
           r == Tail(t)
<1>1. /\ t # <<>> /\ x \in SaleStatements /\ r \in Seq(SaleStatements)
      /\ x.op \in SaleOps /\ x.line \in lines /\ Coupled(r)
      /\ status[x.unit] = IF x.op = "sale_out" THEN "sold" ELSE "in_stock"
  BY DEF Halfway
<1> HIDE DEF x, r
<1>2. x.unit \in Units /\ x.line \in Lines
  BY <1>1, MarksAndMoves
<1>3. /\ saleNet' = [saleNet EXCEPT ![x.unit] = @ + (IF x.op = "sale_out" THEN 1 ELSE -1)]
      /\ saleMoves' = saleMoves \cup {<<x.line, x.unit>>}
      /\ UNCHANGED <<status, lines, rows>>
  BY <1>1, StatementIs DEF InsertSaleMove, SaleOps, x
<1>4. saleNet \in [Units -> Int] /\ saleMoves \subseteq Lines \X Units
  BY DEF LoneTables
<1>5. /\ saleNet'[x.unit] = saleNet[x.unit] + (IF x.op = "sale_out" THEN 1 ELSE -1)
      /\ \A u \in Units \ {x.unit} : saleNet'[u] = saleNet[u]
      /\ saleNet' \in [Units -> Int]
  BY <1>2, <1>3, <1>4
<1>6. \A u \in Units : saleNet'[u] # 0 => \E m \in saleMoves' : m[2] = u
  <2>1. <<x.line, x.unit>>[2] = x.unit
    OBVIOUS
  <2> QED BY <1>3, <1>5, <2>1 DEF LoneTables
<1>7. LoneTables'
  BY <1>2, <1>3, <1>4, <1>5, <1>6 DEF LoneTables
<1>8. Coupled(r)'
  BY <1>1, <1>3, PlansStay
<1>9. ~Moves(r)
  BY <1>1, CoupledBegins
<1>10. ASSUME NEW u \in Units PROVE Owes(r, u)' => Owes(t, u)
  <2>1. Owes(r, u)' <=> saleNet'[u] # IF status[u] = "sold" THEN 1 ELSE 0
    BY <1>3, <1>9, OwesWhatItIs
  <2>2. saleNet[u] \in Int
    BY <1>4
  <2>3. CASE u = x.unit /\ x.op = "sale_out"
    <3>1. saleNet'[u] = saleNet[u] + 1 /\ status[u] = "sold"
      BY <1>1, <1>5, <2>3
    <3> QED BY <1>1, <2>1, <2>2, <2>3, <3>1 DEF Owes, x
  <2>4. CASE u = x.unit /\ x.op = "sale_in"
    <3>1. saleNet'[u] = saleNet[u] - 1 /\ status[u] = "in_stock"
      BY <1>1, <1>5, <2>2, <2>4
    <3> QED BY <1>1, <2>1, <2>2, <2>4, <3>1 DEF Owes, x
  <2>5. CASE u # x.unit
    BY <1>5, <2>1, <2>5 DEF Owes, x
  <2> QED BY <1>1, <2>3, <2>4, <2>5 DEF SaleOps
<1> QED BY <1>7, <1>8, <1>10 DEF r

-----------------------------------------------------------------------------
(* The request performs its statement, which is refused only if it is none of *)
(* the movements of a sale.                                                   *)
LEMMA HalfwayAccepted ==
  ASSUME NEW t \in Seq(SaleStatements), Halfway(t)
  PROVE  ~Refused(Head(t))
<1> DEFINE x == Head(t)
<1>1. x.op \in SaleOps /\ x.line \in lines /\ status[x.unit] # "absent"
  BY DEF Halfway
<1> HIDE DEF x
<1>2. ~Refused(x)
  BY <1>1 DEF SaleOps, Refused, Missing, Dangling, Duplicate, GraphRefused, NoUnit
<1> QED BY <1>2 DEF x

\* The request goes on with the rest of its plan.
LEMMA LoneRest ==
  ASSUME RaceTables, LoneTables, load' = load, NEW j, RaceKnows(j), j.at = "write", LonePlan(j),
         ~Refused(Head(j.todo)), Statement(Head(j.todo)),
         NEW k, k = Idle \/ (k.at = "write" /\ k.req = j.req /\ k.todo = Tail(j.todo))
  PROVE  LoneTables' /\ (k = Idle \/ LonePlan(k)') /\ \A u \in Units : Owes(Tail(j.todo), u)' => Owes(j.todo, u)
<1> DEFINE t == j.todo
           r == Tail(t)
<1>1. Plan(t) /\ t # <<>> /\ (j.req[1] \in SaleKinds => t \in Seq(SaleStatements))
  BY DEF RaceKnows
<1>2. CASE j.req[1] \notin SaleKinds
  <2>1. Harmless(t)
    BY <1>2 DEF LonePlan, Calm
  <2>2. LoneTables' /\ Harmless(r)' /\ \A u \in Units : Owes(r, u)' => Owes(t, u)
    BY <1>1, <2>1, HarmlessRest
  <2> HIDE DEF r
  <2>3. k # Idle => k.req = j.req /\ k.todo = r
    BY DEF r
  <2> QED BY <1>2, <2>2, <2>3 DEF LonePlan, Calm, r
<1>3. CASE j.req[1] \in SaleKinds
  <2>1. Coupled(t) \/ Halfway(t)
    BY <1>3 DEF LonePlan, Calm
  <2>2. LoneTables' /\ (Coupled(r)' \/ Halfway(r)') /\ \A u \in Units : Owes(r, u)' => Owes(t, u)
    BY <1>1, <1>3, <2>1, TurnRest, StillRest, HalfwayRest
  <2> HIDE DEF r
  <2>3. k # Idle => k.at = "write" /\ k.req = j.req /\ k.todo = r
    BY DEF r
  <2> QED BY <1>3, <2>2, <2>3 DEF LonePlan, Calm, r
<1> QED BY <1>2, <1>3

LEMMA LoneExecute ==
  ASSUME RaceInv, FewUntended, LoneInv, NEW w \in Workers, Execute(w)
  PROVE  LoneInv'
<1> DEFINE t == job[w].todo
           x == Head(t)
           r == Tail(t)
<1>1. UNCHANGED <<crashes, load>> /\ job[w].at = "write"
  BY DEF Execute
<1>2. /\ job = [v \in Workers |-> job[v]] /\ job[w] # Idle /\ IsJob(job[w]) /\ IsRequest(w, job[w].req)
      /\ RaceKnows(job[w]) /\ RaceTables
  BY <1>1, AskIs
<1>3. \/ Refused(x) /\ Ends(w) /\ UNCHANGED vars
      \/ ~Refused(x) /\ Statement(x) /\ \E units, pairs, bought : Continue(w, r, units, pairs, bought)
  BY DEF Execute
<1>4. CASE ~Lone
  BY <1>1, <1>4 DEF LoneInv, Lone, Serving
<1>5. CASE Lone
  <2>1. LoneTables /\ LonePlan(job[w])
    BY <1>2, <1>5 DEF LoneInv, LonePlans
  <2>2. \A v \in Workers \ {w} : job[v] = Idle
    BY <1>2, <1>5, LoneWorker
  <2>3. CASE Refused(x) /\ Ends(w) /\ UNCHANGED vars
    <3>1. Calm(job[w])
      BY <1>2, <2>1, <2>3, HalfwayAccepted DEF LonePlan, RaceKnows
    <3>2. RaceInv' /\ CalmTurn(w, Idle)
      BY <2>3, ExecuteRaces DEF Ends, CalmTurn
    <3> QED BY <1>1, <1>2, <2>3, <3>1, <3>2, LoneTurnKeeps
  <2>4. CASE ~Refused(x) /\ Statement(x) /\ \E units, pairs, bought : Continue(w, r, units, pairs, bought)
    <3>1. PICK units, pairs, bought : Continue(w, r, units, pairs, bought)
      BY <2>4
    <3>2. \A v \in Workers : job'[v] = IF v # w THEN Renewed(job[v], units, pairs, bought)
                                       ELSE IF r = <<>> THEN Idle ELSE [job[w] EXCEPT !.todo = r]
      BY <3>1 DEF Continue, Renewed
    <3>3. Renewed(Idle, units, pairs, bought) = Idle
      <4>1. Idle.todo = <<>> /\ [Idle EXCEPT !.todo = <<>>] = Idle
        BY DEF Idle
      <4> QED BY <4>1, RenewNothing DEF Renewed
    <3>4. \A v \in Workers \ {w} : job'[v] = Idle
      BY <2>2, <3>2, <3>3
    <3>5. PICK j : j = job[w]
      OBVIOUS
    <3>6. PICK k : k = job'[w]
      OBVIOUS
    <3> DEFINE s == Tail(j.todo)
    <3>7. k = IF s = <<>> THEN Idle ELSE [j EXCEPT !.todo = s]
      BY <3>2, <3>5, <3>6
    <3> HIDE DEF t, x, r, s
    <3>8. (k = Idle \/ (k.at = "write" /\ k.req = j.req)) /\ k.todo = s
      <4>1. CASE s = <<>>
        BY <3>7, <4>1 DEF Idle
      <4>2. CASE s # <<>>
        <5>1. k = [at |-> j.at, req |-> j.req, seen |-> j.seen, todo |-> s]
          BY <1>2, <3>5, <3>7, <4>2, JobsChange
        <5> QED BY <1>1, <3>5, <5>1
      <4> QED BY <4>1, <4>2
    <3>9. LoneTables' /\ (k = Idle \/ LonePlan(k)') /\ \A u \in Units : Owes(s, u)' => Owes(j.todo, u)
      <4>1. RaceKnows(j) /\ j.at = "write" /\ LonePlan(j) /\ ~Refused(Head(j.todo)) /\ Statement(Head(j.todo))
        BY <1>1, <1>2, <2>1, <2>4, <3>5 DEF x, t
      <4>2. k = Idle \/ (k.at = "write" /\ k.req = j.req /\ k.todo = Tail(j.todo))
        BY <3>8 DEF s
      <4> QED BY <1>1, <1>2, <2>1, <4>1, <4>2, LoneRest DEF s
    <3>10. AtOdds' \subseteq AtOdds
      <4>1. j.todo = job[w].todo /\ s = job'[w].todo
        BY <3>5, <3>6, <3>8
      <4> DEFINE q == j.todo
      <4> HIDE DEF q
      <4>2. q = job[w].todo /\ \A u \in Units : Owes(s, u)' => Owes(q, u)
        BY <3>9, <4>1 DEF q
      <4> QED BY <2>2, <3>4, <4>1, <4>2, OddsAre
    <3>11. LoneOutcome(w)
      BY <3>4, <3>6, <3>9, <3>10 DEF LoneOutcome
    <3> QED BY <1>1, <3>11, LoneKeeps DEF FewUntended
  <2> QED BY <1>3, <2>3, <2>4
<1> QED BY <1>4, <1>5

LEMMA LoneInit == RequestsInit => LoneInv
<1> SUFFICES ASSUME RequestsInit PROVE LoneInv
  OBVIOUS
<1>1. /\ status = [u \in Units |-> "absent"] /\ lines = {} /\ rows = {} /\ saleMoves = {}
      /\ saleNet = [u \in Units |-> 0] /\ job = [w \in Workers |-> Idle] /\ crashes = 0
  BY DEF RequestsInit, Init
<1>2. LoneTables /\ LonePlans
  BY <1>1 DEF LoneTables, LonePlans
<1>3. AtOdds = {}
  BY <1>1 DEF AtOdds, Booked, Pending, Idle
<1>4. Cardinality(AtOdds) <= crashes
  BY <1>1, <1>3, FS_EmptySet
<1> QED BY <1>2, <1>4 DEF LoneInv

LEMMA LoneNext ==
  ASSUME RaceInv, FewUntended, LoneInv, [RequestsNext]_requestVars
  PROVE  LoneInv'
<1>1. CASE UNCHANGED requestVars
  <2>1. UNCHANGED <<status, lines, rows, saleNet, saleMoves, job, crashes, load>>
    BY <1>1 DEF requestVars, vars
  <2>2. LonePlans' <=> LonePlans
    BY <2>1, PlansStay DEF LonePlans
  <2>3. AtOdds' = AtOdds
    BY <2>1 DEF AtOdds, Booked, Pending
  <2> QED BY <2>1, <2>2, <2>3 DEF LoneInv, Lone, Serving, LoneTables
<1>2. CASE RequestsNext
  BY <1>2, LoneQuery, LoneExecute, LoneStart, LoneCrash, LoneCreate DEF RequestsNext, Serve
<1> QED BY <1>1, <1>2

(* One request at a time, on one line: when none is under way, the units whose *)
(* sale movements do not say what their status says are no more than there were *)
(* crashes, whichever statement each of them came after.                      *)
THEOREM CrashesCostOneUnitEach == RequestsSpec => []CrashCostsOneUnit
<1>1. RaceInv /\ LoneInv => CrashCostsOneUnit
  <2> SUFFICES ASSUME RaceInv, LoneInv, Quiet, Lone
               PROVE  Cardinality({u \in Units : saleNet[u] # IF status[u] = "sold" THEN 1 ELSE 0}) <= crashes
    BY DEF CrashCostsOneUnit, Lone
  <2>1. \A w \in Workers : job[w].todo = <<>>
    BY DEF Quiet, Busy, RaceInv, RaceJobs, Prepared, Serves, Idle
  <2>2. AtOdds = {u \in Units : saleNet[u] # IF status[u] = "sold" THEN 1 ELSE 0}
    BY <2>1 DEF AtOdds, Booked, Pending
  <2> QED BY <2>2 DEF LoneInv
<1>2. RequestsSpec => [](RaceInv /\ FewUntended)
  BY RacesInit, RacesNext, PTL DEF RequestsSpec
<1>3. RaceInv /\ FewUntended /\ LoneInv /\ [RequestsNext]_requestVars => LoneInv'
  BY LoneNext
<1> QED BY <1>1, <1>2, <1>3, LoneInit, PTL DEF RequestsSpec
=============================================================================
