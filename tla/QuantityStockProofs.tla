------------------------- MODULE QuantityStockProofs -------------------------
(***************************************************************************)
(* The kardex of the items counted by quantity says what the documents say,*)
(* for any number of items, documents and lines, and any quantities.       *)
(*                                                                         *)
(* Every handler touches the lines of one side: the other one is framed,   *)
(* and the lines are looked at one by one.                                 *)
(***************************************************************************)
EXTENDS QuantityStock, TLAPS

-----------------------------------------------------------------------------
\* A line without a row has no movements left, and a row has its document and
\* an item that exists, or none.
RowOK(x, document) ==
  /\ line[x] = None => \A it \in Items : ins[x][it] = 0 /\ outs[x][it] = 0
  /\ line[x] # None => /\ document # "absent"
                       /\ line[x].item # None => kind[line[x].item] # "absent"

\* While no invoice is reopened and no issue or cancellation stops half-way, a
\* draft has moved nothing, and what an issued line has moved is all of it, once.
MovedOnce(l) ==
  Without({"reopened", "sale_halfway"}) /\ line[l] # None => \A it \in Items :
    /\ invoice[InvoiceOf[l]] = "draft" => ins[l][it] = 0 /\ outs[l][it] = 0
    /\ invoice[InvoiceOf[l]] = "issued" =>
         /\ ins[l][it] = 0
         /\ outs[l][it] # 0 => line[l].item = it /\ outs[l][it] = line[l].quantity
    /\ ins[l][it] <= outs[l][it]

SaleCounted(l) ==
  Without({"switched", "patched", "reopened", "sale_halfway"}) /\ line[l] # None =>
    \A it \in Items : outs[l][it] - ins[l][it] = Due(l, it, invoice[InvoiceOf[l]] = "issued")

SaleInv ==
  \A l \in Lines : RowOK(l, invoice[InvoiceOf[l]]) /\ MovedOnce(l) /\ SaleCounted(l)

PurchaseCounted(k) ==
  Without({"switched", "relinked", "purchase_halfway"}) /\ line[k] # None =>
    \A it \in Items : ins[k][it] - outs[k][it] = Due(k, it, spent[SpentOf[k]] = "open")

PurchaseInv == \A k \in SpentLines : RowOK(k, spent[SpentOf[k]]) /\ PurchaseCounted(k)

StockInv == StockTypeOK /\ SaleInv /\ PurchaseInv

-----------------------------------------------------------------------------
(* Frames: a handler that leaves the lines of one side alone.               *)

LEMMA NoneIsNoRow == None \notin LineRows /\ None \notin Items
BY StockAssumption DEF LineRows

LEMMA SaleFrame ==
  ASSUME StockInv, kind' = kind, invoice' = invoice, mishaps \subseteq mishaps',
         \A l \in Lines : line'[l] = line[l] /\ ins'[l] = ins[l] /\ outs'[l] = outs[l]
  PROVE  SaleInv'
<1> SUFFICES ASSUME NEW l \in Lines
             PROVE  (RowOK(l, invoice[InvoiceOf[l]]) /\ MovedOnce(l) /\ SaleCounted(l))'
    BY DEF SaleInv
<1>1. RowOK(l, invoice[InvoiceOf[l]])' BY DEF StockInv, SaleInv, RowOK
<1>2. MovedOnce(l)' BY DEF StockInv, SaleInv, MovedOnce, Without
<1>3. SaleCounted(l)' BY DEF StockInv, SaleInv, SaleCounted, Without, Due, IsCounted
<1> QED BY <1>1, <1>2, <1>3

LEMMA PurchaseFrame ==
  ASSUME StockInv, kind' = kind, spent' = spent, mishaps \subseteq mishaps',
         \A k \in SpentLines : line'[k] = line[k] /\ ins'[k] = ins[k] /\ outs'[k] = outs[k]
  PROVE  PurchaseInv'
<1> SUFFICES ASSUME NEW k \in SpentLines
             PROVE  (RowOK(k, spent[SpentOf[k]]) /\ PurchaseCounted(k))'
    BY DEF PurchaseInv
<1>1. RowOK(k, spent[SpentOf[k]])' BY DEF StockInv, PurchaseInv, RowOK
<1>2. PurchaseCounted(k)' BY DEF StockInv, PurchaseInv, PurchaseCounted, Without, Due, IsCounted
<1> QED BY <1>1, <1>2

-----------------------------------------------------------------------------
(* Items.                                                                   *)

LEMMA CreateItemKeeps ==
  ASSUME StockInv, NEW it \in Items, CreateItem(it) PROVE StockInv'
<1> USE NoneIsNoRow
<1>1. StockTypeOK' BY DEF StockInv, StockTypeOK, CreateItem, Kinds
<1>2. \A x \in AllLines : line[x] # None => line[x].item # it
  BY DEF StockInv, SaleInv, PurchaseInv, RowOK, AllLines, CreateItem
<1>3. \A j \in Items \ {it} : kind'[j] = kind[j] BY DEF CreateItem, StockInv, StockTypeOK
<1>4. SaleInv'
  <2> SUFFICES ASSUME NEW l \in Lines
               PROVE  (RowOK(l, invoice[InvoiceOf[l]]) /\ MovedOnce(l) /\ SaleCounted(l))'
      BY DEF SaleInv
  <2>1. RowOK(l, invoice[InvoiceOf[l]])'
    BY <1>2, <1>3 DEF StockInv, SaleInv, RowOK, CreateItem, AllLines, StockTypeOK, LineRows
  <2>2. MovedOnce(l)' BY DEF StockInv, SaleInv, MovedOnce, Without, CreateItem
  <2>3. SaleCounted(l)'
    BY <1>2, <1>3 DEF StockInv, SaleInv, SaleCounted, Without, Due, IsCounted, CreateItem, AllLines
  <2> QED BY <2>1, <2>2, <2>3
<1>5. PurchaseInv'
  <2> SUFFICES ASSUME NEW k \in SpentLines
               PROVE  (RowOK(k, spent[SpentOf[k]]) /\ PurchaseCounted(k))'
      BY DEF PurchaseInv
  <2>1. RowOK(k, spent[SpentOf[k]])'
    BY <1>2, <1>3 DEF StockInv, PurchaseInv, RowOK, CreateItem, AllLines, StockTypeOK, LineRows
  <2>2. PurchaseCounted(k)'
    BY <1>2, <1>3
       DEF StockInv, PurchaseInv, PurchaseCounted, Without, Due, IsCounted, CreateItem, AllLines
  <2> QED BY <2>1, <2>2
<1> QED BY <1>1, <1>4, <1>5 DEF StockInv

LEMMA UpdateItemKeeps ==
  ASSUME StockInv, NEW it \in Items, UpdateItem(it) PROVE StockInv'
<1> USE NoneIsNoRow
<1>1. StockTypeOK' BY DEF StockInv, StockTypeOK, UpdateItem, Kinds, Mishap
<1>2. \A j \in Items : kind[j] # "absent" => kind'[j] # "absent"
  BY DEF UpdateItem, Kinds, StockInv, StockTypeOK
<1>3. "switched" \in mishaps' /\ mishaps \subseteq mishaps' BY DEF UpdateItem, Mishap
<1>4. SaleInv'
  <2> SUFFICES ASSUME NEW l \in Lines
               PROVE  (RowOK(l, invoice[InvoiceOf[l]]) /\ MovedOnce(l) /\ SaleCounted(l))'
      BY DEF SaleInv
  <2>1. RowOK(l, invoice[InvoiceOf[l]])'
    BY <1>2 DEF StockInv, SaleInv, RowOK, UpdateItem, AllLines, StockTypeOK, LineRows
  <2>2. MovedOnce(l)' BY <1>3 DEF StockInv, SaleInv, MovedOnce, Without, UpdateItem
  <2>3. SaleCounted(l)' BY <1>3 DEF SaleCounted, Without
  <2> QED BY <2>1, <2>2, <2>3
<1>5. PurchaseInv'
  <2> SUFFICES ASSUME NEW k \in SpentLines
               PROVE  (RowOK(k, spent[SpentOf[k]]) /\ PurchaseCounted(k))'
      BY DEF PurchaseInv
  <2>1. RowOK(k, spent[SpentOf[k]])'
    BY <1>2 DEF StockInv, PurchaseInv, RowOK, UpdateItem, AllLines, StockTypeOK, LineRows
  <2>2. PurchaseCounted(k)' BY <1>3 DEF PurchaseCounted, Without
  <2> QED BY <2>1, <2>2
<1> QED BY <1>1, <1>4, <1>5 DEF StockInv

\* An item that goes has moved nothing: its lines owed nothing of it.
LEMMA DeleteItemKeeps ==
  ASSUME StockInv, NEW it \in Items, DeleteItem(it) PROVE StockInv'
<1> USE NoneIsNoRow
<1>1. StockTypeOK'
  BY DEF StockInv, StockTypeOK, DeleteItem, LineRows
<1>2. \A x \in AllLines :
        /\ line[x] = None => line'[x] = None
        /\ line[x] # None /\ line[x].item # it => line'[x] = line[x]
        /\ line[x] # None /\ line[x].item = it =>
             /\ line'[x] \in LineRows /\ line'[x] # None
             /\ line'[x].item = None /\ line'[x].quantity = line[x].quantity
        /\ ins[x][it] = 0 /\ outs[x][it] = 0
  BY DEF StockInv, StockTypeOK, DeleteItem, LineRows
<1>3. kind'[it] = "absent" /\ \A j \in Items \ {it} : kind'[j] = kind[j]
  BY DEF DeleteItem, StockInv, StockTypeOK
<1>4. SaleInv'
  <2> SUFFICES ASSUME NEW l \in Lines
               PROVE  (RowOK(l, invoice[InvoiceOf[l]]) /\ MovedOnce(l) /\ SaleCounted(l))'
      BY DEF SaleInv
  <2>0. l \in AllLines BY DEF AllLines
  <2>1. RowOK(l, invoice[InvoiceOf[l]])'
    BY <1>2, <1>3, <2>0 DEF StockInv, SaleInv, RowOK, DeleteItem, StockTypeOK, LineRows
  <2>2. MovedOnce(l)' BY <1>2, <2>0 DEF StockInv, SaleInv, MovedOnce, Without, DeleteItem
  <2>3. SaleCounted(l)'
    BY <1>2, <1>3, <2>0 DEF StockInv, SaleInv, SaleCounted, Without, Due, IsCounted, DeleteItem
  <2> QED BY <2>1, <2>2, <2>3
<1>5. PurchaseInv'
  <2> SUFFICES ASSUME NEW k \in SpentLines
               PROVE  (RowOK(k, spent[SpentOf[k]]) /\ PurchaseCounted(k))'
      BY DEF PurchaseInv
  <2>0. k \in AllLines BY DEF AllLines
  <2>1. RowOK(k, spent[SpentOf[k]])'
    BY <1>2, <1>3, <2>0 DEF StockInv, PurchaseInv, RowOK, DeleteItem, StockTypeOK, LineRows
  <2>2. PurchaseCounted(k)'
    BY <1>2, <1>3, <2>0
       DEF StockInv, PurchaseInv, PurchaseCounted, Without, Due, IsCounted, DeleteItem
  <2> QED BY <2>1, <2>2
<1> QED BY <1>1, <1>4, <1>5 DEF StockInv

-----------------------------------------------------------------------------
(* Invoices and their lines.                                                *)

\* What Plus adds, and to which lines.
LEMMA PlusAdds ==
  ASSUME StockTypeOK, NEW moves \in [AllLines -> [Items -> Nat]],
         NEW ls \in SUBSET AllLines, \A x \in ls : line[x] # None /\ Counted(x)
  PROVE  /\ Plus(moves, ls) \in [AllLines -> [Items -> Nat]]
         /\ \A x \in AllLines \ ls : Plus(moves, ls)[x] = moves[x]
         /\ \A x \in ls, it \in Items :
              Plus(moves, ls)[x][it]
                = IF it = line[x].item THEN moves[x][it] + line[x].quantity ELSE moves[x][it]
<1>1. \A x \in ls : line[x] \in LineRows /\ line[x].item \in Items /\ line[x].quantity \in Nat
  BY StockAssumption DEF StockTypeOK, Counted, IsCounted, LineRows, Quantities
<1>2. \A x \in AllLines : moves[x] \in [Items -> Nat]
  OBVIOUS
<1>3. \A x \in ls : [moves[x] EXCEPT ![line[x].item] = @ + line[x].quantity] \in [Items -> Nat]
  BY <1>1, <1>2
<1> QED BY <1>1, <1>2, <1>3 DEF Plus

LEMMA LinesOfSides ==
  /\ \A l \in Lines : l \in AllLines /\ l \notin SpentLines
  /\ \A k \in SpentLines : k \in AllLines /\ k \notin Lines
  /\ \A i \in Invoices : LinesOf(i) \subseteq Lines
  /\ \A s \in Spents : SpentLinesOf(s) \subseteq SpentLines
BY StockAssumption DEF AllLines, LinesOf, SpentLinesOf

LEMMA CreateInvoiceKeeps ==
  ASSUME StockInv, NEW i \in Invoices, CreateInvoice(i) PROVE StockInv'
<1>1. StockTypeOK' BY DEF StockInv, StockTypeOK, CreateInvoice
<1>2. PurchaseInv' BY PurchaseFrame DEF CreateInvoice
<1>3. SaleInv'
  <2> SUFFICES ASSUME NEW l \in Lines
               PROVE  (RowOK(l, invoice[InvoiceOf[l]]) /\ MovedOnce(l) /\ SaleCounted(l))'
    BY DEF SaleInv
  <2>1. RowOK(l, invoice[InvoiceOf[l]]) /\ MovedOnce(l) /\ SaleCounted(l)
    BY DEF StockInv, SaleInv
  <2>2. CASE InvoiceOf[l] = i
    <3>1. line[l] = None BY <2>1, <2>2 DEF RowOK, CreateInvoice
    <3> QED BY <2>1, <3>1 DEF RowOK, MovedOnce, SaleCounted, CreateInvoice
  <2>3. CASE InvoiceOf[l] # i
    <3>1. invoice'[InvoiceOf[l]] = invoice[InvoiceOf[l]]
      BY <2>3, StockAssumption DEF CreateInvoice, StockInv, StockTypeOK
    <3> QED BY <2>1, <3>1 DEF RowOK, MovedOnce, SaleCounted, Without, Due, IsCounted, CreateInvoice
  <2> QED BY <2>2, <2>3
<1> QED BY <1>1, <1>2, <1>3 DEF StockInv

\* A draft has moved nothing, so nothing can be wrong with it once.
LEMMA PatchInvoiceKeeps ==
  ASSUME StockInv, NEW i \in Invoices, PatchInvoice(i) PROVE StockInv'
<1>1. StockTypeOK' BY DEF StockInv, StockTypeOK, PatchInvoice, Mishap
<1>0. "patched" \in mishaps' /\ mishaps \subseteq mishaps' BY DEF PatchInvoice, Mishap
<1>2. PurchaseInv' BY <1>0, PurchaseFrame DEF PatchInvoice
<1>3. SaleInv'
  <2> SUFFICES ASSUME NEW l \in Lines
               PROVE  (RowOK(l, invoice[InvoiceOf[l]]) /\ MovedOnce(l) /\ SaleCounted(l))'
    BY DEF SaleInv
  <2>1. RowOK(l, invoice[InvoiceOf[l]]) /\ MovedOnce(l)
    BY DEF StockInv, SaleInv
  <2>2. \/ invoice'[InvoiceOf[l]] = invoice[InvoiceOf[l]]
        \/ invoice[InvoiceOf[l]] = "draft" /\ invoice'[InvoiceOf[l]] # "absent"
    BY StockAssumption DEF PatchInvoice, StockInv, StockTypeOK
  <2>3. RowOK(l, invoice[InvoiceOf[l]])' BY <2>1, <2>2 DEF RowOK, PatchInvoice
  <2>4. MovedOnce(l)' BY <2>1, <2>2, <1>0 DEF MovedOnce, Without, PatchInvoice
  <2>5. SaleCounted(l)' BY <1>0 DEF SaleCounted, Without
  <2> QED BY <2>3, <2>4, <2>5
<1> QED BY <1>1, <1>2, <1>3 DEF StockInv

LEMMA ReopenInvoiceKeeps ==
  ASSUME StockInv, NEW i \in Invoices, ReopenInvoice(i) PROVE StockInv'
<1>1. StockTypeOK' BY DEF StockInv, StockTypeOK, ReopenInvoice, Mishap
<1>0. "reopened" \in mishaps' /\ mishaps \subseteq mishaps' BY DEF ReopenInvoice, Mishap
<1>2. PurchaseInv' BY <1>0, PurchaseFrame DEF ReopenInvoice
<1>3. SaleInv'
  <2> SUFFICES ASSUME NEW l \in Lines
               PROVE  (RowOK(l, invoice[InvoiceOf[l]]) /\ MovedOnce(l) /\ SaleCounted(l))'
    BY DEF SaleInv
  <2>1. RowOK(l, invoice[InvoiceOf[l]]) BY DEF StockInv, SaleInv
  <2>2. RowOK(l, invoice[InvoiceOf[l]])'
    BY <2>1, StockAssumption DEF RowOK, ReopenInvoice, StockInv, StockTypeOK
  <2> QED BY <2>2, <1>0 DEF MovedOnce, SaleCounted, Without
<1> QED BY <1>1, <1>2, <1>3 DEF StockInv

LEMMA DeleteInvoiceKeeps ==
  ASSUME StockInv, NEW i \in Invoices, DeleteInvoice(i) PROVE StockInv'
<1> USE LinesOfSides, NoneIsNoRow
<1>1. StockTypeOK' BY DEF StockInv, StockTypeOK, DeleteInvoice
<1>2. PurchaseInv' BY PurchaseFrame DEF DeleteInvoice, StockInv, StockTypeOK
<1>3. SaleInv'
  <2> SUFFICES ASSUME NEW l \in Lines
               PROVE  (RowOK(l, invoice[InvoiceOf[l]]) /\ MovedOnce(l) /\ SaleCounted(l))'
    BY DEF SaleInv
  <2>1. RowOK(l, invoice[InvoiceOf[l]]) /\ MovedOnce(l) /\ SaleCounted(l)
    BY DEF StockInv, SaleInv
  <2>2. CASE InvoiceOf[l] = i
    <3>1. line'[l] = None
      BY <2>2 DEF DeleteInvoice, LinesOf
    <3>2. \A it \in Items : ins'[l][it] = 0 /\ outs'[l][it] = 0
      <4>1. CASE line[l] = None BY <4>1, <2>1 DEF RowOK, DeleteInvoice
      <4>2. CASE line[l] # None BY <4>2, <2>2 DEF Moved, DeleteInvoice, LinesOf
      <4> QED BY <4>1, <4>2
    <3> QED BY <3>1, <3>2 DEF RowOK, MovedOnce, SaleCounted
  <2>3. CASE InvoiceOf[l] # i
    <3>1. invoice'[InvoiceOf[l]] = invoice[InvoiceOf[l]] /\ line'[l] = line[l]
      BY <2>3, StockAssumption DEF DeleteInvoice, StockInv, StockTypeOK, LinesOf
    <3> QED BY <2>1, <3>1 DEF RowOK, MovedOnce, SaleCounted, Without, Due, IsCounted, DeleteInvoice
  <2> QED BY <2>2, <2>3
<1> QED BY <1>1, <1>2, <1>3 DEF StockInv

\* Items that a body names exist.
LEMMA ChoicesExist ==
  ASSUME NEW it \in Choices
  PROVE  it \in Items \cup {None} /\ (it # None => kind[it] # "absent")
BY DEF Choices

LEMMA LineIsRow ==
  ASSUME NEW it \in Items \cup {None}, NEW q \in Quantities
  PROVE  Line(it, q) \in LineRows /\ Line(it, q) # None
         /\ Line(it, q).item = it /\ Line(it, q).quantity = q
BY NoneIsNoRow DEF Line, LineRows

\* A draft owes nothing, whatever its lines say.
LEMMA SaveInvoiceConceptKeeps ==
  ASSUME StockInv, NEW k \in Lines, SaveInvoiceConcept(k) PROVE StockInv'
<1> USE LinesOfSides
<1>0. PICK it \in Choices, q \in Quantities : line' = [line EXCEPT ![k] = Line(it, q)]
  BY DEF SaveInvoiceConcept
<1> DEFINE new == Line(it, q)
<1>a. new \in LineRows /\ new # None /\ new.item = it /\ (it # None => kind[it] # "absent")
  BY ChoicesExist, LineIsRow
<1> HIDE DEF new
<1>b. line' = [line EXCEPT ![k] = new] BY <1>0 DEF new
<1>1. StockTypeOK' BY <1>a, <1>b DEF StockInv, StockTypeOK, SaveInvoiceConcept
<1>2. PurchaseInv' BY <1>b, PurchaseFrame DEF SaveInvoiceConcept, StockInv, StockTypeOK
<1>3. SaleInv'
  <2> SUFFICES ASSUME NEW l \in Lines
               PROVE  (RowOK(l, invoice[InvoiceOf[l]]) /\ MovedOnce(l) /\ SaleCounted(l))'
    BY DEF SaleInv
  <2>1. RowOK(l, invoice[InvoiceOf[l]]) /\ MovedOnce(l) /\ SaleCounted(l)
    BY DEF StockInv, SaleInv
  <2>2. CASE l = k
    <3>1. line'[l] = new /\ invoice'[InvoiceOf[l]] = "draft" /\ invoice[InvoiceOf[l]] = "draft"
      BY <2>2, <1>b DEF SaveInvoiceConcept, StockInv, StockTypeOK
    <3>2. RowOK(l, invoice[InvoiceOf[l]])' BY <3>1, <1>a DEF RowOK, SaveInvoiceConcept
    <3>3. Without({"reopened", "sale_halfway"}) =>
            \A j \in Items : ins[l][j] = 0 /\ outs[l][j] = 0
      BY <2>1, <3>1 DEF RowOK, MovedOnce
    <3>4. MovedOnce(l)' BY <3>1, <3>3 DEF MovedOnce, Without, SaveInvoiceConcept
    <3>5. SaleCounted(l)' BY <3>1, <3>3 DEF SaleCounted, Without, Due, SaveInvoiceConcept
    <3> QED BY <3>2, <3>4, <3>5
  <2>3. CASE l # k
    <3>1. line'[l] = line[l] BY <2>3, <1>b DEF StockInv, StockTypeOK
    <3> QED
      BY <2>1, <3>1 DEF RowOK, MovedOnce, SaleCounted, Without, Due, IsCounted, SaveInvoiceConcept
  <2> QED BY <2>2, <2>3
<1> QED BY <1>1, <1>2, <1>3 DEF StockInv

LEMMA DeleteInvoiceConceptKeeps ==
  ASSUME StockInv, NEW k \in Lines, DeleteInvoiceConcept(k) PROVE StockInv'
<1> USE LinesOfSides
<1>1. StockTypeOK' BY DEF StockInv, StockTypeOK, DeleteInvoiceConcept
<1>2. PurchaseInv' BY PurchaseFrame DEF DeleteInvoiceConcept, StockInv, StockTypeOK
<1>3. SaleInv'
  <2> SUFFICES ASSUME NEW l \in Lines
               PROVE  (RowOK(l, invoice[InvoiceOf[l]]) /\ MovedOnce(l) /\ SaleCounted(l))'
    BY DEF SaleInv
  <2>1. RowOK(l, invoice[InvoiceOf[l]]) /\ MovedOnce(l) /\ SaleCounted(l)
    BY DEF StockInv, SaleInv
  <2>2. CASE l = k
    <3>1. line'[l] = None BY <2>2 DEF DeleteInvoiceConcept, StockInv, StockTypeOK
    <3>2. \A j \in Items : ins'[l][j] = 0 /\ outs'[l][j] = 0
      BY <2>2 DEF DeleteInvoiceConcept, Moved
    <3> QED BY <3>1, <3>2 DEF RowOK, MovedOnce, SaleCounted
  <2>3. CASE l # k
    <3>1. line'[l] = line[l] BY <2>3 DEF DeleteInvoiceConcept, StockInv, StockTypeOK
    <3> QED
      BY <2>1, <3>1 DEF RowOK, MovedOnce, SaleCounted, Without, Due, IsCounted, DeleteInvoiceConcept
  <2> QED BY <2>2, <2>3
<1> QED BY <1>1, <1>2, <1>3 DEF StockInv

\* What leaves with an issue: its counted lines, as far as it gets.
LEMMA IssueInvoiceKeeps ==
  ASSUME StockInv, NEW i \in Invoices, IssueInvoice(i) PROVE StockInv'
<1> USE LinesOfSides
<1> DEFINE ls == LinesOf(i)
           stops == {l \in ls : IF Counted(l) THEN Empty(l)
                                ELSE IsSerial(line[l].item) /\ ~Empty(l)}
           leave == {l \in Before(ls, stops) : Counted(l)}
<1>1. /\ invoice[i] = "draft" /\ outs' = Plus(outs, leave)
      /\ invoice' = IF stops = {} THEN [invoice EXCEPT ![i] = "issued"] ELSE invoice
      /\ mishaps' = IF stops # {} /\ leave # {} THEN mishaps \cup {"sale_halfway"} ELSE mishaps
      /\ UNCHANGED <<kind, spent, line, ins, load>>
  BY DEF IssueInvoice, Mishap
<1>2. /\ leave \subseteq ls
      /\ \A l \in leave : line[l] # None /\ Counted(l)
      /\ stops = {} => leave = {l \in ls : Counted(l)}
  BY DEF Before, LinesOf
<1>3. \A l \in ls : l \in Lines /\ InvoiceOf[l] = i /\ line[l] # None
  BY DEF LinesOf
<1> HIDE DEF stops, leave
<1>4. /\ outs' \in [AllLines -> [Items -> Nat]]
      /\ \A x \in AllLines \ leave : outs'[x] = outs[x]
      /\ \A x \in leave, it \in Items :
           outs'[x][it] = IF it = line[x].item THEN outs[x][it] + line[x].quantity ELSE outs[x][it]
  <2>1. StockTypeOK /\ outs \in [AllLines -> [Items -> Nat]] BY DEF StockInv, StockTypeOK
  <2>2. leave \in SUBSET AllLines /\ \A x \in leave : line[x] # None /\ Counted(x)
    BY <1>2, <1>3
  <2> QED BY <1>1, <2>1, <2>2, PlusAdds
<1>5. StockTypeOK' BY <1>1, <1>4 DEF StockInv, StockTypeOK
<1>6. PurchaseInv' BY <1>1, <1>2, <1>3, <1>4, PurchaseFrame
<1>7. SaleInv'
  <2> SUFFICES ASSUME NEW l \in Lines
               PROVE  (RowOK(l, invoice[InvoiceOf[l]]) /\ MovedOnce(l) /\ SaleCounted(l))'
    BY DEF SaleInv
  <2>1. RowOK(l, invoice[InvoiceOf[l]]) /\ MovedOnce(l) /\ SaleCounted(l)
    BY DEF StockInv, SaleInv
  <2>0. /\ ins[l] \in [Items -> Nat] /\ outs[l] \in [Items -> Nat]
        /\ line[l] # None => line[l].quantity \in Nat
    BY StockAssumption DEF StockInv, StockTypeOK, LineRows, Quantities
  <2>2. /\ invoice'[InvoiceOf[l]] # invoice[InvoiceOf[l]]
              => InvoiceOf[l] = i /\ invoice'[InvoiceOf[l]] = "issued" /\ stops = {}
        /\ InvoiceOf[l] = i => invoice[InvoiceOf[l]] = "draft"
        /\ InvoiceOf[l] = i /\ stops = {} => invoice'[InvoiceOf[l]] = "issued"
    BY <1>1, StockAssumption DEF StockInv, StockTypeOK
  <2>3. RowOK(l, invoice[InvoiceOf[l]])'
    BY <1>1, <1>2, <1>3, <1>4, <2>1, <2>2 DEF RowOK
  <2>4. CASE l \in leave
    <3>1. InvoiceOf[l] = i /\ line[l] # None /\ Counted(l) BY <2>4, <1>2, <1>3
    <3>2. CASE stops # {}
      <4>1. "sale_halfway" \in mishaps' BY <1>1, <2>4, <3>2
      <4> QED BY <2>3, <4>1 DEF MovedOnce, SaleCounted, Without
    <3>3. CASE stops = {}
      <4>1. \A it \in Items : outs'[l][it] = IF it = line[l].item THEN outs[l][it] + line[l].quantity
                                             ELSE outs[l][it]
        BY <1>4, <2>4
      <4>2. MovedOnce(l)'
        BY <1>1, <2>0, <2>1, <2>2, <3>1, <3>3, <4>1 DEF MovedOnce, Without
      <4>3. SaleCounted(l)'
        <5>1. /\ invoice[InvoiceOf[l]] = "draft" /\ invoice'[InvoiceOf[l]] = "issued"
              /\ IsCounted(line[l].item) /\ line[l].quantity \in Nat
              /\ mishaps' = mishaps /\ kind' = kind /\ line' = line /\ ins' = ins
          BY <1>1, <2>0, <2>2, <3>1, <3>3 DEF Counted
        <5>2. SUFFICES ASSUME Without({"switched", "patched", "reopened", "sale_halfway"})',
                              NEW it \in Items
                       PROVE  outs'[l][it] - ins[l][it] = Due(l, it, TRUE)
          BY <5>1 DEF SaleCounted, Due, IsCounted
        <5>3. outs[l][it] - ins[l][it] = 0 BY <2>1, <3>1, <5>1, <5>2 DEF SaleCounted, Without, Due
        <5> QED BY <2>0, <4>1, <5>1, <5>3 DEF Due, IsCounted
      <4> QED BY <2>3, <4>2, <4>3
    <3> QED BY <3>2, <3>3
  <2>5. CASE l \notin leave
    <3>1. outs'[l] = outs[l] BY <2>5, <1>4
    <3>2. MovedOnce(l)' BY <1>1, <2>0, <2>1, <2>2, <3>1 DEF MovedOnce, Without
    <3>3. CASE invoice'[InvoiceOf[l]] = invoice[InvoiceOf[l]]
      <4>1. SaleCounted(l)' BY <1>1, <2>1, <3>1, <3>3 DEF SaleCounted, Without, Due, IsCounted
      <4> QED BY <2>3, <3>2, <4>1
    <3>4. CASE invoice'[InvoiceOf[l]] # invoice[InvoiceOf[l]]
      <4>1. line[l] # None => ~Counted(l) BY <2>2, <2>5, <3>4, <1>2 DEF LinesOf
      <4>2. SaleCounted(l)'
        BY <1>1, <2>0, <2>1, <2>2, <3>1, <3>4, <4>1
           DEF SaleCounted, Without, Due, Counted, IsCounted
      <4> QED BY <2>3, <3>2, <4>2
    <3> QED BY <3>3, <3>4
  <2> QED BY <2>4, <2>5
<1> QED BY <1>5, <1>6, <1>7 DEF StockInv

\* What comes back with a cancellation: the counted lines that have left, and
\* so what they took along.
LEMMA CancelInvoiceKeeps ==
  ASSUME StockInv, NEW i \in Invoices, CancelInvoice(i) PROVE StockInv'
<1> USE LinesOfSides
<1> DEFINE ls == {l \in LinesOf(i) : invoice[i] = "issued" /\ Counted(l) /\ HasSaleOut(l)}
           stops == {l \in ls : Empty(l)}
           back == Before(ls, stops)
<1>1. /\ invoice[i] \in {"draft", "issued"} /\ ins' = Plus(ins, back)
      /\ invoice' = IF stops = {} THEN [invoice EXCEPT ![i] = "cancelled"] ELSE invoice
      /\ mishaps' = IF stops # {} THEN mishaps \cup {"sale_halfway"} ELSE mishaps
      /\ UNCHANGED <<kind, spent, line, outs, load>>
  BY DEF CancelInvoice, Mishap
<1>2. back \subseteq ls /\ (stops = {} => back = ls)
  BY DEF Before
<1>3. \A l \in ls : /\ l \in Lines /\ InvoiceOf[l] = i /\ line[l] # None
                    /\ invoice[i] = "issued" /\ Counted(l) /\ HasSaleOut(l)
  BY DEF LinesOf
<1>a. \A l \in Lines : InvoiceOf[l] = i /\ line[l] # None /\ l \notin ls =>
                         \/ invoice[i] = "draft" \/ ~Counted(l) \/ ~HasSaleOut(l)
  BY <1>1 DEF LinesOf
<1> HIDE DEF ls, stops, back
<1>4. /\ ins' \in [AllLines -> [Items -> Nat]]
      /\ \A x \in AllLines \ back : ins'[x] = ins[x]
      /\ \A x \in back, it \in Items :
           ins'[x][it] = IF it = line[x].item THEN ins[x][it] + line[x].quantity ELSE ins[x][it]
  <2>1. StockTypeOK /\ ins \in [AllLines -> [Items -> Nat]] BY DEF StockInv, StockTypeOK
  <2>2. back \in SUBSET AllLines /\ \A x \in back : line[x] # None /\ Counted(x)
    BY <1>2, <1>3
  <2> QED BY <1>1, <2>1, <2>2, PlusAdds
<1>5. StockTypeOK' BY <1>1, <1>4 DEF StockInv, StockTypeOK
<1>6. PurchaseInv' BY <1>1, <1>2, <1>3, <1>4, PurchaseFrame
<1>7. SaleInv'
  <2> SUFFICES ASSUME NEW l \in Lines
               PROVE  (RowOK(l, invoice[InvoiceOf[l]]) /\ MovedOnce(l) /\ SaleCounted(l))'
    BY DEF SaleInv
  <2>1. RowOK(l, invoice[InvoiceOf[l]]) /\ MovedOnce(l) /\ SaleCounted(l)
    BY DEF StockInv, SaleInv
  <2>0. /\ ins[l] \in [Items -> Nat] /\ outs[l] \in [Items -> Nat]
        /\ line[l] # None => line[l].quantity \in Nat
    BY StockAssumption DEF StockInv, StockTypeOK, LineRows, Quantities
  <2>2. /\ InvoiceOf[l] # i => invoice'[InvoiceOf[l]] = invoice[InvoiceOf[l]]
        /\ InvoiceOf[l] = i /\ stops = {} => invoice'[InvoiceOf[l]] = "cancelled"
        /\ invoice'[InvoiceOf[l]] = "absent" => invoice[InvoiceOf[l]] = "absent"
    BY <1>1, StockAssumption DEF StockInv, StockTypeOK
  <2>3. RowOK(l, invoice[InvoiceOf[l]])'
    BY <1>1, <1>2, <1>3, <1>4, <2>1, <2>2 DEF RowOK
  <2>4. CASE stops # {}
    <3>1. "sale_halfway" \in mishaps' BY <1>1, <2>4
    <3> QED BY <2>3, <3>1 DEF MovedOnce, SaleCounted, Without
  <2>5. CASE stops = {} /\ l \in back
    <3>1. /\ InvoiceOf[l] = i /\ line[l] # None /\ Counted(l) /\ HasSaleOut(l)
          /\ invoice[InvoiceOf[l]] = "issued" /\ invoice'[InvoiceOf[l]] = "cancelled"
      BY <2>5, <1>2, <1>3, <2>2
    <3>2. \A it \in Items : ins'[l][it] = IF it = line[l].item THEN ins[l][it] + line[l].quantity
                                          ELSE ins[l][it]
      BY <1>4, <2>5
    <3>3. MovedOnce(l)'
      <4>1. PICK it \in Items : outs[l][it] # 0 BY <3>1 DEF HasSaleOut
      <4> QED BY <1>1, <2>5, <2>0, <2>1, <3>1, <3>2, <4>1 DEF MovedOnce, Without
    <3>4. SaleCounted(l)'
      BY <1>1, <2>5, <2>0, <2>1, <3>1, <3>2 DEF SaleCounted, Without, Due, Counted, IsCounted
    <3> QED BY <2>3, <3>3, <3>4
  <2>6. CASE stops = {} /\ l \notin back
    <3>1. ins'[l] = ins[l] BY <2>6, <1>4
    <3>2. MovedOnce(l)' BY <1>1, <2>6, <2>0, <2>1, <2>2, <3>1 DEF MovedOnce, Without
    <3>3. CASE InvoiceOf[l] # i \/ line[l] = None
      <4>1. SaleCounted(l)'
        BY <1>1, <2>1, <2>2, <2>6, <3>1, <3>3 DEF SaleCounted, Without, Due, IsCounted
      <4> QED BY <2>3, <3>2, <4>1
    <3>4. CASE InvoiceOf[l] = i /\ line[l] # None
      <4>0. invoice'[InvoiceOf[l]] = "cancelled" BY <2>2, <2>6, <3>4
      <4>1. \/ invoice[i] = "draft" \/ ~Counted(l) \/ \A it \in Items : outs[l][it] = 0
        BY <1>a, <1>2, <2>6, <3>4 DEF HasSaleOut
      <4>2. Without({"switched", "patched", "reopened", "sale_halfway"}) =>
              \A it \in Items : outs[l][it] - ins[l][it] = 0
        <5>1. CASE invoice[i] = "draft" BY <2>1, <3>4, <5>1 DEF SaleCounted, Due
        <5>2. CASE ~Counted(l) BY <2>1, <3>4, <5>2 DEF SaleCounted, Due, Counted
        <5>3. CASE \A it \in Items : outs[l][it] = 0
          <6> SUFFICES ASSUME Without({"switched", "patched", "reopened", "sale_halfway"}),
                              NEW it \in Items
                       PROVE  outs[l][it] - ins[l][it] = 0
            OBVIOUS
          <6>1. Due(l, it, invoice[InvoiceOf[l]] = "issued") \in Nat BY <2>0, <3>4 DEF Due
          <6>2. outs[l][it] - ins[l][it] = Due(l, it, invoice[InvoiceOf[l]] = "issued")
            BY <2>1, <3>4 DEF SaleCounted
          <6> QED BY <2>0, <5>3, <6>1, <6>2
        <5> QED BY <4>1, <5>1, <5>2, <5>3
      <4>3. SaleCounted(l)'
        BY <1>1, <2>6, <3>1, <4>0, <4>2 DEF SaleCounted, Without, Due
      <4> QED BY <2>3, <3>2, <4>3
    <3> QED BY <3>3, <3>4
  <2> QED BY <2>4, <2>5, <2>6
<1> QED BY <1>5, <1>6, <1>7 DEF StockInv

-----------------------------------------------------------------------------
(* Spents and their lines.                                                  *)

\* What a line is to have in the kardex, and what its movement becomes.
LEMMA PurchaseIs ==
  ASSUME NEW it \in Items \cup {None}, NEW q \in Nat
  PROVE  /\ Purchase(it, q) \in [Items -> Nat]
         /\ \A j \in Items : Purchase(it, q)[j] = IF it = j /\ IsCounted(j) THEN q ELSE 0
BY NoneIsNoRow DEF Purchase, Zero, IsCounted

LEMMA ZeroIs == Zero \in [Items -> Nat] /\ \A j \in Items : Zero[j] = 0
BY DEF Zero

LEMMA SyncPurchaseIs ==
  ASSUME StockTypeOK, NEW k \in SpentLines, NEW it \in Items \cup {None}, NEW q \in Quantities,
         SyncPurchase(k, it, q)
  PROVE  /\ ins' \in [AllLines -> [Items -> Nat]] /\ outs' \in [AllLines -> [Items -> Nat]]
         /\ \A x \in AllLines \ {k} : ins'[x] = ins[x] /\ outs'[x] = outs[x]
         /\ \/ /\ spent[SpentOf[k]] = "open" /\ IsCounted(it)
               /\ \A j \in Items : ins'[k][j] = (IF it = j THEN q ELSE 0) /\ outs'[k][j] = 0
            \/ /\ ~(spent[SpentOf[k]] = "open" /\ IsCounted(it))
               /\ ins'[k] = ins[k] /\ outs'[k] = outs[k]
<1> USE LinesOfSides
<1>1. q \in Nat BY StockAssumption DEF Quantities
<1>2. CASE spent[SpentOf[k]] = "open" /\ IsCounted(it)
  <2>1. ins' = [ins EXCEPT ![k] = Purchase(it, q)] /\ outs' = [outs EXCEPT ![k] = Zero]
    BY <1>2 DEF SyncPurchase
  <2>2. \A j \in Items : Purchase(it, q)[j] = IF it = j THEN q ELSE 0
    BY <1>1, <1>2, PurchaseIs
  <2> QED BY <1>1, <1>2, <2>1, <2>2, PurchaseIs, ZeroIs DEF StockTypeOK
<1>3. CASE ~(spent[SpentOf[k]] = "open" /\ IsCounted(it))
  BY <1>3 DEF SyncPurchase, StockTypeOK
<1> QED BY <1>2, <1>3

LEMMA CreateSpentConceptKeeps ==
  ASSUME StockInv, NEW k \in SpentLines, CreateSpentConcept(k) PROVE StockInv'
<1> USE LinesOfSides
<1>0. PICK it \in Choices, q \in Quantities :
        line' = [line EXCEPT ![k] = Line(it, q)] /\ SyncPurchase(k, it, q)
  BY DEF CreateSpentConcept
<1> DEFINE new == Line(it, q)
<1>a. /\ new \in LineRows /\ new # None /\ new.item = it /\ new.quantity = q
      /\ it \in Items \cup {None} /\ (it # None => kind[it] # "absent")
  BY ChoicesExist, LineIsRow
<1> HIDE DEF new
<1>b. line' = [line EXCEPT ![k] = new] BY <1>0 DEF new
<1>c. /\ line[k] = None /\ spent[SpentOf[k]] # "absent"
      /\ UNCHANGED <<kind, invoice, spent, mishaps, load>>
  BY DEF CreateSpentConcept
<1>d. /\ ins' \in [AllLines -> [Items -> Nat]] /\ outs' \in [AllLines -> [Items -> Nat]]
      /\ \A x \in AllLines \ {k} : ins'[x] = ins[x] /\ outs'[x] = outs[x]
      /\ \/ /\ spent[SpentOf[k]] = "open" /\ IsCounted(it)
            /\ \A j \in Items : ins'[k][j] = (IF it = j THEN q ELSE 0) /\ outs'[k][j] = 0
         \/ /\ ~(spent[SpentOf[k]] = "open" /\ IsCounted(it))
            /\ ins'[k] = ins[k] /\ outs'[k] = outs[k]
  BY <1>0, <1>a, SyncPurchaseIs DEF StockInv
<1>1. StockTypeOK' BY <1>a, <1>b, <1>c, <1>d DEF StockInv, StockTypeOK
<1>2. SaleInv' BY <1>b, <1>c, <1>d, SaleFrame DEF StockInv, StockTypeOK
<1>3. PurchaseInv'
  <2> SUFFICES ASSUME NEW m \in SpentLines
               PROVE  (RowOK(m, spent[SpentOf[m]]) /\ PurchaseCounted(m))'
    BY DEF PurchaseInv
  <2>1. RowOK(m, spent[SpentOf[m]]) /\ PurchaseCounted(m) BY DEF StockInv, PurchaseInv
  <2>2. CASE m = k
    <3>1. line'[k] = new BY <1>b DEF StockInv, StockTypeOK
    <3>2. \A j \in Items : ins[k][j] = 0 /\ outs[k][j] = 0 BY <2>1, <2>2, <1>c DEF RowOK
    <3>3. RowOK(m, spent[SpentOf[m]])' BY <1>a, <1>c, <2>2, <3>1 DEF RowOK
    <3>4. q \in Nat BY StockAssumption DEF Quantities
    <3>5. PurchaseCounted(m)'
      BY <1>a, <1>c, <1>d, <2>2, <3>1, <3>2, <3>4 DEF PurchaseCounted, Due, IsCounted
    <3> QED BY <3>3, <3>5
  <2>3. CASE m # k
    <3>1. line'[m] = line[m] /\ ins'[m] = ins[m] /\ outs'[m] = outs[m]
      BY <2>3, <1>b, <1>d DEF StockInv, StockTypeOK
    <3> QED BY <2>1, <3>1, <1>c DEF RowOK, PurchaseCounted, Without, Due, IsCounted
  <2> QED BY <2>2, <2>3
<1> QED BY <1>1, <1>2, <1>3 DEF StockInv

\* A line of a counted item stays with counted items, or it is a mishap.
LEMMA UpdateSpentConceptKeeps ==
  ASSUME StockInv, NEW k \in SpentLines, UpdateSpentConcept(k) PROVE StockInv'
<1> USE LinesOfSides
<1>0. PICK it \in Choices, q \in Quantities :
        /\ line' = [line EXCEPT ![k] = Line(it, q)]
        /\ SyncPurchase(k, IF it # None THEN it ELSE line[k].item, q)
        /\ Mishap(Counted(k) /\ ~IsCounted(it), "relinked")
  BY DEF UpdateSpentConcept
<1> DEFINE new == Line(it, q)
           of == IF it # None THEN it ELSE line[k].item
<1>a. /\ new \in LineRows /\ new # None /\ new.item = it /\ new.quantity = q
      /\ it \in Items \cup {None} /\ (it # None => kind[it] # "absent")
  BY ChoicesExist, LineIsRow
<1>c. /\ line[k] # None /\ UNCHANGED <<kind, invoice, spent, load>>
      /\ mishaps \subseteq mishaps'
      /\ Counted(k) /\ ~IsCounted(it) => "relinked" \in mishaps'
  BY <1>0 DEF UpdateSpentConcept, Mishap
<1>e. line[k].item \in Items \cup {None} /\ of \in Items \cup {None}
  BY <1>a, <1>c DEF StockInv, StockTypeOK, LineRows
<1>b. line' = [line EXCEPT ![k] = new] /\ SyncPurchase(k, of, q) BY <1>0
<1> HIDE DEF new, of
<1>d. /\ ins' \in [AllLines -> [Items -> Nat]] /\ outs' \in [AllLines -> [Items -> Nat]]
      /\ \A x \in AllLines \ {k} : ins'[x] = ins[x] /\ outs'[x] = outs[x]
      /\ \/ /\ spent[SpentOf[k]] = "open" /\ IsCounted(of)
            /\ \A j \in Items : ins'[k][j] = (IF of = j THEN q ELSE 0) /\ outs'[k][j] = 0
         \/ /\ ~(spent[SpentOf[k]] = "open" /\ IsCounted(of))
            /\ ins'[k] = ins[k] /\ outs'[k] = outs[k]
  BY <1>b, <1>e, SyncPurchaseIs DEF StockInv
<1>1. StockTypeOK'
  <2>1. mishaps' \subseteq mishaps \cup {"relinked"} BY <1>0 DEF Mishap
  <2> QED BY <1>a, <1>b, <1>c, <1>d, <2>1 DEF StockInv, StockTypeOK
<1>2. SaleInv' BY <1>b, <1>c, <1>d, SaleFrame DEF StockInv, StockTypeOK
<1>3. PurchaseInv'
  <2> SUFFICES ASSUME NEW m \in SpentLines
               PROVE  (RowOK(m, spent[SpentOf[m]]) /\ PurchaseCounted(m))'
    BY DEF PurchaseInv
  <2>1. RowOK(m, spent[SpentOf[m]]) /\ PurchaseCounted(m) BY DEF StockInv, PurchaseInv
  <2>2. CASE m = k
    <3>1. line'[k] = new BY <1>b DEF StockInv, StockTypeOK
    <3>3. RowOK(m, spent[SpentOf[m]])' BY <1>a, <1>c, <2>1, <2>2, <3>1 DEF RowOK
    <3>4. q \in Nat BY StockAssumption DEF Quantities
    <3>5. PurchaseCounted(m)'
      <4>1. SUFFICES ASSUME Without({"switched", "relinked", "purchase_halfway"})',
                            NEW j \in Items
                     PROVE  ins'[k][j] - outs'[k][j]
                              = IF spent[SpentOf[k]] = "open" /\ it = j /\ IsCounted(j) THEN q ELSE 0
        BY <1>a, <1>c, <2>2, <3>1 DEF PurchaseCounted, Due, IsCounted
      <4>2. Counted(k) => IsCounted(it) BY <1>c, <4>1 DEF Without
      <4>3. ins[k][j] - outs[k][j] = Due(k, j, spent[SpentOf[k]] = "open")
        BY <1>c, <2>1, <2>2, <4>1 DEF PurchaseCounted, Without
      <4>4. CASE IsCounted(of) /\ spent[SpentOf[k]] = "open"
        <5>1. IsCounted(it) BY <4>2, <4>4 DEF of, Counted
        <5>2. of = it BY <5>1 DEF of, IsCounted
        <5> QED BY <1>d, <3>4, <4>4, <5>2
      <4>5. CASE ~(IsCounted(of) /\ spent[SpentOf[k]] = "open")
        <5>1. ins'[k] = ins[k] /\ outs'[k] = outs[k] BY <1>d, <4>5
        <5>2. spent[SpentOf[k]] = "open" => ~IsCounted(it) /\ ~Counted(k)
          BY <4>2, <4>5 DEF of, IsCounted
        <5> QED BY <4>3, <5>1, <5>2 DEF Due, Counted
      <4> QED BY <4>4, <4>5
    <3> QED BY <3>3, <3>5
  <2>3. CASE m # k
    <3>1. line'[m] = line[m] /\ ins'[m] = ins[m] /\ outs'[m] = outs[m]
      BY <2>3, <1>b, <1>d DEF StockInv, StockTypeOK
    <3> QED BY <2>1, <3>1, <1>c DEF RowOK, PurchaseCounted, Without, Due, IsCounted
  <2> QED BY <2>2, <2>3
<1> QED BY <1>1, <1>2, <1>3 DEF StockInv

LEMMA DeleteSpentConceptKeeps ==
  ASSUME StockInv, NEW k \in SpentLines, DeleteSpentConcept(k) PROVE StockInv'
<1> USE LinesOfSides, ZeroIs
<1>1. StockTypeOK' BY DEF StockInv, StockTypeOK, DeleteSpentConcept
<1>2. SaleInv' BY SaleFrame DEF DeleteSpentConcept, StockInv, StockTypeOK
<1>3. PurchaseInv'
  <2> SUFFICES ASSUME NEW m \in SpentLines
               PROVE  (RowOK(m, spent[SpentOf[m]]) /\ PurchaseCounted(m))'
    BY DEF PurchaseInv
  <2>1. RowOK(m, spent[SpentOf[m]]) /\ PurchaseCounted(m) BY DEF StockInv, PurchaseInv
  <2>2. CASE m = k
    <3>1. line'[m] = None /\ ins'[m] = Zero /\ outs'[m] = Zero
      BY <2>2 DEF DeleteSpentConcept, StockInv, StockTypeOK
    <3> QED BY <3>1 DEF RowOK, PurchaseCounted
  <2>3. CASE m # k
    <3>1. line'[m] = line[m] /\ ins'[m] = ins[m] /\ outs'[m] = outs[m]
      BY <2>3 DEF DeleteSpentConcept, StockInv, StockTypeOK
    <3> QED BY <2>1, <3>1 DEF RowOK, PurchaseCounted, Without, Due, IsCounted, DeleteSpentConcept
  <2> QED BY <2>2, <2>3
<1> QED BY <1>1, <1>2, <1>3 DEF StockInv

\* The lines of a body are rows of the spent, of items that exist.
LEMMA BodyIs ==
  ASSUME NEW s \in Spents, NEW body \in Bodies(s)
  PROVE  /\ DOMAIN body \subseteq SpentLines
         /\ \A k \in DOMAIN body :
              /\ SpentOf[k] = s /\ body[k] \in LineRows /\ body[k] # None
              /\ body[k].item \in Items \cup {None} /\ body[k].quantity \in Nat
              /\ body[k].item # None => kind[body[k].item] # "absent"
<1>1. PICK ks \in SUBSET {k \in SpentLines \cap load.lines : SpentOf[k] = s} :
        body \in [ks -> [item : Choices, quantity : Quantities]]
  BY DEF Bodies
<1>2. ASSUME NEW k \in ks
      PROVE  /\ body[k] \in LineRows /\ body[k].item \in Items \cup {None}
             /\ body[k].quantity \in Nat
             /\ body[k].item # None => kind[body[k].item] # "absent"
  <2>1. body[k] \in [item : Choices, quantity : Quantities] BY <1>1
  <2>2. body[k].item \in Choices /\ body[k].quantity \in Quantities BY <2>1
  <2> QED BY <2>1, <2>2, ChoicesExist, StockAssumption DEF LineRows, Quantities
<1>3. DOMAIN body = ks BY <1>1
<1> QED BY <1>2, <1>3, NoneIsNoRow

\* The lines of a new spent had no rows and no movements.
LEMMA CreateSpentKeeps ==
  ASSUME StockInv, NEW s \in Spents, CreateSpent(s) PROVE StockInv'
<1> USE LinesOfSides
<1>0. PICK st \in {"open", "cancelled"}, body \in Bodies(s) :
        /\ spent' = [spent EXCEPT ![s] = st]
        /\ line' = [x \in AllLines |-> IF x \in DOMAIN body THEN body[x] ELSE line[x]]
        /\ ins' = [x \in AllLines |-> IF x \in DOMAIN body THEN Inventory(st, body[x]) ELSE ins[x]]
  BY DEF CreateSpent
<1>a. spent[s] = "absent" /\ UNCHANGED <<kind, invoice, outs, mishaps, load>> BY DEF CreateSpent
<1>b. /\ DOMAIN body \subseteq SpentLines
      /\ \A k \in DOMAIN body :
           /\ SpentOf[k] = s /\ body[k] \in LineRows /\ body[k] # None
           /\ body[k].item \in Items \cup {None} /\ body[k].quantity \in Nat
           /\ body[k].item # None => kind[body[k].item] # "absent"
  BY BodyIs
<1>c. \A k \in DOMAIN body :
        /\ Inventory(st, body[k]) \in [Items -> Nat]
        /\ \A j \in Items : Inventory(st, body[k])[j]
             = IF st = "open" /\ body[k].item = j /\ IsCounted(j) THEN body[k].quantity ELSE 0
  <2> SUFFICES ASSUME NEW k \in DOMAIN body
               PROVE  /\ Inventory(st, body[k]) \in [Items -> Nat]
                      /\ \A j \in Items : Inventory(st, body[k])[j]
                           = IF st = "open" /\ body[k].item = j /\ IsCounted(j)
                             THEN body[k].quantity ELSE 0
    OBVIOUS
  <2>1. body[k].item \in Items \cup {None} /\ body[k].quantity \in Nat BY <1>b
  <2>2. CASE st = "open" BY <2>1, <2>2, PurchaseIs DEF Inventory, IsCounted
  <2>3. CASE st # "open" BY <2>3, ZeroIs DEF Inventory
  <2> QED BY <2>2, <2>3
<1>1. StockTypeOK'
  <2>1. line' \in [AllLines -> LineRows \cup {None}] BY <1>0, <1>b DEF StockInv, StockTypeOK
  <2>2. ins' \in [AllLines -> [Items -> Nat]] BY <1>0, <1>c DEF StockInv, StockTypeOK
  <2> QED BY <1>0, <1>a, <2>1, <2>2 DEF StockInv, StockTypeOK
<1>2. SaleInv' BY <1>0, <1>a, <1>b, SaleFrame DEF StockInv, StockTypeOK
<1>3. PurchaseInv'
  <2> SUFFICES ASSUME NEW m \in SpentLines
               PROVE  (RowOK(m, spent[SpentOf[m]]) /\ PurchaseCounted(m))'
    BY DEF PurchaseInv
  <2>1. RowOK(m, spent[SpentOf[m]]) /\ PurchaseCounted(m) BY DEF StockInv, PurchaseInv
  <2>2. CASE m \in DOMAIN body
    <3>1. line'[m] = body[m] /\ spent'[SpentOf[m]] = st
      BY <1>0, <1>b, <2>2, StockAssumption DEF StockInv, StockTypeOK
    <3>2. line[m] = None BY <1>a, <1>b, <2>1, <2>2 DEF RowOK
    <3>3. \A j \in Items : outs'[m][j] = 0 BY <1>a, <2>1, <3>2 DEF RowOK
    <3>4. \A j \in Items : ins'[m][j]
            = IF st = "open" /\ body[m].item = j /\ IsCounted(j) THEN body[m].quantity ELSE 0
      BY <1>0, <1>c, <2>2
    <3>5. RowOK(m, spent[SpentOf[m]])' BY <1>a, <1>b, <2>2, <3>1 DEF RowOK
    <3>6. body[m].quantity \in Nat BY <1>b, <2>2
    <3>7. PurchaseCounted(m)'
      BY <1>a, <3>1, <3>3, <3>4, <3>6 DEF PurchaseCounted, Due, IsCounted
    <3> QED BY <3>5, <3>7
  <2>3. CASE m \notin DOMAIN body
    <3>1. line'[m] = line[m] /\ ins'[m] = ins[m] /\ outs'[m] = outs[m]
      BY <1>0, <1>a, <2>3
    <3>2. line[m] # None => spent'[SpentOf[m]] = spent[SpentOf[m]]
      BY <1>0, <1>a, <2>1, StockAssumption DEF RowOK, StockInv, StockTypeOK
    <3> QED BY <2>1, <3>1, <3>2, <1>a DEF RowOK, PurchaseCounted, Without, Due, IsCounted
  <2> QED BY <2>2, <2>3
<1> QED BY <1>1, <1>2, <1>3 DEF StockInv

\* What a cancellation gives back: counted lines of the spent, all of them
\* when nothing stops it.
LEMMA GivenBackAre ==
  ASSUME StockInv, NEW s \in Spents, NEW st
  PROVE  /\ GivenBack(s, st) \subseteq SpentLines
         /\ \A k \in GivenBack(s, st) :
              SpentOf[k] = s /\ line[k] # None /\ Counted(k) /\ Cancels(s, st)
         /\ \A k \in SpentLines \ GivenBack(s, st) :
              SpentOf[k] = s /\ line[k] # None /\ Cancels(s, st) /\ Stops(s, st) = {} => ~Counted(k)
         /\ Plus(outs, GivenBack(s, st)) \in [AllLines -> [Items -> Nat]]
         /\ \A x \in AllLines \ GivenBack(s, st) : Plus(outs, GivenBack(s, st))[x] = outs[x]
         /\ \A x \in GivenBack(s, st), it \in Items :
              Plus(outs, GivenBack(s, st))[x][it]
                = IF it = line[x].item THEN outs[x][it] + line[x].quantity ELSE outs[x][it]
<1>1. GivenBack(s, st) \subseteq SpentLinesOf(s) BY DEF GivenBack, Before
<1>2. \A k \in GivenBack(s, st) :
        SpentOf[k] = s /\ line[k] # None /\ Counted(k) /\ Cancels(s, st)
  BY <1>1 DEF GivenBack, SpentLinesOf
<1>3. Stops(s, st) = {} =>
        GivenBack(s, st) = {k \in SpentLinesOf(s) : Cancels(s, st) /\ Counted(k)}
  BY DEF GivenBack, Before
<1>4. GivenBack(s, st) \in SUBSET AllLines BY <1>1, LinesOfSides
<1>5. StockTypeOK /\ outs \in [AllLines -> [Items -> Nat]] BY DEF StockInv, StockTypeOK
<1>6. /\ Plus(outs, GivenBack(s, st)) \in [AllLines -> [Items -> Nat]]
      /\ \A x \in AllLines \ GivenBack(s, st) : Plus(outs, GivenBack(s, st))[x] = outs[x]
      /\ \A x \in GivenBack(s, st), it \in Items :
           Plus(outs, GivenBack(s, st))[x][it]
             = IF it = line[x].item THEN outs[x][it] + line[x].quantity ELSE outs[x][it]
  BY <1>2, <1>4, <1>5, PlusAdds
<1>7. \A k \in SpentLines \ GivenBack(s, st) :
        SpentOf[k] = s /\ line[k] # None /\ Cancels(s, st) /\ Stops(s, st) = {} => ~Counted(k)
  BY <1>3 DEF SpentLinesOf
<1> QED BY <1>1, <1>2, <1>6, <1>7, LinesOfSides

\* The lines of a spent that keep their rows: what a cancellation gives back is
\* what they owed.
LEMMA CancelledLine ==
  ASSUME StockInv, NEW s \in Spents, NEW st \in {"open", "cancelled"},
         st = "open" => spent[s] = "open", spent[s] # "absent",
         Stops(s, st) = {}, Without({"switched", "relinked", "purchase_halfway"}),
         NEW k \in SpentLines, SpentOf[k] = s, line[k] # None, NEW it \in Items
  PROVE  ins[k][it] - Plus(outs, GivenBack(s, st))[k][it] = Due(k, it, st = "open")
<1>1. ins[k][it] - outs[k][it] = Due(k, it, spent[s] = "open")
  BY DEF StockInv, PurchaseInv, PurchaseCounted
<1>2. /\ ins[k][it] \in Nat /\ outs[k][it] \in Nat /\ line[k].quantity \in Nat
      /\ spent[s] \in {"open", "cancelled"}
  BY StockAssumption, LinesOfSides DEF StockInv, StockTypeOK, LineRows, Quantities
<1>3. CASE k \in GivenBack(s, st)
  <2>1. /\ Counted(k) /\ spent[s] = "open" /\ st = "cancelled"
        /\ Plus(outs, GivenBack(s, st))[k][it]
             = IF it = line[k].item THEN outs[k][it] + line[k].quantity ELSE outs[k][it]
    BY <1>3, GivenBackAre DEF Cancels
  <2>2. st # "open" /\ IsCounted(line[k].item) BY <2>1 DEF Counted
  <2>3. CASE it = line[k].item
    <3>1. ins[k][it] - outs[k][it] = line[k].quantity BY <1>1, <2>1, <2>2, <2>3 DEF Due
    <3> QED BY <1>2, <2>1, <2>2, <2>3, <3>1 DEF Due
  <2>4. CASE it # line[k].item BY <1>1, <1>2, <2>1, <2>2, <2>4 DEF Due
  <2> QED BY <2>3, <2>4
<1>4. CASE k \notin GivenBack(s, st)
  <2>1. Plus(outs, GivenBack(s, st))[k] = outs[k] BY <1>4, GivenBackAre, LinesOfSides
  <2>2. CASE Cancels(s, st)
    <3>1. ~Counted(k) BY <1>4, <2>2, GivenBackAre
    <3> QED BY <1>1, <2>1, <3>1 DEF Due, Counted
  <2>3. CASE ~Cancels(s, st)
    <3>1. (st = "open") <=> (spent[s] = "open") BY <1>2, <2>3 DEF Cancels
    <3> QED BY <1>1, <2>1, <3>1
  <2> QED BY <2>2, <2>3
<1> QED BY <1>3, <1>4

LEMMA UpdateSpentKeeps ==
  ASSUME StockInv, NEW s \in Spents, NEW st \in {"open", "cancelled"}, UpdateSpent(s, st)
  PROVE  StockInv'
<1> USE LinesOfSides
<1> DEFINE gb == GivenBack(s, st)
<1>a. /\ spent[s] # "absent" /\ (st = "open" => spent[s] = "open")
      /\ outs' = Plus(outs, gb)
      /\ spent' = IF Stops(s, st) = {} THEN [spent EXCEPT ![s] = st] ELSE spent
      /\ mishaps' = IF Stops(s, st) # {} /\ gb # {}
                    THEN mishaps \cup {"purchase_halfway"} ELSE mishaps
      /\ UNCHANGED <<kind, invoice, line, ins, load>>
  BY DEF UpdateSpent, Mishap
<1>b. /\ gb \subseteq SpentLines
      /\ \A k \in gb : SpentOf[k] = s
      /\ outs' \in [AllLines -> [Items -> Nat]]
      /\ \A x \in AllLines \ gb : outs'[x] = outs[x]
  BY <1>a, GivenBackAre
<1> HIDE DEF gb
<1>1. StockTypeOK' BY <1>a, <1>b DEF StockInv, StockTypeOK
<1>2. SaleInv' BY <1>a, <1>b, SaleFrame
<1>3. PurchaseInv'
  <2> SUFFICES ASSUME NEW m \in SpentLines
               PROVE  (RowOK(m, spent[SpentOf[m]]) /\ PurchaseCounted(m))'
    BY DEF PurchaseInv
  <2>1. RowOK(m, spent[SpentOf[m]]) /\ PurchaseCounted(m) BY DEF StockInv, PurchaseInv
  <2>2. CASE m \in gb \/ (SpentOf[m] = s /\ line[m] # None)
    <3>1. line[m] # None /\ SpentOf[m] = s BY <2>2, GivenBackAre DEF gb
    <3>2. spent'[s] # "absent"
      BY <1>a DEF StockInv, StockTypeOK
    <3>3. RowOK(m, spent[SpentOf[m]])' BY <1>a, <2>1, <3>1, <3>2 DEF RowOK
    <3>4. CASE Stops(s, st) = {}
      <4>1. spent'[s] = st /\ mishaps' = mishaps BY <1>a, <3>4 DEF StockInv, StockTypeOK
      <4>2. SUFFICES ASSUME Without({"switched", "relinked", "purchase_halfway"})',
                            NEW j \in Items
                     PROVE  ins'[m][j] - outs'[m][j] = Due(m, j, st = "open")
        BY <1>a, <3>1, <3>3, <4>1 DEF PurchaseCounted, Due, IsCounted
      <4>3. Without({"switched", "relinked", "purchase_halfway"})
        BY <4>1, <4>2 DEF Without
      <4> QED BY <1>a, <3>1, <3>4, <4>3, CancelledLine DEF gb
    <3>5. CASE Stops(s, st) # {}
      <4>1. CASE gb = {}
        <5>1. spent' = spent /\ mishaps' = mishaps /\ outs'[m] = outs[m]
          BY <1>a, <1>b, <3>5, <4>1
        <5> QED BY <1>a, <2>1, <3>3, <5>1 DEF PurchaseCounted, Without, Due, IsCounted
      <4>2. CASE gb # {}
        <5>1. "purchase_halfway" \in mishaps' BY <1>a, <3>5, <4>2
        <5> QED BY <3>3, <5>1 DEF PurchaseCounted, Without
      <4> QED BY <4>1, <4>2
    <3> QED BY <3>4, <3>5
  <2>3. CASE m \notin gb /\ line[m] = None
    <3>1. outs'[m] = outs[m] BY <1>b, <2>3
    <3> QED BY <1>a, <2>1, <2>3, <3>1 DEF RowOK, PurchaseCounted
  <2>4. CASE m \notin gb /\ SpentOf[m] # s
    <3>1. outs'[m] = outs[m] BY <1>b, <2>4
    <3>2. spent'[SpentOf[m]] = spent[SpentOf[m]]
      BY <1>a, <2>4, StockAssumption DEF StockInv, StockTypeOK
    <3>3. mishaps \subseteq mishaps' BY <1>a
    <3> QED BY <1>a, <2>1, <3>1, <3>2, <3>3 DEF RowOK, PurchaseCounted, Without, Due, IsCounted
  <2> QED BY <2>2, <2>3, <2>4
<1> QED BY <1>1, <1>2, <1>3 DEF StockInv

\* The lines of the body that are saved: an open spent counts them anew, a
\* cancelled one owes nothing and has given back what it had.
LEMMA GraphKeeps ==
  ASSUME StockInv, NEW s \in Spents, NEW st \in {"open", "cancelled"}, NEW body \in Bodies(s),
         st = "open" => spent[s] = "open", spent[s] # "absent", Stops(s, st) = {},
         Graph(s, st, body), UNCHANGED <<kind, invoice, mishaps, load>>
  PROVE  StockInv'
<1> USE LinesOfSides, ZeroIs
<1> DEFINE back == Plus(outs, GivenBack(s, st))
           again == IF st = "open" THEN DOMAIN body ELSE {}
           gone == SpentLinesOf(s) \ DOMAIN body
<1>a. /\ spent' = [spent EXCEPT ![s] = st]
      /\ line' = [x \in AllLines |-> IF x \in DOMAIN body THEN body[x]
                                     ELSE IF x \in SpentLinesOf(s) THEN None ELSE line[x]]
      /\ ins' = [x \in AllLines |-> IF x \in again THEN Purchase(body[x].item, body[x].quantity)
                                    ELSE IF x \in gone THEN Zero ELSE ins[x]]
      /\ outs' = [x \in AllLines |-> IF x \in again \cup gone THEN Zero ELSE back[x]]
  BY DEF Graph
<1>b. /\ DOMAIN body \subseteq SpentLines
      /\ \A k \in DOMAIN body :
           /\ SpentOf[k] = s /\ body[k] \in LineRows /\ body[k] # None
           /\ body[k].item \in Items \cup {None} /\ body[k].quantity \in Nat
           /\ body[k].item # None => kind[body[k].item] # "absent"
  BY BodyIs
<1>c. /\ back \in [AllLines -> [Items -> Nat]]
      /\ \A x \in AllLines : (x \in Lines \/ line[x] = None \/ SpentOf[x] # s) => back[x] = outs[x]
  BY GivenBackAre
<1>d. \A k \in DOMAIN body :
        /\ Purchase(body[k].item, body[k].quantity) \in [Items -> Nat]
        /\ \A j \in Items : Purchase(body[k].item, body[k].quantity)[j]
             = IF body[k].item = j /\ IsCounted(j) THEN body[k].quantity ELSE 0
  <2> SUFFICES ASSUME NEW k \in DOMAIN body
               PROVE  /\ Purchase(body[k].item, body[k].quantity) \in [Items -> Nat]
                      /\ \A j \in Items : Purchase(body[k].item, body[k].quantity)[j]
                           = IF body[k].item = j /\ IsCounted(j) THEN body[k].quantity ELSE 0
    OBVIOUS
  <2>1. body[k].item \in Items \cup {None} /\ body[k].quantity \in Nat BY <1>b
  <2> QED BY <2>1, PurchaseIs DEF IsCounted
<1>e. again \subseteq DOMAIN body /\ \A k \in gone : k \in SpentLines /\ SpentOf[k] = s
  BY DEF SpentLinesOf
<1> HIDE DEF back, again
<1>1. StockTypeOK'
  <2>1. line' \in [AllLines -> LineRows \cup {None}] BY <1>a, <1>b DEF StockInv, StockTypeOK
  <2>2. ins' \in [AllLines -> [Items -> Nat]] BY <1>a, <1>d, <1>e DEF StockInv, StockTypeOK
  <2>3. outs' \in [AllLines -> [Items -> Nat]] BY <1>a, <1>c
  <2> QED BY <1>a, <2>1, <2>2, <2>3 DEF StockInv, StockTypeOK
<1>2. SaleInv'
  <2>1. \A l \in Lines : l \notin again \cup gone /\ l \notin DOMAIN body /\ l \notin SpentLinesOf(s)
    BY <1>b, <1>e
  <2>2. \A l \in Lines : line'[l] = line[l] /\ ins'[l] = ins[l] /\ outs'[l] = outs[l]
    BY <1>a, <1>c, <2>1
  <2> QED BY <2>2, SaleFrame
<1>3. PurchaseInv'
  <2> SUFFICES ASSUME NEW m \in SpentLines
               PROVE  (RowOK(m, spent[SpentOf[m]]) /\ PurchaseCounted(m))'
    BY DEF PurchaseInv
  <2>1. RowOK(m, spent[SpentOf[m]]) /\ PurchaseCounted(m) BY DEF StockInv, PurchaseInv
  <2>2. CASE m \in DOMAIN body
    <3>1. line'[m] = body[m] /\ spent'[SpentOf[m]] = st /\ SpentOf[m] = s
      BY <1>a, <1>b, <2>2, StockAssumption DEF StockInv, StockTypeOK
    <3>2. RowOK(m, spent[SpentOf[m]])' BY <1>b, <2>2, <3>1 DEF RowOK
    <3>3. SUFFICES ASSUME Without({"switched", "relinked", "purchase_halfway"}), NEW j \in Items
                   PROVE  ins'[m][j] - outs'[m][j]
                            = IF st = "open" /\ body[m].item = j /\ IsCounted(j)
                              THEN body[m].quantity ELSE 0
      BY <3>1, <3>2 DEF PurchaseCounted, Due, IsCounted, Without
    <3>4. CASE st = "open"
      <4>1. m \in again BY <2>2, <3>4 DEF again
      <4>2. ins'[m] = Purchase(body[m].item, body[m].quantity) /\ outs'[m] = Zero
        BY <1>a, <4>1
      <4>3. body[m].quantity \in Nat BY <1>b, <2>2
      <4> QED BY <1>d, <2>2, <3>4, <4>2, <4>3
    <3>5. CASE st # "open"
      <4>1. ins'[m] = ins[m] /\ outs'[m] = back[m] BY <1>a, <2>2, <3>5 DEF again
      <4>2. CASE line[m] = None
        <5>1. ins[m][j] = 0 /\ outs[m][j] = 0 BY <2>1, <4>2 DEF RowOK
        <5> QED BY <1>c, <3>5, <4>1, <4>2, <5>1
      <4>3. CASE line[m] # None
        <5>1. ins[m][j] - back[m][j] = Due(m, j, st = "open")
          BY <3>1, <3>3, <4>3, CancelledLine DEF back
        <5> QED BY <3>5, <4>1, <5>1 DEF Due
      <4> QED BY <4>2, <4>3
    <3> QED BY <3>4, <3>5
  <2>3. CASE m \in gone
    <3>1. line'[m] = None /\ ins'[m] = Zero /\ outs'[m] = Zero
      BY <1>a, <1>e, <2>3
    <3> QED BY <3>1 DEF RowOK, PurchaseCounted
  <2>4. CASE m \notin DOMAIN body /\ m \notin SpentLinesOf(s)
    <3>1. line[m] = None \/ SpentOf[m] # s BY <2>4 DEF SpentLinesOf
    <3>2. line'[m] = line[m] /\ ins'[m] = ins[m] /\ outs'[m] = outs[m]
      BY <1>a, <1>c, <1>e, <2>4, <3>1
    <3>3. line[m] # None => spent'[SpentOf[m]] = spent[SpentOf[m]]
      BY <1>a, <3>1, StockAssumption DEF StockInv, StockTypeOK
    <3> QED BY <2>1, <3>2, <3>3 DEF RowOK, PurchaseCounted, Without, Due, IsCounted
  <2> QED BY <2>2, <2>3, <2>4
<1> QED BY <1>1, <1>2, <1>3 DEF StockInv

LEMMA UpdateSpentGraphKeeps ==
  ASSUME StockInv, NEW s \in Spents, NEW st \in {"open", "cancelled"}, UpdateSpentGraph(s, st)
  PROVE  StockInv'
<1> USE LinesOfSides
<1>0. PICK body \in Bodies(s) :
        LET saved == Stops(s, st) = {} /\ Valid(body) IN
        /\ IF saved THEN Graph(s, st, body)
           ELSE outs' = Plus(outs, GivenBack(s, st)) /\ UNCHANGED <<spent, line, ins>>
        /\ Mishap(~saved /\ GivenBack(s, st) # {}, "purchase_halfway")
  BY DEF UpdateSpentGraph
<1>a. /\ spent[s] # "absent" /\ (st = "open" => spent[s] = "open")
      /\ UNCHANGED <<kind, invoice, load>>
  BY DEF UpdateSpentGraph
<1>1. CASE Stops(s, st) = {} /\ Valid(body)
  <2>1. Graph(s, st, body) /\ mishaps' = mishaps BY <1>0, <1>1 DEF Mishap
  <2> QED BY <1>a, <1>1, <2>1, GraphKeeps
<1>2. CASE ~(Stops(s, st) = {} /\ Valid(body))
  <2> DEFINE gb == GivenBack(s, st)
  <2>1. /\ outs' = Plus(outs, gb) /\ UNCHANGED <<spent, line, ins>>
        /\ mishaps' = IF gb # {} THEN mishaps \cup {"purchase_halfway"} ELSE mishaps
    BY <1>0, <1>2 DEF Mishap
  <2>2. /\ gb \subseteq SpentLines /\ \A k \in gb : line[k] # None
        /\ outs' \in [AllLines -> [Items -> Nat]]
        /\ \A x \in AllLines \ gb : outs'[x] = outs[x]
    BY <2>1, GivenBackAre
  <2> HIDE DEF gb
  <2>3. StockTypeOK' BY <1>a, <2>1, <2>2 DEF StockInv, StockTypeOK
  <2>4. SaleInv' BY <1>a, <2>1, <2>2, SaleFrame
  <2>5. PurchaseInv'
    <3>1. CASE gb = {} BY <1>a, <2>1, <2>2, <3>1, PurchaseFrame
    <3>2. CASE gb # {}
      <4> SUFFICES ASSUME NEW m \in SpentLines
                   PROVE  (RowOK(m, spent[SpentOf[m]]) /\ PurchaseCounted(m))'
        BY DEF PurchaseInv
      <4>1. RowOK(m, spent[SpentOf[m]]) BY DEF StockInv, PurchaseInv
      <4>2. "purchase_halfway" \in mishaps' BY <2>1, <3>2
      <4>3. RowOK(m, spent[SpentOf[m]])' BY <1>a, <2>1, <2>2, <4>1 DEF RowOK
      <4> QED BY <4>2, <4>3 DEF PurchaseCounted, Without
    <3> QED BY <3>1, <3>2
  <2> QED BY <2>3, <2>4, <2>5 DEF StockInv
<1> QED BY <1>1, <1>2

LEMMA DeleteSpentKeeps ==
  ASSUME StockInv, NEW s \in Spents, DeleteSpent(s) PROVE StockInv'
<1> USE LinesOfSides, ZeroIs
<1>a. /\ ins' = [x \in AllLines |-> IF x \in SpentLinesOf(s) THEN Zero ELSE ins[x]]
      /\ outs' = [x \in AllLines |-> IF x \in SpentLinesOf(s) THEN Zero ELSE outs[x]]
      /\ UNCHANGED <<kind, invoice, load>>
      /\ mishaps \subseteq mishaps'
      /\ \/ /\ spent' = [spent EXCEPT ![s] = "absent"]
            /\ line' = [x \in AllLines |-> IF x \in SpentLinesOf(s) THEN None ELSE line[x]]
            /\ mishaps' = mishaps
         \/ /\ mishaps' = mishaps \cup {"purchase_halfway"}
            /\ UNCHANGED <<spent, line>>
  BY DEF DeleteSpent, Mishap
<1>1. StockTypeOK'
  <2>1. ins' \in [AllLines -> [Items -> Nat]] /\ outs' \in [AllLines -> [Items -> Nat]]
    BY <1>a DEF StockInv, StockTypeOK
  <2>2. line' \in [AllLines -> LineRows \cup {None}] BY <1>a DEF StockInv, StockTypeOK
  <2> QED BY <1>a, <2>1, <2>2 DEF StockInv, StockTypeOK
<1>2. SaleInv' BY <1>a, SaleFrame DEF StockInv, StockTypeOK
<1>3. PurchaseInv'
  <2> SUFFICES ASSUME NEW m \in SpentLines
               PROVE  (RowOK(m, spent[SpentOf[m]]) /\ PurchaseCounted(m))'
    BY DEF PurchaseInv
  <2>1. RowOK(m, spent[SpentOf[m]]) /\ PurchaseCounted(m) BY DEF StockInv, PurchaseInv
  <2>2. CASE m \in SpentLinesOf(s)
    <3>1. ins'[m] = Zero /\ outs'[m] = Zero /\ line[m] # None
      BY <1>a, <2>2 DEF SpentLinesOf
    <3>2. CASE line'[m] = None
      BY <3>1, <3>2 DEF RowOK, PurchaseCounted
    <3>3. CASE line'[m] # None
      <4>1. spent' = spent /\ line' = line /\ "purchase_halfway" \in mishaps'
        BY <1>a, <2>2, <3>3
      <4> QED BY <1>a, <2>1, <3>1, <4>1 DEF RowOK, PurchaseCounted, Without
    <3> QED BY <3>2, <3>3
  <2>3. CASE m \notin SpentLinesOf(s)
    <3>1. line'[m] = line[m] /\ ins'[m] = ins[m] /\ outs'[m] = outs[m]
      BY <1>a, <2>3
    <3>2. line[m] # None => spent'[SpentOf[m]] = spent[SpentOf[m]]
      BY <1>a, <2>3, StockAssumption DEF SpentLinesOf, StockInv, StockTypeOK
    <3> QED BY <1>a, <2>1, <3>1, <3>2 DEF RowOK, PurchaseCounted, Without, Due, IsCounted
  <2> QED BY <2>2, <2>3
<1> QED BY <1>1, <1>2, <1>3 DEF StockInv

-----------------------------------------------------------------------------
(* The invariant and what follows from it.                                  *)

LEMMA InitEstablishes == Init => StockInv
<1> SUFFICES ASSUME Init PROVE StockInv OBVIOUS
<1>1. StockTypeOK BY ZeroIs DEF Init, StockTypeOK
<1>2. SaleInv BY ZeroIs, LinesOfSides DEF Init, SaleInv, RowOK, MovedOnce, SaleCounted
<1>3. PurchaseInv BY ZeroIs, LinesOfSides DEF Init, PurchaseInv, RowOK, PurchaseCounted
<1> QED BY <1>1, <1>2, <1>3 DEF StockInv

LEMMA NextKeeps == StockInv /\ [Next]_vars => StockInv'
<1> SUFFICES ASSUME StockInv, [Next]_vars PROVE StockInv' OBVIOUS
<1>1. ASSUME NEW it \in Items, CreateItem(it) \/ UpdateItem(it) \/ DeleteItem(it) PROVE StockInv'
  BY <1>1, CreateItemKeeps, UpdateItemKeeps, DeleteItemKeeps
<1>2. ASSUME NEW i \in Invoices,
             \/ CreateInvoice(i) \/ PatchInvoice(i) \/ IssueInvoice(i) \/ CancelInvoice(i)
             \/ ReopenInvoice(i) \/ DeleteInvoice(i)
      PROVE  StockInv'
  BY <1>2, CreateInvoiceKeeps, PatchInvoiceKeeps, IssueInvoiceKeeps, CancelInvoiceKeeps,
     ReopenInvoiceKeeps, DeleteInvoiceKeeps
<1>3. ASSUME NEW l \in Lines, SaveInvoiceConcept(l) \/ DeleteInvoiceConcept(l) PROVE StockInv'
  BY <1>3, SaveInvoiceConceptKeeps, DeleteInvoiceConceptKeeps
<1>4. ASSUME NEW k \in SpentLines,
             CreateSpentConcept(k) \/ UpdateSpentConcept(k) \/ DeleteSpentConcept(k)
      PROVE  StockInv'
  BY <1>4, CreateSpentConceptKeeps, UpdateSpentConceptKeeps, DeleteSpentConceptKeeps
<1>5. ASSUME NEW s \in Spents,
             \/ CreateSpent(s) \/ DeleteSpent(s)
             \/ \E st \in {"open", "cancelled"} : UpdateSpent(s, st) \/ UpdateSpentGraph(s, st)
      PROVE  StockInv'
  BY <1>5, CreateSpentKeeps, DeleteSpentKeeps, UpdateSpentKeeps, UpdateSpentGraphKeeps
<1>6. CASE UNCHANGED vars
  <2>1. StockTypeOK' BY <1>6 DEF vars, StockInv, StockTypeOK
  <2>2. SaleInv' BY <1>6, SaleFrame DEF vars
  <2>3. PurchaseInv' BY <1>6, PurchaseFrame DEF vars
  <2> QED BY <2>1, <2>2, <2>3 DEF StockInv
<1> QED BY <1>1, <1>2, <1>3, <1>4, <1>5, <1>6 DEF Next

\* Every reachable state satisfies the invariant: the types, and line by line
\* what its document, its row and its movements say of each other.
THEOREM StockInvariant == Spec => []StockInv
BY InitEstablishes, NextKeeps, PTL DEF Spec

\* Items, documents, lines and movements stay of their types: in particular no
\* movement of the kardex is ever negative.
THEOREM StockTypeCorrect == Spec => []StockTypeOK
<1>1. StockInv => StockTypeOK BY DEF StockInv
<1> QED BY <1>1, StockInvariant, PTL

\* confirmInvoiceIssue and reverseInvoiceCancellation leave in the kardex exactly
\* what the invoices say, for any lines, quantities and orders of requests, but
\* for the ways SalesAreCounted names; and no cancellation brings back more than
\* what left.
THEOREM SalesAlwaysCounted == Spec => []SalesAreCounted
<1>1. StockInv => SalesAreCounted
  <2> SUFFICES ASSUME StockInv PROVE SalesAreCounted OBVIOUS
  <2>1. \A l \in Lines : RowOK(l, invoice[InvoiceOf[l]]) /\ MovedOnce(l) /\ SaleCounted(l)
    BY DEF StockInv, SaleInv
  <2>2. ASSUME Without({"switched", "patched", "reopened", "sale_halfway"}),
               NEW l \in Lines, NEW it \in Items, line[l] # None
        PROVE  outs[l][it] - ins[l][it] = Due(l, it, invoice[InvoiceOf[l]] = "issued")
    BY <2>1, <2>2 DEF SaleCounted
  <2>3. ASSUME Without({"reopened", "sale_halfway"}), NEW l \in Lines, NEW it \in Items
        PROVE  ins[l][it] <= outs[l][it]
    <3>1. CASE line[l] = None BY <2>1, <3>1 DEF RowOK
    <3>2. CASE line[l] # None BY <2>1, <2>3, <3>2 DEF MovedOnce
    <3> QED BY <3>1, <3>2
  <2> QED BY <2>2, <2>3 DEF SalesAreCounted
<1> QED BY <1>1, StockInvariant, PTL

\* syncPurchaseQuantityMovement, the graph of a spent, its cancellation and its
\* purge leave in the kardex exactly what the spents say, whichever way their
\* lines were written, but for the ways PurchasesAreCounted names.
THEOREM PurchasesAlwaysCounted == Spec => []PurchasesAreCounted
<1>1. StockInv => PurchasesAreCounted
  BY DEF StockInv, PurchaseInv, PurchaseCounted, PurchasesAreCounted
<1> QED BY <1>1, StockInvariant, PTL
=============================================================================
