--------------------------- MODULE InventoryLedger ---------------------------
(***************************************************************************)
(* Serial-numbered stock of the backend: the units (item_serials), the     *)
(* invoice lines that sell them (invoice_concept_serials), the spent lines *)
(* that bought them (spent_concept_serials) and the kardex                 *)
(* (stock_movements) that both sides write.                                *)
(*                                                                         *)
(* One action is one HTTP handler run from its first query to its last     *)
(* write, alone.  The handlers use no transaction (the spent graph is the  *)
(* exception), so a handler that fails half-way leaves what it has already *)
(* written: those outcomes are part of the actions.  InventoryRequests     *)
(* opens the handlers up, await by await.                                  *)
(*                                                                         *)
(* Every line of this module is linked to an item with serialNumber and    *)
(* stock set; the two flags do not change.  An issued, paid or partially   *)
(* paid invoice is "issued": no handler here tells the three apart.        *)
(***************************************************************************)
EXTENDS Integers, FiniteSets

CONSTANTS
  Units,        \* physical units: an (item, serial number) pair
  Invoices,
  Lines,        \* invoice lines (invoice_concepts)
  InvoiceOf,    \* the invoice a line belongs to
  Spents,
  SpentLines,   \* spent lines (spent_concepts)
  SpentOf,      \* the spent a spent line belongs to
  MaxQuantity,  \* bound on the quantity of an invoice line
  MaxDrift,     \* bound on how often a unit is reversed out without an entry
  Routes        \* which of the irregular routes below the clients take

(***************************************************************************)
(* Routes that the API accepts and that bypass the inventory:              *)
(*   patch            PATCH /invoices/:id with a status in its body;       *)
(*   reopen           a status change of a cancelled invoice;              *)
(*   refused_issue    an issue that fails after its first written unit;    *)
(*   rejected_cancel  a spent cancelled together with a body of lines that *)
(*                    is rejected after the units were voided.             *)
(***************************************************************************)
AllRoutes == {"patch", "reopen", "refused_issue", "rejected_cancel"}

ASSUME ConstantsAssumption ==
  /\ IsFiniteSet(Units) /\ IsFiniteSet(Lines) /\ IsFiniteSet(SpentLines)
  /\ InvoiceOf \in [Lines -> Invoices]
  /\ SpentOf \in [SpentLines -> Spents]
  /\ MaxQuantity \in Nat
  /\ MaxDrift \in Nat
  /\ Routes \subseteq AllRoutes

VARIABLES
  status,         \* item_serials.status, "absent" when there is no row
  invoice,        \* invoices.status, "absent" when there is no row
  lines,          \* the invoice lines that exist
  quantity,       \* quantity of each invoice line
  rows,           \* invoice_concept_serials: <<line, unit>>
  saleNet,        \* SALE OUT movements minus REVERSAL IN movements of a unit
  saleMoves,      \* the <<line, unit>> pairs some sale movement refers to
  spent,          \* spents.status
  spentLines,     \* the spent lines that exist
  purchaseRows,   \* spent_concept_serials: <<spent line, unit>>
  purchaseNet,    \* PURCHASE IN movements minus REVERSAL OUT movements
  purchaseMoves   \* the <<spent line, unit>> pairs some purchase movement refers to

saleVars == <<invoice, lines, quantity, rows, saleNet, saleMoves>>
purchaseVars == <<spent, spentLines, purchaseRows, purchaseNet, purchaseMoves>>
vars == <<status, invoice, lines, quantity, rows, saleNet, saleMoves,
          spent, spentLines, purchaseRows, purchaseNet, purchaseMoves>>

UnitStatus == {"absent", "in_stock", "reserved", "sold", "voided"}
InvoiceStatus == {"absent", "draft", "issued", "cancelled"}
SpentStatus == {"absent", "open", "cancelled"}
Quantities == 0 .. MaxQuantity

TypeOK ==
  /\ status \in [Units -> UnitStatus]
  /\ invoice \in [Invoices -> InvoiceStatus]
  /\ lines \subseteq Lines
  /\ quantity \in [Lines -> Quantities]
  /\ rows \subseteq lines \X Units
  /\ saleNet \in [Units -> Int]
  /\ saleMoves \subseteq lines \X Units
  /\ spent \in [Spents -> SpentStatus]
  /\ spentLines \subseteq SpentLines
  /\ purchaseRows \subseteq spentLines \X Units
  /\ purchaseNet \in [Units -> Int]
  /\ purchaseMoves \subseteq spentLines \X Units

Init ==
  /\ status = [u \in Units |-> "absent"]
  /\ invoice = [i \in Invoices |-> "absent"]
  /\ lines = {}
  /\ quantity = [l \in Lines |-> 0]
  /\ rows = {}
  /\ saleNet = [u \in Units |-> 0]
  /\ saleMoves = {}
  /\ spent = [s \in Spents |-> "absent"]
  /\ spentLines = {}
  /\ purchaseRows = {}
  /\ purchaseNet = [u \in Units |-> 0]
  /\ purchaseMoves = {}

-----------------------------------------------------------------------------
(* Queries.                                                                *)

LinesOf(i) == {l \in lines : InvoiceOf[l] = i}
SpentLinesOf(s) == {k \in spentLines : SpentOf[k] = s}

\* The units a set of <<line, unit>> pairs mentions.
UnitsIn(pairs) == {u \in Units : \E p \in pairs : p[2] = u}

\* How many of the pairs name unit u: one movement each.
CountOf(pairs, u) == Cardinality({p \in pairs : p[2] = u})

RowsOfLine(l) == {r \in rows : r[1] = l}
RowsOfInvoice(i) == {r \in rows : InvoiceOf[r[1]] = i}
SoldRows(i) == {r \in RowsOfInvoice(i) : status[r[2]] = "sold"}

HasSaleMoves(i) == \E m \in saleMoves : InvoiceOf[m[1]] = i

SpentExists(k) == spent[SpentOf[k]] # "absent"
SpentOpen(k) == spent[SpentOf[k]] = "open"

Saleable(u) == status[u] \in {"reserved", "in_stock"}
Reservable(u) == status[u] = "in_stock"

\* Mutation: assertItemSerialMutable forgets one of its two states.
ForgetsSold(u) == status[u] # "reserved"

Mutable(u) == status[u] \notin {"reserved", "sold"}

\* item_serials rows are protected (ON DELETE RESTRICT) by the invoice rows
\* and by the sale movements that refer to them.
Blocked(u) == \E l \in Lines : <<l, u>> \in rows \cup saleMoves

\* Mutation: a cancellation or deletion that forgets the reservations.
ForgetsReservations(us) == status

\* releaseReservedSaleSerial over a set of units: only RESERVED ones change.
Released(us) ==
  [u \in Units |-> IF u \in us /\ status[u] = "reserved"
                   THEN "in_stock" ELSE status[u]]

-----------------------------------------------------------------------------
(* Invoices and their lines: the sale side.                                *)

\* confirmInvoiceConceptIssue over the given rows: SOLD and a SALE OUT each.
SellRows(out) ==
  /\ status' = [u \in Units |-> IF u \in UnitsIn(out) THEN "sold" ELSE status[u]]
  /\ saleNet' = [u \in Units |-> saleNet[u] + CountOf(out, u)]
  /\ saleMoves' = saleMoves \cup out

CreateInvoice(i, st) ==
  /\ invoice[i] = "absent"
  /\ st \in {"draft", "issued", "cancelled"}
  /\ invoice' = [invoice EXCEPT ![i] = st]
  /\ UNCHANGED <<status, lines, quantity, rows, saleNet, saleMoves, purchaseVars>>

\* The merged body is saved as it comes, its status included: no unit moves.
PatchInvoiceStatus(i, st) ==
  /\ "patch" \in Routes
  /\ invoice[i] = "draft"
  /\ st \in {"issued", "cancelled"}
  /\ invoice' = [invoice EXCEPT ![i] = st]
  /\ UNCHANGED <<status, lines, quantity, rows, saleNet, saleMoves, purchaseVars>>

\* Mutation: the count check of the issue only refuses lines with too many.
WithinQuantity(l) == Cardinality(RowsOfLine(l)) <= quantity[l]

Complete(l) == Cardinality(RowsOfLine(l)) = quantity[l]

IssueInvoice(i) ==
  /\ invoice[i] = "draft"
  /\ \A l \in LinesOf(i) : Complete(l)
  /\ \A u \in UnitsIn(RowsOfInvoice(i)) : Saleable(u)
  /\ SellRows(RowsOfInvoice(i))
  /\ invoice' = [invoice EXCEPT ![i] = "issued"]
  /\ UNCHANGED <<lines, quantity, rows, purchaseVars>>

\* The loop over the lines stops at the first bad one: the rows before it have
\* been sold already and the invoice stays a draft.
RefuseIssue(i, out) ==
  /\ "refused_issue" \in Routes
  /\ invoice[i] = "draft"
  /\ out # {} /\ out \subseteq RowsOfInvoice(i)
  /\ \A u \in UnitsIn(out) : Saleable(u)
  /\ \E bad \in LinesOf(i) :
       /\ \/ ~Complete(bad) /\ out \cap RowsOfLine(bad) = {}
          \/ Complete(bad) /\ \E r \in RowsOfLine(bad) \ out : ~Saleable(r[2])
       /\ \A l \in LinesOf(i) \ {bad} :
            out \cap RowsOfLine(l) # {} => Complete(l) /\ RowsOfLine(l) \subseteq out
  /\ SellRows(out)
  /\ UNCHANGED <<invoice, lines, quantity, rows, purchaseVars>>

CancelDraftInvoice(i) ==
  /\ invoice[i] = "draft"
  /\ status' = Released(UnitsIn(RowsOfInvoice(i)))
  /\ invoice' = [invoice EXCEPT ![i] = "cancelled"]
  /\ UNCHANGED <<lines, quantity, rows, saleNet, saleMoves, purchaseVars>>

\* reverseInvoiceCancellation: a SOLD unit comes back with a REVERSAL IN, a
\* RESERVED one is released; the unit's status is all the code looks at.
CancelIssuedInvoice(i) ==
  /\ invoice[i] = "issued"
  /\ status' = [u \in Units |->
                  IF u \in UnitsIn(RowsOfInvoice(i)) /\ ~Mutable(u)
                  THEN "in_stock" ELSE status[u]]
  /\ saleNet' = [u \in Units |-> saleNet[u] - CountOf(SoldRows(i), u)]
  /\ saleMoves' = saleMoves \cup SoldRows(i)
  /\ invoice' = [invoice EXCEPT ![i] = "cancelled"]
  /\ UNCHANGED <<lines, quantity, rows, purchaseVars>>

\* Only the way back to draft is refused: a cancelled invoice may be issued or
\* paid again, and the inventory is not told.
ReopenInvoice(i) ==
  /\ "reopen" \in Routes
  /\ invoice[i] = "cancelled"
  /\ invoice' = [invoice EXCEPT ![i] = "issued"]
  /\ UNCHANGED <<status, lines, quantity, rows, saleNet, saleMoves, purchaseVars>>

\* Reservations go first; the row of the invoice cannot be deleted while a
\* movement refers to one of its lines.
DeleteInvoice(i) ==
  LET gone == IF HasSaleMoves(i) THEN {} ELSE LinesOf(i) IN
  /\ invoice[i] = "draft"
  /\ status' = Released(UnitsIn(RowsOfInvoice(i)))
  /\ IF HasSaleMoves(i)
     THEN UNCHANGED invoice
     ELSE invoice' = [invoice EXCEPT ![i] = "absent"]
  /\ lines' = lines \ gone
  /\ quantity' = [l \in Lines |-> IF l \in gone THEN 0 ELSE quantity[l]]
  /\ rows' = {r \in rows : r[1] \notin gone}
  /\ UNCHANGED <<saleNet, saleMoves, purchaseVars>>

CreateInvoiceConcept(l, q) ==
  /\ invoice[InvoiceOf[l]] = "draft"
  /\ l \notin lines
  /\ lines' = lines \cup {l}
  /\ quantity' = [quantity EXCEPT ![l] = q]
  /\ UNCHANGED <<status, invoice, rows, saleNet, saleMoves, purchaseVars>>

\* Mutation: assertUpdateRespectsSerials does not look at the serials.
ForgetsSerials(l, q) ==
  /\ l \in lines
  /\ invoice[InvoiceOf[l]] = "draft"
  /\ quantity' = [quantity EXCEPT ![l] = q]
  /\ UNCHANGED <<status, invoice, lines, rows, saleNet, saleMoves, purchaseVars>>

UpdateInvoiceConcept(l, q) ==
  /\ l \in lines
  /\ invoice[InvoiceOf[l]] = "draft"
  /\ Cardinality(RowsOfLine(l)) <= q
  /\ quantity' = [quantity EXCEPT ![l] = q]
  /\ UNCHANGED <<status, invoice, lines, rows, saleNet, saleMoves, purchaseVars>>

DeleteInvoiceConcept(l) ==
  LET gone == IF \E m \in saleMoves : m[1] = l THEN {} ELSE {l} IN
  /\ l \in lines
  /\ invoice[InvoiceOf[l]] = "draft"
  /\ status' = Released(UnitsIn(RowsOfLine(l)))
  /\ lines' = lines \ gone
  /\ quantity' = [k \in Lines |-> IF k \in gone THEN 0 ELSE quantity[k]]
  /\ rows' = {r \in rows : r[1] \notin gone}
  /\ UNCHANGED <<invoice, saleNet, saleMoves, purchaseVars>>

CreateInvoiceConceptSerial(l, u) ==
  /\ l \in lines
  /\ invoice[InvoiceOf[l]] = "draft"
  /\ Cardinality(RowsOfLine(l)) < quantity[l]
  /\ Reservable(u)
  /\ status' = [status EXCEPT ![u] = "reserved"]
  /\ rows' = rows \cup {<<l, u>>}
  /\ UNCHANGED <<invoice, lines, quantity, saleNet, saleMoves, purchaseVars>>

\* replaceReservedSaleSerial: the next unit is reserved, then the previous one
\* is released, then the row is saved.
UpdateInvoiceConceptSerial(l, u, next) ==
  /\ <<l, u>> \in rows
  /\ invoice[InvoiceOf[l]] = "draft"
  /\ next # u
  /\ Reservable(next)
  /\ status' = [Released({u}) EXCEPT ![next] = "reserved"]
  /\ rows' = IF <<l, next>> \in rows THEN rows
             ELSE (rows \ {<<l, u>>}) \cup {<<l, next>>}
  /\ UNCHANGED <<invoice, lines, quantity, saleNet, saleMoves, purchaseVars>>

DeleteInvoiceConceptSerial(l, u) ==
  /\ <<l, u>> \in rows
  /\ invoice[InvoiceOf[l]] = "draft"
  /\ status' = Released({u})
  /\ rows' = rows \ {<<l, u>>}
  /\ UNCHANGED <<invoice, lines, quantity, saleNet, saleMoves, purchaseVars>>

-----------------------------------------------------------------------------
(* Spents and their lines: the purchase side.                              *)

\* registerPurchaseSerial / insertPurchaseSerial for each pair: a new unit in
\* stock, its PURCHASE IN and its row.  In a graph save the kept pairs stay.
RegisterPairs(new, keptRows, keptMoves, net, st) ==
  /\ status' = [u \in Units |-> IF u \in UnitsIn(new) THEN "in_stock" ELSE st[u]]
  /\ purchaseNet' = [u \in Units |-> IF u \in UnitsIn(new) THEN 1 ELSE net[u]]
  /\ purchaseRows' = keptRows \cup new
  /\ purchaseMoves' = keptMoves \cup new

\* A unit is listed at most once in a graph: the second insert would break
\* the unique (itemId, serialNumber) and roll the transaction back.
IsGraph(s, ls, pairs) ==
  /\ \A k \in ls : SpentOf[k] = s
  /\ \A p \in pairs : p[1] \in ls
  /\ \A p, q \in pairs : p[2] = q[2] => p = q

\* createSpentGraph: header, lines and units in one transaction.  A spent that
\* is created cancelled brings no units in.
CreateSpent(s, st, ls, pairs) ==
  /\ spent[s] = "absent"
  /\ st \in {"open", "cancelled"}
  /\ IsGraph(s, ls, pairs)
  /\ IF st = "cancelled" THEN pairs = {}
     ELSE \A u \in UnitsIn(pairs) : status[u] = "absent"
  /\ spent' = [spent EXCEPT ![s] = st]
  /\ spentLines' = spentLines \cup ls
  /\ RegisterPairs(pairs, purchaseRows, purchaseMoves, purchaseNet, status)
  /\ UNCHANGED saleVars

\* updateSpentGraph on an open spent: lines out of the graph are deleted with
\* their inventory, the rest keep the units they still list and gain the new
\* ones.  One transaction: a unit that cannot be deleted refuses all of it.
UpdateSpentGraph(s, ls, pairs) ==
  LET old == {r \in purchaseRows : SpentOf[r[1]] = s}
      out == old \ pairs
      new == pairs \ old
      deletedLines == SpentLinesOf(s) \ ls
      \* deleteLineInventory erases a line's movements, deleteOnePurchaseSerial
      \* every movement of the unit, the sales included.
      erased == {m \in purchaseMoves : m[1] \in deletedLines \/ m[2] \in UnitsIn(out)}
      freedSales == UnitsIn({r \in out : r[1] \in ls})
  IN
  /\ spent[s] = "open"
  /\ IsGraph(s, ls, pairs)
  /\ \A u \in UnitsIn(out) :
       /\ Mutable(u)
       /\ \A l \in Lines : /\ <<l, u>> \notin rows
                           /\ u \notin freedSales => <<l, u>> \notin saleMoves
  /\ \A u \in UnitsIn(new) : status[u] = "absent" \/ u \in UnitsIn(out)
  /\ spentLines' = (spentLines \ deletedLines) \cup ls
  /\ RegisterPairs(new, purchaseRows \ out, purchaseMoves \ erased,
       [u \in Units |-> IF u \in UnitsIn(erased) THEN 0 ELSE purchaseNet[u]],
       [u \in Units |-> IF u \in UnitsIn(out) THEN "absent" ELSE status[u]])
  /\ saleMoves' = {m \in saleMoves : m[2] \notin freedSales}
  /\ saleNet' = [u \in Units |-> IF u \in freedSales THEN 0 ELSE saleNet[u]]
  /\ UNCHANGED <<spent, invoice, lines, quantity, rows>>

\* The same save on a cancelled spent: lines come and go, the units of the
\* kept ones are left alone and no unit comes in.
UpdateCancelledSpentGraph(s, ls) ==
  LET deletedLines == SpentLinesOf(s) \ ls
      out == {r \in purchaseRows : r[1] \in deletedLines}
      erased == {m \in purchaseMoves : m[1] \in deletedLines}
  IN
  /\ spent[s] = "cancelled"
  /\ \A k \in ls : SpentOf[k] = s
  /\ \A u \in UnitsIn(out) : Mutable(u) /\ ~Blocked(u)
  /\ spentLines' = (spentLines \ deletedLines) \cup ls
  /\ RegisterPairs({}, purchaseRows \ out, purchaseMoves \ erased,
       [u \in Units |-> IF u \in UnitsIn(erased) THEN 0 ELSE purchaseNet[u]],
       [u \in Units |-> IF u \in UnitsIn(out) THEN "absent" ELSE status[u]])
  /\ UNCHANGED <<spent, saleVars>>

CreateSpentConcept(k) ==
  /\ SpentExists(k)
  /\ k \notin spentLines
  /\ spentLines' = spentLines \cup {k}
  /\ UNCHANGED <<status, saleVars, spent, purchaseRows, purchaseNet, purchaseMoves>>

CreateSpentConceptSerial(k, u) ==
  /\ k \in spentLines
  /\ SpentOpen(k)
  /\ status[u] = "absent"
  /\ RegisterPairs({<<k, u>>}, purchaseRows, purchaseMoves, purchaseNet, status)
  /\ UNCHANGED <<saleVars, spent, spentLines>>

\* The row goes first.  A unit that is reserved or sold then answers 409; one
\* that an invoice row still names loses its movements and stays.
DeleteSpentConceptSerial(k, u) ==
  /\ <<k, u>> \in purchaseRows
  /\ SpentOpen(k)
  /\ purchaseRows' = purchaseRows \ {<<k, u>>}
  /\ IF Mutable(u)
     THEN /\ purchaseMoves' = {m \in purchaseMoves : m[2] # u}
          /\ purchaseNet' = [purchaseNet EXCEPT ![u] = 0]
          /\ saleMoves' = {m \in saleMoves : m[2] # u}
          /\ saleNet' = [saleNet EXCEPT ![u] = 0]
          /\ status' = IF \E l \in Lines : <<l, u>> \in rows THEN status
                       ELSE [status EXCEPT ![u] = "absent"]
     ELSE UNCHANGED <<status, purchaseMoves, purchaseNet, saleMoves, saleNet>>
  /\ UNCHANGED <<invoice, lines, quantity, rows, spent, spentLines>>

\* updateById to "cancelled": the units are voided, then the lines of the body
\* are saved as above (ls is what the spent has when the body names none).
CancelSpent(s, ls) ==
  LET out == {r \in purchaseRows : SpentOf[r[1]] = s}
      deletedLines == SpentLinesOf(s) \ ls
      done == {r \in out : r[1] \in deletedLines}
      kept == out \ done
      erased == {m \in purchaseMoves : m[1] \in deletedLines}
  IN
  /\ spent[s] = "open"
  /\ \A k \in ls : SpentOf[k] = s
  /\ \A u \in UnitsIn(out) : Mutable(u)
  /\ \A u \in UnitsIn(done) : ~Blocked(u)
  /\ status' = [u \in Units |-> IF u \in UnitsIn(done) THEN "absent"
                               ELSE IF u \in UnitsIn(kept) THEN "voided" ELSE status[u]]
  /\ purchaseNet' = [u \in Units |-> IF u \in UnitsIn(erased \cup done) THEN 0
                                    ELSE IF u \in UnitsIn(kept) THEN purchaseNet[u] - 1
                                    ELSE purchaseNet[u]]
  /\ purchaseMoves' = (purchaseMoves \ erased) \cup kept
  /\ purchaseRows' = purchaseRows \ done
  /\ spentLines' = (spentLines \ deletedLines) \cup ls
  /\ spent' = [spent EXCEPT ![s] = "cancelled"]
  /\ UNCHANGED saleVars

\* cancelSpentInventory: every unit of the spent VOIDED with a REVERSAL OUT.
VoidUnits(s) ==
  LET out == {r \in purchaseRows : SpentOf[r[1]] = s} IN
  /\ \A u \in UnitsIn(out) : Mutable(u)
  /\ status' = [u \in Units |-> IF u \in UnitsIn(out) THEN "voided" ELSE status[u]]
  /\ purchaseNet' = [u \in Units |->
                       IF u \in UnitsIn(out) THEN purchaseNet[u] - 1 ELSE purchaseNet[u]]
  /\ purchaseMoves' = purchaseMoves \cup out

\* The units are voided before the lines of the body are validated.
RejectSpentCancel(s) ==
  /\ "rejected_cancel" \in Routes
  /\ spent[s] = "open"
  /\ \A u \in Units : purchaseNet[u] > -MaxDrift
  /\ VoidUnits(s)
  /\ UNCHANGED <<saleVars, spent, spentLines, purchaseRows>>

\* Mutation: the rows and units go, the entries stay in the balance.
ForgetsEntries(done, erased, freed) ==
  /\ purchaseRows' = purchaseRows \ done
  /\ purchaseMoves' = purchaseMoves \ erased
  /\ purchaseNet' = purchaseNet
  /\ status' = [u \in Units |-> IF u \in freed THEN "absent" ELSE status[u]]

\* purgeSpentConceptInventory over whole lines, up to the end or up to the
\* first unit that cannot be deleted: the movements of a line go first, then
\* its rows and units one by one.
PurgeLines(done, erased, freed) ==
  /\ purchaseRows' = purchaseRows \ done
  /\ purchaseMoves' = purchaseMoves \ erased
  /\ purchaseNet' = [u \in Units |-> IF u \in UnitsIn(erased) THEN 0 ELSE purchaseNet[u]]
  /\ status' = [u \in Units |-> IF u \in freed THEN "absent" ELSE status[u]]

PurgeAll(ls) ==
  LET done == {r \in purchaseRows : r[1] \in ls} IN
  /\ \A u \in UnitsIn(done) : ~Blocked(u)
  /\ PurgeLines(done, {m \in purchaseMoves : m[1] \in ls}, UnitsIn(done))

\* The lines in whole were purged, then line k down to unit b.
PurgeUpTo(ls, whole, k, freed, b) ==
  LET done == {r \in purchaseRows : r[1] \in whole} IN
  /\ whole \subseteq ls \ {k}
  /\ k \in ls
  /\ <<k, b>> \in purchaseRows /\ Blocked(b)
  /\ \A u \in freed : <<k, u>> \in purchaseRows /\ ~Blocked(u)
  /\ \A u \in UnitsIn(done) : ~Blocked(u)
  /\ PurgeLines(done \cup ({k} \X (freed \cup {b})),
                {m \in purchaseMoves : m[1] \in whole \cup {k}},
                UnitsIn(done) \cup freed)

LineIdle(k) == \A r \in purchaseRows : r[1] = k => Mutable(r[2])

DeleteSpentConcept(k) ==
  /\ k \in spentLines
  /\ LineIdle(k)
  /\ PurgeAll({k})
  /\ spentLines' = spentLines \ {k}
  /\ UNCHANGED <<saleVars, spent>>

FailDeleteSpentConcept(k, freed, b) ==
  /\ k \in spentLines
  /\ LineIdle(k)
  /\ PurgeUpTo({k}, {}, k, freed, b)
  /\ UNCHANGED <<saleVars, spent, spentLines>>

\* fileGone is false when Dropbox refuses to delete the document: the
\* inventory has been purged by then and the spent stays.
DeleteSpent(s, fileGone) ==
  /\ spent[s] # "absent"
  /\ \A k \in SpentLinesOf(s) : LineIdle(k)
  /\ PurgeAll(SpentLinesOf(s))
  /\ spent' = IF fileGone THEN [spent EXCEPT ![s] = "absent"] ELSE spent
  /\ spentLines' = IF fileGone THEN spentLines \ SpentLinesOf(s) ELSE spentLines
  /\ UNCHANGED saleVars

FailDeleteSpent(s, whole, k, freed, b) ==
  /\ spent[s] # "absent"
  /\ \A j \in SpentLinesOf(s) : LineIdle(j)
  /\ PurgeUpTo(SpentLinesOf(s), whole, k, freed, b)
  /\ UNCHANGED <<saleVars, spent, spentLines>>

-----------------------------------------------------------------------------
InvoiceNext ==
  \E i \in Invoices :
    \/ \E st \in InvoiceStatus : CreateInvoice(i, st) \/ PatchInvoiceStatus(i, st)
    \/ IssueInvoice(i)
    \/ \E out \in SUBSET rows : RefuseIssue(i, out)
    \/ CancelDraftInvoice(i)
    \/ CancelIssuedInvoice(i)
    \/ ReopenInvoice(i)
    \/ DeleteInvoice(i)

InvoiceLineNext ==
  \E l \in Lines :
    \/ \E q \in Quantities : CreateInvoiceConcept(l, q) \/ UpdateInvoiceConcept(l, q)
    \/ DeleteInvoiceConcept(l)
    \/ \E u \in Units :
         \/ CreateInvoiceConceptSerial(l, u)
         \/ \E next \in Units : UpdateInvoiceConceptSerial(l, u, next)
         \/ DeleteInvoiceConceptSerial(l, u)

SpentNext ==
  \E s \in Spents :
    \/ \E ls \in SUBSET SpentLines :
         \/ \E pairs \in SUBSET (SpentLines \X Units) :
              \/ \E st \in SpentStatus : CreateSpent(s, st, ls, pairs)
              \/ UpdateSpentGraph(s, ls, pairs)
         \/ UpdateCancelledSpentGraph(s, ls)
         \/ CancelSpent(s, ls)
    \/ RejectSpentCancel(s)
    \/ \E fileGone \in BOOLEAN : DeleteSpent(s, fileGone)
    \/ \E whole \in SUBSET SpentLines, k \in SpentLines, freed \in SUBSET Units,
          b \in Units : FailDeleteSpent(s, whole, k, freed, b)

SpentLineNext ==
  \E k \in SpentLines :
    \/ CreateSpentConcept(k)
    \/ DeleteSpentConcept(k)
    \/ \E freed \in SUBSET Units, b \in Units : FailDeleteSpentConcept(k, freed, b)
    \/ \E u \in Units : CreateSpentConceptSerial(k, u) \/ DeleteSpentConceptSerial(k, u)

Next == InvoiceNext \/ InvoiceLineNext \/ SpentNext \/ SpentLineNext

Spec == Init /\ [][Next]_vars

-----------------------------------------------------------------------------
(* Properties.                                                             *)

\* A unit on a line of an invoice that is not cancelled is held for it: it is
\* RESERVED or SOLD, never free stock (releaseReservedSaleSerial and
\* reverseInvoiceConceptCancellation look at the status alone).
ClaimedUnitsAreHeld ==
  \A r \in rows : invoice[InvoiceOf[r[1]]] # "cancelled" => status[r[2]] \in {"reserved", "sold"}

\* No unit is on two lines of invoices that are not cancelled: what
\* reserveSaleSerial's check of IN_STOCK is for.
NoUnitOnTwoInvoices ==
  \A r1, r2 \in rows :
    /\ r1[2] = r2[2]
    /\ invoice[InvoiceOf[r1[1]]] # "cancelled"
    /\ invoice[InvoiceOf[r2[1]]] # "cancelled"
    => r1 = r2

\* A unit is SOLD exactly while a live invoice shows it: a draft's units are
\* not sold, an issued invoice's are, and no sold unit is left without invoice.
SoldMatchesIssuedRows ==
  \A u \in Units :
    status[u] = "sold" <=> \E r \in rows : r[2] = u /\ invoice[InvoiceOf[r[1]]] = "issued"

\* A reservation always has a draft behind it, so no unit stays out of stock
\* with nobody able to release it.
ReservedMatchesDraftRows ==
  \A u \in Units :
    status[u] = "reserved" <=> \E r \in rows : r[2] = u /\ invoice[InvoiceOf[r[1]]] = "draft"

\* The sale half of the kardex agrees with the unit: one SALE OUT not yet
\* reversed when it is SOLD, none otherwise.
SaleKardexMatchesStatus ==
  \A u \in Units : saleNet[u] = IF status[u] = "sold" THEN 1 ELSE 0

\* The kardex never shows more units than there are: what it counts in is at
\* most one per unit that is in stock, reserved or sold, and nothing once the
\* unit was voided or deleted.
KardexNeverOverstates ==
  \A u \in Units :
    purchaseNet[u] <= IF status[u] \in {"in_stock", "reserved", "sold"} THEN 1 ELSE 0

\* A line never shows more serials than units, whichever of the two was
\* changed last (assertSerialCountWithinQuantity, assertUpdateRespectsSerials),
\* and an issued one names a unit for each that it bills, though serials and
\* quantity were counted when the issue came to its line.
LinesNameTheirUnits ==
  \A l \in lines :
    /\ Cardinality(RowsOfLine(l)) <= quantity[l]
    /\ invoice[InvoiceOf[l]] = "issued" => Cardinality(RowsOfLine(l)) = quantity[l]

\* The units of a cancelled spent are VOIDED, so none of them can be sold: no
\* handler brings a unit into a cancelled spent or revives one.
CancelledSpentUnitsAreVoided ==
  \A r \in purchaseRows : spent[SpentOf[r[1]]] = "cancelled" => status[r[2]] = "voided"

\* A sold unit leaves that state only because an invoice that shows it was
\* cancelled, whatever else the clients do on the purchase side.
SoldLeavesByCancellation ==
  [][\A u \in Units :
       status[u] = "sold" /\ status'[u] # "sold" =>
         \E r \in rows : /\ r[2] = u
                         /\ invoice[InvoiceOf[r[1]]] = "issued"
                         /\ invoice'[InvoiceOf[r[1]]] = "cancelled"]_vars

=============================================================================
