--------------------------- MODULE QuantityStock ---------------------------
(***************************************************************************)
(* The stock of the items that are counted and have no serial numbers:     *)
(* what InventoryLedgerService writes in the kardex for the lines of        *)
(* invoices and spents, and what the services of items, documents and      *)
(* lines do around it.  One action is one handler, run to its end or to    *)
(* the statement that stops it; nothing is rolled back but the graph of a  *)
(* spent.  The units with serial numbers are InventoryLedger's: here the   *)
(* lines have none.                                                        *)
(*                                                                         *)
(* Ways to leave the kardex and the documents apart are remembered in      *)
(* mishaps, so that each property says under which of them it holds.       *)
(***************************************************************************)
EXTENDS Integers

CONSTANTS
  Items, Invoices, Lines, Spents, SpentLines,
  InvoiceOf,    \* invoice_concepts.invoice_id, which no update changes
  SpentOf,      \* spent_concepts.spent_id
  Position,     \* position of a line: the order the lines are loaded in
  MaxQuantity,  \* bound on the quantity of a line
  MaxMoves,     \* bound on what a line moves of an item, either way
  Loads,        \* bound: the items and lines that the clients of a behaviour write
  None

AllLines == Lines \cup SpentLines
Quantities == 0..MaxQuantity

ASSUME StockAssumption ==
  /\ MaxQuantity \in Nat /\ MaxMoves \in Nat
  /\ Lines \cap SpentLines = {} /\ Invoices \cap Spents = {}
  /\ InvoiceOf \in [Lines -> Invoices] /\ SpentOf \in [SpentLines -> Spents]
  /\ Position \in [AllLines -> Nat]
  /\ Loads \subseteq [items : SUBSET Items, lines : SUBSET AllLines]
  /\ None \notin Items \cup [item : Items \cup {None}, quantity : Quantities]

VARIABLES
  kind,     \* items: "untracked", "counted" (stock), "serial" (stock and
            \* serialNumber), "absent"
  invoice,  \* invoices.status: "issued" stands for every one after draft
  spent,    \* spents.status: "open" stands for every one but cancelled
  line,     \* item and quantity of each line, None: no row
  ins,      \* stock_movements per line and item: the sum of direction IN
  outs,     \* ... and of direction OUT
  mishaps,  \* history: what has gone wrong
  load      \* bound: the items and lines of this behaviour

vars == <<kind, invoice, spent, line, ins, outs, mishaps, load>>

-----------------------------------------------------------------------------
Kinds == {"untracked", "counted", "serial"}
Line(it, q) == [item |-> it, quantity |-> q]
LineRows == [item : Items \cup {None}, quantity : Quantities]

LinesOf(i) == {l \in Lines : InvoiceOf[l] = i /\ line[l] # None}
SpentLinesOf(s) == {k \in SpentLines : SpentOf[k] = s /\ line[k] # None}

\* Items that a body may name: resolveOptionalAccessibleItem answers 404.
Choices == {it \in Items : kind[it] # "absent"} \cup {None}

IsCounted(it) == it # None /\ kind[it] = "counted"
IsSerial(it) == it # None /\ kind[it] = "serial"
Counted(x) == IsCounted(line[x].item)

Zero == [it \in Items |-> 0]
Moved(x) == \E it \in Items : ins[x][it] # 0 \/ outs[x][it] # 0

\* The kardex with one more movement for each line of a set, of its item and
\* its quantity.
Plus(moves, ls) ==
  [x \in AllLines |-> IF x \in ls
                      THEN [moves[x] EXCEPT ![line[x].item] = @ + line[x].quantity]
                      ELSE moves[x]]

\* The handlers take the lines by position; those before the first that stops.
Before(ls, stops) == {x \in ls : \A y \in stops : Position[x] < Position[y]}

\* createMovement refuses a movement of nothing.
Empty(x) == line[x].quantity = 0

Room(ls) == \A x \in ls, it \in Items : ins[x][it] + outs[x][it] + MaxQuantity <= MaxMoves
Mishap(p, m) == mishaps' = IF p THEN mishaps \cup {m} ELSE mishaps

-----------------------------------------------------------------------------
(* Items: ItemService.                                                     *)

CreateItem(it) ==
  /\ it \in load.items /\ kind[it] = "absent"
  /\ \E k \in Kinds : kind' = [kind EXCEPT ![it] = k]
  /\ UNCHANGED <<invoice, spent, line, ins, outs, mishaps, load>>

\* assertSerialNumberRequiresStock is all that updateById asks of the flags.
UpdateItem(it) ==
  /\ kind[it] # "absent"
  /\ \E k \in Kinds \ {kind[it]} : kind' = [kind EXCEPT ![it] = k]
  /\ Mishap(TRUE, "switched")
  /\ UNCHANGED <<invoice, spent, line, ins, outs, load>>

\* The movements of an item keep it, its lines only lose it (SET NULL).
DeleteItem(it) ==
  /\ kind[it] # "absent"
  /\ \A x \in AllLines : ins[x][it] = 0 /\ outs[x][it] = 0
  /\ kind' = [kind EXCEPT ![it] = "absent"]
  /\ line' = [x \in AllLines |-> IF line[x] # None /\ line[x].item = it
                                 THEN [line[x] EXCEPT !.item = None] ELSE line[x]]
  /\ UNCHANGED <<invoice, spent, ins, outs, mishaps, load>>

-----------------------------------------------------------------------------
(* Invoices and their lines.                                               *)

\* create strips the lines of the body.
CreateInvoice(i) ==
  /\ invoice[i] = "absent"
  /\ \E st \in {"draft", "issued", "cancelled"} : invoice' = [invoice EXCEPT ![i] = st]
  /\ UNCHANGED <<kind, spent, line, ins, outs, mishaps, load>>

\* updateById of a draft saves the status of the body and moves nothing.
PatchInvoice(i) ==
  /\ invoice[i] = "draft"
  /\ \E st \in {"issued", "cancelled"} : invoice' = [invoice EXCEPT ![i] = st]
  /\ Mishap(TRUE, "patched")
  /\ UNCHANGED <<kind, spent, line, ins, outs, load>>

\* confirmInvoiceIssue: a counted line leaves, an empty one stops the issue, and
\* so does one that wants serial numbers; what has left stays out.
IssueInvoice(i) ==
  LET ls == LinesOf(i)
      stops == {l \in ls : IF Counted(l) THEN Empty(l) ELSE IsSerial(line[l].item) /\ ~Empty(l)}
      leave == {l \in Before(ls, stops) : Counted(l)}
  IN
  /\ invoice[i] = "draft" /\ Room(ls)
  /\ outs' = Plus(outs, leave)
  /\ invoice' = IF stops = {} THEN [invoice EXCEPT ![i] = "issued"] ELSE invoice
  /\ Mishap(stops # {} /\ leave # {}, "sale_halfway")
  /\ UNCHANGED <<kind, spent, line, ins, load>>

\* Mutation: what comes back is not asked to have left.
AnyLine(l) == TRUE

HasSaleOut(l) == \E it \in Items : outs[l][it] # 0

\* reverseInvoiceCancellation of an issued invoice; a draft only changes status.
CancelInvoice(i) ==
  LET ls == {l \in LinesOf(i) : invoice[i] = "issued" /\ Counted(l) /\ HasSaleOut(l)}
      stops == {l \in ls : Empty(l)}
  IN
  /\ invoice[i] \in {"draft", "issued"} /\ Room(ls)
  /\ ins' = Plus(ins, Before(ls, stops))
  /\ invoice' = IF stops = {} THEN [invoice EXCEPT ![i] = "cancelled"] ELSE invoice
  /\ Mishap(stops # {}, "sale_halfway")
  /\ UNCHANGED <<kind, spent, line, outs, load>>

\* updateStatusById lets a cancelled invoice go back and moves nothing.
ReopenInvoice(i) ==
  /\ invoice[i] = "cancelled"
  /\ invoice' = [invoice EXCEPT ![i] = "issued"]
  /\ Mishap(TRUE, "reopened")
  /\ UNCHANGED <<kind, spent, line, ins, outs, load>>

\* Refused while a line has movements; the lines go with the invoice.
DeleteInvoice(i) ==
  /\ invoice[i] = "draft"
  /\ \A l \in LinesOf(i) : ~Moved(l)
  /\ invoice' = [invoice EXCEPT ![i] = "absent"]
  /\ line' = [x \in AllLines |-> IF x \in LinesOf(i) THEN None ELSE line[x]]
  /\ UNCHANGED <<kind, spent, ins, outs, mishaps, load>>

\* InvoiceConceptService.create and updateById, of a draft; an update may keep
\* item and quantity.
SaveInvoiceConcept(l) ==
  /\ l \in Lines \cap load.lines
  /\ invoice[InvoiceOf[l]] = "draft"
  /\ \E it \in Choices, q \in Quantities : line' = [line EXCEPT ![l] = Line(it, q)]
  /\ UNCHANGED <<kind, invoice, spent, ins, outs, mishaps, load>>

DeleteInvoiceConcept(l) ==
  /\ l \in Lines /\ line[l] # None
  /\ invoice[InvoiceOf[l]] = "draft"
  /\ ~Moved(l)
  /\ line' = [line EXCEPT ![l] = None]
  /\ UNCHANGED <<kind, invoice, spent, ins, outs, mishaps, load>>

-----------------------------------------------------------------------------
(* Spents and their lines.                                                 *)

\* What a line of an open spent is to have in the kardex, and nothing else.
Purchase(it, q) == IF IsCounted(it) THEN [Zero EXCEPT ![it] = q] ELSE Zero

\* Mutation: the movement that a line had is not deleted first.
AddPurchase(k, it, q) ==
  /\ ins' = IF spent[SpentOf[k]] = "open" /\ IsCounted(it)
            THEN [ins EXCEPT ![k][it] = @ + q] ELSE ins
  /\ UNCHANGED outs

\* syncPurchaseQuantityMovement: a cancelled spent and an item that is not
\* counted leave what there is; the movement of an empty line is deleted and
\* not written again.
SyncPurchase(k, it, q) ==
  LET syncs == spent[SpentOf[k]] = "open" /\ IsCounted(it) IN
  /\ ins' = IF syncs THEN [ins EXCEPT ![k] = Purchase(it, q)] ELSE ins
  /\ outs' = IF syncs THEN [outs EXCEPT ![k] = Zero] ELSE outs

CreateSpentConcept(k) ==
  /\ k \in SpentLines \cap load.lines /\ line[k] = None
  /\ spent[SpentOf[k]] # "absent"
  /\ \E it \in Choices, q \in Quantities :
       /\ line' = [line EXCEPT ![k] = Line(it, q)]
       /\ SyncPurchase(k, it, q)
  /\ UNCHANGED <<kind, invoice, spent, mishaps, load>>

\* SpentConceptService.updateById.  itemForInventory falls back on the item the
\* line had: unlinked, the line goes on counting there.
UpdateSpentConcept(k) ==
  /\ k \in SpentLines /\ line[k] # None
  /\ \E it \in Choices, q \in Quantities :
       /\ line' = [line EXCEPT ![k] = Line(it, q)]
       /\ SyncPurchase(k, IF it # None THEN it ELSE line[k].item, q)
       /\ Mishap(Counted(k) /\ ~IsCounted(it), "relinked")
  /\ UNCHANGED <<kind, invoice, spent, load>>

\* purgeSpentConceptInventory, then the row.
DeleteSpentConcept(k) ==
  /\ k \in SpentLines /\ line[k] # None
  /\ line' = [line EXCEPT ![k] = None]
  /\ ins' = [ins EXCEPT ![k] = Zero]
  /\ outs' = [outs EXCEPT ![k] = Zero]
  /\ UNCHANGED <<kind, invoice, spent, mishaps, load>>

\* The lines of a body: an item that exists or none, and any quantity.
Bodies(s) ==
  UNION {[ks -> [item : Choices, quantity : Quantities]] :
           ks \in SUBSET {k \in SpentLines \cap load.lines : SpentOf[k] = s}}

\* normalizeLine: at least one of each, and the serial numbers of an item that
\* has them.
Valid(body) == \A k \in DOMAIN body : body[k].quantity > 0 /\ ~IsSerial(body[k].item)

\* persistLineInventory and replaceLineInventory.
Inventory(st, b) == IF st = "open" THEN Purchase(b.item, b.quantity) ELSE Zero

\* createSpentGraph, in one transaction.
CreateSpent(s) ==
  /\ spent[s] = "absent"
  /\ \E st \in {"open", "cancelled"}, body \in Bodies(s) :
       /\ Valid(body)
       /\ spent' = [spent EXCEPT ![s] = st]
       /\ line' = [x \in AllLines |-> IF x \in DOMAIN body THEN body[x] ELSE line[x]]
       /\ ins' = [x \in AllLines |-> IF x \in DOMAIN body THEN Inventory(st, body[x]) ELSE ins[x]]
  /\ UNCHANGED <<kind, invoice, outs, mishaps, load>>

\* cancelSpentInventory: every counted line is given back, up to an empty one.
Cancels(s, st) == spent[s] = "open" /\ st = "cancelled"
Stops(s, st) == {k \in SpentLinesOf(s) : Cancels(s, st) /\ Counted(k) /\ Empty(k)}
GivenBack(s, st) ==
  {k \in Before(SpentLinesOf(s), Stops(s, st)) : Cancels(s, st) /\ Counted(k)}

\* updateById without lines.
UpdateSpent(s, st) ==
  /\ spent[s] # "absent"
  /\ st = "open" => spent[s] = "open"
  /\ Room(GivenBack(s, st))
  /\ outs' = Plus(outs, GivenBack(s, st))
  /\ spent' = IF Stops(s, st) = {} THEN [spent EXCEPT ![s] = st] ELSE spent
  /\ Mishap(Stops(s, st) # {} /\ GivenBack(s, st) # {}, "purchase_halfway")
  /\ UNCHANGED <<kind, invoice, line, ins, load>>

\* updateSpentGraph: lines of a cancelled spent keep their movements, lines of
\* an open one get theirs again, lines that are not in the body go with theirs.
Graph(s, st, body) ==
  LET replaced == IF st = "open" THEN DOMAIN body ELSE {} IN
  /\ spent' = [spent EXCEPT ![s] = st]
  /\ line' = [x \in AllLines |-> IF x \in DOMAIN body THEN body[x]
                                 ELSE IF x \in SpentLinesOf(s) THEN None ELSE line[x]]
  /\ ins' = [x \in AllLines |->
               IF x \in replaced THEN Purchase(body[x].item, body[x].quantity)
               ELSE IF x \in SpentLinesOf(s) \ DOMAIN body THEN Zero ELSE ins[x]]
  /\ outs' = [x \in AllLines |->
                IF x \in replaced \cup (SpentLinesOf(s) \ DOMAIN body) THEN Zero
                ELSE Plus(outs, GivenBack(s, st))[x]]

\* updateById with lines: the cancellation comes first, outside the transaction,
\* and stays when the lines are refused.
UpdateSpentGraph(s, st) ==
  /\ spent[s] # "absent"
  /\ st = "open" => spent[s] = "open"
  /\ Room(GivenBack(s, st))
  /\ \E body \in Bodies(s) :
       LET saved == Stops(s, st) = {} /\ Valid(body) IN
       /\ IF saved THEN Graph(s, st, body)
          ELSE /\ outs' = Plus(outs, GivenBack(s, st))
               /\ UNCHANGED <<spent, line, ins>>
       /\ Mishap(~saved /\ GivenBack(s, st) # {}, "purchase_halfway")
  /\ UNCHANGED <<kind, invoice, load>>

\* deleteById: purgeSpentInventory, the file, the row.  Dropbox may refuse, and
\* then the lines stay without their movements.
DeleteSpent(s) ==
  LET purged(moves) == [x \in AllLines |-> IF x \in SpentLinesOf(s) THEN Zero ELSE moves[x]] IN
  /\ spent[s] # "absent"
  /\ ins' = purged(ins) /\ outs' = purged(outs)
  /\ \/ /\ spent' = [spent EXCEPT ![s] = "absent"]
        /\ line' = [x \in AllLines |-> IF x \in SpentLinesOf(s) THEN None ELSE line[x]]
        /\ UNCHANGED mishaps
     \/ /\ Mishap(TRUE, "purchase_halfway")
        /\ UNCHANGED <<spent, line>>
  /\ UNCHANGED <<kind, invoice, load>>

-----------------------------------------------------------------------------
Init ==
  /\ kind = [it \in Items |-> "absent"]
  /\ invoice = [i \in Invoices |-> "absent"]
  /\ spent = [s \in Spents |-> "absent"]
  /\ line = [x \in AllLines |-> None]
  /\ ins = [x \in AllLines |-> Zero]
  /\ outs = [x \in AllLines |-> Zero]
  /\ mishaps = {}
  /\ load \in Loads

Next ==
  \/ \E it \in Items : CreateItem(it) \/ UpdateItem(it) \/ DeleteItem(it)
  \/ \E i \in Invoices :
       \/ CreateInvoice(i) \/ PatchInvoice(i) \/ IssueInvoice(i) \/ CancelInvoice(i)
       \/ ReopenInvoice(i) \/ DeleteInvoice(i)
  \/ \E l \in Lines : SaveInvoiceConcept(l) \/ DeleteInvoiceConcept(l)
  \/ \E k \in SpentLines : CreateSpentConcept(k) \/ UpdateSpentConcept(k) \/ DeleteSpentConcept(k)
  \/ \E s \in Spents :
       \/ CreateSpent(s) \/ DeleteSpent(s)
       \/ \E st \in {"open", "cancelled"} : UpdateSpent(s, st) \/ UpdateSpentGraph(s, st)

Spec == Init /\ [][Next]_vars

-----------------------------------------------------------------------------
(* Properties.                                                             *)

StockTypeOK ==
  /\ kind \in [Items -> Kinds \cup {"absent"}]
  /\ invoice \in [Invoices -> {"absent", "draft", "issued", "cancelled"}]
  /\ spent \in [Spents -> {"absent", "open", "cancelled"}]
  /\ line \in [AllLines -> LineRows \cup {None}]
  /\ ins \in [AllLines -> [Items -> Nat]] /\ outs \in [AllLines -> [Items -> Nat]]
  /\ mishaps \subseteq {"switched", "patched", "reopened", "sale_halfway", "relinked", "purchase_halfway"}
  /\ load \in Loads

Without(ms) == mishaps \cap ms = {}

\* What the document of a line says of an item.
Due(x, it, live) == IF live /\ line[x].item = it /\ IsCounted(it) THEN line[x].quantity ELSE 0

\* The kardex has exactly the counted lines of the issued invoices, however they
\* were edited as drafts, and the cancelled ones have nothing left in it.  And
\* whatever becomes of the flags of the items, and whichever way an invoice was
\* issued, a cancellation brings back at most what left (hasSaleOut).
SalesAreCounted ==
  /\ Without({"switched", "patched", "reopened", "sale_halfway"}) =>
       \A l \in Lines, it \in Items : line[l] # None =>
         outs[l][it] - ins[l][it] = Due(l, it, invoice[InvoiceOf[l]] = "issued")
  /\ Without({"reopened", "sale_halfway"}) =>
       \A l \in Lines, it \in Items : ins[l][it] <= outs[l][it]

\* The kardex has exactly the counted lines of the spents that are not
\* cancelled, by whichever of the two ways to write them, line or graph, they
\* were edited.
PurchasesAreCounted ==
  Without({"switched", "relinked", "purchase_halfway"}) =>
    \A k \in SpentLines, it \in Items : line[k] # None =>
      ins[k][it] - outs[k][it] = Due(k, it, spent[SpentOf[k]] = "open")
=============================================================================
