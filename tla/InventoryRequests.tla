--------------------------- MODULE InventoryRequests ---------------------------
(***************************************************************************)
(* The handlers of InventoryLedger await by await.  A request reads what   *)
(* it decides on, one query at a time, and then performs its statements    *)
(* one at a time; the decisions use what was read, however old it is by    *)
(* then.  There is no lock, and one transaction, in which the graph of a   *)
(* spent is saved: the steps of two requests interleave freely, a statement *)
(* that the database refuses ends its request where it is, and so does a   *)
(* crash of the process.                                                   *)
(*                                                                         *)
(* A query with relations is one statement, and so is the save of a row.   *)
(* resolveAvailableSaleSerial asks what reserveSaleSerial asks again right *)
(* after it, so the two are one query here.  Handlers that write once (the *)
(* creation of documents and lines) are the actions of InventoryLedger.    *)
(***************************************************************************)
EXTENDS InventoryLedger, SequencesExt

CONSTANTS
  Workers,     \* requests that may be served at the same time
  Position,    \* invoice_concepts.position: the order lines are loaded in
  Loads        \* what the clients of a behaviour do: the kinds of requests a
               \* worker serves, the units, lines and spent lines they name, and
               \* bounds on the quantities and the crashes

AllKinds == {"status", "patch_invoice", "delete_invoice", "add_serial", "swap_serial", "drop_serial",
             "quantity", "delete_line", "buy_serial", "return_serial",
             "cancel_spent", "edit_spent", "delete_spent", "delete_spent_line"}

ASSUME RequestsAssumption ==
  /\ Loads \subseteq [kinds : [Workers -> SUBSET AllKinds], crashes : Nat,
                      units : SUBSET Units, lines : SUBSET Lines, most : Quantities,
                      spentLines : SUBSET SpentLines]
  /\ Position \in [Lines -> Nat]
  /\ IsFiniteSet(Workers)

VARIABLES
  job,       \* what each worker is doing
  crashes,   \* how many requests were cut short
  load       \* bound: what the clients of this behaviour do

requestVars == <<vars, job, crashes, load>>

\* at: the next query of the request, or "write"; seen: what it keeps of the
\* queries it made; todo: the statements it is going to execute.
Idle == [at |-> "idle", req |-> <<>>, seen |-> {}, todo |-> <<>>]
Busy(w) == job[w].at # "idle"
Quiet == \A w \in Workers : ~Busy(w)

Names(x, field, v) == field \in DOMAIN x /\ x[field] = v

Requests(units, invoiced, most, bought) ==
  UNION {
    {"status"} \X Invoices \X {"issued", "cancelled"},
    {"patch_invoice", "delete_invoice"} \X Invoices,
    {"add_serial", "drop_serial"} \X invoiced \X units,
    {"swap_serial"} \X invoiced \X units \X units,
    {"quantity"} \X invoiced \X (0..most),
    {"delete_line"} \X invoiced,
    {"buy_serial", "return_serial"} \X bought \X units,
    {"cancel_spent", "delete_spent"} \X Spents,
    {"edit_spent"} \X Spents \X (SUBSET bought) \X (SUBSET (bought \X units)),
    {"delete_spent_line"} \X bought}

FirstQuery(kind) ==
  CASE kind \in {"status", "patch_invoice", "delete_invoice"} -> "invoice"
    [] kind \in {"add_serial", "quantity", "delete_line"} -> "line"
    [] kind \in {"swap_serial", "drop_serial"} -> "row"
    [] kind \in {"buy_serial", "delete_spent_line"} -> "spent_line"
    [] kind = "return_serial" -> "spent_row"
    [] kind \in {"cancel_spent", "edit_spent", "delete_spent"} -> "spent"

\* A name is given to a new document only when no request under way still holds
\* a deleted one of that name.
Unnamed(v) ==
  \A w \in Workers :
    /\ \A n \in DOMAIN job[w].req : job[w].req[n] # v
    /\ Busy(w) /\ job[w].req[1] = "edit_spent" => v \notin job[w].req[3]
    /\ \A n \in DOMAIN job[w].todo : ~Names(job[w].todo[n], "line", v)

\* The body of an edit names the lines that the client knows by their id.
\* MaxDrift bounds the cancellations of a spent that edits bring back.
Start(w, req) ==
  /\ ~Busy(w)
  /\ req[1] \in load.kinds[w]
  /\ req[1] = "edit_spent" =>
       /\ IsGraph(req[2], req[3], req[4])
       /\ \A k \in req[3] \ spentLines : Unnamed(k)
  /\ req[1] = "cancel_spent" => \A u \in Units : purchaseNet[u] > -MaxDrift
  /\ job' = [job EXCEPT ![w] = [Idle EXCEPT !.at = FirstQuery(req[1]), !.req = req,
                                !.seen = IF req[1] = "edit_spent" THEN req[3] \cap spentLines ELSE {}]]
  /\ UNCHANGED <<vars, crashes, load>>

-----------------------------------------------------------------------------
(* Statements, as records: the operation and what it names.                  *)

SetUnit(u, st) == [op |-> "unit", unit |-> u, to |-> st]
SetInvoice(i, st) == [op |-> "invoice", invoice |-> i, to |-> st]
SetSpent(s, st) == [op |-> "spent", spent |-> s, to |-> st]
OnUnit(op, u) == [op |-> op, unit |-> u]
OnLine(op, l) == [op |-> op, line |-> l]
OnPair(op, l, u) == [op |-> op, line |-> l, unit |-> u]
Fail == [op |-> "fail"]
Nothing == [op |-> "nothing"]

\* Plans are made for ids.  A unit or a row that is inserted again has another
\* id: deleting the old one affects no row, anything else with it is refused.
Outdated(x, units, pairs, bought) ==
  \/ \E u \in units : Names(x, "unit", u) \/ Names(x, "next", u)
  \/ x.op \in {"drop_row", "swap_row"} /\ <<x.line, x.unit>> \in pairs
  \/ x.op = "drop_bought" /\ <<x.line, x.unit>> \in bought

Deletes == {"drop_row", "drop_bought", "delete_unit", "delete_unit_moves"}

\* A plan that still has its unit to create names the one it will create; the
\* graph of a spent keeps the rows it is to delete that are still those it read.
Renew(todo, units, pairs, bought) ==
  IF todo # <<>> /\ Head(todo).op = "create_unit" THEN todo
  ELSE IF todo # <<>> /\ Head(todo).op = "save_graph"
    THEN <<[Head(todo) EXCEPT !.out = {r \in @ \ bought : r[2] \notin units}]>>
  ELSE [n \in DOMAIN todo |->
          IF ~Outdated(todo[n], units, pairs, bought) THEN todo[n]
          ELSE IF todo[n].op \in Deletes THEN Nothing ELSE Fail]

-----------------------------------------------------------------------------
(* Queries.  Each either goes on to the next one, ends the request with an   *)
(* error, or knows enough to list the statements that remain.                *)

Goes(w, at, seen) == job' = [job EXCEPT ![w].at = at, ![w].seen = seen]
Writes(w, todo) ==
  job' = [job EXCEPT ![w] = IF todo = <<>> THEN Idle
                            ELSE [@ EXCEPT !.at = "write", !.seen = {}, !.todo = todo]]
Ends(w) == job' = [job EXCEPT ![w] = Idle]

Query(w, at, kinds) ==
  /\ job[w].at = at
  /\ job[w].req[1] \in kinds
  /\ UNCHANGED <<vars, crashes, load>>

LinesInOrder(i) ==
  CHOOSE seq \in SetToSeqs(LinesOf(i)) :
    \A m, n \in DOMAIN seq : m < n => Position[seq[m]] <= Position[seq[n]]
Concat(seq, Op(_)) == FlattenSeq([n \in DOMAIN seq |-> Op(seq[n])])

\* Mutation: the units are marked in one pass, the movements written in a second.
MarkThenMove(pairs) ==
  LET seq == SetToSeq(pairs)
  IN IF \A r \in pairs : Saleable(r[2])
     THEN [n \in DOMAIN seq |-> SetUnit(seq[n][2], "sold")]
          \o [n \in DOMAIN seq |-> OnPair("sale_out", seq[n][1], seq[n][2])]
     ELSE <<Fail>>

\* The units of one line leave one by one, down to one that cannot.
SellPlan(pairs) ==
  LET Sell(r) == IF Saleable(r[2])
                 THEN <<SetUnit(r[2], "sold"), OnPair("sale_out", r[1], r[2])>>
                 ELSE <<Fail>>
  IN Concat(SetToSeq(pairs), Sell)

\* confirmInvoiceIssue: line by line, each checked when its turn comes, on what
\* the one query loaded.
IssuePlan(i) ==
  LET SellLine(l) == IF Complete(l) THEN SellPlan(RowsOfLine(l)) ELSE <<Fail>>
  IN Concat(LinesInOrder(i), SellLine)

\* Mutation: releaseReservedSaleSerial without its check of the status.
ReleaseAny(r) == <<SetUnit(r[2], "in_stock")>>

Release(r) == IF status[r[2]] = "reserved" THEN <<SetUnit(r[2], "in_stock")>> ELSE <<>>
ReleasePlan(pairs) == Concat(SetToSeq(pairs), Release)

\* reverseInvoiceCancellation.
ReturnPlan(i) ==
  LET Return(r) == IF status[r[2]] = "sold"
                   THEN <<SetUnit(r[2], "in_stock"), OnPair("sale_in", r[1], r[2])>>
                   ELSE Release(r)
  IN Concat(SetToSeq(RowsOfInvoice(i)), Return)

\* updateStatusById, updateById and deleteById read the invoice first; the lines
\* and units are loaded by a later query.  A PATCH without a status saves the
\* row as it was read, its status with it.
ReadInvoice(w) ==
  LET i == job[w].req[2] IN
  /\ Query(w, "invoice", {"status", "patch_invoice", "delete_invoice"})
  /\ \/ invoice[i] = "absent" /\ Ends(w)
     \/ /\ job[w].req[1] = "delete_invoice" /\ invoice[i] # "absent"
        /\ IF invoice[i] = "draft" THEN Goes(w, "invoice_lines", "draft") ELSE Ends(w)
     \/ /\ job[w].req[1] = "patch_invoice" /\ invoice[i] # "absent"
        /\ IF invoice[i] = "draft" THEN Writes(w, <<SetInvoice(i, "draft")>>) ELSE Ends(w)
     \/ /\ job[w].req[1] = "status" /\ invoice[i] # "absent"
        /\ IF invoice[i] = "draft" \/ (invoice[i] = "issued" /\ job[w].req[3] = "cancelled")
           THEN Goes(w, "invoice_lines", invoice[i])
           ELSE Writes(w, <<SetInvoice(i, job[w].req[3])>>)

LoadInvoiceLines(w) ==
  LET i == job[w].req[2]
      st == job[w].req[3]
      moves == CASE st = "issued" -> IssuePlan(i)
                 [] st = "cancelled" /\ job[w].seen = "draft" -> ReleasePlan(RowsOfInvoice(i))
                 [] OTHER -> ReturnPlan(i)
  IN
  /\ Query(w, "invoice_lines", {"status", "delete_invoice"})
  /\ Writes(w, IF job[w].req[1] = "status" THEN Append(moves, SetInvoice(i, st))
               ELSE Append(ReleasePlan(RowsOfInvoice(i)), [op |-> "delete_invoice", invoice |-> i]))

\* A line is read with its invoice, which must be a draft.
ReadLine(w) ==
  LET l == job[w].req[2] IN
  /\ Query(w, "line", {"add_serial", "quantity", "delete_line"})
  /\ IF l \in lines /\ invoice[InvoiceOf[l]] = "draft"
     THEN Goes(w, IF job[w].req[1] = "delete_line" THEN "line_rows" ELSE "count", quantity[l])
     ELSE Ends(w)

LoadLineRows(w) ==
  LET l == job[w].req[2] IN
  /\ Query(w, "line_rows", {"delete_line"})
  /\ Writes(w, Append(ReleasePlan(RowsOfLine(l)), OnLine("delete_line", l)))

CountRows(w) ==
  LET l == job[w].req[2]
      count == Cardinality(RowsOfLine(l))
  IN
  /\ Query(w, "count", {"add_serial", "quantity"})
  /\ \/ /\ job[w].req[1] = "add_serial"
        /\ IF count < job[w].seen
           THEN job' = [job EXCEPT ![w].at = "unit", ![w].seen = {},
                                   ![w].todo = <<OnPair("add_row", l, job[w].req[3])>>]
           ELSE Ends(w)
     \/ /\ job[w].req[1] = "quantity"
        /\ IF count <= job[w].req[3]
           THEN Writes(w, <<[op |-> "quantity", line |-> l, to |-> job[w].req[3]]>>)
           ELSE Ends(w)

\* A row is read with its line, its invoice and its unit.
ReadRow(w) ==
  LET l == job[w].req[2]
      u == job[w].req[3]
      next == job[w].req[4]
      swap == [op |-> "swap_row", line |-> l, unit |-> u, next |-> next]
  IN
  /\ Query(w, "row", {"swap_serial", "drop_serial"})
  /\ IF <<l, u>> \in rows /\ invoice[InvoiceOf[l]] = "draft"
     THEN IF job[w].req[1] = "drop_serial"
          THEN Writes(w, Append(Release(<<l, u>>), OnPair("drop_row", l, u)))
          ELSE IF next = u THEN Ends(w)
          ELSE job' = [job EXCEPT ![w].at = "unit",
                                  ![w].todo = Append(Release(<<l, u>>), swap)]
     ELSE Ends(w)

\* reserveSaleSerial's own query, and its check.
ReadUnit(w) ==
  LET req == job[w].req
      u == IF req[1] = "swap_serial" THEN req[4] ELSE req[3]
  IN
  /\ Query(w, "unit", {"add_serial", "swap_serial"})
  /\ IF Reservable(u) THEN Writes(w, <<SetUnit(u, "reserved")>> \o job[w].todo) ELSE Ends(w)

ReadSpent(w) ==
  LET s == job[w].req[2] IN
  /\ Query(w, "spent", {"cancel_spent", "edit_spent", "delete_spent"})
  /\ \/ /\ job[w].req[1] = "cancel_spent"
        /\ IF spent[s] = "open" THEN Goes(w, "spent_rows", {}) ELSE Ends(w)
     \/ /\ job[w].req[1] = "edit_spent"
        /\ IF spent[s] # "absent" THEN Goes(w, "graph_lines", <<spent[s], job[w].seen>>) ELSE Ends(w)
     \/ /\ job[w].req[1] = "delete_spent"
        /\ IF spent[s] # "absent" THEN Goes(w, "spent_idle", {}) ELSE Ends(w)

\* cancelSpentInventory: all the units are checked, then voided one by one.
LoadSpentRows(w) ==
  LET s == job[w].req[2]
      out == {r \in purchaseRows : SpentOf[r[1]] = s}
      Void(r) == <<SetUnit(r[2], "voided"), OnPair("purchase_out", r[1], r[2])>>
  IN
  /\ Query(w, "spent_rows", {"cancel_spent"})
  /\ IF \A u \in UnitsIn(out) : Mutable(u)
     THEN Writes(w, Append(Concat(SetToSeq(out), Void), SetSpent(s, "cancelled")))
     ELSE Ends(w)

ReadSpentLine(w) ==
  LET k == job[w].req[2] IN
  /\ Query(w, "spent_line", {"buy_serial", "delete_spent_line"})
  /\ \/ /\ job[w].req[1] = "buy_serial"
        /\ IF k \in spentLines /\ SpentOpen(k) THEN Goes(w, "unit_exists", {}) ELSE Ends(w)
     \/ /\ job[w].req[1] = "delete_spent_line"
        /\ IF k \in spentLines THEN Goes(w, "purge_rows", {}) ELSE Ends(w)

\* registerPurchaseSerial.
ReadUnitExists(w) ==
  LET k == job[w].req[2]
      u == job[w].req[3]
  IN
  /\ Query(w, "unit_exists", {"buy_serial"})
  /\ IF status[u] = "absent"
     THEN Writes(w, <<OnUnit("create_unit", u), OnPair("purchase_in", k, u),
                      OnPair("add_bought", k, u)>>)
     ELSE Ends(w)

\* purgeSpentConceptInventory: its movements, then row and unit of each serial.
PurgePlan(k) ==
  LET Purge(r) == <<OnPair("drop_bought", k, r[2]), OnUnit("delete_unit", r[2])>>
  IN IF LineIdle(k)
     THEN <<OnLine("delete_line_moves", k)>>
            \o Concat(SetToSeq({r \in purchaseRows : r[1] = k}), Purge)
     ELSE <<Fail>>

LoadPurgeRows(w) ==
  LET k == job[w].req[2] IN
  /\ Query(w, "purge_rows", {"delete_spent_line"})
  /\ Writes(w, Append(PurgePlan(k), OnLine("delete_spent_line", k)))

\* purgeSpentInventory: all the units are checked, the lines are listed, and
\* each is read again when its turn comes.  Then the file, which Dropbox may
\* refuse to delete, and the spent.
CheckSpentIdle(w) ==
  LET s == job[w].req[2] IN
  /\ Query(w, "spent_idle", {"delete_spent"})
  /\ IF \A k \in SpentLinesOf(s) : LineIdle(k) THEN Goes(w, "spent_lines", {}) ELSE Ends(w)

ListSpentLines(w) ==
  LET s == job[w].req[2]
      Turn(k) == <<OnLine("purge_line", k)>>
  IN
  /\ Query(w, "spent_lines", {"delete_spent"})
  /\ \E end \in {Fail, [op |-> "delete_spent", spent |-> s]} :
       Writes(w, Append(Concat(SetToSeq(SpentLinesOf(s)), Turn), end))

PurgeNextLine(w) ==
  LET x == Head(job[w].todo) IN
  /\ job[w].at = "write" /\ x.op = "purge_line"
  /\ Writes(w, PurgePlan(x.line) \o Tail(job[w].todo))
  /\ UNCHANGED <<vars, crashes, load>>

\* assertExistingSerialsRemainMutable.
SerialsRemain(old, pairs) == \A r \in old \ pairs : Mutable(r[2])

\* updateSpentGraph reads the lines and their units, and what it will write
\* follows from them: rows out, rows in, lines to delete, the status as it was.
\* The units are judged as they were read.
LoadGraph(w) ==
  LET s == job[w].req[2]
      ls == job[w].req[3]
      pairs == job[w].req[4]
      old == {r \in purchaseRows : SpentOf[r[1]] = s}
      known == job[w].seen[2]
      live == job[w].seen[1] # "cancelled"
      graph == [op |-> "save_graph", spent |-> s, to |-> job[w].seen[1],
                lines |-> ls, dropped |-> SpentLinesOf(s) \ ls,
                out |-> {r \in old \ pairs : live \/ r[1] \notin ls},
                new |-> IF live THEN pairs \ old ELSE {}]
  IN
  /\ Query(w, "graph_lines", {"edit_spent"})
  /\ IF known \subseteq SpentLinesOf(s) /\ SerialsRemain(old, pairs)
     THEN job' = [job EXCEPT ![w].at = "graph_units", ![w].seen = {}, ![w].todo = <<graph>>]
     ELSE Ends(w)

\* validateLines: a serial number of the body is new, or already the spent's.
CheckGraphUnits(w) ==
  LET owned == UnitsIn({r \in purchaseRows : SpentOf[r[1]] = job[w].req[2]}) IN
  /\ Query(w, "graph_units", {"edit_spent"})
  /\ IF \A u \in UnitsIn(job[w].req[4]) : status[u] = "absent" \/ u \in owned
     THEN Writes(w, job[w].todo)
     ELSE Ends(w)

\* deleteById of a bought serial: the row goes before the unit is checked.
ReadSpentRow(w) ==
  LET k == job[w].req[2]
      u == job[w].req[3]
  IN
  /\ Query(w, "spent_row", {"return_serial"})
  /\ IF <<k, u>> \in purchaseRows /\ SpentOpen(k)
     THEN Writes(w, <<OnPair("drop_bought", k, u)>> \o
                    (IF Mutable(u) THEN <<OnUnit("delete_unit_moves", u), OnUnit("delete_unit", u)>>
                     ELSE <<Fail>>))
     ELSE Ends(w)

-----------------------------------------------------------------------------
(* Execution.                                                                *)

\* Rows of the purchase side that refer to a unit (ON DELETE RESTRICT).
Bought(u) == \E k \in SpentLines : <<k, u>> \in purchaseRows \cup purchaseMoves

NoUnit(x) == "unit" \in DOMAIN x /\ status[x.unit] = "absent"

\* Updates of a row that is gone: the repositories answer 404.
Missing(x) ==
  \/ x.op = "unit" /\ NoUnit(x)
  \/ x.op = "invoice" /\ invoice[x.invoice] = "absent"
  \/ x.op = "spent" /\ spent[x.spent] = "absent"
  \/ x.op = "quantity" /\ x.line \notin lines
  \/ x.op = "swap_row" /\ <<x.line, x.unit>> \notin rows

\* Foreign keys: what an insert refers to exists, what a delete takes away is
\* referred to by nothing that does not go with it.
Dangling(x) ==
  \/ x.op \in {"sale_out", "sale_in", "add_row"} /\ (x.line \notin lines \/ NoUnit(x))
  \/ x.op \in {"purchase_in", "purchase_out", "add_bought"}
     /\ (x.line \notin spentLines \/ NoUnit(x))
  \/ x.op = "swap_row" /\ status[x.next] = "absent"
  \/ x.op = "delete_invoice" /\ HasSaleMoves(x.invoice)
  \/ x.op = "delete_line" /\ \E m \in saleMoves : m[1] = x.line
  \/ x.op = "delete_unit" /\ ~NoUnit(x) /\ (Blocked(x.unit) \/ Bought(x.unit))
  \/ x.op = "delete_spent_line" /\ \E m \in purchaseMoves : m[1] = x.line
  \/ x.op = "delete_spent" /\ \E m \in purchaseMoves : SpentOf[m[1]] = x.spent

\* What the graph deletes: the units of its rows; their movements too where the
\* line stays, and every movement of a line that goes.
GraphUnits(x) == {u \in UnitsIn(x.out) : status[u] # "absent"}
Freed(x) == UnitsIn({r \in x.out : r[1] \in x.lines})
GraphRows(x) == {r \in purchaseRows : r \in x.out \/ r[1] \in x.dropped}
GraphMoves(x) == {m \in purchaseMoves : m[1] \in x.dropped \/ m[2] \in Freed(x)}

\* Mutation: the rows of the invoices do not protect their units.
GraphRefusedByMoves(x) ==
  /\ x.op = "save_graph"
  /\ \/ \E u \in GraphUnits(x) \ Freed(x) : \E m \in saleMoves : m[2] = u
     \/ \E u \in UnitsIn(x.new) : status[u] # "absent" /\ u \notin UnitsIn(x.out)

\* ... unless something else refers to one of the units, or a serial number of
\* the body was registered meanwhile: then nothing of the graph is saved.
GraphRefused(x) ==
  /\ x.op = "save_graph"
  /\ \/ \E u \in GraphUnits(x) :
          \/ \E r \in rows : r[2] = u
          \/ u \notin Freed(x) /\ \E m \in saleMoves : m[2] = u
          \/ \E r \in (purchaseRows \ GraphRows(x)) \cup (purchaseMoves \ GraphMoves(x)) : r[2] = u
     \/ \E u \in UnitsIn(x.new) : status[u] # "absent" /\ u \notin UnitsIn(x.out)

\* Mutation: the tables without their unique constraints.
NoUniqueKeys(x) == FALSE

\* Unique constraints: the serial number of an item, the unit of a line.
Duplicate(x) ==
  \/ x.op = "create_unit" /\ ~NoUnit(x)
  \/ x.op = "add_row" /\ <<x.line, x.unit>> \in rows
  \/ x.op = "swap_row" /\ <<x.line, x.next>> \in rows

Refused(x) ==
  x.op = "fail" \/ Missing(x) \/ Dangling(x) \/ Duplicate(x) \/ GraphRefused(x)

SaveStatus(x) ==
  /\ x.op \in {"unit", "create_unit", "delete_unit"}
  /\ status' = [status EXCEPT ![x.unit] = CASE x.op = "unit" -> x.to
                                            [] x.op = "create_unit" -> "in_stock"
                                            [] OTHER -> "absent"]
  /\ UNCHANGED <<saleVars, purchaseVars>>

SaveInvoice(x) ==
  /\ x.op = "invoice"
  /\ invoice' = [invoice EXCEPT ![x.invoice] = x.to]
  /\ UNCHANGED <<status, lines, quantity, rows, saleNet, saleMoves, purchaseVars>>

\* Lines go with their rows, invoices with their lines (ON DELETE CASCADE).
DeleteSaleRows(x) ==
  LET gone == IF x.op = "delete_invoice" THEN LinesOf(x.invoice) ELSE {x.line} IN
  /\ x.op \in {"delete_invoice", "delete_line"}
  /\ lines' = lines \ gone
  /\ quantity' = [l \in Lines |-> IF l \in gone THEN 0 ELSE quantity[l]]
  /\ rows' = {r \in rows : r[1] \notin gone}
  /\ invoice' = IF x.op = "delete_invoice" THEN [invoice EXCEPT ![x.invoice] = "absent"]
                ELSE invoice
  /\ UNCHANGED <<status, saleNet, saleMoves, purchaseVars>>

InsertSaleMove(x) ==
  /\ x.op \in {"sale_out", "sale_in"}
  /\ saleNet' = [saleNet EXCEPT ![x.unit] = @ + (IF x.op = "sale_out" THEN 1 ELSE -1)]
  /\ saleMoves' = saleMoves \cup {<<x.line, x.unit>>}
  /\ UNCHANGED <<status, invoice, lines, quantity, rows, purchaseVars>>

SaveRows(x) ==
  /\ x.op \in {"add_row", "swap_row", "drop_row"}
  /\ rows' = CASE x.op = "add_row" -> rows \cup {<<x.line, x.unit>>}
               [] x.op = "swap_row" -> (rows \ {<<x.line, x.unit>>}) \cup {<<x.line, x.next>>}
               [] OTHER -> rows \ {<<x.line, x.unit>>}
  /\ UNCHANGED <<status, invoice, lines, quantity, saleNet, saleMoves, purchaseVars>>

SaveQuantity(x) ==
  /\ x.op = "quantity"
  /\ quantity' = [quantity EXCEPT ![x.line] = x.to]
  /\ UNCHANGED <<status, invoice, lines, rows, saleNet, saleMoves, purchaseVars>>

InsertPurchaseMove(x) ==
  /\ x.op \in {"purchase_in", "purchase_out"}
  /\ purchaseNet' = [purchaseNet EXCEPT ![x.unit] = @ + (IF x.op = "purchase_in" THEN 1 ELSE -1)]
  /\ purchaseMoves' = purchaseMoves \cup {<<x.line, x.unit>>}
  /\ UNCHANGED <<status, saleVars, spent, spentLines, purchaseRows>>

SaveBought(x) ==
  /\ x.op \in {"add_bought", "drop_bought"}
  /\ purchaseRows' = IF x.op = "add_bought" THEN purchaseRows \cup {<<x.line, x.unit>>}
                     ELSE purchaseRows \ {<<x.line, x.unit>>}
  /\ UNCHANGED <<status, saleVars, spent, spentLines, purchaseNet, purchaseMoves>>

\* deleteBySpentConceptId and deleteByItemSerialId; the second erases the sale
\* movements of the unit as well.
DeleteMoves(x) ==
  LET gone == {m \in purchaseMoves : Names(x, "line", m[1]) \/ Names(x, "unit", m[2])} IN
  /\ x.op \in {"delete_line_moves", "delete_unit_moves"}
  /\ purchaseMoves' = purchaseMoves \ gone
  /\ purchaseNet' = [u \in Units |-> IF u \in UnitsIn(gone) THEN 0 ELSE purchaseNet[u]]
  /\ saleMoves' = {m \in saleMoves : ~Names(x, "unit", m[2])}
  /\ saleNet' = [u \in Units |-> IF Names(x, "unit", u) THEN 0 ELSE saleNet[u]]
  /\ UNCHANGED <<status, invoice, lines, quantity, rows, spent, spentLines, purchaseRows>>

SaveSpent(x) ==
  /\ x.op = "spent"
  /\ spent' = [spent EXCEPT ![x.spent] = x.to]
  /\ UNCHANGED <<status, saleVars, spentLines, purchaseRows, purchaseNet, purchaseMoves>>

DeleteSpentLine(x) ==
  /\ x.op = "delete_spent_line"
  /\ spentLines' = spentLines \ {x.line}
  /\ purchaseRows' = {r \in purchaseRows : r[1] # x.line}
  /\ UNCHANGED <<status, saleVars, spent, purchaseNet, purchaseMoves>>

DeleteSpentRow(x) ==
  /\ x.op = "delete_spent"
  /\ spent' = [spent EXCEPT ![x.spent] = "absent"]
  /\ spentLines' = {k \in spentLines : SpentOf[k] # x.spent}
  /\ purchaseRows' = {r \in purchaseRows : SpentOf[r[1]] # x.spent}
  /\ UNCHANGED <<status, saleVars, purchaseNet, purchaseMoves>>

\* The transaction of updateSpentGraph.  save() of a row that is gone inserts
\* it again, and the header carries the status that was read.
SaveGraph(x) ==
  /\ x.op = "save_graph"
  /\ spent' = [spent EXCEPT ![x.spent] = x.to]
  /\ spentLines' = (spentLines \ x.dropped) \cup x.lines
  /\ RegisterPairs(x.new, purchaseRows \ GraphRows(x), purchaseMoves \ GraphMoves(x),
       [u \in Units |-> IF u \in UnitsIn(GraphMoves(x)) THEN 0 ELSE purchaseNet[u]],
       [u \in Units |-> IF u \in GraphUnits(x) THEN "absent" ELSE status[u]])
  /\ saleMoves' = {m \in saleMoves : m[2] \notin Freed(x)}
  /\ saleNet' = [u \in Units |-> IF u \in Freed(x) THEN 0 ELSE saleNet[u]]
  /\ UNCHANGED <<invoice, lines, quantity, rows>>

Statement(x) ==
  \/ SaveStatus(x)
  \/ SaveInvoice(x)
  \/ DeleteSaleRows(x)
  \/ InsertSaleMove(x)
  \/ SaveRows(x)
  \/ SaveQuantity(x)
  \/ InsertPurchaseMove(x)
  \/ SaveBought(x)
  \/ DeleteMoves(x)
  \/ SaveSpent(x)
  \/ DeleteSpentLine(x)
  \/ DeleteSpentRow(x)
  \/ SaveGraph(x)
  \/ x.op = "nothing" /\ UNCHANGED vars

\* The other requests keep their plans, except for ids that x replaces.
Continue(w, rest, units, pairs, bought) ==
  job' = [v \in Workers |->
            IF v # w THEN [job[v] EXCEPT !.todo = Renew(@, units, pairs, bought)]
            ELSE IF rest = <<>> THEN Idle ELSE [job[w] EXCEPT !.todo = rest]]

Execute(w) ==
  LET x == Head(job[w].todo)
      units == CASE x.op = "create_unit" -> {x.unit}
                 [] x.op = "save_graph" -> UnitsIn(x.new)
                 [] OTHER -> {}
      pairs == CASE x.op = "add_row" -> {<<x.line, x.unit>>}
                 [] x.op = "swap_row" -> {<<x.line, x.next>>}
                 [] OTHER -> {}
      bought == CASE x.op = "add_bought" -> {<<x.line, x.unit>>}
                  [] x.op = "save_graph" -> x.new
                  [] OTHER -> {}
  IN
  /\ job[w].at = "write" /\ x.op # "purge_line"
  /\ \/ /\ ~Refused(x)
        /\ Statement(x)
        /\ Continue(w, Tail(job[w].todo), units, pairs, bought)
     \/ /\ Refused(x)
        /\ Ends(w)
        /\ UNCHANGED vars
  /\ UNCHANGED <<crashes, load>>

\* The process dies with the request: nothing is rolled back.
Crash(w) ==
  /\ Busy(w)
  /\ crashes < load.crashes
  /\ Ends(w)
  /\ crashes' = crashes + 1
  /\ UNCHANGED <<vars, load>>

-----------------------------------------------------------------------------
(* Handlers that write once.                                                  *)

Creates(units) ==
  /\ job' = [w \in Workers |-> [job[w] EXCEPT !.todo = Renew(@, units, {}, {})]]
  /\ UNCHANGED <<crashes, load>>

Create ==
  \/ \E i \in Invoices : Unnamed(i) /\ CreateInvoice(i, "draft") /\ Creates({})
  \/ \E l \in load.lines, q \in 0..load.most :
       Unnamed(l) /\ CreateInvoiceConcept(l, q) /\ Creates({})
  \/ \E s \in Spents, ls \in SUBSET load.spentLines,
        pairs \in SUBSET (load.spentLines \X load.units) :
       /\ Unnamed(s) /\ \A k \in ls : Unnamed(k)
       /\ CreateSpent(s, "open", ls, pairs)
       /\ Creates(UnitsIn(pairs))
  \/ \E k \in load.spentLines : Unnamed(k) /\ CreateSpentConcept(k) /\ Creates({})

-----------------------------------------------------------------------------
RequestsInit ==
  /\ Init
  /\ job = [w \in Workers |-> Idle]
  /\ crashes = 0
  /\ load \in Loads

Step(w) ==
  \/ ReadInvoice(w)
  \/ LoadInvoiceLines(w)
  \/ ReadLine(w)
  \/ LoadLineRows(w)
  \/ CountRows(w)
  \/ ReadRow(w)
  \/ ReadUnit(w)
  \/ ReadSpent(w)
  \/ LoadSpentRows(w)
  \/ ReadSpentLine(w)
  \/ ReadUnitExists(w)
  \/ LoadPurgeRows(w)
  \/ CheckSpentIdle(w)
  \/ ListSpentLines(w)
  \/ PurgeNextLine(w)
  \/ LoadGraph(w)
  \/ CheckGraphUnits(w)
  \/ ReadSpentRow(w)
  \/ Execute(w)

Serve ==
  \E w \in Workers :
    \/ \E req \in Requests(load.units, load.lines, load.most, load.spentLines) : Start(w, req)
    \/ Step(w)
    \/ Crash(w)

RequestsNext == Serve \/ Create

RequestsSpec == RequestsInit /\ [][RequestsNext]_requestVars

-----------------------------------------------------------------------------
(* Properties.                                                               *)

Serving(kinds) == {w \in Workers : load.kinds[w] \cap kinds # {}}

\* A crash between two statements costs at most one unit: among requests that
\* come one at a time no more units than there were crashes have a sale kardex
\* that contradicts their status.  It is what pairing updateById and
\* createMovement unit by unit buys.  With a second line no crash is needed: an
\* issue that failed at it and a refused deletion, which releases its units all
\* the same, leave a unit on two lines, and the next issue sells it twice.
CrashCostsOneUnit ==
  Quiet /\ Cardinality(Serving(AllKinds)) = 1 /\ Cardinality(load.lines) = 1 =>
    Cardinality({u \in Units : saleNet[u] # IF status[u] = "sold" THEN 1 ELSE 0}) <= crashes

Overstated(u) ==
  purchaseNet[u] > IF status[u] \in {"in_stock", "reserved", "sold"} THEN 1 ELSE 0

\* Requests on the purchase side that race lose entries of the kardex at worst:
\* once they are done it counts no unit twice and none that was voided, but
\* for one unit a crash.
RacesNeverOverstate ==
  Quiet => Cardinality({u \in Units : Overstated(u)}) <= crashes

\* Sales that meet the edit of the spent they sell from lose nothing to it:
\* whatever assertExistingSerialsRemainMutable saw before the transaction, a
\* unit that is on an invoice by then is kept, with its line and the entry of
\* its purchase.  Two edits of a spent at a time are not that careful, and a unit
\* that is registered alone can be sold before its movement and row are written.
EditsSpareClaimedUnits ==
  /\ Cardinality(Serving({"edit_spent"})) <= 1
  /\ Serving({"buy_serial", "return_serial", "cancel_spent", "delete_spent", "delete_spent_line"}) = {}
  => \A r \in rows : /\ \E k \in spentLines : <<k, r[2]>> \in purchaseRows
                     /\ purchaseNet[r[2]] = 1

-----------------------------------------------------------------------------
(* A message of the code that two requests in flight contradict.             *)

\* invoice.service.ts:205, "No se puede establecer como borrador una factura que ya
\* ha sido emitida".
IssuedNeverDraftAgain ==
  [][\A i \in Invoices : invoice[i] = "issued" => invoice'[i] # "draft"]_requestVars
=============================================================================
