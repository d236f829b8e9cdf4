--------------------------- MODULE BackOfficeTables ---------------------------
(***************************************************************************)
(* The tables of enterprises, documents, parties and catalogue, and what   *)
(* Postgres does with a statement that a handler of Workplace,             *)
(* SalesDocuments, Catalogue or StoredFiles sends: the keys of the         *)
(* entities (src/entities) and the saves of their repositories.            *)
(*                                                                         *)
(* Columns that no guard and no property reads are left out.  The tax      *)
(* number (nif) of a client stands for the data of the parties that an     *)
(* issued document copies; the price of a line for everything it says.     *)
(***************************************************************************)
EXTENDS Integers, FiniteSets, FiniteSetsExt, Sequences

CONSTANTS
    Enterprises, Settings, Links, Templates, Holidays, Vacations,
    Clients, Series, Earnings, Quotes, Orders, Invoices,  \* identifiers
    QuoteLines, OrderLines, InvoiceLines,
    Categories, Items, Suppliers, SpentCategories, Spents,
    Documents,              \* files kept with a client
    Nifs, Codes, Prices,    \* tax numbers, names of series, texts of lines
    QuoteStatuses, OrderStatuses, InvoiceStatuses,
    Workers,                \* requests that may be in progress at once
    None, Unborn, Gone

ASSUME TablesAssumption ==
    /\ "draft" \in QuoteStatuses /\ "draft" \in InvoiceStatuses
    /\ "awaiting_receipt" \in OrderStatuses
    /\ IsFiniteSet(Workers)

VARIABLES
    db,           \* db[table][id]: a row, or Unborn, or Gone
    request,      \* request[w]: the statements worker w is about to send
    scope,        \* what this behaviour writes, and how much of it goes astray
    unchecked     \* the rows that a body wrote past what its handler checked

Ids == [enterprise |-> Enterprises, setting |-> Settings, link |-> Links,
        template |-> Templates, holiday |-> Holidays, vacation |-> Vacations,
        client |-> Clients, series |-> Series, earning |-> Earnings,
        quote |-> Quotes, order |-> Orders, invoice |-> Invoices,
        quote_line |-> QuoteLines, order_line |-> OrderLines,
        invoice_line |-> InvoiceLines,
        category |-> Categories, item |-> Items, supplier |-> Suppliers,
        spent_category |-> SpentCategories, spent |-> Spents,
        document |-> Documents]
Tables == DOMAIN Ids
Absent == {Unborn, Gone}

(* One key of the settings stands for all: they do not meet.                *)
EnterpriseRow == [nif : Nifs, logo : BOOLEAN]
SettingRow  == [ent : Enterprises]
LinkRow     == [ent : Enterprises, template : Templates \cup {None}]
TemplateRow == [ent : Enterprises]
HolidayRow  == [ent : Enterprises]
VacationRow == [link : Links]
ClientRow   == [ent : Enterprises, nif : Nifs]
SeriesRow   == [ent : Enterprises, code : Codes, active : BOOLEAN]
EarningRow  == [ent : Enterprises, client : Clients, series : Series]
QuoteRow    == [client : Clients, status : QuoteStatuses, party : Nifs \cup {None}]
OrderRow    == [client : Clients, quote : Quotes, status : OrderStatuses,
                party : Nifs \cup {None}]
InvoiceRow  == [client : Clients, series : Series, quote : Quotes \cup {None},
                earning : Earnings \cup {None}, status : InvoiceStatuses,
                number : Nat \cup {None}, party : Nifs \cup {None}]
LineRow(ds) == [doc : ds, item : Items \cup {None}, price : Prices]
CategoryRow == [ent : Enterprises]
ItemRow     == [category : Categories, serial : BOOLEAN, stock : BOOLEAN]
SupplierRow == [ent : Enterprises, nif : Nifs]
SpentRow    == [supplier : Suppliers, category : SpentCategories \cup {None},
                file : BOOLEAN]
DocumentRow == [client : Clients]

Row == [enterprise |-> EnterpriseRow, setting |-> SettingRow, link |-> LinkRow,
        template |-> TemplateRow, holiday |-> HolidayRow, vacation |-> VacationRow,
        client |-> ClientRow, series |-> SeriesRow, earning |-> EarningRow,
        quote |-> QuoteRow, order |-> OrderRow, invoice |-> InvoiceRow,
        quote_line |-> LineRow(Quotes), order_line |-> LineRow(Orders),
        invoice_line |-> LineRow(Invoices),
        category |-> CategoryRow, item |-> ItemRow, supplier |-> SupplierRow,
        spent_category |-> CategoryRow, spent |-> SpentRow,
        document |-> DocumentRow]

(* What stands for no row, and for no identifier, is none.                  *)
ASSUME AbsenceAssumption ==
    /\ Unborn # Gone /\ None \notin Nat
    /\ \A t \in Tables : Unborn \notin Row[t] /\ Gone \notin Row[t] /\ None \notin Ids[t]

(* Identifiers are UUIDs: one names a row of one table.                     *)
ASSUME IdsAssumption == \A t, u \in Tables : t # u => Ids[t] \cap Ids[u] = {}

Live(t)      == {x \in Ids[t] : db[t][x] \notin Absent}
Fresh(t)     == {x \in Ids[t] :
                    /\ db[t][x] = Unborn
                    /\ \A w \in Workers : \A k \in DOMAIN request[w] :
                          request[w][k].id # x}
Where(t, P(_)) == {x \in Live(t) : P(db[t][x])}

(* mutant: the enterprise is compared the wrong way *)
HoldersElsewhere(t, n, e) == Where(t, LAMBDA r : r.ent # e /\ r.nif = n)

(* The clients, or the suppliers, of an enterprise with a tax number.       *)
HoldersOf(t, n, e) == Where(t, LAMBDA r : r.ent = e /\ r.nif = n)

-----------------------------------------------------------------------------
(* mutant: a save forgets the columns it does not carry *)
OnlySet(old, set) == set

Merged(old, set) == [k \in DOMAIN old |-> IF k \in DOMAIN set THEN set[k] ELSE old[k]]

(* The statements a handler sends.  A save carries the columns it sets: an *)
(* insert and a merged update all of them, a partial update some.  The     *)
(* save of a graph inserts the row again if it is gone.                    *)

Insert(t, x, r) == [do |-> "insert", table |-> t, id |-> x, set |-> r]
Update(t, x, r) == [do |-> "update", table |-> t, id |-> x, set |-> r]
Save(t, x, r)   == [do |-> "save", table |-> t, id |-> x, set |-> r]
Delete(t, x)    == [do |-> "delete", table |-> t, id |-> x, set |-> None]

(***************************************************************************)
(* No pipe validates the bodies of clients, suppliers, series, earnings,   *)
(* quotes, orders, invoices, items, categories, spents and enterprises,    *)
(* and TypeORM saves what it is given.  The id in a body decides which row *)
(* is written, whatever the route addresses: the row there, or a new one.  *)
(* A relation object in it counts more than the column that was checked.   *)
(* The rows in one of its collections come to name the one saved, and      *)
(* those left out of it to name none.  Such a statement is unchecked.      *)
(***************************************************************************)
Overwrite(t, x, r) == [do |-> "overwrite", table |-> t, id |-> x, set |-> r]
Relink(t, x, c, v) == [do |-> "relink", table |-> t, id |-> x, set |-> [k \in {c} |-> v]]

Unchecked(q) == q.do \in {"overwrite", "relink"}

(* bound: the rows so written.  The id that an insert will draw is its own. *)
Nameable(t) ==
    IF Cardinality(unchecked) < scope.unchecked
    THEN {x \in Ids[t] : \A w \in Workers : \A k \in DOMAIN request[w] :
             request[w][k].do = "insert" => request[w][k].id # x}
    ELSE {}

AsNamed(t, rows) == {Overwrite(t, x, r) : x \in Nameable(t), r \in rows}

(* A POST, and a PATCH of row x that gives it v, with a body that is checked *)
(* but for its id.                                                          *)
Made(t, rows) == {Insert(t, x, r) : x \in Fresh(t), r \in rows} \cup AsNamed(t, rows)

Edited(t, x, v) ==
    {Update(t, x, v)}
    \cup {Overwrite(t, y, Merged(db[t][x], v)) : y \in Nameable(t) \ {x}}

-----------------------------------------------------------------------------
(* Foreign keys, with what becomes of the row when the one it names goes.  *)

Key(t, column, parent, after) ==
    [table |-> t, column |-> column, parent |-> parent, after |-> after]

LineKeys ==
    UNION {{Key(k[1], "doc", k[2], "cascade"), Key(k[1], "item", "item", "set_null")} :
              k \in {<<"quote_line", "quote">>, <<"order_line", "order">>,
                     <<"invoice_line", "invoice">>}}

PurchaseKeys ==
    {Key("item", "category", "category", "refuse"),
     Key("spent", "supplier", "supplier", "refuse"),
     Key("spent", "category", "spent_category", "refuse")}

(* clientId of an invoice is not nullable: its SET NULL refuses as well.    *)
SaleKeys ==
    {Key("document", "client", "client", "cascade"),
     Key("earning", "client", "client", "cascade"),
     Key("earning", "series", "series", "cascade"),
     Key("quote", "client", "client", "refuse"),
     Key("order", "client", "client", "refuse"),
     Key("order", "quote", "quote", "refuse"),
     Key("invoice", "client", "client", "refuse"),
     Key("invoice", "series", "series", "cascade"),
     Key("invoice", "quote", "quote", "set_null"),
     Key("invoice", "earning", "earning", "set_null")}

WorkplaceKeys ==
    {Key("link", "template", "template", "set_null"),
     Key("vacation", "link", "link", "cascade")}

(* What hangs from an enterprise, and whether it keeps it.                  *)
EnterpriseKeys ==
    {Key(t, "ent", "enterprise", "cascade") :
        t \in {"setting", "template", "holiday", "earning"}}
    \cup {Key(t, "ent", "enterprise", "refuse") :
            t \in {"link", "client", "series", "category", "supplier", "spent_category"}}

ForeignKeys == LineKeys \cup PurchaseKeys \cup SaleKeys \cup WorkplaceKeys \cup EnterpriseKeys

(* The OneToMany relations that a body reaches, and their columns that may   *)
(* be empty.                                                                *)
Collections == SaleKeys \cup PurchaseKeys
Optional == {<<"invoice", "quote">>, <<"invoice", "earning">>, <<"spent", "category">>}

Named(k) ==
    Live(k.parent) \cup (IF <<k.table, k.column>> \in Optional THEN {None} ELSE {})

Relinked(t) ==
    UNION {{Relink(t, x, k.column, v) : x \in Nameable(t) \cap Live(t), v \in Named(k)} :
              k \in {f \in Collections : f.table = t}}

ParentsLive(t, r) ==
    \A k \in {f \in ForeignKeys : f.table = t /\ f.column \in DOMAIN r} :
        r[k.column] = None \/ r[k.column] \in Live(k.parent)

(* The rows, as <<table, id>>, whose key k names one of the rows gone.      *)
Naming(k, gone) ==
    {<<k.table, x>> : x \in Where(k.table, LAMBDA r : <<k.parent, r[k.column]>> \in gone)}

NamingAny(after, gone) ==
    UNION {Naming(k, gone) : k \in {f \in ForeignKeys : f.after = after}}

(* Cascades go two tables deep: from a series to its invoices, to their lines.*)
Cascade(gone) == gone \cup NamingAny("cascade", gone)
GoneWith(t, x) == Cascade(Cascade({<<t, x>>}))

Unlinked(t, r, gone) ==
    LET nulled == {k \in ForeignKeys : /\ k.table = t /\ k.after = "set_null"
                                       /\ <<k.parent, r[k.column]>> \in gone}
    IN  [c \in DOMAIN r |-> IF \E k \in nulled : k.column = c THEN None ELSE r[c]]

Without(gone) ==
    [t \in Tables |-> [x \in Ids[t] |->
        IF <<t, x>> \in gone THEN Gone
        ELSE IF x \in Live(t) THEN Unlinked(t, db[t][x], gone)
        ELSE db[t][x]]]

(* A statement is refused by a key, or finds no row.                        *)
Accepted(q) ==
    CASE q.do \in {"insert", "save", "overwrite"} -> ParentsLive(q.table, q.set)
      [] q.do \in {"update", "relink"} -> q.id \in Live(q.table) /\ ParentsLive(q.table, q.set)
      [] q.do = "delete" ->
            /\ q.id \in Live(q.table)
            /\ NamingAny("refuse", GoneWith(q.table, q.id)) \subseteq GoneWith(q.table, q.id)

Effect(q) ==
    IF ~Accepted(q) THEN db
    ELSE CASE q.do \in {"insert", "save", "overwrite"} -> [db EXCEPT ![q.table][q.id] = q.set]
           [] q.do \in {"update", "relink"} -> [db EXCEPT ![q.table][q.id] = Merged(@, q.set)]
           [] q.do = "delete" -> Without(GoneWith(q.table, q.id))
=============================================================================
