------------------------------- MODULE Catalogue -------------------------------
(***************************************************************************)
(* Categories and items, suppliers, spents with their categories, and the  *)
(* lines of quotes, orders and invoices, with every handler that writes    *)
(* them (src/api/{item-category,item,supplier,spent-category,spent,        *)
(* quote-concept,order-concept,invoice-concept}).  As in SalesDocuments,   *)
(* an operator is the set of statements its handler may send.              *)
(*                                                                         *)
(* Left out: the units of items and lines and the lines of spents, which   *)
(* are those of InventoryLedger, and the positions of lines.               *)
(***************************************************************************)
EXTENDS BackOfficeTables

(***************************************************************************)
(* Categories, of items and of spents: the enterprise of one is fixed, and *)
(* one with members cannot go.                                             *)
(***************************************************************************)
MembersOf(t, g) ==
    Where(IF t = "category" THEN "item" ELSE "spent", LAMBDA r : r.category = g)

CreateCategory(t) == Made(t, [ent : Enterprises])

UpdateCategory(t) ==
    UNION {Edited(t, g, [ent |-> db[t][g].ent]) : g \in Live(t)}

DeleteCategory(t) ==
    {Delete(t, g) : g \in {k \in Live(t) : MembersOf(t, k) = {}}}

(***************************************************************************)
(* Items.  The enterprise of an item is that of its category, which may    *)
(* change for another one of the enterprise; a serial number needs stock.  *)
(***************************************************************************)
CategoriesOf(e) == Where("category", LAMBDA r : r.ent = e)

SerialHasStock(serial, stock) == serial => stock
Flags == {f \in [serial : BOOLEAN, stock : BOOLEAN] : SerialHasStock(f.serial, f.stock)}

CreateItem ==
    Made("item", {[category |-> g, serial |-> f.serial, stock |-> f.stock] :
                     g \in UNION {CategoriesOf(e) : e \in Enterprises}, f \in Flags})

(* The category is always written, as read or as asked; the flags if asked. *)
ItemForms(i, gs) ==
    {[category |-> g] : g \in gs}
    \cup {[category |-> g, serial |-> s] :
            g \in gs, s \in {b \in BOOLEAN : SerialHasStock(b, db.item[i].stock)}}
    \cup {[category |-> g, stock |-> k] :
            g \in gs, k \in {b \in BOOLEAN : SerialHasStock(db.item[i].serial, b)}}
    \cup {[category |-> g, serial |-> f.serial, stock |-> f.stock] : g \in gs, f \in Flags}

ItemEnt(i) == db.category[db.item[i].category].ent

UpdateItem ==
    UNION {UNION {Edited("item", i, v) : v \in ItemForms(i, CategoriesOf(ItemEnt(i)))} :
              i \in Live("item")}

DeleteItem == {Delete("item", i) : i \in Live("item")}

(***************************************************************************)
(* Suppliers, which look for another of the same nif as clients do, and    *)
(* the spents: the enterprise of one is that of its supplier, its category *)
(* may be any, and the body may say that it has a file.  A PATCH of the    *)
(* header writes what it carries; one with lines saves the whole row that  *)
(* was read.  DeleteSpent is in StoredFiles.                               *)
(***************************************************************************)
CreateSupplier ==
    {Insert("supplier", p, r) :
        p \in Fresh("supplier"),
        r \in {k \in SupplierRow : HoldersOf("supplier", k.nif, k.ent) = {}}}
    \cup AsNamed("supplier",
                 {k \in SupplierRow :
                     \E e \in Enterprises : HoldersOf("supplier", k.nif, e) = {}})

UpdateSupplier ==
    UNION {UNION {Edited("supplier", p, [nif |-> n]) :
                      n \in {m \in Nifs : \/ HoldersOf("supplier", m, db.supplier[p].ent) = {}
                                          \/ db.supplier[p].nif = m}} :
              p \in Live("supplier")}

DeleteSupplier == {Delete("supplier", p) : p \in Live("supplier")}

SpentForms ==
    [supplier : Live("supplier"), category : Live("spent_category") \cup {None},
     file : BOOLEAN]

SpentPatches ==
    LET given(columns) == {[c \in columns |-> v[c]] : v \in SpentForms}
    IN  UNION {given(columns) : columns \in SUBSET {"supplier", "category", "file"}}

CreateSpent == {Insert("spent", s, v) : s \in Fresh("spent"), v \in SpentForms}

PatchSpent ==
    UNION {UNION {Edited("spent", s, v) : v \in SpentPatches} : s \in Live("spent")}

SaveSpentGraph ==
    UNION {{Save("spent", s, Merged(db.spent[s], v)) : v \in SpentPatches} :
              s \in Live("spent")}

UpdateSpent == PatchSpent \cup SaveSpentGraph

(***************************************************************************)
(* Lines: of a document that is still open, with an item of the enterprise *)
(* of its client or with none.  A line stays with its document.            *)
(***************************************************************************)
LineTable == [quote |-> "quote_line", order |-> "order_line", invoice |-> "invoice_line"]

(* mutant: an order may be changed once it is received *)
OpenUnlessIssued(t, d) == t = "invoice" => db.invoice[d].status = "draft"

(* A quote is always open, whatever its status.                             *)
Open(t, d) ==
    CASE t = "order"   -> db.order[d].status = "awaiting_receipt"
      [] t = "invoice" -> db.invoice[d].status = "draft"
      [] OTHER         -> TRUE

DocEnt(t, d) == db.client[db[t][d].client].ent

ItemsFor(t, d) == {i \in Live("item") : ItemEnt(i) = DocEnt(t, d)}

CreateLine(t) ==
    UNION {{Insert(LineTable[t], l, [doc |-> d, item |-> i, price |-> p]) :
                l \in Fresh(LineTable[t]), i \in ItemsFor(t, d) \cup {None}, p \in Prices} :
              d \in {k \in Live(t) : Open(t, k)}}

OpenLines(t) == Where(LineTable[t], LAMBDA r : Open(t, r.doc))

(* Omitted, the item stays; null unlinks it; a nested item without an id    *)
(* writes back the one that was read.                                       *)
LineForms(t, r) ==
    LET items == ItemsFor(t, r.doc) \cup {None, r.item}
    IN  [price : Prices] \cup [item : items] \cup [item : items, price : Prices]

UpdateLine(t) ==
    UNION {{Update(LineTable[t], l, v) : v \in LineForms(t, db[LineTable[t]][l])} :
              l \in OpenLines(t)}

DeleteLine(t) == {Delete(LineTable[t], l) : l \in OpenLines(t)}
=============================================================================
