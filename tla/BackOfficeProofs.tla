--------------------------- MODULE BackOfficeProofs ---------------------------
(***************************************************************************)
(* Proofs about BackOffice, for any number of enterprises, rows, requests   *)
(* in flight and lapses.                                                    *)
(*                                                                         *)
(* A handler judges what it reads and its statement is executed later, over *)
(* other rows.  So the invariant is about the statements that wait: one     *)
(* keeps what its handler knew (Known), as far as that cannot change until  *)
(* it is executed - a row that went does not come back, and the enterprise  *)
(* of a row that is there changes only when the row is written past its     *)
(* checks (unchecked) or, a document's, by its number alone (excused)       *)
(* (Steady).  Every step is steady; a statement that is executed over       *)
(* steady facts joins no two enterprises of rows written as judged.         *)
(*                                                                         *)
(* The parts: the keys and their cascades; what a statement makes of rows   *)
(* (Written, Deleted) and of references (WrittenRefs, DeletedRefs); what it *)
(* knows (Known, KnownStays, ExecutionIsSteady); what each handler sends    *)
(* (HandlersSendQueues); the invariant (BackInv) and its theorems.          *)
(*                                                                         *)
(* While requests come one at a time more stands: all that the handler      *)
(* judged of the rows it read (Judged), since nobody else writes.  The      *)
(* second half of the module says what that leaves of invoices, of the      *)
(* numbers of a series, of rows that must be one and of settled lines, and  *)
(* ends in OrderInv and its theorems.                                       *)
(***************************************************************************)
EXTENDS BackOffice, FiniteSetTheorems, SequenceTheorems, TLAPS

LEMMA TheTables ==
  Tables = {"enterprise", "setting", "link", "template", "holiday", "vacation", "client",
            "series", "earning", "quote", "order", "invoice", "quote_line", "order_line",
            "invoice_line", "category", "item", "supplier", "spent_category", "spent", "document"}
  BY DEF Tables, Ids
LEMMA TheIds ==
  /\ Ids["enterprise"] = Enterprises /\ Ids["setting"] = Settings /\ Ids["link"] = Links
  /\ Ids["template"] = Templates /\ Ids["holiday"] = Holidays /\ Ids["vacation"] = Vacations
  /\ Ids["client"] = Clients /\ Ids["series"] = Series /\ Ids["earning"] = Earnings
  /\ Ids["quote"] = Quotes /\ Ids["order"] = Orders /\ Ids["invoice"] = Invoices
  /\ Ids["quote_line"] = QuoteLines /\ Ids["order_line"] = OrderLines
  /\ Ids["invoice_line"] = InvoiceLines /\ Ids["category"] = Categories
  /\ Ids["item"] = Items /\ Ids["supplier"] = Suppliers
  /\ Ids["spent_category"] = SpentCategories /\ Ids["spent"] = Spents
  /\ Ids["document"] = Documents
  BY DEF Ids
LEMMA TheRows ==
  /\ Row["enterprise"] = EnterpriseRow /\ Row["setting"] = SettingRow /\ Row["link"] = LinkRow
  /\ Row["template"] = TemplateRow /\ Row["holiday"] = HolidayRow /\ Row["vacation"] = VacationRow
  /\ Row["client"] = ClientRow /\ Row["series"] = SeriesRow /\ Row["earning"] = EarningRow
  /\ Row["quote"] = QuoteRow /\ Row["order"] = OrderRow /\ Row["invoice"] = InvoiceRow
  /\ Row["quote_line"] = LineRow(Quotes) /\ Row["order_line"] = LineRow(Orders)
  /\ Row["invoice_line"] = LineRow(Invoices) /\ Row["category"] = CategoryRow
  /\ Row["item"] = ItemRow /\ Row["supplier"] = SupplierRow
  /\ Row["spent_category"] = CategoryRow /\ Row["spent"] = SpentRow
  /\ Row["document"] = DocumentRow
  BY DEF Row

Fits(k) ==
  /\ k.table \in Tables /\ k.parent \in Tables
  /\ k.after \in {"cascade", "refuse", "set_null"}
  /\ \A r \in Row[k.table] : k.column \in DOMAIN r /\ r[k.column] \in Ids[k.parent] \cup {None}


(* What there is to know of a key.                                           *)
Parts(k, t, c, p, a) == k.table = t /\ k.column = c /\ k.parent = p /\ k.after = a

LEMMA KeyParts ==
  ASSUME NEW t, NEW c, NEW p, NEW a
  PROVE  Parts(Key(t, c, p, a), t, c, p, a)
  BY DEF Key, Parts

LEMMA EnterpriseKeyParts ==
  ASSUME NEW k \in EnterpriseKeys
  PROVE  \/ \E t \in {"setting", "template", "holiday", "earning"} :
              Parts(k, t, "ent", "enterprise", "cascade")
         \/ \E t \in {"link", "client", "series", "category", "supplier", "spent_category"} :
              Parts(k, t, "ent", "enterprise", "refuse")
  BY KeyParts DEF EnterpriseKeys

LEMMA LineKeyParts ==
  ASSUME NEW k \in LineKeys
  PROVE  \/ Parts(k, "quote_line", "doc", "quote", "cascade")
         \/ Parts(k, "order_line", "doc", "order", "cascade")
         \/ Parts(k, "invoice_line", "doc", "invoice", "cascade")
         \/ \E t \in {"quote_line", "order_line", "invoice_line"} :
              Parts(k, t, "item", "item", "set_null")
<1>1. PICK m \in {<<"quote_line", "quote">>, <<"order_line", "order">>, <<"invoice_line", "invoice">>} :
        k \in {Key(m[1], "doc", m[2], "cascade"), Key(m[1], "item", "item", "set_null")}
  BY DEF LineKeys
<1>2. Parts(k, m[1], "doc", m[2], "cascade") \/ Parts(k, m[1], "item", "item", "set_null")
  BY <1>1, KeyParts
<1> QED BY <1>1, <1>2

LEMMA SaleKeyParts ==
  ASSUME NEW k \in SaleKeys
  PROVE  \/ Parts(k, "document", "client", "client", "cascade")
         \/ Parts(k, "earning", "client", "client", "cascade")
         \/ Parts(k, "earning", "series", "series", "cascade")
         \/ Parts(k, "quote", "client", "client", "refuse")
         \/ Parts(k, "order", "client", "client", "refuse")
         \/ Parts(k, "order", "quote", "quote", "refuse")
         \/ Parts(k, "invoice", "client", "client", "refuse")
         \/ Parts(k, "invoice", "series", "series", "cascade")
         \/ Parts(k, "invoice", "quote", "quote", "set_null")
         \/ Parts(k, "invoice", "earning", "earning", "set_null")
  BY KeyParts DEF SaleKeys
LEMMA OtherKeyParts ==
  ASSUME NEW k \in PurchaseKeys \cup WorkplaceKeys
  PROVE  \/ Parts(k, "item", "category", "category", "refuse")
         \/ Parts(k, "spent", "supplier", "supplier", "refuse")
         \/ Parts(k, "spent", "category", "spent_category", "refuse")
         \/ Parts(k, "link", "template", "template", "set_null")
         \/ Parts(k, "vacation", "link", "link", "cascade")
  BY KeyParts DEF PurchaseKeys, WorkplaceKeys

(* The columns of the keys hold what they should.                            *)
Names(t, c, p) == \A r \in Row[t] : c \in DOMAIN r /\ r[c] \in Ids[p] \cup {None}

LEMMA NamesFit ==
  ASSUME NEW k, NEW t \in Tables, NEW c, NEW p \in Tables, NEW a \in {"cascade", "refuse", "set_null"},
         Parts(k, t, c, p, a), Names(t, c, p)
  PROVE  Fits(k)
  BY DEF Parts, Names, Fits

LEMMA TheNames ==
  /\ Names("setting", "ent", "enterprise") /\ Names("template", "ent", "enterprise")
  /\ Names("holiday", "ent", "enterprise") /\ Names("earning", "ent", "enterprise")
  /\ Names("link", "ent", "enterprise") /\ Names("client", "ent", "enterprise")
  /\ Names("series", "ent", "enterprise") /\ Names("category", "ent", "enterprise")
  /\ Names("supplier", "ent", "enterprise") /\ Names("spent_category", "ent", "enterprise")
  /\ Names("quote_line", "doc", "quote") /\ Names("order_line", "doc", "order")
  /\ Names("invoice_line", "doc", "invoice") /\ Names("quote_line", "item", "item")
  /\ Names("order_line", "item", "item") /\ Names("invoice_line", "item", "item")
  /\ Names("document", "client", "client") /\ Names("earning", "client", "client")
  /\ Names("earning", "series", "series") /\ Names("quote", "client", "client")
  /\ Names("order", "client", "client") /\ Names("order", "quote", "quote")
  /\ Names("invoice", "client", "client") /\ Names("invoice", "series", "series")
  /\ Names("invoice", "quote", "quote") /\ Names("invoice", "earning", "earning")
  /\ Names("item", "category", "category") /\ Names("spent", "supplier", "supplier")
  /\ Names("spent", "category", "spent_category") /\ Names("link", "template", "template")
  /\ Names("vacation", "link", "link")
<1>1. /\ Names("setting", "ent", "enterprise") /\ Names("template", "ent", "enterprise")
      /\ Names("holiday", "ent", "enterprise") /\ Names("link", "ent", "enterprise")
      /\ Names("link", "template", "template") /\ Names("vacation", "link", "link")
  BY TheRows, TheIds DEF Names, SettingRow, TemplateRow, HolidayRow, LinkRow, VacationRow
<1>2. /\ Names("client", "ent", "enterprise") /\ Names("series", "ent", "enterprise")
      /\ Names("category", "ent", "enterprise") /\ Names("supplier", "ent", "enterprise")
      /\ Names("spent_category", "ent", "enterprise")
  BY TheRows, TheIds DEF Names, ClientRow, SeriesRow, CategoryRow, SupplierRow
<1>3. /\ Names("quote_line", "doc", "quote") /\ Names("order_line", "doc", "order")
      /\ Names("invoice_line", "doc", "invoice") /\ Names("quote_line", "item", "item")
      /\ Names("order_line", "item", "item") /\ Names("invoice_line", "item", "item")
  BY TheRows, TheIds DEF Names, LineRow
<1>4. /\ Names("earning", "ent", "enterprise") /\ Names("earning", "client", "client")
      /\ Names("earning", "series", "series") /\ Names("document", "client", "client")
      /\ Names("quote", "client", "client") /\ Names("order", "client", "client")
      /\ Names("order", "quote", "quote")
  BY TheRows, TheIds DEF Names, EarningRow, DocumentRow, QuoteRow, OrderRow
<1>5. /\ Names("invoice", "client", "client") /\ Names("invoice", "series", "series")
      /\ Names("invoice", "quote", "quote") /\ Names("invoice", "earning", "earning")
  BY TheRows, TheIds DEF Names, InvoiceRow
<1>6. /\ Names("item", "category", "category") /\ Names("spent", "supplier", "supplier")
      /\ Names("spent", "category", "spent_category")
  BY TheRows, TheIds DEF Names, ItemRow, SpentRow
<1> QED BY <1>1, <1>2, <1>3, <1>4, <1>5, <1>6

(* Every key is a column of its table and names a row of its parent.         *)
LEMMA KeysFit ==
  ASSUME NEW k \in ForeignKeys
  PROVE  Fits(k)
<1>1. CASE k \in EnterpriseKeys
  BY <1>1, EnterpriseKeyParts, NamesFit, TheNames, TheTables
<1>2. CASE k \in LineKeys
  BY <1>2, LineKeyParts, NamesFit, TheNames, TheTables
<1>3. CASE k \in SaleKeys
  BY <1>3, SaleKeyParts, NamesFit, TheNames, TheTables
<1>4. CASE k \in PurchaseKeys \cup WorkplaceKeys
  BY <1>4, OtherKeyParts, NamesFit, TheNames, TheTables
<1> QED BY <1>1, <1>2, <1>3, <1>4 DEF ForeignKeys

(* Cascades go two tables deep.                                              *)
LEMMA CascadesEnd ==
  ASSUME NEW j \in ForeignKeys, NEW k \in ForeignKeys, NEW m \in ForeignKeys,
         j.after = "cascade", k.after = "cascade", m.after = "cascade"
  PROVE  ~(j.table = k.parent /\ k.table = m.parent)
<1>1. ASSUME NEW f \in ForeignKeys, f.after = "cascade"
      PROVE  /\ f.table \in {"setting", "template", "holiday", "earning", "document", "invoice",
                             "vacation", "quote_line", "order_line", "invoice_line"}
             /\ f.parent \in {"enterprise", "client", "series", "link", "quote", "order", "invoice"}
             /\ f.parent = "invoice" => f.table = "invoice_line"
  BY <1>1, EnterpriseKeyParts, LineKeyParts, SaleKeyParts, OtherKeyParts DEF Parts, ForeignKeys
<1>2. j.table = k.parent => k.parent = "invoice"
  BY <1>1
<1>3. k.table = m.parent => m.parent = "invoice" /\ k.table = "invoice"
  BY <1>1
<1> QED BY <1>1, <1>2, <1>3

(* The columns that a deletion may clear.                                    *)
LEMMA ClearedColumns ==
  ASSUME NEW k \in ForeignKeys, k.after = "set_null"
  PROVE  \/ k.column = "item" /\ k.table \in {"quote_line", "order_line", "invoice_line"}
         \/ k.table = "invoice" /\ k.column \in {"quote", "earning"}
         \/ k.table = "link" /\ k.column = "template"
  BY EnterpriseKeyParts, LineKeyParts, SaleKeyParts, OtherKeyParts DEF Parts, ForeignKeys

-----------------------------------------------------------------------------
(* Rows.                                                                     *)
Whole ==
  /\ db = [t \in Tables |-> db[t]]
  /\ \A t \in Tables : db[t] \in [Ids[t] -> Row[t] \cup Absent]

RefsLive ==
  \A k \in ForeignKeys : \A x \in Live(k.table) :
     db[k.table][x][k.column] \in Live(k.parent) \cup {None}

LEMMA LiveRows ==
  ASSUME Whole, NEW t \in Tables, NEW x \in Ids[t]
  PROVE  x \in Live(t) <=> db[t][x] \in Row[t]
  BY AbsenceAssumption DEF Whole, Live, Absent

LEMMA LiveRowsAfter ==
  ASSUME Whole', NEW t \in Tables, NEW x \in Ids[t]
  PROVE  x \in Live(t)' <=> db'[t][x] \in Row[t]
  BY AbsenceAssumption DEF Whole, Live, Absent

LEMMA LiveIds ==
  ASSUME NEW t, NEW x \in Live(t)
  PROVE  x \in Ids[t] /\ db[t][x] # Unborn /\ db[t][x] # Gone
  BY DEF Live, Absent

(* Row y of table u names one of the rows gone by a key of that kind.         *)
Hangs(after, gone, u, y) ==
  \E k \in ForeignKeys :
     /\ k.after = after /\ k.table = u
     /\ y \in Live(u) /\ <<k.parent, db[u][y][k.column]>> \in gone

LEMMA NamingPairs ==
  ASSUME NEW after, NEW gone, NEW p \in NamingAny(after, gone)
  PROVE  \E u, y : p = <<u, y>> /\ Hangs(after, gone, u, y)
<1>1. PICK k \in {f \in ForeignKeys : f.after = after} : p \in Naming(k, gone)
  BY DEF NamingAny
<1>2. PICK y \in {z \in Live(k.table) : <<k.parent, db[k.table][z][k.column]>> \in gone} :
         p = <<k.table, y>>
  BY <1>1 DEF Naming, Where
<1>3. Hangs(after, gone, k.table, y)
  BY <1>1, <1>2 DEF Hangs
<1> QED BY <1>2, <1>3

LEMMA HangingNames ==
  ASSUME NEW after, NEW gone, NEW u, NEW y, Hangs(after, gone, u, y)
  PROVE  <<u, y>> \in NamingAny(after, gone)
<1>1. PICK k \in ForeignKeys :
     /\ k.after = after /\ k.table = u
     /\ y \in Live(u) /\ <<k.parent, db[u][y][k.column]>> \in gone
  BY DEF Hangs
<1>2. <<u, y>> \in Naming(k, gone)
  BY <1>1 DEF Naming, Where
<1> QED BY <1>1, <1>2 DEF NamingAny

(* What goes with a row takes along all that hangs from it.                   *)
LEMMA CascadeCloses ==
  ASSUME NEW t, NEW x
  PROVE  NamingAny("cascade", GoneWith(t, x)) \subseteq GoneWith(t, x)
<1> DEFINE S0 == {<<t, x>>}
           S1 == Cascade(S0)
           S2 == Cascade(S1)
<1>0. /\ S1 = S0 \cup NamingAny("cascade", S0)
      /\ S2 = S1 \cup NamingAny("cascade", S1)
      /\ GoneWith(t, x) = S2
  BY DEF Cascade, GoneWith
<1> HIDE DEF S0, S1, S2
<1> SUFFICES ASSUME NEW p \in NamingAny("cascade", S2) PROVE p \in S2
  BY <1>0
<1>1. PICK u, y : p = <<u, y>> /\ Hangs("cascade", S2, u, y)
  BY NamingPairs
<1>2. PICK m \in ForeignKeys :
         /\ m.after = "cascade" /\ m.table = u
         /\ y \in Live(u) /\ <<m.parent, db[u][y][m.column]>> \in S2
  BY <1>1 DEF Hangs
<1> DEFINE v == db[u][y][m.column]
<1>3. ASSUME NEW S, <<m.parent, v>> \in S PROVE p \in NamingAny("cascade", S)
  BY <1>1, <1>2, <1>3, HangingNames DEF Hangs
<1>4. CASE <<m.parent, v>> \in S1
  BY <1>4, <1>0, <1>3
<1>5. CASE <<m.parent, v>> \in NamingAny("cascade", S1)
  <2>1. Hangs("cascade", S1, m.parent, v)
    BY <1>5, NamingPairs
  <2>2. PICK j \in ForeignKeys :
           /\ j.after = "cascade" /\ j.table = m.parent /\ v \in Live(m.parent)
           /\ <<j.parent, db[m.parent][v][j.column]>> \in S1
    BY <2>1 DEF Hangs
  <2>3. CASE <<j.parent, db[m.parent][v][j.column]>> \in S0
    <3>1. <<m.parent, v>> \in NamingAny("cascade", S0)
      BY <2>2, <2>3, HangingNames DEF Hangs
    <3> QED BY <3>1, <1>0, <1>4
  <2>4. CASE <<j.parent, db[m.parent][v][j.column]>> \in NamingAny("cascade", S0)
    <3>1. Hangs("cascade", S0, j.parent, db[m.parent][v][j.column])
      BY <2>4, NamingPairs
    <3>2. PICK i \in ForeignKeys : i.after = "cascade" /\ i.table = j.parent
      BY <3>1 DEF Hangs
    <3> QED BY <3>2, <2>2, <1>2, CascadesEnd
  <2> QED BY <2>2, <2>3, <2>4, <1>0
<1> QED BY <1>0, <1>2, <1>4, <1>5

-----------------------------------------------------------------------------
(* Statements that fit their table.                                          *)
Writing(q)  == q.do \in {"insert", "save", "update", "overwrite", "relink"}
Patching(q) == q.do \in {"update", "relink"}

Typed(q) ==
  /\ q.table \in Tables /\ q.id \in Ids[q.table]
  /\ (Writing(q) \/ q.do \in {"delete", "upload", "remove", "remove_folder"})
  /\ Writing(q) /\ ~Patching(q) => q.set \in Row[q.table]
  /\ Patching(q) => \A r \in Row[q.table] : Merged(r, q.set) \in Row[q.table]

(* What a statement makes of the row it is about.                            *)
Becomes(q) == IF Patching(q) THEN Merged(db[q.table][q.id], q.set) ELSE q.set

WritesRow(q) ==
  \A t \in Tables : \A x \in Ids[t] :
     db'[t][x] = IF t = q.table /\ x = q.id THEN Becomes(q) ELSE db[t][x]

LEMMA Written ==
  ASSUME Whole, NEW q, Typed(q), Writing(q), Accepted(q), db' = Effect(q)
  PROVE  Whole' /\ Becomes(q) \in Row[q.table] /\ WritesRow(q)
<1>1. db' = [db EXCEPT ![q.table][q.id] = Becomes(q)]
  BY DEF Effect, Writing, Patching, Becomes
<1>2. Becomes(q) \in Row[q.table]
  <2>1. CASE Patching(q)
    <3>1. db[q.table][q.id] \in Row[q.table]
      BY <2>1, LiveRows DEF Accepted, Typed, Patching
    <3> QED BY <3>1, <2>1 DEF Typed, Becomes
  <2> QED BY <2>1 DEF Typed, Becomes
<1>3. WritesRow(q) /\ db' = [t \in Tables |-> db'[t]]
  BY <1>1 DEF Whole, WritesRow, Typed
<1>4. ASSUME NEW t \in Tables PROVE db'[t] \in [Ids[t] -> Row[t] \cup Absent]
  <2>1. db[t] \in [Ids[t] -> Row[t] \cup Absent]
    BY DEF Whole
  <2>2. CASE t = q.table
    <3>1. db'[t] = [db[t] EXCEPT ![q.id] = Becomes(q)]
      BY <1>1, <2>2 DEF Whole
    <3> QED BY <3>1, <2>1, <2>2, <1>2
  <2>3. CASE t # q.table
    BY <1>1, <2>1, <2>3 DEF Whole
  <2> QED BY <2>2, <2>3
<1> QED BY <1>2, <1>3, <1>4 DEF Whole

(* A deletion takes what hangs from the row and clears columns that may be   *)
(* empty.                                                                    *)
MayClear(t, c) == \E k \in ForeignKeys : k.table = t /\ k.column = c /\ k.after = "set_null"

Function(r) == r = [c \in DOMAIN r |-> r[c]]

Functions(rows) == \A r \in rows : Function(r)

LEMMA RowsAreFunctions ==
  ASSUME NEW t \in Tables
  PROVE  Functions(Row[t])
<1>1. /\ Functions(EnterpriseRow) /\ Functions(SettingRow) /\ Functions(LinkRow)
      /\ Functions(TemplateRow) /\ Functions(HolidayRow) /\ Functions(VacationRow)
  BY DEF Functions, Function, EnterpriseRow, SettingRow, LinkRow, TemplateRow, HolidayRow, VacationRow
<1>2. /\ Functions(ClientRow) /\ Functions(SeriesRow) /\ Functions(EarningRow)
      /\ Functions(QuoteRow) /\ Functions(OrderRow) /\ Functions(InvoiceRow)
  BY DEF Functions, Function, ClientRow, SeriesRow, EarningRow, QuoteRow, OrderRow, InvoiceRow
<1>3. /\ Functions(LineRow(Quotes)) /\ Functions(LineRow(Orders)) /\ Functions(LineRow(Invoices))
  BY DEF Functions, Function, LineRow
<1>4. /\ Functions(CategoryRow) /\ Functions(ItemRow) /\ Functions(SupplierRow)
      /\ Functions(SpentRow) /\ Functions(DocumentRow)
  BY DEF Functions, Function, CategoryRow, ItemRow, SupplierRow, SpentRow, DocumentRow
<1> QED BY <1>1, <1>2, <1>3, <1>4, TheTables, TheRows

LEMMA ClearedRows ==
  ASSUME NEW t \in Tables, NEW r \in Row[t], NEW s, s = [c \in DOMAIN r |-> s[c]],
         \A c \in DOMAIN r : s[c] = r[c] \/ (s[c] = None /\ MayClear(t, c))
  PROVE  s \in Row[t]
<1>0. ASSUME NEW c, MayClear(t, c)
      PROVE  \/ c = "item" /\ t \in {"quote_line", "order_line", "invoice_line"}
             \/ t = "invoice" /\ c \in {"quote", "earning"}
             \/ t = "link" /\ c = "template"
  BY <1>0, ClearedColumns DEF MayClear
<1>1. CASE t \in {"quote_line", "order_line", "invoice_line"}
  <2>1. PICK ds : Row[t] = LineRow(ds)
    BY <1>1, TheRows
  <2>2. DOMAIN r = {"doc", "item", "price"} /\ r.doc \in ds /\ r.item \in Items \cup {None} /\ r.price \in Prices
    BY <2>1 DEF LineRow
  <2>3. s.doc = r.doc /\ s.price = r.price /\ s.item \in Items \cup {None}
    BY <2>2, <1>0, <1>1
  <2>4. s = [c \in {"doc", "item", "price"} |-> s[c]]
    BY <2>2
  <2>5. s \in LineRow(ds)
    BY <2>2, <2>3, <2>4 DEF LineRow
  <2> QED BY <2>1, <2>5
<1>2. CASE t = "invoice"
  <2>1. /\ DOMAIN r = {"client", "series", "quote", "earning", "status", "number", "party"}
        /\ r.client \in Clients /\ r.series \in Series /\ r.quote \in Quotes \cup {None}
        /\ r.earning \in Earnings \cup {None} /\ r.status \in InvoiceStatuses
        /\ r.number \in Nat \cup {None} /\ r.party \in Nifs \cup {None}
    BY <1>2, TheRows DEF InvoiceRow
  <2>2. /\ s.client = r.client /\ s.series = r.series /\ s.quote \in Quotes \cup {None}
        /\ s.earning \in Earnings \cup {None} /\ s.status = r.status
        /\ s.number = r.number /\ s.party = r.party
    BY <2>1, <1>0, <1>2
  <2>3. s = [c \in {"client", "series", "quote", "earning", "status", "number", "party"} |-> s[c]]
    BY <2>1
  <2>4. s \in InvoiceRow
    BY <2>1, <2>2, <2>3 DEF InvoiceRow
  <2> QED BY <2>4, <1>2, TheRows
<1>3. CASE t = "link"
  <2>1. DOMAIN r = {"ent", "template"} /\ r.ent \in Enterprises /\ r.template \in Templates \cup {None}
    BY <1>3, TheRows DEF LinkRow
  <2>2. s.ent = r.ent /\ s.template \in Templates \cup {None} /\ s = [c \in {"ent", "template"} |-> s[c]]
    BY <2>1, <1>0, <1>3
  <2>3. s \in LinkRow
    BY <2>1, <2>2 DEF LinkRow
  <2> QED BY <2>3, <1>3, TheRows
<1>4. CASE t \notin {"quote_line", "order_line", "invoice_line", "invoice", "link"}
  <2>1. \A c \in DOMAIN r : s[c] = r[c]
    BY <1>0, <1>4
  <2>2. s = r
    BY <2>1, RowsAreFunctions DEF Function, Functions
  <2> QED BY <2>2
<1> QED BY <1>1, <1>2, <1>3, <1>4

(* The row stays, but for columns that are cleared.                          *)
Cleared(t, x) ==
  /\ DOMAIN db'[t][x] = DOMAIN db[t][x]
  /\ \A c \in DOMAIN db[t][x] :
        db'[t][x][c] = db[t][x][c] \/ (db'[t][x][c] = None /\ MayClear(t, c))

Deletes(q) ==
  \A t \in Tables : \A x \in Ids[t] :
     IF <<t, x>> \in GoneWith(q.table, q.id) THEN db'[t][x] = Gone
     ELSE IF x \in Live(t) THEN x \in Live(t)' /\ Cleared(t, x)
     ELSE db'[t][x] = db[t][x]

LEMMA UnlinkedColumns ==
  ASSUME NEW t, NEW r, NEW gone
  PROVE  LET s == Unlinked(t, r, gone) IN
         /\ s = [c \in DOMAIN r |-> s[c]] /\ DOMAIN s = DOMAIN r
         /\ \A c \in DOMAIN r : s[c] = r[c] \/ (s[c] = None /\ MayClear(t, c))
         /\ \A k \in ForeignKeys :
               (k.table = t /\ k.after = "set_null" /\ <<k.parent, r[k.column]>> \in gone
                  /\ k.column \in DOMAIN r) => s[k.column] = None
  BY DEF Unlinked, MayClear

LEMMA Deleted ==
  ASSUME Whole, NEW q, Typed(q), q.do = "delete", Accepted(q), db' = Effect(q)
  PROVE  Whole' /\ Deletes(q)
<1> DEFINE gone == GoneWith(q.table, q.id)
<1>1. db' = [t \in Tables |-> [x \in Ids[t] |->
        IF <<t, x>> \in gone THEN Gone
        ELSE IF x \in Live(t) THEN Unlinked(t, db[t][x], gone)
        ELSE db[t][x]]]
  BY DEF Effect, Without
<1> HIDE DEF gone
<1>2. ASSUME NEW t \in Tables, NEW x \in Ids[t], x \in Live(t), <<t, x>> \notin gone
      PROVE  x \in Live(t)' /\ Cleared(t, x) /\ db'[t][x] \in Row[t]
  <2>1. db'[t][x] = Unlinked(t, db[t][x], gone)
    BY <1>1, <1>2
  <2>2. db[t][x] \in Row[t]
    BY <1>2, LiveRows
  <2>3. db'[t][x] \in Row[t]
    BY <2>1, <2>2, UnlinkedColumns, ClearedRows
  <2>4. Cleared(t, x)
    BY <2>1, UnlinkedColumns DEF Cleared
  <2>5. x \in Live(t)'
    BY <2>3, AbsenceAssumption DEF Live, Absent
  <2> QED BY <2>3, <2>4, <2>5
<1>3. Deletes(q)
  BY <1>1, <1>2 DEF Deletes, gone
<1>4. ASSUME NEW t \in Tables PROVE db'[t] \in [Ids[t] -> Row[t] \cup Absent]
  <2>1. ASSUME NEW x \in Ids[t] PROVE db'[t][x] \in Row[t] \cup Absent
    <3>1. CASE <<t, x>> \in gone
      BY <1>1, <3>1 DEF Absent
    <3>2. CASE <<t, x>> \notin gone /\ x \in Live(t)
      BY <1>2, <3>2
    <3>3. CASE <<t, x>> \notin gone /\ x \notin Live(t)
      <4>1. db'[t][x] = db[t][x]
        BY <1>1, <3>3
      <4> QED BY <4>1 DEF Whole
    <3> QED BY <3>1, <3>2, <3>3
  <2>2. db'[t] = [x \in Ids[t] |-> db'[t][x]]
    BY <1>1
  <2> QED BY <2>1, <2>2
<1>5. db' = [t \in Tables |-> db'[t]]
  BY <1>1
<1> QED BY <1>3, <1>4, <1>5 DEF Whole

(* References.                                                               *)
LEMMA WrittenRefs ==
  ASSUME Whole, RefsLive, NEW q, Typed(q), Writing(q), Accepted(q), db' = Effect(q)
  PROVE  RefsLive'
<1>1. Whole' /\ Becomes(q) \in Row[q.table] /\ WritesRow(q)
  BY Written
<1>2. ASSUME NEW t \in Tables, NEW x \in Live(t) PROVE x \in Live(t)'
  <2>1. x \in Ids[t] /\ db[t][x] \in Row[t]
    BY LiveIds, LiveRows
  <2>2. db'[t][x] \in Row[t]
    BY <2>1, <1>1 DEF WritesRow
  <2> QED BY <2>1, <2>2, <1>1, LiveRowsAfter
<1>3. ParentsLive(q.table, q.set)
  BY DEF Accepted, Writing
<1> SUFFICES ASSUME NEW k \in ForeignKeys, NEW x \in Live(k.table)'
             PROVE  db'[k.table][x][k.column] \in Live(k.parent)' \cup {None}
  BY DEF RefsLive
<1>4. Fits(k)
  BY KeysFit
<1>5. x \in Ids[k.table]
  BY LiveIds DEF Live
<1>6. CASE k.table = q.table /\ x = q.id
  <2>1. db'[k.table][x] = Becomes(q)
    BY <1>1, <1>4, <1>5, <1>6 DEF WritesRow, Fits
  <2>2. k.column \in DOMAIN Becomes(q)
    BY <1>1, <1>4, <1>6 DEF Fits
  <2>3. CASE k.column \in DOMAIN q.set /\ Becomes(q)[k.column] = q.set[k.column]
    BY <2>1, <2>3, <1>3, <1>2, <1>4, <1>6 DEF ParentsLive, Fits
  <2>4. CASE Patching(q) /\ k.column \notin DOMAIN q.set
    <3>1. q.id \in Live(q.table)
      BY <2>4 DEF Accepted, Patching
    <3>2. Becomes(q)[k.column] = db[q.table][q.id][k.column]
      BY <2>4, <2>2 DEF Becomes, Merged
    <3> QED BY <3>1, <3>2, <2>1, <1>2, <1>4, <1>6 DEF RefsLive, Fits
  <2> QED BY <2>2, <2>3, <2>4 DEF Becomes, Merged, Typed
<1>7. CASE ~(k.table = q.table /\ x = q.id)
  <2>1. db'[k.table][x] = db[k.table][x]
    BY <1>1, <1>4, <1>5, <1>7 DEF WritesRow, Fits
  <2>2. x \in Live(k.table)
    BY <2>1, <1>5 DEF Live
  <2> QED BY <2>1, <2>2, <1>2, <1>4 DEF RefsLive, Fits
<1> QED BY <1>6, <1>7

LEMMA DeletedRefs ==
  ASSUME Whole, RefsLive, NEW q, Typed(q), q.do = "delete", Accepted(q), db' = Effect(q)
  PROVE  RefsLive'
<1>1. Whole' /\ Deletes(q)
  BY Deleted
<1> DEFINE gone == GoneWith(q.table, q.id)
<1> SUFFICES ASSUME NEW k \in ForeignKeys, NEW x \in Live(k.table)',
                    db'[k.table][x][k.column] # None
             PROVE  db'[k.table][x][k.column] \in Live(k.parent)'
  BY DEF RefsLive
<1>2. Fits(k)
  BY KeysFit
<1>3. x \in Ids[k.table] /\ db'[k.table][x] \notin Absent
  BY DEF Live
<1>4. <<k.table, x>> \notin gone /\ x \in Live(k.table)
  BY <1>1, <1>2, <1>3 DEF Deletes, Fits, Live, Absent
<1>5. Cleared(k.table, x)
  BY <1>1, <1>2, <1>3, <1>4 DEF Deletes, Fits
<1> DEFINE v == db[k.table][x][k.column]
<1>6. k.column \in DOMAIN db[k.table][x]
  BY <1>2, <1>3, <1>4, LiveRows DEF Fits
<1>7. db'[k.table][x][k.column] = v
  BY <1>5, <1>6 DEF Cleared
<1>8. v \in Live(k.parent)
  BY <1>4, <1>7 DEF RefsLive
<1>9. <<k.parent, v>> \notin gone
  <2>1. SUFFICES ASSUME <<k.parent, v>> \in gone PROVE FALSE
    OBVIOUS
  <2>2. Hangs(k.after, gone, k.table, x)
    BY <1>4, <2>1 DEF Hangs
  <2>3. <<k.table, x>> \in NamingAny(k.after, gone)
    BY <2>2, HangingNames
  <2>4. CASE k.after = "cascade"
    BY <2>3, <2>4, <1>4, CascadeCloses
  <2>5. CASE k.after = "refuse"
    BY <2>3, <2>5, <1>4 DEF Accepted
  <2>6. CASE k.after = "set_null"
    <3>1. db'[k.table][x] = Unlinked(k.table, db[k.table][x], gone)
      BY <1>2, <1>3, <1>4 DEF Effect, Without, Fits
    <3> QED BY <3>1, <2>1, <2>6, <1>6, UnlinkedColumns
  <2> QED BY <2>4, <2>5, <2>6, <1>2 DEF Fits
<1>10. v \in Ids[k.parent] /\ Cleared(k.parent, v)
  BY <1>1, <1>2, <1>8, <1>9, LiveIds DEF Deletes, Fits
<1>11. v \in Live(k.parent)'
  <2>1. db'[k.parent][v] \in Row[k.parent]
    <3>1. db[k.parent][v] \in Row[k.parent]
      BY <1>8, <1>10, <1>2, LiveRows DEF Fits
    <3>2. db'[k.parent][v] = Unlinked(k.parent, db[k.parent][v], gone)
      BY <1>2, <1>8, <1>9, <1>10 DEF Effect, Without, Fits
    <3> QED BY <3>1, <3>2, <1>2, UnlinkedColumns, ClearedRows DEF Fits
  <2> QED BY <2>1, <1>1, <1>2, <1>10, LiveRowsAfter DEF Fits
<1> QED BY <1>7, <1>11

-----------------------------------------------------------------------------
(* What a statement knows of the rows it was made from, and what stays true  *)
(* of them until it is executed, unless they are written unchecked.          *)
Born(t, x) == x \in Ids[t] /\ db[t][x] # Unborn
Plain(t, x) == x \notin unchecked \/ t \in CheckedTables
PureItems == AsJudged(Categories \cup Items)

IsOf(t, x, e)    == Born(t, x) /\ (x \in Live(t) /\ Plain(t, x) => db[t][x].ent = e)
ItemIsOf(i, e)   == Born("item", i) /\ (i \in Live("item") /\ PureItems => ItemEnt(i) = e)
DocIsOf(t, d, e) ==
  Born(t, d) /\ (d \in Live(t) /\ d \notin excused \cup unchecked => DocEnt(t, d) = e)
LineIsOf(t, l, d) ==
  Born(LineTable[t], l) /\ (l \in Live(LineTable[t]) => db[LineTable[t]][l].doc = d)

(* The tables whose rows are of an enterprise.                              *)
Owned == {"setting", "link", "template", "holiday", "client", "series", "earning",
          "category", "supplier", "spent_category"}

KeepsEnterprise(q) ==
  q.do = "update" /\ "ent" \in DOMAIN q.set => q.table \in Owned /\ IsOf(q.table, q.id, q.set.ent)

LinkOf(q, e) ==
  /\ IsOf("template", q.set.template, e)
  /\ IF q.do = "insert" THEN q.set.ent = e ELSE IsOf("link", q.id, e)

KnowsLink(q) ==
  q.table = "link" =>
     /\ q.do = "update" => "ent" \notin DOMAIN q.set
     /\ "template" \in DOMAIN q.set /\ q.set.template # None => \E e \in Enterprises : LinkOf(q, e)

InvoiceOf(q, e) == IsOf("client", q.set.client, e) /\ IsOf("series", q.set.series, e)

KnowsInvoice(q) ==
  q.table = "invoice" =>
     /\ "client" \in DOMAIN q.set /\ "series" \in DOMAIN q.set
     /\ Plain("invoice", q.id) => \E e \in Enterprises : InvoiceOf(q, e)

KnowsEarning(q) ==
  q.table = "earning" =>
     /\ {"ent", "client", "series"} \subseteq DOMAIN q.set
     /\ InvoiceOf(q, q.set.ent)

ItemOf(q, e) == ItemIsOf(q.id, e) /\ IsOf("category", q.set.category, e)

KnowsItem(q) ==
  q.table = "item" /\ q.do = "update" =>
     "category" \in DOMAIN q.set /\ \E e \in Enterprises : ItemOf(q, e)

SaleOf(q, t, d, e) ==
  /\ ItemIsOf(q.set.item, e) /\ DocIsOf(t, d, e)
  /\ IF q.do = "insert" THEN q.set.doc = d ELSE LineIsOf(t, q.id, d)

KnowsLine(q, t) ==
  q.table = LineTable[t] =>
     /\ q.do = "update" => "doc" \notin DOMAIN q.set
     /\ "item" \in DOMAIN q.set /\ q.set.item # None =>
           \E d \in Ids[t], e \in Enterprises : SaleOf(q, t, d, e)

Known(q) ==
  Writing(q) /\ ~Unchecked(q) =>
     /\ KeepsEnterprise(q)
     /\ KnowsLink(q) /\ KnowsInvoice(q) /\ KnowsEarning(q) /\ KnowsItem(q)
     /\ \A t \in DOMAIN LineTable : KnowsLine(q, t)

(* A step keeps what statements know.                                        *)
Steady ==
  /\ excused \subseteq excused' /\ unchecked \subseteq unchecked'
  /\ \A t \in Tables \ {"spent"} : \A x \in Ids[t] :
        db[t][x] # Unborn =>
           /\ db'[t][x] # Unborn
           /\ x \in Live(t)' /\ Plain(t, x)' => x \in Live(t)
  /\ \A t \in Owned : \A x \in Live(t) \cap Live(t)' :
        Plain(t, x)' => db'[t][x].ent = db[t][x].ent
  /\ PureItems' => \A i \in Live("item") \cap Live("item")' : ItemEnt(i)' = ItemEnt(i)
  /\ \A t \in DOMAIN LineTable : \A d \in (Live(t) \cap Live(t)') \ excused' :
        DocEnt(t, d)' = DocEnt(t, d)
  /\ \A t \in DOMAIN LineTable : \A l \in Live(LineTable[t]) \cap Live(LineTable[t])' :
        db'[LineTable[t]][l].doc = db[LineTable[t]][l].doc

LEMMA TheLineTables ==
  /\ DOMAIN LineTable = {"quote", "order", "invoice"}
  /\ LineTable["quote"] = "quote_line" /\ LineTable["order"] = "order_line"
  /\ LineTable["invoice"] = "invoice_line"
  BY DEF LineTable

(* Fewer rows are plain as time goes by.                                     *)
LEMMA PlainBefore ==
  ASSUME unchecked \subseteq unchecked'
  PROVE  /\ \A t, x : Plain(t, x)' => Plain(t, x)
         /\ PureItems' => PureItems
         /\ PureItems' => \A t, x : x \in Ids["item"] \cup Ids["category"] => Plain(t, x)'
  BY TheIds DEF Plain, PureItems, AsJudged

LEMMA FactsStay ==
  ASSUME Steady
  PROVE  /\ \A t \in Owned : \A x, e : IsOf(t, x, e) => IsOf(t, x, e)'
         /\ \A i, e : ItemIsOf(i, e) => ItemIsOf(i, e)'
         /\ \A t \in DOMAIN LineTable : \A d, e : DocIsOf(t, d, e) => DocIsOf(t, d, e)'
         /\ \A t \in DOMAIN LineTable : \A l, d : LineIsOf(t, l, d) => LineIsOf(t, l, d)'
<1>1. ASSUME NEW t \in Owned, NEW x, NEW e, IsOf(t, x, e) PROVE IsOf(t, x, e)'
  <2>1. t \in Tables \ {"spent"}
    BY TheTables DEF Owned
  <2>2. \A u, y : Plain(u, y)' => Plain(u, y)
    BY PlainBefore DEF Steady
  <2> QED BY <1>1, <2>1, <2>2 DEF Steady, IsOf, Born
<1>2. ASSUME NEW i, NEW e, ItemIsOf(i, e) PROVE ItemIsOf(i, e)'
  <2>1. PureItems' => PureItems /\ (i \in Ids["item"] => Plain("item", i)')
    BY PlainBefore DEF Steady
  <2> QED BY <1>2, <2>1, TheTables DEF Steady, ItemIsOf, Born
<1>3. ASSUME NEW t \in DOMAIN LineTable, NEW d, NEW e, DocIsOf(t, d, e) PROVE DocIsOf(t, d, e)'
  <2>1. t \in Tables \ {"spent"}
    BY TheTables, TheLineTables
  <2>2. d \notin unchecked' => Plain(t, d)'
    BY DEF Plain
  <2> QED BY <1>3, <2>1, <2>2 DEF Steady, DocIsOf, Born
<1>4. ASSUME NEW t \in DOMAIN LineTable, NEW l, NEW d, LineIsOf(t, l, d) PROVE LineIsOf(t, l, d)'
  <2>1. LineTable[t] \in Tables \ {"spent"} /\ Plain(LineTable[t], l)'
    BY TheTables, TheLineTables DEF Plain, CheckedTables
  <2> QED BY <1>4, <2>1 DEF Steady, LineIsOf, Born
<1> QED BY <1>1, <1>2, <1>3, <1>4

LEMMA KnownStays ==
  ASSUME Steady, NEW q, Known(q)
  PROVE  Known(q)'
<1> SUFFICES ASSUME Writing(q), ~Unchecked(q)
             PROVE  /\ KeepsEnterprise(q)'
                    /\ KnowsLink(q)' /\ KnowsInvoice(q)' /\ KnowsEarning(q)' /\ KnowsItem(q)'
                    /\ \A t \in DOMAIN LineTable : KnowsLine(q, t)'
  BY DEF Known, Unchecked
<1>0. {"template", "link", "client", "series", "category"} \subseteq Owned
  BY DEF Owned
<1>1. KeepsEnterprise(q)'
  BY FactsStay DEF Known, KeepsEnterprise
<1>2. ASSUME NEW e, LinkOf(q, e) PROVE LinkOf(q, e)'
  BY <1>0, <1>2, FactsStay DEF LinkOf
<1>3. ASSUME NEW e, InvoiceOf(q, e) PROVE InvoiceOf(q, e)'
  BY <1>0, <1>3, FactsStay DEF InvoiceOf
<1>4. ASSUME NEW e, ItemOf(q, e) PROVE ItemOf(q, e)'
  BY <1>0, <1>4, FactsStay DEF ItemOf
<1>5. ASSUME NEW t \in DOMAIN LineTable, NEW d, NEW e, SaleOf(q, t, d, e) PROVE SaleOf(q, t, d, e)'
  BY <1>5, FactsStay DEF SaleOf
<1>6. KnowsLink(q)'
  BY <1>2 DEF Known, KnowsLink
<1>7. KnowsInvoice(q)' /\ KnowsEarning(q)'
  BY <1>3, PlainBefore DEF Known, KnowsInvoice, KnowsEarning, Steady
<1>8. KnowsItem(q)'
  BY <1>4 DEF Known, KnowsItem
<1>9. ASSUME NEW t \in DOMAIN LineTable PROVE KnowsLine(q, t)'
  <2>1. KnowsLine(q, t)
    BY DEF Known
  <2> QED BY <2>1, <1>5 DEF KnowsLine
<1> QED BY <1>1, <1>6, <1>7, <1>8, <1>9

LEMMA NeverCleared ==
  /\ \A t : ~MayClear(t, "ent") /\ ~MayClear(t, "category") /\ ~MayClear(t, "doc")
          /\ ~MayClear(t, "client") /\ ~MayClear(t, "series")
  BY ClearedColumns DEF MayClear

LEMMA OwnedRows ==
  ASSUME NEW t \in Owned, NEW r \in Row[t]
  PROVE  t \in Tables /\ t # "spent" /\ "ent" \in DOMAIN r
<1>1. Names(t, "ent", "enterprise")
  BY TheNames DEF Owned
<1> QED BY <1>1, TheTables DEF Owned, Names

LEMMA TheLines ==
  ASSUME NEW t \in DOMAIN LineTable
  PROVE  /\ t \in Tables /\ LineTable[t] \in Tables /\ LineTable[t] # "spent" /\ t # "spent"
         /\ t \in DOMAIN Owner /\ Owner[t] = "client"
         /\ Names(LineTable[t], "doc", t) /\ Names(LineTable[t], "item", "item")
         /\ Names(t, "client", "client")
  BY TheLineTables, TheTables, TheNames DEF Owner

Execution(q) ==
  /\ Typed(q) /\ Known(q) /\ (Writing(q) \/ q.do = "delete")
  /\ q.do = "insert" => db[q.table][q.id] = Unborn
  /\ q.do = "save" => q.table = "spent"
  /\ Unchecked(q) => q.id \in unchecked /\ q.table \notin CheckedTables
  /\ db' = Effect(q) /\ unchecked' = unchecked
  /\ excused \cup UNION {Moves(t, db') : t \in DOMAIN Owner} \subseteq excused'

LEMMA DocsKeepEnterprise ==
  ASSUME UNION {Moves(t, db') : t \in DOMAIN Owner} \subseteq excused',
         NEW t \in DOMAIN LineTable, NEW d \in (Live(t) \cap Live(t)') \ excused'
  PROVE  DocEnt(t, d)' = DocEnt(t, d)
<1>1. d \notin Moves(t, db')
  BY TheLines
<1>2. EntOf(db', t, d) = EntOf(db, t, d)
  BY <1>1 DEF Moves, Live
<1> QED BY <1>2, TheLines DEF EntOf, DocEnt

LEMMA CategoryKey ==
  \E k \in ForeignKeys : Parts(k, "item", "category", "category", "refuse")
  BY KeyParts DEF ForeignKeys, PurchaseKeys

LEMMA ParentIsLive ==
  ASSUME NEW k \in ForeignKeys, NEW t, NEW c, NEW p, NEW a, Parts(k, t, c, p, a),
         NEW r, ParentsLive(t, r), c \in DOMAIN r
  PROVE  r[c] \in Live(p) \cup {None}
<1>1. k \in {f \in ForeignKeys : f.table = t /\ f.column \in DOMAIN r}
  BY DEF Parts
<1>2. r[k.column] = None \/ r[k.column] \in Live(k.parent)
  BY <1>1 DEF ParentsLive
<1> QED BY <1>2 DEF Parts

LEMMA ItemsHaveCategories ==
  ASSUME Whole, RefsLive, NEW i \in Live("item")
  PROVE  "category" \in DOMAIN db["item"][i] /\ db["item"][i].category \in Live("category")
<1>1. db["item"][i] \in ItemRow
  BY LiveRows, LiveIds, TheRows, TheTables
<1>2. "category" \in DOMAIN db["item"][i] /\ db["item"][i].category \in Categories
  BY <1>1 DEF ItemRow
<1>3. db["item"][i].category \in Live("category") \cup {None}
  BY CategoryKey DEF RefsLive, Parts
<1> QED BY <1>2, <1>3, AbsenceAssumption, TheTables, TheIds

LEMMA ItemsHaveCategoriesAfter ==
  ASSUME Whole', RefsLive', NEW i \in Live("item")'
  PROVE  db'["item"][i].category \in Live("category")'
<1>1. i \in Ids["item"]
  BY DEF Live
<1>2. db'["item"][i] \in ItemRow
  BY <1>1, LiveRowsAfter, TheRows, TheTables
<1>3. db'["item"][i].category \in Categories
  BY <1>2 DEF ItemRow
<1>4. db'["item"][i].category \in Live("category")' \cup {None}
  BY CategoryKey DEF RefsLive, Parts
<1> QED BY <1>3, <1>4, AbsenceAssumption, TheTables, TheIds

LEMMA WritingIsSteady ==
  ASSUME Whole, RefsLive, NEW q, Execution(q), Writing(q), Accepted(q)
  PROVE  Steady
<1>1. Whole' /\ Becomes(q) \in Row[q.table] /\ WritesRow(q) /\ RefsLive'
  BY Written, WrittenRefs DEF Execution
<1>2. ASSUME NEW t \in Tables, NEW x \in Live(t) PROVE x \in Live(t)'
  <2>1. x \in Ids[t] /\ db[t][x] \in Row[t]
    BY LiveIds, LiveRows
  <2>2. db'[t][x] \in Row[t]
    BY <2>1, <1>1 DEF WritesRow
  <2> QED BY <2>1, <2>2, <1>1, LiveRowsAfter
<1>3. ASSUME NEW t \in Tables \ {"spent"}, NEW x \in Ids[t], db[t][x] # Unborn
      PROVE  db'[t][x] # Unborn /\ (x \in Live(t)' /\ Plain(t, x)' => x \in Live(t))
  <2>1. CASE t = q.table /\ x = q.id
    <3>1. Plain(t, x)' => q.do = "update"
      BY <1>3, <2>1 DEF Execution, Writing, Plain, Unchecked, CheckedTables
    <3>2. Plain(t, x)' => x \in Live(t)
      BY <2>1, <3>1 DEF Accepted
    <3>3. db'[t][x] # Unborn
      BY <2>1, <1>1, AbsenceAssumption DEF WritesRow
    <3> QED BY <3>2, <3>3
  <2>2. CASE ~(t = q.table /\ x = q.id)
    BY <2>2, <1>1, <1>3 DEF WritesRow, Live
  <2> QED BY <2>1, <2>2
<1>4. ASSUME NEW t \in Tables \ {"spent"}, NEW x \in Live(t), t = q.table, x = q.id, Plain(t, x)'
      PROVE  q.do = "update" /\ ~Unchecked(q) /\ db'[t][x] = Merged(db[t][x], q.set)
  <2>1. q.do = "update" /\ ~Unchecked(q)
    BY <1>4, LiveIds DEF Execution, Writing, Plain, Unchecked, CheckedTables
  <2> QED BY <2>1, <1>1, <1>4, LiveIds DEF WritesRow, Becomes, Patching
<1>5. ASSUME NEW t \in Tables, NEW x \in Live(t), ~(t = q.table /\ x = q.id)
      PROVE  db'[t][x] = db[t][x]
  BY <1>1, <1>5, LiveIds DEF WritesRow
<1>6. ASSUME NEW t \in Owned, NEW x \in Live(t), Plain(t, x)' PROVE db'[t][x].ent = db[t][x].ent
  <2>1. t \in Tables \ {"spent"} /\ "ent" \in DOMAIN db[t][x]
    BY OwnedRows, LiveRows, LiveIds, TheTables DEF Owned
  <2>2. CASE t = q.table /\ x = q.id
    <3>1. q.do = "update" /\ ~Unchecked(q) /\ db'[t][x] = Merged(db[t][x], q.set) /\ Plain(t, x)
      BY <1>4, <1>6, <2>1, <2>2 DEF Execution, Plain
    <3>2. CASE "ent" \in DOMAIN q.set
      <4>1. db[t][x].ent = q.set.ent
        BY <3>1, <3>2, <2>2 DEF Execution, Known, KeepsEnterprise, IsOf, Writing
      <4> QED BY <4>1, <3>1, <3>2, <2>1 DEF Merged
    <3>3. CASE "ent" \notin DOMAIN q.set
      BY <3>1, <3>3, <2>1 DEF Merged
    <3> QED BY <3>2, <3>3
  <2> QED BY <2>1, <2>2, <1>5
<1>7. ASSUME NEW i \in Live("item"), PureItems' PROVE ItemEnt(i)' = ItemEnt(i)
  <2>0. /\ "item" \in Tables \ {"spent"} /\ "category" \in Owned /\ i \in Items
        /\ PureItems /\ Plain("item", i) /\ Plain("item", i)'
        /\ \A g \in Live("category") : Plain("category", g) /\ Plain("category", g)'
    BY <1>7, TheTables, TheIds, LiveIds, PlainBefore DEF Owned, Execution, Plain, PureItems, AsJudged
  <2>1. "category" \in DOMAIN db["item"][i] /\ db["item"][i].category \in Live("category")
    BY ItemsHaveCategories
  <2>2. CASE q.table = "item" /\ q.id = i
    <3>1. q.do = "update" /\ ~Unchecked(q) /\ db'["item"][i] = Merged(db["item"][i], q.set)
      BY <1>4, <2>0, <2>2
    <3>2. "category" \in DOMAIN q.set
      BY <3>1, <2>2 DEF Execution, Known, KnowsItem, Writing
    <3>3. PICK e \in Enterprises : ItemOf(q, e)
      BY <3>1, <2>2 DEF Execution, Known, KnowsItem, Writing
    <3>4. db'["item"][i].category = q.set.category
      BY <3>1, <3>2, <2>1 DEF Merged
    <3>5. q.set.category \in Live("category")
      <4>1. ParentsLive("item", q.set)
        BY <3>1, <2>2 DEF Accepted
      <4>2. q.set.category \in Live("category") \cup {None}
        BY <4>1, <3>2, CategoryKey, ParentIsLive
      <4>3. db'["item"][i] \in ItemRow
        BY <1>1, <2>0, <2>2, TheRows, TheIds DEF WritesRow
      <4>4. q.set.category \in Categories
        BY <4>3, <3>4 DEF ItemRow
      <4> QED BY <4>2, <4>4, AbsenceAssumption, TheTables, TheIds
    <3>6. db["category"][q.set.category].ent = e /\ ItemEnt(i) = e
      BY <3>3, <3>5, <2>0, <2>2 DEF ItemOf, IsOf, ItemIsOf
    <3>7. db'["category"][q.set.category].ent = e
      BY <3>5, <3>6, <1>6, <2>0
    <3> QED BY <3>4, <3>6, <3>7 DEF ItemEnt
  <2>3. CASE ~(q.table = "item" /\ q.id = i)
    <3>1. db'["item"][i] = db["item"][i]
      BY <1>5, <2>0, <2>3
    <3>2. db'["category"][db["item"][i].category].ent = db["category"][db["item"][i].category].ent
      BY <1>6, <2>0, <2>1
    <3> QED BY <3>1, <3>2 DEF ItemEnt
  <2> QED BY <2>2, <2>3
<1>8. ASSUME NEW t \in DOMAIN LineTable, NEW l \in Live(LineTable[t])
      PROVE  db'[LineTable[t]][l].doc = db[LineTable[t]][l].doc
  <2>1. LineTable[t] \in Tables \ {"spent"} /\ "doc" \in DOMAIN db[LineTable[t]][l]
    BY TheLines, LiveRows, LiveIds DEF Names
  <2>2. CASE LineTable[t] = q.table /\ l = q.id
    <3>0. Plain(LineTable[t], l)'
      BY DEF Plain, CheckedTables
    <3>1. q.do = "update" /\ ~Unchecked(q) /\ db'[LineTable[t]][l] = Merged(db[LineTable[t]][l], q.set)
      BY <1>4, <2>1, <2>2, <3>0
    <3>2. "doc" \notin DOMAIN q.set
      BY <3>1, <2>2 DEF Execution, Known, KnowsLine, Writing
    <3> QED BY <3>1, <3>2, <2>1 DEF Merged
  <2> QED BY <2>1, <2>2, <1>5
<1> QED BY <1>3, <1>6, <1>7, <1>8, DocsKeepEnterprise DEF Steady, Execution

LEMMA DeletingIsSteady ==
  ASSUME Whole, RefsLive, NEW q, Execution(q), q.do = "delete", Accepted(q)
  PROVE  Steady
<1>1. Whole' /\ Deletes(q) /\ RefsLive'
  BY Deleted, DeletedRefs DEF Execution
<1>2. ASSUME NEW t \in Tables, NEW x \in Ids[t], x \in Live(t)'
      PROVE  x \in Live(t) /\ Cleared(t, x)
  BY <1>1, <1>2 DEF Deletes, Live, Absent
<1>3. ASSUME NEW t \in Tables, NEW x \in Ids[t], db[t][x] # Unborn PROVE db'[t][x] # Unborn
  <2>1. CASE x \in Live(t)'
    BY <2>1 DEF Live, Absent
  <2>2. CASE x \notin Live(t)'
    <3>1. db'[t][x] = Gone \/ db'[t][x] = db[t][x]
      BY <1>1, <2>2 DEF Deletes
    <3> QED BY <3>1, <2>2, <1>3, AbsenceAssumption DEF Live, Absent
  <2> QED BY <2>1, <2>2
<1>4. ASSUME NEW t \in Tables, NEW x \in Live(t)', NEW c \in DOMAIN db[t][x], ~MayClear(t, c)
      PROVE  db'[t][x][c] = db[t][x][c]
  <2>1. x \in Ids[t]
    BY DEF Live
  <2> QED BY <2>1, <1>2, <1>4 DEF Cleared
<1>5. ASSUME NEW t \in Owned, NEW x \in Live(t) \cap Live(t)' PROVE db'[t][x].ent = db[t][x].ent
  <2>1. t \in Tables /\ "ent" \in DOMAIN db[t][x]
    BY OwnedRows, LiveRows, LiveIds, TheTables DEF Owned
  <2> QED BY <2>1, <1>4, NeverCleared
<1>6. ASSUME NEW i \in Live("item") \cap Live("item")' PROVE ItemEnt(i)' = ItemEnt(i)
  <2>1. "category" \in DOMAIN db["item"][i] /\ db["item"][i].category \in Live("category")
    BY ItemsHaveCategories
  <2>2. db'["item"][i].category = db["item"][i].category
    BY <2>1, <1>4, NeverCleared, TheTables
  <2>3. db'["item"][i].category \in Live("category")'
    BY <1>1, ItemsHaveCategoriesAfter
  <2>4. db'["category"][db["item"][i].category].ent = db["category"][db["item"][i].category].ent
    BY <2>1, <2>2, <2>3, <1>5 DEF Owned
  <2> QED BY <2>2, <2>4 DEF ItemEnt
<1>7. ASSUME NEW t \in DOMAIN LineTable, NEW l \in Live(LineTable[t]) \cap Live(LineTable[t])'
      PROVE  db'[LineTable[t]][l].doc = db[LineTable[t]][l].doc
  <2>1. LineTable[t] \in Tables /\ "doc" \in DOMAIN db[LineTable[t]][l]
    BY TheLines, LiveRows, LiveIds DEF Names
  <2> QED BY <2>1, <1>4, NeverCleared
<1>8. ASSUME NEW t \in Tables \ {"spent"}, NEW x \in Ids[t], db[t][x] # Unborn
      PROVE  db'[t][x] # Unborn /\ (x \in Live(t)' => x \in Live(t))
  BY <1>2, <1>3, <1>8
<1> QED BY <1>5, <1>6, <1>7, <1>8, DocsKeepEnterprise DEF Steady, Execution

LEMMA StandingStill ==
  ASSUME db' = db, excused \subseteq excused', unchecked \subseteq unchecked'
  PROVE  Steady
<1>1. \A t : Live(t)' = Live(t)
  BY DEF Live
<1> QED BY <1>1 DEF Steady, ItemEnt, DocEnt

LEMMA ExecutionIsSteady ==
  ASSUME Whole, RefsLive, NEW q, Execution(q)
  PROVE  Whole' /\ RefsLive' /\ Steady
<1>1. CASE Accepted(q) /\ Writing(q)
  BY <1>1, WritingIsSteady, Written, WrittenRefs DEF Execution
<1>2. CASE Accepted(q) /\ q.do = "delete"
  BY <1>2, DeletingIsSteady, Deleted, DeletedRefs DEF Execution
<1>3. CASE ~Accepted(q)
  <2>1. db' = db
    BY <1>3 DEF Execution, Effect
  <2>2. \A t : Live(t)' = Live(t)
    BY <2>1 DEF Live
  <2> QED BY <2>1, <2>2, StandingStill DEF Execution, Whole, RefsLive
<1> QED BY <1>1, <1>2, <1>3 DEF Execution, Writing

-----------------------------------------------------------------------------
(* What handlers send.                                                       *)
Ready == Whole /\ RefsLive /\ TenantsNeverMix

Sent(q, t) ==
  /\ Typed(q) /\ Known(q) /\ q.table = t
  /\ (Writing(q) \/ q.do = "delete")
  /\ q.do = "insert" => q.id \in Fresh(t)
  /\ Unchecked(q) => q.id \in Nameable(t) /\ t \notin CheckedTables
  /\ q.do = "save" => t = "spent" /\ Born(t, q.id)

Partial(t, s) == \A r \in Row[t] : Merged(r, s) \in Row[t]

LEMMA FreshIds ==
  ASSUME NEW t, NEW x \in Fresh(t)
  PROVE  x \in Ids[t] /\ db[t][x] = Unborn
  BY DEF Fresh

LEMMA InsertSent ==
  ASSUME NEW t \in Tables, NEW x \in Fresh(t), NEW r \in Row[t], Known(Insert(t, x, r))
  PROVE  Sent(Insert(t, x, r), t)
  BY FreshIds DEF Sent, Typed, Insert, Writing, Patching, Unchecked

LEMMA UpdateSent ==
  ASSUME NEW t \in Tables, NEW x \in Live(t), NEW s, Partial(t, s), Known(Update(t, x, s))
  PROVE  Sent(Update(t, x, s), t)
  BY LiveIds DEF Sent, Typed, Update, Partial, Writing, Patching, Unchecked

LEMMA DeleteSent ==
  ASSUME NEW t \in Tables, NEW x \in Live(t)
  PROVE  Sent(Delete(t, x), t)
  BY LiveIds DEF Sent, Typed, Delete, Known, Writing, Patching, Unchecked

(* A body that names a row, or has it in one of its collections.              *)
LEMMA NameableIds ==
  ASSUME NEW t, NEW x \in Nameable(t)
  PROVE  x \in Ids[t]
  BY DEF Nameable

LEMMA NamedSent ==
  ASSUME NEW t \in Tables \ CheckedTables, NEW rows \in SUBSET Row[t], NEW q \in AsNamed(t, rows)
  PROVE  Sent(q, t)
<1>1. PICK x \in Nameable(t), s \in rows : q = Overwrite(t, x, s)
  BY DEF AsNamed
<1> QED BY <1>1, NameableIds DEF Sent, Typed, Known, Overwrite, Writing, Patching, Unchecked

LEMMA MadeSent ==
  ASSUME NEW t \in Tables \ CheckedTables, NEW rows \in SUBSET Row[t], NEW q \in Made(t, rows),
         \A x \in Fresh(t), s \in rows : Known(Insert(t, x, s))
  PROVE  Sent(q, t)
<1>1. CASE q \in AsNamed(t, rows)
  BY <1>1, NamedSent
<1>2. CASE \E x \in Fresh(t), s \in rows : q = Insert(t, x, s)
  BY <1>2, InsertSent
<1> QED BY <1>1, <1>2 DEF Made

LEMMA EditedSent ==
  ASSUME Whole, NEW t \in Tables \ CheckedTables, NEW x \in Live(t), NEW s, Partial(t, s),
         Known(Update(t, x, s)), NEW q \in Edited(t, x, s)
  PROVE  Sent(q, t)
<1>1. CASE q = Update(t, x, s)
  BY <1>1, UpdateSent
<1>2. CASE \E y \in Nameable(t) : q = Overwrite(t, y, Merged(db[t][x], s))
  <2>1. Merged(db[t][x], s) \in Row[t]
    BY LiveIds, LiveRows DEF Partial
  <2>2. PICK y \in Nameable(t) : q = Overwrite(t, y, Merged(db[t][x], s))
    BY <1>2
  <2> QED BY <2>1, <2>2, NameableIds DEF Sent, Typed, Known, Overwrite, Writing, Patching, Unchecked
<1> QED BY <1>1, <1>2 DEF Edited

(* The columns of the collections may be given any row that is there.        *)
MayName(t, c, vs) == \A v \in vs : Partial(t, [k \in {c} |-> v])

LEMMA TheCollections ==
  /\ MayName("document", "client", Ids["client"]) /\ MayName("earning", "client", Ids["client"])
  /\ MayName("earning", "series", Ids["series"]) /\ MayName("quote", "client", Ids["client"])
  /\ MayName("order", "client", Ids["client"]) /\ MayName("order", "quote", Ids["quote"])
  /\ MayName("invoice", "client", Ids["client"]) /\ MayName("invoice", "series", Ids["series"])
  /\ MayName("invoice", "quote", Ids["quote"] \cup {None})
  /\ MayName("invoice", "earning", Ids["earning"] \cup {None})
  /\ MayName("item", "category", Ids["category"]) /\ MayName("spent", "supplier", Ids["supplier"])
  /\ MayName("spent", "category", Ids["spent_category"] \cup {None})
<1>1. /\ MayName("document", "client", Ids["client"]) /\ MayName("earning", "client", Ids["client"])
      /\ MayName("earning", "series", Ids["series"]) /\ MayName("quote", "client", Ids["client"])
      /\ MayName("order", "client", Ids["client"]) /\ MayName("order", "quote", Ids["quote"])
  BY TheRows, TheIds DEF MayName, Partial, Merged, DocumentRow, EarningRow, QuoteRow, OrderRow
<1>2. /\ MayName("invoice", "client", Ids["client"]) /\ MayName("invoice", "series", Ids["series"])
      /\ MayName("invoice", "quote", Ids["quote"] \cup {None})
      /\ MayName("invoice", "earning", Ids["earning"] \cup {None})
  BY TheRows, TheIds DEF MayName, Partial, Merged, InvoiceRow
<1>3. /\ MayName("item", "category", Ids["category"]) /\ MayName("spent", "supplier", Ids["supplier"])
      /\ MayName("spent", "category", Ids["spent_category"] \cup {None})
  BY TheRows, TheIds DEF MayName, Partial, Merged, ItemRow, SpentRow
<1> QED BY <1>1, <1>2, <1>3

LEMMA RelinkedSent ==
  ASSUME NEW t \in Tables \ CheckedTables, NEW q \in Relinked(t)
  PROVE  Sent(q, t)
<1>1. PICK k \in Collections : k.table = t /\ \E x \in Nameable(t) \cap Live(t), v \in Named(k) :
                                                q = Relink(t, x, k.column, v)
  BY DEF Relinked
<1>2. PICK x \in Nameable(t) \cap Live(t), v \in Named(k) : q = Relink(t, x, k.column, v)
  BY <1>1
<1>3. v \in Ids[k.parent] \/ (v = None /\ <<t, k.column>> \in Optional)
  BY <1>1, <1>2 DEF Named, Live
<1>4. Partial(t, [c \in {k.column} |-> v])
  <2>1. CASE k \in SaleKeys
    BY <2>1, <1>1, <1>3, SaleKeyParts, TheCollections DEF Parts, MayName, Optional
  <2>2. CASE k \in PurchaseKeys
    <3>1. \/ Parts(k, "item", "category", "category", "refuse")
          \/ Parts(k, "spent", "supplier", "supplier", "refuse")
          \/ Parts(k, "spent", "category", "spent_category", "refuse")
      BY <2>2, KeyParts DEF PurchaseKeys
    <3> QED BY <3>1, <1>1, <1>3, TheCollections DEF Parts, MayName, Optional
  <2> QED BY <2>1, <2>2 DEF Collections
<1> QED BY <1>2, <1>4, NameableIds DEF Sent, Typed, Known, Relink, Writing, Patching, Unchecked, Partial

(* Statements on most tables have nothing to know but their enterprise.      *)
Joined == {"link", "invoice", "earning", "item", "quote_line", "order_line", "invoice_line"}

LEMMA InsertKnown ==
  ASSUME NEW t \in Tables \ (Joined \ {"item"}), NEW x, NEW r
  PROVE  Known(Insert(t, x, r))
  BY TheLineTables DEF Joined, Known, Insert, KeepsEnterprise, KnowsLink, KnowsInvoice, KnowsEarning,
         KnowsItem, KnowsLine

LEMMA UpdateKnown ==
  ASSUME NEW t \in Tables \ Joined, NEW x, NEW s,
         "ent" \in DOMAIN s => t \in Owned /\ IsOf(t, x, s.ent)
  PROVE  Known(Update(t, x, s))
  BY TheLineTables DEF Joined, Known, Update, KeepsEnterprise, KnowsLink, KnowsInvoice, KnowsEarning,
         KnowsItem, KnowsLine

SameColumns(rows) == \A r, s \in rows : DOMAIN r = DOMAIN s

LEMMA ColumnsAreFixed ==
  ASSUME NEW t \in Tables
  PROVE  SameColumns(Row[t])
<1>1. /\ SameColumns(EnterpriseRow) /\ SameColumns(SettingRow) /\ SameColumns(LinkRow)
      /\ SameColumns(TemplateRow) /\ SameColumns(HolidayRow) /\ SameColumns(VacationRow)
  BY DEF SameColumns, EnterpriseRow, SettingRow, LinkRow, TemplateRow, HolidayRow, VacationRow
<1>2. /\ SameColumns(ClientRow) /\ SameColumns(SeriesRow) /\ SameColumns(EarningRow)
      /\ SameColumns(QuoteRow) /\ SameColumns(OrderRow) /\ SameColumns(InvoiceRow)
  BY DEF SameColumns, ClientRow, SeriesRow, EarningRow, QuoteRow, OrderRow, InvoiceRow
<1>3. /\ SameColumns(LineRow(Quotes)) /\ SameColumns(LineRow(Orders)) /\ SameColumns(LineRow(Invoices))
  BY DEF SameColumns, LineRow
<1>4. /\ SameColumns(CategoryRow) /\ SameColumns(ItemRow) /\ SameColumns(SupplierRow)
      /\ SameColumns(SpentRow) /\ SameColumns(DocumentRow)
  BY DEF SameColumns, CategoryRow, ItemRow, SupplierRow, SpentRow, DocumentRow
<1> QED BY <1>1, <1>2, <1>3, <1>4, TheTables, TheRows

LEMMA WholeRows ==
  ASSUME NEW t \in Tables, NEW s \in Row[t]
  PROVE  Partial(t, s)
<1> SUFFICES ASSUME NEW r \in Row[t] PROVE Merged(r, s) \in Row[t]
  BY DEF Partial
<1>1. DOMAIN r = DOMAIN s
  BY ColumnsAreFixed DEF SameColumns
<1>2. s = [c \in DOMAIN s |-> s[c]]
  BY RowsAreFunctions DEF Functions, Function
<1>3. Merged(r, s) = s
  BY <1>1, <1>2 DEF Merged
<1> QED BY <1>3

LEMMA NothingGiven ==
  ASSUME NEW t \in Tables
  PROVE  Partial(t, <<>>)
<1> SUFFICES ASSUME NEW r \in Row[t] PROVE Merged(r, <<>>) \in Row[t]
  BY DEF Partial
<1>1. DOMAIN <<>> = {}
  OBVIOUS
<1>2. r = [c \in DOMAIN r |-> r[c]]
  BY RowsAreFunctions DEF Functions, Function
<1>3. Merged(r, <<>>) = r
  BY <1>1, <1>2 DEF Merged
<1> QED BY <1>3

(* The tables that bodies write past what is checked.                         *)
LEMMA UncheckedTables ==
  {"client", "series", "earning", "quote", "order", "invoice", "item", "supplier", "spent",
   "category", "spent_category", "document", "enterprise"} \subseteq Tables \ CheckedTables
  BY TheTables, TheLineTables DEF CheckedTables

LEMMA ClientStatements ==
  ASSUME Ready, NEW q \in CreateClient \cup UpdateClient \cup DeleteClient
  PROVE  Sent(q, "client")
<1>0. "client" \in Tables \ Joined /\ "client" \in Tables \ CheckedTables /\ Whole
  BY TheTables, UncheckedTables DEF Joined, Ready
<1>1. CASE q \in CreateClient
  <2>1. \/ \E c \in Fresh("client"), k \in ClientRow : q = Insert("client", c, k)
        \/ q \in AsNamed("client", {k \in ClientRow : \E e \in Enterprises : NifIsFree(k.nif, e)})
    BY <1>1 DEF CreateClient
  <2> QED BY <1>0, <2>1, TheRows, InsertKnown, InsertSent, NamedSent DEF Joined
<1>2. CASE q \in UpdateClient
  <2>1. PICK c \in Live("client"), n \in Nifs : q \in Edited("client", c, [nif |-> n])
    BY <1>2 DEF UpdateClient
  <2>2. Partial("client", [nif |-> n])
    BY TheRows DEF Partial, Merged, ClientRow
  <2> QED BY <1>0, <2>1, <2>2, UpdateKnown, EditedSent
<1>3. CASE q \in DeleteClient
  <2>1. PICK c \in Live("client") : q = Delete("client", c)
    BY <1>3 DEF DeleteClient
  <2> QED BY <1>0, <2>1, DeleteSent
<1> QED BY <1>1, <1>2, <1>3

Owners(rows) == \A r \in rows : r.ent \in Enterprises

LEMMA OwnersFit ==
  ASSUME NEW t \in Owned
  PROVE  Owners(Row[t])
<1>1. /\ Owners(SettingRow) /\ Owners(LinkRow) /\ Owners(TemplateRow) /\ Owners(HolidayRow)
      /\ Owners(ClientRow) /\ Owners(SeriesRow) /\ Owners(EarningRow) /\ Owners(CategoryRow)
      /\ Owners(SupplierRow)
  BY DEF Owners, SettingRow, LinkRow, TemplateRow, HolidayRow, ClientRow, SeriesRow, EarningRow,
         CategoryRow, SupplierRow
<1> QED BY <1>1, TheRows DEF Owned

LEMMA SeriesStatements ==
  ASSUME Ready, NEW q \in CreateSeries \cup UpdateSeries \cup DeleteSeries
  PROVE  Sent(q, "series")
<1>0. "series" \in Tables \ Joined /\ "series" \in Tables \ CheckedTables /\ Whole
  BY TheTables, UncheckedTables DEF Joined, Ready
<1>1. CASE q \in CreateSeries
  <2>1. \/ \E x \in Fresh("series"), k \in SeriesRow : q = Insert("series", x, k)
        \/ q \in AsNamed("series", {k \in SeriesRow : \E e \in Enterprises : k.code \in CodesFor(e)})
    BY <1>1 DEF CreateSeries
  <2> QED BY <1>0, <2>1, TheRows, InsertKnown, InsertSent, NamedSent DEF Joined
<1>2. CASE q \in UpdateSeries
  <2>1. PICK s \in Live("series") : \E v \in SeriesForms(s) : q \in Edited("series", s, v)
    BY <1>2 DEF UpdateSeries
  <2>2. PICK v \in SeriesForms(s) : q \in Edited("series", s, v)
    BY <2>1
  <2>3. \/ v \in [code : Codes] \/ v \in [active : BOOLEAN] \/ v \in [code : Codes, active : BOOLEAN]
    BY DEF SeriesForms
  <2>4. Partial("series", v) /\ "ent" \notin DOMAIN v
    BY <2>3, TheRows DEF Partial, Merged, SeriesRow
  <2>5. Known(Update("series", s, v))
    BY <1>0, <2>4, UpdateKnown
  <2> QED BY <1>0, <2>2, <2>4, <2>5, EditedSent
<1>3. CASE q \in DeleteSeries
  <2>1. PICK s \in Live("series") : q = Delete("series", s)
    BY <1>3 DEF DeleteSeries
  <2> QED BY <1>0, <2>1, DeleteSent
<1> QED BY <1>1, <1>2, <1>3

(* A live row of an enterprise.                                              *)
LEMMA OfItsEnterprise ==
  ASSUME Whole, NEW t \in Owned, NEW x \in Live(t)
  PROVE  IsOf(t, x, db[t][x].ent) /\ "ent" \in DOMAIN db[t][x] /\ db[t][x].ent \in Enterprises
<1>1. t \in Tables /\ x \in Ids[t] /\ db[t][x] \in Row[t]
  BY OwnedRows, LiveIds, LiveRows, TheTables DEF Owned
<1>2. Names(t, "ent", "enterprise")
  BY TheNames DEF Owned
<1>3. db[t][x].ent \in Enterprises
  BY <1>1, OwnersFit DEF Owners
<1> QED BY <1>1, <1>2, <1>3, LiveIds DEF IsOf, Born, Names

LEMMA EarningStatements ==
  ASSUME Ready, NEW q \in CreateEarning \cup UpdateEarning \cup DeleteEarning
  PROVE  Sent(q, "earning")
<1>0. /\ "earning" \in Tables \ CheckedTables /\ "earning" \in Owned /\ "client" \in Owned /\ "series" \in Owned
      /\ Whole
  BY TheTables, UncheckedTables DEF Owned, Ready
<1>8. ASSUME NEW e, q \in UncheckedEarnings(e) PROVE Sent(q, "earning")
  <2>1. PICK rows \in SUBSET EarningObjects : q \in AsNamed("earning", rows)
    BY <1>8 DEF UncheckedEarnings
  <2>2. EarningObjects \subseteq Row["earning"]
    BY LiveIds, TheRows, TheIds DEF EarningObjects, EarningRow
  <2>3. rows \in SUBSET Row["earning"]
    BY <2>2
  <2> QED BY <1>0, <2>1, <2>3, NamedSent
<1>1. ASSUME NEW e \in Enterprises, NEW v \in EarningsOf(e)
      PROVE  v \in EarningRow /\ v.ent = e /\ InvoiceOf([set |-> v], e) /\ DOMAIN v = {"ent", "client", "series"}
  <2>1. PICK c \in Live("client"), s \in Live("series") :
           /\ v = [ent |-> e, client |-> c, series |-> s]
           /\ db.client[c].ent = e /\ db.series[s].ent = e
    BY DEF EarningsOf, Where
  <2>2. IsOf("client", c, e) /\ IsOf("series", s, e)
    BY <1>0, <2>1, OfItsEnterprise
  <2>3. c \in Clients /\ s \in Series
    BY LiveIds, TheIds
  <2> QED BY <2>1, <2>2, <2>3 DEF EarningRow, InvoiceOf
<1>2. CASE q \in CreateEarning
  <2>0. CASE q \in UNION {UncheckedEarnings(e) : e \in Enterprises}
    BY <2>0, <1>8
  <2>1. CASE \E r \in Fresh("earning"), v \in UNION {EarningsOf(e) : e \in Enterprises} :
                q = Insert("earning", r, v)
    <3>1. PICK r \in Fresh("earning"), e \in Enterprises : \E v \in EarningsOf(e) : q = Insert("earning", r, v)
      BY <2>1
    <3>2. PICK v \in EarningsOf(e) : q = Insert("earning", r, v)
      BY <3>1
    <3>3. Known(Insert("earning", r, v))
      BY <1>1, TheLineTables DEF Known, Insert, KeepsEnterprise, KnowsLink, KnowsInvoice, KnowsEarning,
           KnowsItem, KnowsLine, InvoiceOf
    <3> QED BY <1>0, <1>1, <3>2, <3>3, InsertSent, TheRows
  <2> QED BY <1>2, <2>0, <2>1 DEF CreateEarning
<1>3. CASE q \in UpdateEarning
  <2>1. PICK r \in Live("earning") :
           q \in {Update("earning", r, v) : v \in EarningsOf(db.earning[r].ent)}
                  \cup UncheckedEarnings(db.earning[r].ent)
    BY <1>3 DEF UpdateEarning
  <2> SUFFICES ASSUME q \in {Update("earning", r, v) : v \in EarningsOf(db.earning[r].ent)}
               PROVE  Sent(q, "earning")
    BY <2>1, <1>8
  <2>2. PICK v \in EarningsOf(db.earning[r].ent) : q = Update("earning", r, v)
    OBVIOUS
  <2>0. IsOf("earning", r, db["earning"][r].ent) /\ db["earning"][r].ent \in Enterprises
    BY <1>0, OfItsEnterprise
  <2>3. IsOf("earning", r, v.ent) /\ db.earning[r].ent \in Enterprises
    BY <1>1, <2>0
  <2>4. Known(Update("earning", r, v))
    BY <1>0, <1>1, <2>3, TheLineTables DEF Known, Update, KeepsEnterprise, KnowsLink, KnowsInvoice,
         KnowsEarning, KnowsItem, KnowsLine, InvoiceOf
  <2>5. Partial("earning", v)
    BY <1>0, <1>1, <2>3, WholeRows, TheRows
  <2> QED BY <1>0, <2>2, <2>4, <2>5, UpdateSent
<1>4. CASE q \in DeleteEarning
  <2>1. PICK r \in Live("earning") : q = Delete("earning", r)
    BY <1>4 DEF DeleteEarning
  <2> QED BY <1>0, <2>1, DeleteSent
<1> QED BY <1>2, <1>3, <1>4

(* The document copies the tax number of a client there is.                  *)
LEMMA ClientNifs ==
  ASSUME Whole, NEW c \in Live("client")
  PROVE  db.client[c].nif \in Nifs /\ c \in Clients
<1>1. c \in Clients /\ db["client"][c] \in ClientRow
  BY LiveIds, LiveRows, TheTables, TheIds, TheRows
<1> QED BY <1>1 DEF ClientRow

LEMMA QuoteClients ==
  ASSUME Whole, RefsLive, NEW x \in Live("quote")
  PROVE  /\ x \in Quotes /\ db.quote[x] \in QuoteRow /\ db.quote[x].party \in Nifs \cup {None}
         /\ db.quote[x].client \in Live("client")
<1>1. x \in Quotes /\ db["quote"][x] \in QuoteRow
  BY LiveIds, LiveRows, TheTables, TheIds, TheRows
<1>2. db["quote"][x].client \in Clients /\ db["quote"][x].party \in Nifs \cup {None}
  BY <1>1 DEF QuoteRow
<1>3. \E k \in ForeignKeys : Parts(k, "quote", "client", "client", "refuse")
  BY KeyParts DEF ForeignKeys, SaleKeys
<1>4. db["quote"][x].client \in Live("client") \cup {None}
  BY <1>3 DEF RefsLive, Parts
<1> QED BY <1>1, <1>2, <1>4, AbsenceAssumption, TheTables, TheIds

LEMMA QuoteStatements ==
  ASSUME Ready, NEW q \in CreateQuote \cup UpdateQuote \cup SetQuoteStatus \cup DeleteQuote
  PROVE  Sent(q, "quote")
<1>0. "quote" \in Tables \ Joined /\ "quote" \in Tables \ CheckedTables /\ Whole /\ RefsLive
  BY TheTables, UncheckedTables DEF Joined, Ready
<1>1. ASSUME NEW c \in Live("client"), NEW st \in QuoteStatuses, NEW old \in Nifs \cup {None}
      PROVE  QuoteWith(c, st, old) \in Row["quote"] /\ "ent" \notin DOMAIN QuoteWith(c, st, old)
  BY <1>0, ClientNifs, TheRows DEF QuoteWith, QuoteParty, QuoteRow
<1>2. ASSUME NEW x \in Live("quote")
      PROVE  /\ db.quote[x] \in QuoteRow /\ db.quote[x].party \in Nifs \cup {None}
             /\ db.quote[x].client \in Live("client")
  BY <1>0, QuoteClients
<1>3. CASE q \in CreateQuote
  <2>1. QuoteForms(None) \in SUBSET Row["quote"]
    BY <1>1 DEF QuoteForms
  <2> QED BY <1>0, <1>3, <2>1, InsertKnown, MadeSent DEF Joined, CreateQuote
<1>4. CASE q \in UpdateQuote
  <2>1. PICK x \in Live("quote"), c \in Live("client"), st \in QuoteStatuses :
           q \in Edited("quote", x, QuoteWith(c, st, db.quote[x].party))
    BY <1>4 DEF UpdateQuote, QuoteForms
  <2>2. Partial("quote", QuoteWith(c, st, db.quote[x].party))
    BY <1>0, <1>1, <1>2, WholeRows
  <2> QED BY <1>0, <1>1, <1>2, <2>1, <2>2, UpdateKnown, EditedSent
<1>5. CASE q \in SetQuoteStatus
  <2>1. PICK x \in Live("quote"), st \in QuoteStatuses :
           q = Update("quote", x,
                   [db.quote[x] EXCEPT
                       !.status = st,
                       !.party = IF db.quote[x].status = "draft"
                                 THEN QuoteParty([db.quote[x] EXCEPT !.status = st], @)
                                 ELSE @])
    BY <1>5 DEF SetQuoteStatus
  <2>2. PICK v : /\ v = [db.quote[x] EXCEPT
                       !.status = st,
                       !.party = IF db.quote[x].status = "draft"
                                 THEN QuoteParty([db.quote[x] EXCEPT !.status = st], @)
                                 ELSE @]
                /\ q = Update("quote", x, v)
    BY <2>1
  <2>3. v \in QuoteRow /\ "ent" \notin DOMAIN v
    <3>1. db.client[db.quote[x].client].nif \in Nifs
      BY <1>0, <1>2, ClientNifs
    <3>2. PICK r \in QuoteRow : r = db.quote[x]
      BY <1>2
    <3>3. PICK m : m = [r EXCEPT !.status = st]
      OBVIOUS
    <3>4. m \in QuoteRow /\ m.client = r.client
      BY <3>2, <3>3 DEF QuoteRow
    <3>5. QuoteParty(m, r.party) \in Nifs \cup {None}
      BY <3>1, <3>2, <3>4 DEF QuoteParty, QuoteRow
    <3>6. v = [r EXCEPT !.status = st, !.party = IF r.status = "draft" THEN QuoteParty(m, r.party) ELSE r.party]
      BY <2>2, <3>2, <3>3 DEF QuoteRow
    <3> QED BY <3>5, <3>6, <3>2 DEF QuoteRow
  <2>4. Partial("quote", v)
    BY <1>0, <2>3, WholeRows, TheRows
  <2> QED BY <1>0, <2>2, <2>3, <2>4, UpdateKnown, UpdateSent
<1>6. CASE q \in DeleteQuote
  <2>1. PICK x \in Live("quote") : q = Delete("quote", x)
    BY <1>6 DEF DeleteQuote
  <2> QED BY <1>0, <2>1, DeleteSent
<1> QED BY <1>3, <1>4, <1>5, <1>6

LEMMA OrderStatements ==
  ASSUME Ready, NEW q \in CreateOrder \cup UpdateOrder \cup SetOrderStatus \cup DeleteOrder
  PROVE  Sent(q, "order")
<1>0. "order" \in Tables \ Joined /\ "order" \in Tables \ CheckedTables /\ Whole /\ RefsLive
  BY TheTables, UncheckedTables DEF Joined, Ready
<1>1. ASSUME NEW v \in OrderForms
      PROVE  v \in Row["order"] /\ "ent" \notin DOMAIN v
  <2>1. PICK x \in Live("quote"), st \in OrderStatuses :
           v = [client |-> db.quote[x].client, quote |-> x, status |-> st,
                party |-> OrderParty(db.quote[x].client)]
    BY DEF OrderForms
  <2>2. x \in Quotes /\ db.quote[x].client \in Live("client")
    BY <1>0, QuoteClients
  <2>3. db.quote[x].client \in Clients /\ OrderParty(db.quote[x].client) \in Nifs
    BY <1>0, <2>2, ClientNifs DEF OrderParty
  <2> QED BY <2>1, <2>2, <2>3, TheRows DEF OrderRow
<1>2. CASE q \in CreateOrder
  <2>1. OrderForms \in SUBSET Row["order"]
    BY <1>1
  <2> QED BY <1>0, <1>2, <2>1, InsertKnown, MadeSent DEF Joined, CreateOrder
<1>3. CASE q \in UpdateOrder
  <2>1. PICK x \in Live("order"), v \in OrderForms : q \in Edited("order", x, v)
    BY <1>3 DEF UpdateOrder
  <2> QED BY <1>0, <1>1, <2>1, WholeRows, UpdateKnown, EditedSent
<1>4. CASE q \in SetOrderStatus
  <2>1. PICK x \in Live("order"), st \in OrderStatuses :
           q = Update("order", x, [db.order[x] EXCEPT !.status = st])
    BY <1>4 DEF SetOrderStatus, Update
  <2>2. PICK v : v = [db.order[x] EXCEPT !.status = st] /\ q = Update("order", x, v)
    BY <2>1
  <2>3. db["order"][x] \in OrderRow
    BY <1>0, LiveIds, LiveRows, TheTables, TheRows
  <2>4. v \in OrderRow /\ "ent" \notin DOMAIN v
    BY <2>2, <2>3 DEF OrderRow
  <2> QED BY <1>0, <2>2, <2>4, WholeRows, UpdateKnown, UpdateSent, TheRows
<1>5. CASE q \in DeleteOrder
  <2>1. PICK x \in Live("order") : q = Delete("order", x)
    BY <1>5 DEF DeleteOrder, Where
  <2> QED BY <1>0, <2>1, DeleteSent
<1> QED BY <1>2, <1>3, <1>4, <1>5

LEMMA FrozenRows ==
  ASSUME Whole, NEW f \in InvoiceRow, f.client \in Live("client"),
         Frozen(f).number \in Nat \cup {None}
  PROVE  Frozen(f) \in InvoiceRow /\ Frozen(f).client = f.client /\ Frozen(f).series = f.series
<1>1. db.client[f.client].nif \in Nifs
  BY ClientNifs
<1>2. CASE f.status = "draft"
  <2>1. Frozen(f) = [f EXCEPT !.number = None]
    BY <1>2 DEF Frozen
  <2> QED BY <2>1 DEF InvoiceRow
<1>3. CASE f.status # "draft"
  <2>1. PICK n, p : /\ Frozen(f) = [f EXCEPT !.number = n, !.party = p] /\ p \in Nifs
    BY <1>1, <1>3 DEF Frozen
  <2>2. n \in Nat \cup {None}
    BY <2>1 DEF InvoiceRow
  <2> QED BY <2>1, <2>2 DEF InvoiceRow
<1> QED BY <1>2, <1>3

(* An invoice of a client and a series of one enterprise.                     *)
LEMMA InvoiceKnown ==
  ASSUME Whole, NEW v \in InvoiceRow, NEW x,
         v.client \in Live("client"), v.series \in Live("series"),
         db.client[v.client].ent = db.series[v.series].ent
  PROVE  Known(Insert("invoice", x, v)) /\ Known(Update("invoice", x, v))
<1>1. DOMAIN v = {"client", "series", "quote", "earning", "status", "number", "party"}
  BY DEF InvoiceRow
<1>2. /\ IsOf("client", v.client, db.client[v.client].ent)
      /\ IsOf("series", v.series, db.client[v.client].ent)
      /\ db.client[v.client].ent \in Enterprises
  BY OfItsEnterprise DEF Owned
<1>3. \E e \in Enterprises : IsOf("client", v.client, e) /\ IsOf("series", v.series, e)
  BY <1>2
<1> QED BY <1>1, <1>3, TheLineTables DEF Known, Insert, Update, KeepsEnterprise, KnowsLink,
       KnowsInvoice, KnowsEarning, KnowsItem, KnowsLine, InvoiceOf

(* One that is written again as it was, but for what is not about clients.    *)
LEMMA InvoiceRewritten ==
  ASSUME Whole, NEW v \in InvoiceRow, NEW x,
         v.client \in Live("client"), v.series \in Live("series"),
         AsJudged({x, v.client, v.series}) => db.client[v.client].ent = db.series[v.series].ent
  PROVE  Known(Update("invoice", x, v))
<1>1. DOMAIN v = {"client", "series", "quote", "earning", "status", "number", "party"}
  BY DEF InvoiceRow
<1>2. /\ IsOf("client", v.client, db.client[v.client].ent)
      /\ IsOf("series", v.series, db.series[v.series].ent)
      /\ db.client[v.client].ent \in Enterprises /\ db.series[v.series].ent \in Enterprises
  BY OfItsEnterprise DEF Owned
<1>3. Plain("invoice", x) /\ Plain("client", v.client) /\ Plain("series", v.series)
         => db.client[v.client].ent = db.series[v.series].ent
  BY TheLineTables DEF Plain, AsJudged, CheckedTables
<1>4. Plain("invoice", x) =>
         \E e \in Enterprises : IsOf("client", v.client, e) /\ IsOf("series", v.series, e)
  <2>1. CASE Plain("client", v.client)
    BY <2>1, <1>2, <1>3 DEF IsOf
  <2>2. CASE ~Plain("client", v.client)
    BY <2>2, <1>2 DEF IsOf
  <2> QED BY <2>1, <2>2
<1> QED BY <1>1, <1>4, TheLineTables DEF Known, Update, KeepsEnterprise, KnowsLink,
       KnowsInvoice, KnowsEarning, KnowsItem, KnowsLine, InvoiceOf

LEMMA InvoiceClients ==
  ASSUME Whole, RefsLive, NEW x \in Live("invoice")
  PROVE  /\ db.invoice[x] \in InvoiceRow
         /\ db.invoice[x].client \in Live("client") /\ db.invoice[x].series \in Live("series")
<1>1. x \in Invoices /\ db["invoice"][x] \in InvoiceRow
  BY LiveIds, LiveRows, TheTables, TheIds, TheRows
<1>2. db["invoice"][x].client \in Clients /\ db["invoice"][x].series \in Series
  BY <1>1 DEF InvoiceRow
<1>3. /\ \E k \in ForeignKeys : Parts(k, "invoice", "client", "client", "refuse")
      /\ \E k \in ForeignKeys : Parts(k, "invoice", "series", "series", "cascade")
  BY KeyParts DEF ForeignKeys, SaleKeys
<1>4. /\ db["invoice"][x].client \in Live("client") \cup {None}
      /\ db["invoice"][x].series \in Live("series") \cup {None}
  BY <1>3 DEF RefsLive, Parts
<1> QED BY <1>1, <1>2, <1>4, AbsenceAssumption, TheTables, TheIds

LEMMA InvoiceStatements ==
  ASSUME Ready, NEW q \in CreateInvoice \cup UpdateInvoice \cup SetInvoiceStatus \cup DeleteInvoice,
         q.do \notin {"delete", "relink"} => q.set.number \in (0..MaxNumber) \cup {None}
  PROVE  Sent(q, "invoice")
<1>0. /\ "invoice" \in Tables \ CheckedTables /\ Whole /\ RefsLive /\ 0..MaxNumber \subseteq Nat
      /\ Row["invoice"] = InvoiceRow
  BY UncheckedTables, BackOfficeAssumption, TheRows DEF Ready
<1>1. ASSUME NEW v, v.number \in (0..MaxNumber) \cup {None},
             NEW old \in Nifs \cup {None}, v \in InvoiceForms(old)
      PROVE  /\ v \in InvoiceRow
             /\ v.client \in Live("client") /\ v.series \in Live("series")
             /\ db.client[v.client].ent = db.series[v.series].ent
  <2>1. PICK f \in [client : Live("client"), series : Live("series"),
                quote : Live("quote") \cup {None}, earning : Live("earning") \cup {None},
                status : InvoiceStatuses, number : {None}, party : {old}] :
          v = Frozen(f) /\ SameTenant(f.client, f.series)
    BY <1>1 DEF InvoiceForms
  <2>2. /\ Live("client") \subseteq Clients /\ Live("series") \subseteq Series
        /\ Live("quote") \subseteq Quotes /\ Live("earning") \subseteq Earnings
    BY LiveIds, TheIds
  <2>3. f \in InvoiceRow /\ f.client \in Live("client")
    BY <2>2 DEF InvoiceRow
  <2> QED BY <1>0, <1>1, <2>1, <2>3, FrozenRows DEF SameTenant
<1>2. CASE q \in CreateInvoice
  <2>1. CASE \E x \in Fresh("invoice"), v \in InvoiceForms(None) : q = Insert("invoice", x, v)
    <3>1. PICK x \in Fresh("invoice"), v \in InvoiceForms(None) : q = Insert("invoice", x, v)
      BY <2>1
    <3>2. v.number \in (0..MaxNumber) \cup {None}
      BY <3>1 DEF Insert
    <3> QED BY <1>0, <1>1, <3>1, <3>2, InvoiceKnown, InsertSent
  <2>2. CASE q \in AsNamed("invoice", InvoiceForms(None))
    <3>1. PICK x \in Nameable("invoice"), v \in InvoiceForms(None) : q = Overwrite("invoice", x, v)
      BY <2>2 DEF AsNamed
    <3>2. v.number \in (0..MaxNumber) \cup {None}
      BY <3>1 DEF Overwrite
    <3>3. {v} \in SUBSET Row["invoice"] /\ q \in AsNamed("invoice", {v})
      BY <1>0, <1>1, <3>1, <3>2 DEF AsNamed
    <3> QED BY <1>0, <3>3, NamedSent
  <2> QED BY <1>2, <2>1, <2>2 DEF CreateInvoice, Made
<1>3. CASE q \in UpdateInvoice
  <2>1. PICK x \in Drafts : \E v \in InvoiceForms(db.invoice[x].party) : q \in Edited("invoice", x, v)
    BY <1>3 DEF UpdateInvoice
  <2>2. PICK v \in InvoiceForms(db.invoice[x].party) : q \in Edited("invoice", x, v)
    BY <2>1
  <2>3. x \in Live("invoice")
    BY DEF Drafts, Where
  <2>4. db.invoice[x].party \in Nifs \cup {None} /\ db.invoice[x] \in InvoiceRow
    BY <1>0, <2>3, InvoiceClients DEF InvoiceRow
  <2>5. PICK f \in [client : Live("client"), series : Live("series"),
                quote : Live("quote") \cup {None}, earning : Live("earning") \cup {None},
                status : InvoiceStatuses, number : {None}, party : {db.invoice[x].party}] :
          v = Frozen(f)
    BY <2>2 DEF InvoiceForms
  <2>6. DOMAIN v = DOMAIN db.invoice[x] /\ "number" \in DOMAIN db.invoice[x]
    BY <2>4, <2>5 DEF InvoiceRow, Frozen
  <2>7. v.number \in (0..MaxNumber) \cup {None}
    BY <2>2, <2>6 DEF Edited, Update, Overwrite, Merged
  <2> QED BY <1>0, <1>1, <2>2, <2>3, <2>4, <2>7, InvoiceKnown, WholeRows, EditedSent
<1>4. CASE q \in SetInvoiceStatus
  <2>1. PICK x \in Live("invoice"), st \in InvoiceStatuses :
           q = Update("invoice", x,
                   IF db.invoice[x].status = "draft" THEN Frozen([db.invoice[x] EXCEPT !.status = st])
                   ELSE [db.invoice[x] EXCEPT !.status = st])
    BY <1>4 DEF SetInvoiceStatus
  <2>2. PICK m, v : /\ m = [db.invoice[x] EXCEPT !.status = st]
                    /\ v \in {Frozen(m), m} /\ q = Update("invoice", x, v)
    BY <2>1
  <2>3. PICK r \in InvoiceRow : /\ r = db.invoice[x] /\ r.client \in Live("client")
                                /\ r.series \in Live("series")
    BY <1>0, InvoiceClients
  <2>4. m \in InvoiceRow /\ m.client = r.client /\ m.series = r.series
    BY <2>2, <2>3 DEF InvoiceRow
  <2>5. v.number \in (0..MaxNumber) \cup {None}
    BY <2>2 DEF Update
  <2>6. v \in InvoiceRow /\ v.client = r.client /\ v.series = r.series
    BY <1>0, <2>2, <2>3, <2>4, <2>5, FrozenRows
  <2>7. AsJudged({x, r.client, r.series}) => db.client[r.client].ent = db.series[r.series].ent
    BY <2>3 DEF Ready, TenantsNeverMix
  <2>8. Known(Update("invoice", x, v))
    BY <1>0, <2>3, <2>6, <2>7, InvoiceRewritten
  <2> QED BY <1>0, <2>2, <2>6, <2>8, WholeRows, UpdateSent
<1>5. CASE q \in DeleteInvoice
  <2>1. PICK x \in Live("invoice") : q = Delete("invoice", x)
    BY <1>5 DEF DeleteInvoice, Drafts, Where
  <2> QED BY <1>0, <2>1, DeleteSent
<1> QED BY <1>2, <1>3, <1>4, <1>5

LEMMA ItemStatements ==
  ASSUME Ready, NEW q \in CreateItem \cup UpdateItem \cup DeleteItem
  PROVE  Sent(q, "item")
<1>0. "item" \in Tables \ CheckedTables /\ "category" \in Owned /\ Whole /\ RefsLive
  BY UncheckedTables DEF Owned, Ready
<1>1. ASSUME NEW e, NEW g \in CategoriesOf(e)
      PROVE  g \in Categories /\ g \in Live("category") /\ IsOf("category", g, e) /\ e \in Enterprises
  <2>1. g \in Live("category") /\ db["category"][g].ent = e
    BY DEF CategoriesOf, Where
  <2> QED BY <1>0, <2>1, OfItsEnterprise, LiveIds, TheIds
<1>2. CASE q \in CreateItem
  <2>1. {[category |-> g, serial |-> f.serial, stock |-> f.stock] :
            g \in UNION {CategoriesOf(e) : e \in Enterprises}, f \in Flags} \in SUBSET Row["item"]
    BY <1>1, TheRows DEF ItemRow, Flags
  <2>2. ASSUME NEW i, NEW v PROVE Known(Insert("item", i, v))
    BY TheLineTables DEF Known, Insert, KeepsEnterprise, KnowsLink, KnowsInvoice, KnowsEarning,
         KnowsItem, KnowsLine
  <2> QED BY <1>0, <1>2, <2>1, <2>2, MadeSent DEF CreateItem
<1>3. CASE q \in UpdateItem
  <2>1. PICK i \in Live("item") :
           \E v \in ItemForms(i, CategoriesOf(ItemEnt(i))) : q \in Edited("item", i, v)
    BY <1>3 DEF UpdateItem
  <2>2. PICK v \in ItemForms(i, CategoriesOf(ItemEnt(i))) : q \in Edited("item", i, v)
    BY <2>1
  <2>3. PICK g \in CategoriesOf(ItemEnt(i)), s \in BOOLEAN, k \in BOOLEAN :
           \/ v = [category |-> g] \/ v = [category |-> g, serial |-> s]
           \/ v = [category |-> g, stock |-> k] \/ v = [category |-> g, serial |-> s, stock |-> k]
    <3>1. CASE v \in {[category |-> g] : g \in CategoriesOf(ItemEnt(i))}
      BY <3>1
    <3>2. CASE v \in {[category |-> g, serial |-> s] :
            g \in CategoriesOf(ItemEnt(i)), s \in {b \in BOOLEAN : SerialHasStock(b, db.item[i].stock)}}
      BY <3>2
    <3>3. CASE v \in {[category |-> g, stock |-> k] :
            g \in CategoriesOf(ItemEnt(i)), k \in {b \in BOOLEAN : SerialHasStock(db.item[i].serial, b)}}
      BY <3>3
    <3>4. CASE v \in {[category |-> g, serial |-> f.serial, stock |-> f.stock] :
            g \in CategoriesOf(ItemEnt(i)), f \in Flags}
      BY <3>4 DEF Flags
    <3> QED BY <2>2, <3>1, <3>2, <3>3, <3>4 DEF ItemForms
  <2>4. g \in Categories /\ IsOf("category", g, ItemEnt(i)) /\ ItemEnt(i) \in Enterprises
    BY <1>1
  <2>5. Partial("item", v)
    BY <2>3, <2>4, TheRows DEF Partial, Merged, ItemRow
  <2>6. "category" \in DOMAIN v /\ v.category = g /\ "ent" \notin DOMAIN v
    BY <2>3
  <2>7. ItemIsOf(i, ItemEnt(i))
    BY LiveIds DEF ItemIsOf, Born
  <2>8. ItemOf(Update("item", i, v), ItemEnt(i))
    BY <2>4, <2>6, <2>7 DEF ItemOf, Update
  <2>9. Known(Update("item", i, v))
    <3>1. KnowsItem(Update("item", i, v))
      BY <2>4, <2>6, <2>8 DEF KnowsItem, Update
    <3> QED BY <3>1, <2>6, TheLineTables DEF Known, Update, KeepsEnterprise, KnowsLink, KnowsInvoice,
           KnowsEarning, KnowsLine
  <2> QED BY <1>0, <2>2, <2>5, <2>9, EditedSent
<1>4. CASE q \in DeleteItem
  <2>1. PICK i \in Live("item") : q = Delete("item", i)
    BY <1>4 DEF DeleteItem
  <2> QED BY <1>0, <2>1, DeleteSent
<1> QED BY <1>2, <1>3, <1>4

LEMMA SupplierStatements ==
  ASSUME Ready, NEW q \in CreateSupplier \cup UpdateSupplier \cup DeleteSupplier
  PROVE  Sent(q, "supplier")
<1>0. "supplier" \in Tables \ Joined /\ "supplier" \in Tables \ CheckedTables /\ Whole
  BY TheTables, UncheckedTables DEF Joined, Ready
<1>1. CASE q \in CreateSupplier
  <2>1. \/ \E p \in Fresh("supplier"), k \in SupplierRow : q = Insert("supplier", p, k)
        \/ q \in AsNamed("supplier", {k \in SupplierRow :
                              \E e \in Enterprises : HoldersOf("supplier", k.nif, e) = {}})
    BY <1>1 DEF CreateSupplier
  <2> QED BY <1>0, <2>1, TheRows, InsertKnown, InsertSent, NamedSent DEF Joined
<1>2. CASE q \in UpdateSupplier
  <2>1. PICK c \in Live("supplier"), n \in Nifs : q \in Edited("supplier", c, [nif |-> n])
    BY <1>2 DEF UpdateSupplier
  <2>2. Partial("supplier", [nif |-> n])
    BY TheRows DEF Partial, Merged, SupplierRow
  <2> QED BY <1>0, <2>1, <2>2, UpdateKnown, EditedSent
<1>3. CASE q \in DeleteSupplier
  <2>1. PICK c \in Live("supplier") : q = Delete("supplier", c)
    BY <1>3 DEF DeleteSupplier
  <2> QED BY <1>0, <2>1, DeleteSent
<1> QED BY <1>1, <1>2, <1>3

LEMMA SpentForm ==
  ASSUME NEW v \in SpentForms
  PROVE  v \in SpentRow
<1>1. Live("supplier") \subseteq Suppliers /\ Live("spent_category") \subseteq SpentCategories
  BY LiveIds, TheIds
<1> QED BY <1>1 DEF SpentForms, SpentRow

LEMMA SpentPatch ==
  ASSUME NEW v \in SpentPatches
  PROVE  Partial("spent", v) /\ "ent" \notin DOMAIN v
<1>1. PICK columns \in SUBSET {"supplier", "category", "file"} :
         v \in {[c \in columns |-> f[c]] : f \in SpentForms}
  BY DEF SpentPatches
<1>2. PICK f \in SpentForms : v = [c \in columns |-> f[c]]
  BY <1>1
<1>3. f \in SpentRow
  BY SpentForm
<1> QED BY <1>2, <1>3, TheRows DEF Partial, Merged, SpentRow

LEMMA SpentStatements ==
  ASSUME Ready, NEW q \in CreateSpent \cup UpdateSpent
  PROVE  Sent(q, "spent")
<1>0. "spent" \in Tables \ Joined /\ "spent" \in Tables \ CheckedTables /\ Whole
  BY TheTables, UncheckedTables DEF Joined, Ready
<1>1. CASE q \in CreateSpent
  <2>1. PICK s \in Fresh("spent"), v \in SpentForms : q = Insert("spent", s, v)
    BY <1>1 DEF CreateSpent
  <2> QED BY <1>0, <2>1, SpentForm, InsertKnown, InsertSent, TheRows DEF Joined
<1>2. CASE q \in PatchSpent
  <2>1. PICK s \in Live("spent"), v \in SpentPatches : q \in Edited("spent", s, v)
    BY <1>2 DEF PatchSpent
  <2> QED BY <1>0, <2>1, SpentPatch, UpdateKnown, EditedSent
<1>3. CASE q \in SaveSpentGraph
  <2>1. PICK s \in Live("spent"), v \in SpentPatches : q = Save("spent", s, Merged(db.spent[s], v))
    BY <1>3 DEF SaveSpentGraph
  <2>2. s \in Ids["spent"] /\ db["spent"][s] \in Row["spent"]
    BY <1>0, LiveIds, LiveRows
  <2>3. Merged(db.spent[s], v) \in Row["spent"]
    BY <2>2, SpentPatch DEF Partial
  <2>4. Known(Save("spent", s, Merged(db.spent[s], v)))
    BY TheLineTables DEF Known, Save, KeepsEnterprise, KnowsLink, KnowsInvoice, KnowsEarning,
       KnowsItem, KnowsLine
  <2> QED BY <1>0, <2>1, <2>2, <2>3, <2>4, LiveIds DEF Sent, Typed, Save, Born, Writing, Patching,
         Unchecked
<1> QED BY <1>1, <1>2, <1>3 DEF UpdateSpent

LEMMA CategoryStatements ==
  ASSUME Ready, NEW t \in {"category", "spent_category"},
         NEW q \in CreateCategory(t) \cup UpdateCategory(t) \cup DeleteCategory(t)
  PROVE  Sent(q, t)
<1>0. /\ t \in Tables \ Joined /\ t \in Tables \ CheckedTables /\ t \in Owned
      /\ Row[t] = CategoryRow /\ Whole
  BY TheTables, TheRows, UncheckedTables DEF Joined, Owned, Ready
<1>1. CASE q \in CreateCategory(t)
  BY <1>0, <1>1, InsertKnown, MadeSent DEF Joined, CategoryRow, CreateCategory
<1>2. CASE q \in UpdateCategory(t)
  <2>1. PICK g \in Live(t) : q \in Edited(t, g, [ent |-> db[t][g].ent])
    BY <1>2 DEF UpdateCategory
  <2>2. IsOf(t, g, db[t][g].ent) /\ db[t][g].ent \in Enterprises
    BY <1>0, OfItsEnterprise
  <2>3. Partial(t, [ent |-> db[t][g].ent])
    BY <1>0, <2>2 DEF Partial, Merged, CategoryRow
  <2> QED BY <1>0, <2>1, <2>2, <2>3, UpdateKnown, EditedSent
<1>3. CASE q \in DeleteCategory(t)
  <2>1. PICK g \in Live(t) : q = Delete(t, g)
    BY <1>3 DEF DeleteCategory
  <2> QED BY <1>0, <2>1, DeleteSent
<1> QED BY <1>1, <1>2, <1>3

(* The enterprise of a document, and of an item.                             *)
LEMMA DocumentClients ==
  ASSUME Whole, RefsLive, NEW t \in DOMAIN LineTable, NEW d \in Live(t)
  PROVE  db[t][d].client \in Live("client")
<1>1. t \in Tables /\ db[t][d] \in Row[t] /\ d \in Ids[t]
  BY TheLines, LiveIds, LiveRows
<1>2. \E k \in ForeignKeys : Parts(k, t, "client", "client", "refuse")
  BY TheLineTables, KeyParts DEF ForeignKeys, SaleKeys
<1>3. db[t][d].client \in Live("client") \cup {None}
  BY <1>2 DEF RefsLive, Parts
<1>4. db[t][d].client \in Clients
  <2>1. CASE t = "quote"
    BY <1>1, <2>1, TheRows DEF QuoteRow
  <2>2. CASE t = "order"
    BY <1>1, <2>2, TheRows DEF OrderRow
  <2>3. CASE t = "invoice"
    BY <1>1, <2>3, TheRows DEF InvoiceRow
  <2> QED BY <2>1, <2>2, <2>3, TheLineTables
<1> QED BY <1>3, <1>4, AbsenceAssumption, TheTables, TheIds

LEMMA DocumentsHaveClients ==
  ASSUME Whole, RefsLive, NEW t \in DOMAIN LineTable, NEW d \in Live(t)
  PROVE  DocEnt(t, d) \in Enterprises /\ DocIsOf(t, d, DocEnt(t, d))
<1>1. db[t][d].client \in Live("client")
  BY DocumentClients
<1> QED BY <1>1, OfItsEnterprise, LiveIds DEF DocEnt, DocIsOf, Born, Owned

LEMMA ItemsHaveEnterprises ==
  ASSUME Whole, RefsLive, NEW i \in Live("item")
  PROVE  ItemEnt(i) \in Enterprises /\ ItemIsOf(i, ItemEnt(i)) /\ i \in Items
BY ItemsHaveCategories, OfItsEnterprise, LiveIds, TheIds DEF ItemEnt, ItemIsOf, Born, Owned

LEMMA LineRows ==
  ASSUME NEW t \in DOMAIN LineTable
  PROVE  Row[LineTable[t]] = LineRow(Ids[t]) /\ LineTable[t] \notin Owned
  BY TheLineTables, TheRows, TheIds DEF Owned

LEMMA LineKnown ==
  ASSUME NEW q, NEW t \in DOMAIN LineTable, q.table = LineTable[t], KnowsLine(q, t),
         q.do = "update" => "ent" \notin DOMAIN q.set
  PROVE  Known(q)
<1>1. \A u \in DOMAIN LineTable : KnowsLine(q, u)
  BY TheLineTables DEF KnowsLine
<1> QED BY <1>1, TheLineTables DEF Known, KeepsEnterprise, KnowsLink, KnowsInvoice, KnowsEarning, KnowsItem

LEMMA LineStatements ==
  ASSUME Ready, NEW t \in DOMAIN LineTable,
         NEW q \in CreateLine(t) \cup UpdateLine(t) \cup DeleteLine(t)
  PROVE  Sent(q, LineTable[t])
<1>0. LineTable[t] \in Tables /\ t \in Tables /\ Whole /\ RefsLive
  BY TheLines DEF Ready
<1>1. ASSUME NEW d \in Live(t), NEW i \in ItemsFor(t, d)
      PROVE  i \in Live("item") /\ i \in Items /\ ItemIsOf(i, DocEnt(t, d))
  BY <1>0, ItemsHaveEnterprises DEF ItemsFor
<1>2. CASE q \in CreateLine(t)
  <2>0. PICK d \in Live(t) :
           q \in {Insert(LineTable[t], l, [doc |-> d, item |-> i, price |-> p]) :
                    l \in Fresh(LineTable[t]), i \in ItemsFor(t, d) \cup {None}, p \in Prices}
    BY <1>2 DEF CreateLine, Insert
  <2>1. PICK l \in Fresh(LineTable[t]), i \in ItemsFor(t, d) \cup {None}, p \in Prices :
           q = Insert(LineTable[t], l, [doc |-> d, item |-> i, price |-> p])
    BY <2>0 DEF Insert
  <2>2. PICK v : v = [doc |-> d, item |-> i, price |-> p]
    OBVIOUS
  <2>3. d \in Ids[t] /\ i \in Items \cup {None}
    BY <1>1, LiveIds
  <2>4. v \in Row[LineTable[t]]
    BY <2>2, <2>3, LineRows DEF LineRow
  <2>5. KnowsLine(Insert(LineTable[t], l, v), t)
    <3>1. CASE i = None
      BY <3>1, <2>2 DEF KnowsLine, Insert
    <3>2. CASE i # None
      <4>1. ItemIsOf(i, DocEnt(t, d)) /\ DocIsOf(t, d, DocEnt(t, d)) /\ DocEnt(t, d) \in Enterprises
        BY <1>0, <1>1, <3>2, <2>1, DocumentsHaveClients
      <4>2. SaleOf(Insert(LineTable[t], l, v), t, d, DocEnt(t, d))
        BY <4>1, <2>2 DEF SaleOf, Insert
      <4> QED BY <4>1, <4>2, <2>3 DEF KnowsLine, Insert
    <3> QED BY <3>1, <3>2
  <2>6. Known(Insert(LineTable[t], l, v))
    BY <2>5, LineKnown DEF Insert
  <2> QED BY <1>0, <2>1, <2>2, <2>4, <2>6, InsertSent
<1>3. CASE q \in UpdateLine(t)
  <2>1. PICK l \in OpenLines(t) :
           \E v \in LineForms(t, db[LineTable[t]][l]) : q = Update(LineTable[t], l, v)
    BY <1>3 DEF UpdateLine
  <2>2. PICK v \in LineForms(t, db[LineTable[t]][l]) : q = Update(LineTable[t], l, v)
    BY <2>1
  <2>3. PICK r : r = db[LineTable[t]][l]
    OBVIOUS
  <2>4. l \in Live(LineTable[t]) /\ l \in Ids[LineTable[t]] /\ r \in LineRow(Ids[t])
    BY <1>0, <2>3, LineRows, LiveRows, LiveIds DEF OpenLines, Where
  <2>5. r.doc \in Live(t) /\ r.item \in Live("item") \cup {None}
    <3>1. /\ \E k \in ForeignKeys : Parts(k, LineTable[t], "doc", t, "cascade")
          /\ \E k \in ForeignKeys : Parts(k, LineTable[t], "item", "item", "set_null")
      <4>1. <<LineTable[t], t>> \in {<<"quote_line", "quote">>, <<"order_line", "order">>,
                     <<"invoice_line", "invoice">>}
        BY TheLineTables
      <4>2. /\ Key(LineTable[t], "doc", t, "cascade") \in LineKeys
            /\ Key(LineTable[t], "item", "item", "set_null") \in LineKeys
        BY <4>1 DEF LineKeys
      <4> QED BY <4>2, KeyParts DEF ForeignKeys
    <3>2. ASSUME NEW k \in ForeignKeys, NEW c, NEW p, NEW a, Parts(k, LineTable[t], c, p, a)
          PROVE  r[c] \in Live(p) \cup {None}
      <4>1. k.table = LineTable[t] /\ k.column = c /\ k.parent = p
        BY <3>2 DEF Parts
      <4>2. db[k.table][l][k.column] \in Live(k.parent) \cup {None}
        BY <4>1, <2>4, <1>0 DEF RefsLive
      <4> QED BY <4>1, <4>2, <2>3
    <3>3. r.doc \in Ids[t]
      BY <2>4 DEF LineRow
    <3>4. r["doc"] \in Live(t) \cup {None}
      <4>1. PICK k \in ForeignKeys : Parts(k, LineTable[t], "doc", t, "cascade")
        BY <3>1
      <4> QED BY <4>1, <3>2
    <3>5. r["item"] \in Live("item") \cup {None}
      <4>1. PICK k \in ForeignKeys : Parts(k, LineTable[t], "item", "item", "set_null")
        BY <3>1
      <4> QED BY <4>1, <3>2
    <3> QED BY <3>3, <3>4, <3>5, <1>0, AbsenceAssumption
  <2>6. ASSUME NEW i \in ItemsFor(t, r.doc) \cup {None, r.item}, i # None
        PROVE  i \in Items /\ \E e \in Enterprises : ItemIsOf(i, e) /\ DocIsOf(t, r.doc, e)
    <3>1. i \in Items /\ i \in Live("item")
      BY <2>5, <2>6, <1>1, LiveIds, TheIds
    <3>2. CASE ItemEnt(i) = DocEnt(t, r.doc)
      BY <1>0, <2>5, <3>1, <3>2, ItemsHaveEnterprises, DocumentsHaveClients
    <3>3. CASE ItemEnt(i) # DocEnt(t, r.doc)
      <4>1. i = r.item
        BY <3>3, <2>6 DEF ItemsFor
      <4>2. CASE PureItems
        <5>1. r.doc \in excused \cup unchecked
          BY <4>1, <4>2, <2>3, <2>4, <2>6, <3>3 DEF Ready, TenantsNeverMix, PureItems
        <5>2. DocIsOf(t, r.doc, ItemEnt(i))
          BY <5>1, <2>5, LiveIds DEF DocIsOf, Born
        <5> QED BY <1>0, <3>1, <5>2, ItemsHaveEnterprises
      <4>3. CASE ~PureItems
        <5>1. /\ DocIsOf(t, r.doc, DocEnt(t, r.doc)) /\ ItemIsOf(i, DocEnt(t, r.doc))
              /\ DocEnt(t, r.doc) \in Enterprises
          BY <1>0, <4>3, <2>5, <3>1, DocumentsHaveClients, LiveIds DEF ItemIsOf, Born
        <5> QED BY <3>1, <5>1
      <4> QED BY <4>2, <4>3
    <3> QED BY <3>2, <3>3
  <2>7. PICK items : /\ items = ItemsFor(t, r.doc) \cup {None, r.item}
                     /\ \/ v \in [price : Prices] \/ v \in [item : items]
                        \/ v \in [item : items, price : Prices]
    BY <2>2, <2>3 DEF LineForms
  <2>8. items \subseteq Items \cup {None}
    BY <2>6, <2>7
  <2>9. Partial(LineTable[t], v)
    <3> DEFINE rows == [doc : Ids[t], item : Items \cup {None}, price : Prices]
    <3>0. Row[LineTable[t]] = rows
      BY LineRows DEF LineRow
    <3> SUFFICES ASSUME NEW o \in rows PROVE Merged(o, v) \in rows
      BY <3>0 DEF Partial
    <3>1. CASE v \in [price : Prices]
      BY <3>1 DEF Merged
    <3>2. CASE v \in [item : items]
      BY <3>2, <2>8 DEF Merged
    <3>3. CASE v \in [item : items, price : Prices]
      BY <3>3, <2>8 DEF Merged
    <3> QED BY <2>7, <3>1, <3>2, <3>3
  <2>10. /\ "doc" \notin DOMAIN v /\ "ent" \notin DOMAIN v
         /\ "item" \in DOMAIN v => v.item \in items
    BY <2>7
  <2>11. KnowsLine(Update(LineTable[t], l, v), t)
    <3>1. CASE ~("item" \in DOMAIN v /\ v.item # None)
      BY <3>1, <2>10 DEF KnowsLine, Update
    <3>2. CASE "item" \in DOMAIN v /\ v.item # None
      <4>1. PICK e \in Enterprises : ItemIsOf(v.item, e) /\ DocIsOf(t, r.doc, e)
        BY <3>2, <2>6, <2>7, <2>10
      <4>2. LineIsOf(t, l, r.doc) /\ r.doc \in Ids[t]
        BY <2>3, <2>4, <2>5, LiveIds DEF LineIsOf, Born
      <4>3. SaleOf(Update(LineTable[t], l, v), t, r.doc, e)
        BY <4>1, <4>2 DEF SaleOf, Update
      <4> QED BY <4>2, <4>3, <2>10 DEF KnowsLine, Update
    <3> QED BY <3>1, <3>2
  <2>12. Known(Update(LineTable[t], l, v))
    BY <2>10, <2>11, LineKnown DEF Update
  <2> QED BY <1>0, <2>2, <2>4, <2>9, <2>12, UpdateSent
<1>4. CASE q \in DeleteLine(t)
  <2>1. PICK l \in Live(LineTable[t]) : q = Delete(LineTable[t], l)
    BY <1>4 DEF DeleteLine, OpenLines, Where
  <2> QED BY <1>0, <2>1, DeleteSent
<1> QED BY <1>2, <1>3, <1>4

LEMMA DatedStatements ==
  ASSUME Ready, NEW t \in {"template", "holiday", "vacation"},
         NEW q \in UpdateIn(t) \cup DeleteIn(t)
  PROVE  Sent(q, t)
<1>0. t \in Tables \ Joined
  BY TheTables DEF Joined
<1>1. CASE q \in UpdateIn(t)
  <2>1. PICK x \in Live(t) : q = Update(t, x, <<>>)
    BY <1>1 DEF UpdateIn
  <2>2. "ent" \notin DOMAIN <<>>
    OBVIOUS
  <2> QED BY <1>0, <2>1, <2>2, NothingGiven, UpdateKnown, UpdateSent
<1>2. CASE q \in DeleteIn(t)
  <2>1. PICK x \in Live(t) : q = Delete(t, x)
    BY <1>2 DEF DeleteIn
  <2> QED BY <1>0, <2>1, DeleteSent
<1> QED BY <1>1, <1>2

LEMMA InsertedInEnterprise ==
  ASSUME NEW t \in {"template", "holiday"}, NEW q \in CreateIn(t)
  PROVE  Sent(q, t)
<1>0. t \in Tables \ Joined /\ Row[t] = [ent : Enterprises]
  BY TheTables, TheRows DEF Joined, TemplateRow, HolidayRow
<1>1. PICK x \in Fresh(t), e \in Live("enterprise") : q = Insert(t, x, [ent |-> e])
  BY DEF CreateIn
<1>2. e \in Enterprises
  BY LiveIds, TheIds
<1> QED BY <1>0, <1>1, <1>2, InsertKnown, InsertSent

LEMMA InsertedVacation ==
  ASSUME NEW q \in CreateVacation
  PROVE  Sent(q, "vacation")
<1>0. "vacation" \in Tables \ Joined /\ Row["vacation"] = [link : Links]
  BY TheTables, TheRows DEF Joined, VacationRow
<1>1. PICK x \in Fresh("vacation"), l \in Live("link") : q = Insert("vacation", x, [link |-> l])
  BY DEF CreateVacation
<1>2. l \in Links
  BY LiveIds, TheIds
<1> QED BY <1>0, <1>1, <1>2, InsertKnown, InsertSent

LEMMA SettingStatements ==
  ASSUME NEW q \in UpdateSetting
  PROVE  Sent(q, "setting")
<1>0. "setting" \in Tables \ Joined /\ Row["setting"] = [ent : Enterprises]
  BY TheTables, TheRows DEF Joined, SettingRow
<1>1. CASE q \in {Update("setting", x, <<>>) : x \in UNION {SettingsOf(e) : e \in Live("enterprise")}}
  <2>1. PICK x \in Live("setting") : q = Update("setting", x, <<>>)
    BY <1>1 DEF SettingsOf, Where
  <2>2. "ent" \notin DOMAIN <<>>
    OBVIOUS
  <2> QED BY <1>0, <2>1, <2>2, NothingGiven, UpdateKnown, UpdateSent
<1>2. CASE q \in {Insert("setting", x, [ent |-> e]) :
            x \in Fresh("setting"), e \in {k \in Live("enterprise") : SettingsOf(k) = {}}}
  <2>1. PICK x \in Fresh("setting"), e \in Live("enterprise") : q = Insert("setting", x, [ent |-> e])
    BY <1>2
  <2>2. PICK v : v = [ent |-> e]
    OBVIOUS
  <2>3. v \in Row["setting"]
    BY <1>0, <2>2, LiveIds, TheIds
  <2>4. Known(Insert("setting", x, v))
    BY <1>0, InsertKnown
  <2>5. Sent(Insert("setting", x, v), "setting")
    BY <1>0, <2>3, <2>4, InsertSent
  <2> QED BY <2>1, <2>2, <2>5
<1> QED BY <1>1, <1>2 DEF UpdateSetting, Insert, Update

LEMMA TemplateFits ==
  ASSUME Whole, NEW e, NEW m \in TemplatesFor(e)
  PROVE  m \in Templates \cup {None} /\ (m # None => IsOf("template", m, e) /\ e \in Enterprises)
<1> SUFFICES ASSUME m # None PROVE m \in Templates /\ IsOf("template", m, e) /\ e \in Enterprises
  OBVIOUS
<1>1. m \in Live("template") /\ db["template"][m].ent = e
  BY DEF TemplatesFor, Where
<1> QED BY <1>1, OfItsEnterprise, LiveIds, TheIds DEF Owned

LEMMA LinkKnown ==
  ASSUME NEW q, q.table = "link", KnowsLink(q), q.do = "update" => "ent" \notin DOMAIN q.set
  PROVE  Known(q)
  BY TheLineTables DEF Known, KeepsEnterprise, KnowsInvoice, KnowsEarning, KnowsItem, KnowsLine

LEMMA LinkStatements ==
  ASSUME Ready, NEW q \in CreateLink \cup UpdateLink \cup DeleteLink
  PROVE  Sent(q, "link")
<1>0. "link" \in Tables /\ "link" \in Owned /\ Whole
  BY TheTables DEF Owned, Ready
<1>1. CASE q \in CreateLink
  <2>1. PICK e \in Live("enterprise") :
           q \in {Insert("link", l, [ent |-> e, template |-> m]) : l \in Fresh("link"), m \in TemplatesFor(e)}
    BY <1>1 DEF CreateLink, Insert
  <2>2. PICK l \in Fresh("link"), m \in TemplatesFor(e) : q = Insert("link", l, [ent |-> e, template |-> m])
    BY <2>1 DEF Insert
  <2>3. e \in Enterprises /\ m \in Templates \cup {None} /\ (m # None => IsOf("template", m, e))
    BY <1>0, TemplateFits, LiveIds, TheIds
  <2>4. PICK v : v = [ent |-> e, template |-> m]
    OBVIOUS
  <2>5. v \in Row["link"]
    BY <2>3, <2>4, TheRows DEF LinkRow
  <2>6. KnowsLink(Insert("link", l, v))
    BY <2>3, <2>4 DEF KnowsLink, Insert, LinkOf
  <2>7. Known(Insert("link", l, v))
    BY <2>6, LinkKnown DEF Insert
  <2> QED BY <1>0, <2>2, <2>4, <2>5, <2>7, InsertSent
<1>2. CASE q \in UpdateLink
  <2>1. PICK l \in Live("link") :
           \E m \in TemplatesFor(db.link[l].ent) : q = Update("link", l, [template |-> m])
    BY <1>2 DEF UpdateLink
  <2>2. PICK m \in TemplatesFor(db.link[l].ent) : q = Update("link", l, [template |-> m])
    BY <2>1
  <2>3. IsOf("link", l, db.link[l].ent) /\ db.link[l].ent \in Enterprises
    BY <1>0, OfItsEnterprise
  <2>4. m \in Templates \cup {None} /\ (m # None => IsOf("template", m, db.link[l].ent))
    BY <1>0, TemplateFits
  <2>5. PICK v : v = [template |-> m]
    OBVIOUS
  <2>6. Partial("link", v) /\ "ent" \notin DOMAIN v
    BY <2>4, <2>5, TheRows DEF Partial, Merged, LinkRow
  <2>7. m # None => LinkOf(Update("link", l, v), db.link[l].ent)
    BY <2>3, <2>4, <2>5 DEF LinkOf, Update
  <2>8. KnowsLink(Update("link", l, v))
    BY <2>3, <2>5, <2>6, <2>7 DEF KnowsLink, Update
  <2>9. Known(Update("link", l, v))
    BY <2>6, <2>8, LinkKnown DEF Update
  <2> QED BY <1>0, <2>2, <2>5, <2>6, <2>9, UpdateSent
<1>3. CASE q \in DeleteLink
  <2>1. PICK l \in Live("link") : q = Delete("link", l)
    BY <1>3 DEF DeleteLink
  <2> QED BY <1>0, <2>1, DeleteSent
<1> QED BY <1>1, <1>2, <1>3

-----------------------------------------------------------------------------
(* Steps on Dropbox, and what a handler sends in one go or in two.           *)
Paths == [ent : Enterprises, folder : Clients \cup {"spents", "logo"},
          id : Documents \cup Spents \cup Enterprises]

OnFile(q, t) ==
  /\ Typed(q) /\ q.table = t /\ OnStore(q)
  /\ q.do # "remove_folder" => q.path \in Paths /\ q.path.id = q.id
  /\ q.do = "remove_folder" => t = "enterprise"
  /\ q.undo = <<>> \/ (q.undo = <<Delete("document", q.id)>> /\ t = "document")

Asked(q, t) == Sent(q, t) \/ OnFile(q, t)

Follows(q) == q.do # "insert" /\ ~Unchecked(q)

Queue(h, t) ==
  \/ \E a : h = <<a>> /\ Asked(a, t)
  \/ \E a, b : /\ h = <<a, b>> /\ Asked(a, t)
               /\ \/ Asked(b, t) /\ Follows(b) /\ (OnStore(a) \/ OnStore(b))
                  \/ t = "enterprise" /\ Sent(b, "setting") /\ b.do = "insert"

LEMMA FilesAreOnStore ==
  ASSUME NEW t, NEW q, OnFile(q, t)
  PROVE  OnStore(q)
  BY DEF OnFile

LEMMA AloneIsQueue ==
  ASSUME NEW t, NEW S, NEW h \in Alone(S), \A q \in S : Sent(q, t)
  PROVE  Queue(h, t)
  BY DEF Alone, Queue, Asked

(* The client of a document, and the supplier of a spent.                    *)
LEMMA FiledRows ==
  ASSUME Whole, RefsLive
  PROVE  /\ \A d \in Live("document") :
               d \in Documents /\ db["document"][d].client \in Live("client")
         /\ \A s \in Live("spent") :
               /\ s \in Spents /\ db["spent"][s] \in SpentRow
               /\ db["spent"][s].supplier \in Live("supplier")
<1>1. ASSUME NEW d \in Live("document")
      PROVE  d \in Documents /\ db["document"][d].client \in Live("client")
  <2>1. d \in Documents /\ db["document"][d] \in DocumentRow
    BY LiveIds, LiveRows, TheTables, TheIds, TheRows
  <2>2. \E k \in ForeignKeys : Parts(k, "document", "client", "client", "cascade")
    BY KeyParts DEF ForeignKeys, SaleKeys
  <2>3. db["document"][d].client \in Live("client") \cup {None}
    BY <2>2 DEF RefsLive, Parts
  <2>4. db["document"][d].client \in Clients
    BY <2>1 DEF DocumentRow
  <2> QED BY <2>1, <2>3, <2>4, AbsenceAssumption, TheTables, TheIds
<1>2. ASSUME NEW s \in Live("spent")
      PROVE  /\ s \in Spents /\ db["spent"][s] \in SpentRow
             /\ db["spent"][s].supplier \in Live("supplier")
  <2>1. s \in Spents /\ db["spent"][s] \in SpentRow
    BY LiveIds, LiveRows, TheTables, TheIds, TheRows
  <2>2. \E k \in ForeignKeys : Parts(k, "spent", "supplier", "supplier", "refuse")
    BY KeyParts DEF ForeignKeys, PurchaseKeys
  <2>3. db["spent"][s].supplier \in Live("supplier") \cup {None}
    BY <2>2 DEF RefsLive, Parts
  <2>4. db["spent"][s].supplier \in Suppliers
    BY <2>1 DEF SpentRow
  <2> QED BY <2>1, <2>3, <2>4, AbsenceAssumption, TheTables, TheIds
<1> QED BY <1>1, <1>2

LEMMA PathsFit ==
  ASSUME Whole, RefsLive
  PROVE  /\ \A c \in Live("client"), d \in Documents : DocumentPath(c, d) \in Paths
         /\ \A s \in Live("spent") : SpentPath(s) \in Paths
         /\ \A e \in Enterprises : LogoPath(e) \in Paths
<1>1. ASSUME NEW c \in Live("client"), NEW d \in Documents PROVE DocumentPath(c, d) \in Paths
  BY OfItsEnterprise, LiveIds, TheIds DEF DocumentPath, Path, Paths, Owned
<1>2. ASSUME NEW s \in Live("spent") PROVE SpentPath(s) \in Paths
  BY FiledRows, OfItsEnterprise DEF SpentPath, Path, Paths, Owned
<1>3. ASSUME NEW e \in Enterprises PROVE LogoPath(e) \in Paths
  BY DEF LogoPath, Path, Paths
<1> QED BY <1>1, <1>2, <1>3

LEMMA RowsCallForPaths ==
  ASSUME Whole, RefsLive
  PROVE  \A x : DocumentFiles(x) \subseteq Paths /\ SpentFiles(x) \subseteq Paths
BY FiledRows, PathsFit DEF DocumentFiles, SpentFiles, SaysFile

LEMMA FileSteps ==
  ASSUME NEW t \in {"document", "spent", "enterprise"}, NEW p \in Paths, p.id \in Ids[t]
  PROVE  /\ OnFile(Upload(t, p, <<>>), t) /\ OnFile(Remove(t, p), t)
         /\ t = "document" => OnFile(Upload(t, p, <<Delete("document", p.id)>>), t)
  BY TheTables DEF OnFile, Upload, Remove, Typed, OnStore, Writing, Patching

LEMMA DocumentQueues ==
  ASSUME Ready, NEW h \in CreateDocument \cup UpdateDocument \cup DeleteDocument
  PROVE  Queue(h, "document")
<1>0. "document" \in Tables \ Joined /\ Row["document"] = [client : Clients] /\ Whole /\ RefsLive
  BY TheTables, TheRows DEF Joined, DocumentRow, Ready
<1>1. CASE h \in CreateDocument
  <2>1. PICK c \in Live("client"), d \in Fresh("document") :
           h = <<Insert("document", d, [client |-> c]),
                 Upload("document", DocumentPath(c, d), Rollback(d))>>
    BY <1>1 DEF CreateDocument
  <2>2. c \in Clients /\ d \in Documents
    BY LiveIds, FreshIds, TheIds
  <2>3. Sent(Insert("document", d, [client |-> c]), "document")
    BY <1>0, <2>2, InsertKnown, InsertSent
  <2>4. DocumentPath(c, d) \in Paths /\ DocumentPath(c, d).id = d
    BY <1>0, <2>2, PathsFit DEF DocumentPath, Path
  <2>5. OnFile(Upload("document", DocumentPath(c, d), Rollback(d)), "document")
    BY <2>2, <2>4, FileSteps, TheIds DEF Rollback
  <2>6. Follows(Upload("document", DocumentPath(c, d), Rollback(d)))
    BY DEF Upload, Follows, Unchecked
  <2> QED BY <2>1, <2>3, <2>5, <2>6, FilesAreOnStore DEF Queue, Asked
<1>2. CASE h \in UpdateDocument
  <2>1. PICK d \in Live("document") : h = <<Update("document", d, <<>>)>>
    BY <1>2 DEF UpdateDocument
  <2>2. "ent" \notin DOMAIN <<>>
    OBVIOUS
  <2>3. Sent(Update("document", d, <<>>), "document")
    BY <1>0, <2>2, NothingGiven, UpdateKnown, UpdateSent
  <2> QED BY <2>1, <2>3 DEF Queue, Asked
<1>3. CASE h \in DeleteDocument
  <2>1. PICK d \in Live("document") :
           h = <<Remove("document", DocumentPath(db.document[d].client, d)), Delete("document", d)>>
    BY <1>3 DEF DeleteDocument
  <2>2. d \in Documents
    BY <1>0, FiledRows
  <2>5. db["document"][d].client \in Live("client")
    BY <1>0, FiledRows
  <2>6. PICK p : p = DocumentPath(db.document[d].client, d)
    OBVIOUS
  <2>9. p \in Paths
    BY <1>0, <2>2, <2>5, <2>6, PathsFit
  <2>10. p.id = d
    BY <2>6 DEF DocumentPath, Path
  <2>7. OnFile(Remove("document", p), "document")
    BY <2>2, <2>9, <2>10, FileSteps, TheIds
  <2>8. Sent(Delete("document", d), "document") /\ Follows(Delete("document", d))
    BY <1>0, DeleteSent DEF Delete, Follows, Unchecked
  <2> QED BY <2>1, <2>6, <2>7, <2>8, FilesAreOnStore DEF Queue, Asked
<1> QED BY <1>1, <1>2, <1>3

LEMMA SpentFileQueues ==
  ASSUME Ready, NEW h \in AddFileToSpent \cup RemoveFileFromSpent \cup DeleteSpent
  PROVE  Queue(h, "spent")
<1>0. "spent" \in Tables \ Joined /\ Whole /\ RefsLive
  BY TheTables DEF Joined, Ready
<1>1. ASSUME NEW s \in Live("spent")
      PROVE  /\ OnFile(Upload("spent", SpentPath(s), <<>>), "spent")
             /\ OnFile(Remove("spent", SpentPath(s)), "spent")
  <2>1. SpentPath(s) \in Paths /\ SpentPath(s).id = s /\ s \in Ids["spent"]
    BY <1>0, PathsFit, LiveIds DEF SpentPath, Path
  <2> QED BY <2>1, FileSteps
<1>2. ASSUME NEW s \in Live("spent"), NEW b \in BOOLEAN
      PROVE  Sent(Flagged(s, b), "spent") /\ Follows(Flagged(s, b))
  <2>1. PICK v : v = [db["spent"][s] EXCEPT !.file = b]
    OBVIOUS
  <2>2. db["spent"][s] \in SpentRow
    BY <1>0, LiveIds, LiveRows, TheRows
  <2>3. v \in SpentRow /\ "ent" \notin DOMAIN v
    BY <2>1, <2>2 DEF SpentRow
  <2>4. Flagged(s, b) = Update("spent", s, v)
    BY <2>1 DEF Flagged
  <2> QED BY <1>0, <2>3, <2>4, WholeRows, UpdateKnown, UpdateSent, TheRows DEF Update, Follows, Unchecked
<1>3. ASSUME NEW s \in Live("spent"), NEW a, Sent(a, "spent"), Follows(a)
      PROVE  Queue(FileOf(s) \o <<a>>, "spent")
  <2>1. CASE db.spent[s].file
    <3>0. ASSUME NEW x PROVE <<x>> \o <<a>> = <<x, a>>
      <4>1. <<x>> \in Seq({x, a}) /\ <<a>> \in Seq({x, a}) /\ <<x, a>> \in Seq({x, a})
        OBVIOUS
      <4>2. <<x>> \o <<a>> \in Seq({x, a}) /\ Len(<<x>> \o <<a>>) = 2
        BY <4>1
      <4>3. \A i \in 1..2 : (<<x>> \o <<a>>)[i] = <<x, a>>[i]
        BY <4>1
      <4> QED BY <4>1, <4>2, <4>3, SeqEqual
    <3>1. FileOf(s) \o <<a>> = <<Remove("spent", SpentPath(s)), a>>
      BY <3>0, <2>1 DEF FileOf
    <3> QED BY <3>1, <1>1, <1>3, FilesAreOnStore DEF Queue, Asked
  <2>2. CASE ~db.spent[s].file
    <3>1. FileOf(s) \o <<a>> = <<a>>
      BY <2>2 DEF FileOf
    <3> QED BY <3>1, <1>3 DEF Queue, Asked
  <2> QED BY <2>1, <2>2
<1>4. CASE h \in AddFileToSpent
  <2>1. PICK s \in Live("spent") : h = <<Upload("spent", SpentPath(s), <<>>), Flagged(s, TRUE)>>
    BY <1>4 DEF AddFileToSpent
  <2> QED BY <2>1, <1>1, <1>2, FilesAreOnStore DEF Queue, Asked
<1>5. CASE h \in RemoveFileFromSpent
  <2>1. PICK s \in Live("spent") : h = FileOf(s) \o <<Flagged(s, FALSE)>>
    BY <1>5 DEF RemoveFileFromSpent
  <2> QED BY <2>1, <1>2, <1>3
<1>6. CASE h \in DeleteSpent
  <2>1. PICK s \in Live("spent") : h = FileOf(s) \o <<Delete("spent", s)>>
    BY <1>6 DEF DeleteSpent
  <2>2. Sent(Delete("spent", s), "spent") /\ Follows(Delete("spent", s))
    BY <1>0, DeleteSent DEF Delete, Follows, Unchecked
  <2> QED BY <2>1, <2>2, <1>3
<1> QED BY <1>4, <1>5, <1>6

LEMMA EnterpriseQueues ==
  ASSUME Ready, NEW h \in CreateEnterprise \cup UpdateEnterprise \cup CreateLogo \cup DeleteEnterprise
  PROVE  Queue(h, "enterprise")
<1>0. /\ "enterprise" \in Tables \ Joined /\ "enterprise" \in Tables \ CheckedTables /\ "setting" \in Tables \ Joined /\ Whole
      /\ RefsLive /\ Row["enterprise"] = EnterpriseRow /\ Row["setting"] = SettingRow
  BY TheTables, TheRows, UncheckedTables DEF Joined, Ready
<1>1. CASE h \in CreateEnterprise
  <2> DEFINE Rows == [nif : {m \in Nifs : EnterprisesWith(m) = {}}, logo : BOOLEAN]
             Overwrites == AsNamed("enterprise", Rows)
  <2>1. \A q \in Overwrites : Sent(q, "enterprise")
    <3>1. Rows \in SUBSET Row["enterprise"]
      BY <1>0 DEF EnterpriseRow
    <3> QED BY <1>0, <3>1, NamedSent
  <2>3. \/ \E e \in Fresh("enterprise"), x \in Fresh("setting"), n \in Nifs :
              h = <<Insert("enterprise", e, [nif |-> n, logo |-> FALSE]), Insert("setting", x, [ent |-> e])>>
        \/ \E q \in Overwrites, x \in Fresh("setting") : h = <<q, Insert("setting", x, [ent |-> q.id])>>
    <3> HIDE DEF Overwrites
    <3> DEFINE Firsts == {<<Insert("enterprise", e, [nif |-> n, logo |-> FALSE]),
                            Insert("setting", x, [ent |-> e])>> :
                             e \in Fresh("enterprise"), x \in Fresh("setting"),
                             n \in {m \in Nifs : EnterprisesWith(m) = {}}}
               Others == {<<q, Insert("setting", x, [ent |-> q.id])>> :
                             q \in Overwrites, x \in Fresh("setting")}
    <3>1. h \in Firsts => \E e \in Fresh("enterprise"), x \in Fresh("setting"), n \in Nifs :
              h = <<Insert("enterprise", e, [nif |-> n, logo |-> FALSE]), Insert("setting", x, [ent |-> e])>>
      <4> DEFINE Free == {m \in Nifs : EnterprisesWith(m) = {}}
                 two(e, x, n) == <<Insert("enterprise", e, [nif |-> n, logo |-> FALSE]),
                                   Insert("setting", x, [ent |-> e])>>
      <4>1. Free \subseteq Nifs
        OBVIOUS
      <4>2. Firsts = {two(e, x, n) : e \in Fresh("enterprise"), x \in Fresh("setting"), n \in Free}
        OBVIOUS
      <4> HIDE DEF Free, two, Firsts
      <4>3. h \in Firsts => \E e \in Fresh("enterprise"), x \in Fresh("setting"), n \in Nifs : h = two(e, x, n)
        BY <4>1, <4>2
      <4> QED BY <4>3 DEF two
    <3>2. h \in Others => \E q \in Overwrites, x \in Fresh("setting") :
              h = <<q, Insert("setting", x, [ent |-> q.id])>>
      OBVIOUS
    <3>3. CreateEnterprise = Firsts \cup Others
      BY DEF CreateEnterprise, Overwrites
    <3> HIDE DEF Firsts, Others
    <3>4. h \in Firsts \cup Others
      BY <1>1, <3>3
    <3> QED BY <3>1, <3>2, <3>4
  <2>2. \E q, x, e : /\ h = <<q, Insert("setting", x, [ent |-> e])>> /\ x \in Fresh("setting")
                     /\ e \in Enterprises /\ Sent(q, "enterprise")
    <3>1. CASE \E e \in Fresh("enterprise"), x \in Fresh("setting"), n \in Nifs :
              h = <<Insert("enterprise", e, [nif |-> n, logo |-> FALSE]), Insert("setting", x, [ent |-> e])>>
      <4>1. PICK e \in Fresh("enterprise"), x \in Fresh("setting"), n \in Nifs :
              h = <<Insert("enterprise", e, [nif |-> n, logo |-> FALSE]), Insert("setting", x, [ent |-> e])>>
        BY <3>1
      <4>2. e \in Enterprises
        BY FreshIds, TheIds
      <4>3. Sent(Insert("enterprise", e, [nif |-> n, logo |-> FALSE]), "enterprise")
        BY <1>0, InsertKnown, InsertSent DEF EnterpriseRow
      <4> QED BY <4>1, <4>2, <4>3
    <3>2. CASE \E q \in Overwrites, x \in Fresh("setting") : h = <<q, Insert("setting", x, [ent |-> q.id])>>
      <4> HIDE DEF Overwrites
      <4>1. PICK q \in Overwrites, x \in Fresh("setting") : h = <<q, Insert("setting", x, [ent |-> q.id])>>
        BY <3>2
      <4>3. q.id \in Enterprises
        BY <2>1, TheIds DEF Sent, Typed
      <4> QED BY <2>1, <4>1, <4>3
    <3> QED BY <2>3, <3>1, <3>2
  <2>6. PICK q, x, e : /\ h = <<q, Insert("setting", x, [ent |-> e])>> /\ x \in Fresh("setting")
                       /\ e \in Enterprises /\ Sent(q, "enterprise")
    BY <2>2
  <2>4. Sent(Insert("setting", x, [ent |-> e]), "setting")
    BY <1>0, <2>6, InsertKnown, InsertSent DEF SettingRow
  <2>5. Insert("setting", x, [ent |-> e]).do = "insert"
    BY DEF Insert
  <2> QED BY <2>4, <2>5, <2>6 DEF Queue, Asked
<1>2. CASE h \in UpdateEnterprise
  <2>1. PICK e \in Live("enterprise"), n \in Nifs :
           \E q \in Edited("enterprise", e, [nif |-> n]) : h = <<q>>
    BY <1>2 DEF UpdateEnterprise
  <2>4. PICK q \in Edited("enterprise", e, [nif |-> n]) : h = <<q>>
    BY <2>1
  <2>2. Partial("enterprise", [nif |-> n])
    BY <1>0 DEF Partial, Merged, EnterpriseRow
  <2>3. Sent(q, "enterprise")
    BY <1>0, <2>2, UpdateKnown, EditedSent
  <2> QED BY <2>4, <2>3 DEF Queue, Asked
<1>3. CASE h \in CreateLogo
  <2>1. PICK e \in Live("enterprise") :
           h = <<Upload("enterprise", LogoPath(e), <<>>),
                 Update("enterprise", e, [db.enterprise[e] EXCEPT !.logo = TRUE])>>
    BY <1>3 DEF CreateLogo
  <2>2. PICK v : v = [db["enterprise"][e] EXCEPT !.logo = TRUE]
    OBVIOUS
  <2>3. e \in Enterprises /\ db["enterprise"][e] \in EnterpriseRow
    BY <1>0, LiveIds, LiveRows, TheIds
  <2>4. v \in EnterpriseRow /\ "ent" \notin DOMAIN v
    BY <2>2, <2>3 DEF EnterpriseRow
  <2>5. Sent(Update("enterprise", e, v), "enterprise") /\ Follows(Update("enterprise", e, v))
    BY <1>0, <2>4, WholeRows, UpdateKnown, UpdateSent DEF Update, Follows, Unchecked
  <2>6. LogoPath(e) \in Paths /\ LogoPath(e).id = e
    BY <1>0, <2>3, PathsFit DEF LogoPath, Path
  <2>7. OnFile(Upload("enterprise", LogoPath(e), <<>>), "enterprise")
    BY <2>3, <2>6, FileSteps, TheIds
  <2> QED BY <2>1, <2>2, <2>5, <2>7, FilesAreOnStore DEF Queue, Asked
<1>4. CASE h \in DeleteEnterprise
  <2>1. PICK e \in Live("enterprise") :
           h = <<Delete("enterprise", e), RemoveFolder("enterprise", e)>>
    BY <1>4 DEF DeleteEnterprise
  <2>2. Sent(Delete("enterprise", e), "enterprise")
    BY <1>0, DeleteSent
  <2>3. OnFile(RemoveFolder("enterprise", e), "enterprise")
        /\ Follows(RemoveFolder("enterprise", e))
    BY <1>0, LiveIds DEF OnFile, RemoveFolder, Typed, OnStore, Writing, Patching, Follows, Unchecked
  <2> QED BY <2>1, <2>2, <2>3, FilesAreOnStore DEF Queue, Asked
<1> QED BY <1>1, <1>2, <1>3, <1>4

LEMMA HandlersSendQueues ==
  ASSUME Ready, NEW t \in Tables, NEW h \in HandlersOf(t), WithinBound(h)
  PROVE  Queue(h, t)
<1>0. /\ \A u \in {"earning", "quote", "order", "invoice", "item", "spent", "document"} :
            \A q \in Relinked(u) : Sent(q, u)
  BY RelinkedSent, UncheckedTables
<1>1. CASE t \in {"client", "series"}
  BY <1>1, AloneIsQueue, ClientStatements, SeriesStatements DEF HandlersOf
<1>10. CASE t \in {"earning", "quote", "order"}
  BY <1>0, <1>10, AloneIsQueue, EarningStatements, QuoteStatements, OrderStatements DEF HandlersOf
<1>2. CASE t = "invoice"
  <2>1. PICK q \in CreateInvoice \cup UpdateInvoice \cup SetInvoiceStatus \cup DeleteInvoice
                  \cup Relinked(t) : h = <<q>>
    BY <1>2 DEF HandlersOf, Alone
  <2>2. Head(h) = q /\ (q.table = "invoice" =>
           (q.do \notin {"delete", "relink"} => q.set.number \in (0..MaxNumber) \cup {None}))
    BY <2>1 DEF WithinBound
  <2>3. q.table = "invoice"
    <3>1. CASE q \in CreateInvoice
      BY <3>1 DEF CreateInvoice, Made, AsNamed, Insert, Overwrite
    <3>2. CASE q \in UpdateInvoice
      <4>1. \E x, v : q \in Edited("invoice", x, v)
        BY <3>2 DEF UpdateInvoice
      <4> QED BY <4>1 DEF Edited, Update, Overwrite
    <3>5. CASE q \in Relinked(t)
      BY <1>0, <1>2, <3>5 DEF Sent
    <3>3. CASE q \in SetInvoiceStatus
      <4>1. \E x, v : q = Update("invoice", x, v)
        BY <3>3 DEF SetInvoiceStatus
      <4> QED BY <4>1 DEF Update
    <3>4. CASE q \in DeleteInvoice
      BY <3>4 DEF DeleteInvoice, Delete
    <3> QED BY <3>1, <3>2, <3>3, <3>4, <3>5, <2>1
  <2>4. Sent(q, "invoice")
    BY <1>0, <1>2, <2>1, <2>2, <2>3, InvoiceStatements
  <2> QED BY <1>2, <2>1, <2>4 DEF Queue, Asked
<1>3. CASE t \in {"item", "supplier", "setting", "link"}
  BY <1>0, <1>3, AloneIsQueue, ItemStatements, SupplierStatements, SettingStatements, LinkStatements
     DEF HandlersOf
<1>4. CASE t = "spent"
  <2>1. h \in Alone(CreateSpent \cup UpdateSpent \cup Relinked(t))
        \/ h \in AddFileToSpent \cup RemoveFileFromSpent \cup DeleteSpent
    BY <1>4 DEF HandlersOf
  <2> QED BY <1>0, <1>4, <2>1, AloneIsQueue, SpentStatements, SpentFileQueues
<1>5. CASE t \in {"document", "enterprise"}
  <2>1. CASE t = "document" /\ h \in Alone(Relinked(t))
    BY <1>0, <2>1, AloneIsQueue
  <2> QED BY <1>5, <2>1, DocumentQueues, EnterpriseQueues DEF HandlersOf
<1>6. CASE t = "vacation"
  BY <1>6, AloneIsQueue, InsertedVacation, DatedStatements DEF HandlersOf
<1>7. CASE t \in {"template", "holiday"}
  BY <1>7, AloneIsQueue, InsertedInEnterprise, DatedStatements DEF HandlersOf
<1>8. CASE t \in {"category", "spent_category"}
  BY <1>8, AloneIsQueue, CategoryStatements DEF HandlersOf
<1>9. CASE t \in {"quote_line", "order_line", "invoice_line"}
  <2> DEFINE d == CHOOSE d \in DOMAIN LineTable : LineTable[d] = t
  <2>1. d \in DOMAIN LineTable /\ LineTable[d] = t
    BY <1>9, TheLineTables
  <2>2. h \in Alone(CreateLine(d) \cup UpdateLine(d) \cup DeleteLine(d))
    BY <1>9 DEF HandlersOf
  <2> HIDE DEF d
  <2> QED BY <2>1, <2>2, AloneIsQueue, LineStatements
<1> QED BY <1>1, <1>10, <1>2, <1>3, <1>4, <1>5, <1>6, <1>7, <1>8, <1>9, TheTables

-----------------------------------------------------------------------------
(* What a statement makes of the rows there are.                             *)
LEMMA NothingIsUnborn ==
  ASSUME Whole, NEW q, Execution(q), NEW t \in Tables, NEW x \in Ids[t]
  PROVE  /\ db[t][x] # Unborn => db'[t][x] # Unborn
         /\ db[t][x] = Unborn /\ ~(q.do \in {"insert", "save", "overwrite"} /\ q.table = t /\ q.id = x)
               => db'[t][x] = Unborn
<1>1. CASE ~Accepted(q)
  BY <1>1 DEF Execution, Effect
<1>2. CASE Accepted(q) /\ Writing(q)
  <2>1. Becomes(q) \in Row[q.table] /\ WritesRow(q) /\ q.table \in Tables
    BY <1>2, Written DEF Execution, Typed
  <2>2. Becomes(q) # Unborn
    BY <2>1, AbsenceAssumption
  <2>3. Patching(q) => db[q.table][q.id] # Unborn
    BY <1>2, LiveIds DEF Accepted, Patching
  <2> QED BY <1>2, <2>1, <2>2, <2>3 DEF WritesRow, Writing, Patching
<1>3. CASE Accepted(q) /\ q.do = "delete"
  <2>1. Deletes(q)
    BY <1>3, Deleted DEF Execution
  <2>2. <<t, x>> \in GoneWith(q.table, q.id) => x \in Live(t)
    <3>1. ASSUME NEW gone, <<t, x>> \in NamingAny("cascade", gone) PROVE x \in Live(t)
      <4>1. PICK u, y : <<t, x>> = <<u, y>> /\ Hangs("cascade", gone, u, y)
        BY <3>1, NamingPairs
      <4> QED BY <4>1 DEF Hangs
    <3>2. <<t, x>> \in {<<q.table, q.id>>} => x \in Live(t)
      BY <1>3 DEF Accepted
    <3> DEFINE S0 == {<<q.table, q.id>>}
               S1 == Cascade(S0)
    <3>3. S1 = S0 \cup NamingAny("cascade", S0)
          /\ GoneWith(q.table, q.id) = S1 \cup NamingAny("cascade", S1)
      BY DEF GoneWith, Cascade
    <3> HIDE DEF S0, S1
    <3>4. <<t, x>> \in S0 => x \in Live(t)
      BY <3>2 DEF S0
    <3> QED BY <3>1, <3>3, <3>4
  <2>3. x \in Live(t)' => db'[t][x] # Unborn
    BY DEF Live, Absent
  <2>4. x \in Live(t) => db[t][x] # Unborn
    BY LiveIds
  <2> QED BY <2>1, <2>2, <2>3, <2>4, AbsenceAssumption, <1>3 DEF Deletes
<1> QED BY <1>1, <1>2, <1>3 DEF Execution, Writing

(* A row is as it was, but for what is cleared, or says what is given.       *)
Inherited(t, x) ==
  /\ x \in Live(t)
  /\ \A c \in DOMAIN db[t][x] : db'[t][x][c] \in {db[t][x][c], None}

Given(q, t, x) ==
  /\ q.table = t /\ q.id = x /\ q.do \in {"insert", "update"}
  /\ \A c \in DOMAIN q.set \cap DOMAIN db'[t][x] : db'[t][x][c] = q.set[c]
  /\ q.do = "insert" => q.set \in Row[t]
  /\ q.do = "update" =>
        /\ x \in Live(t)
        /\ \A c \in DOMAIN db[t][x] \ DOMAIN q.set : db'[t][x][c] = db[t][x][c]

LEMMA RowsChange ==
  ASSUME Whole, NEW q, Execution(q), NEW t \in Tables \ {"spent"}, NEW x \in Live(t)'
  PROVE  Inherited(t, x) \/ Given(q, t, x) \/ ~Plain(t, x)'
<1>0. x \in Ids[t]
  BY DEF Live
<1>1. CASE ~Accepted(q)
  <2>1. db' = db
    BY <1>1 DEF Execution, Effect
  <2> QED BY <2>1 DEF Inherited, Live
<1>2. CASE Accepted(q) /\ Writing(q)
  <2>1. Becomes(q) \in Row[q.table] /\ WritesRow(q)
    BY <1>2, Written DEF Execution
  <2>2. CASE q.table = t /\ q.id = x
    <3>1. db'[t][x] = Becomes(q)
      BY <2>1, <2>2, <1>0 DEF WritesRow
    <3>2. CASE q.do = "insert"
      BY <3>1, <3>2, <2>2 DEF Given, Becomes, Execution, Typed, Patching, Writing
    <3>3. CASE q.do = "update"
      <4>1. db'[t][x] = Merged(db[t][x], q.set) /\ x \in Live(t)
        BY <3>1, <3>3, <2>2, <1>2 DEF Becomes, Accepted, Patching, Writing
      <4>2. db[t][x] \in Row[t] /\ db'[t][x] \in Row[t]
        BY <4>1, <1>0, <2>1, <2>2, <3>1, LiveRows
      <4>3. \A c \in DOMAIN db[t][x] \ DOMAIN q.set : db'[t][x][c] = db[t][x][c]
        BY <4>1 DEF Merged
      <4>4. \A c \in DOMAIN q.set \cap DOMAIN db'[t][x] : db'[t][x][c] = q.set[c]
        BY <4>1 DEF Merged
      <4> QED BY <4>1, <4>3, <4>4, <3>3, <2>2 DEF Given
    <3>4. CASE Unchecked(q)
      BY <3>4, <2>2 DEF Execution, Plain
    <3> QED BY <3>2, <3>3, <3>4, <2>2, <1>2 DEF Execution, Writing, Unchecked
  <2>3. CASE ~(q.table = t /\ q.id = x)
    <3>1. db'[t][x] = db[t][x]
      BY <2>1, <2>3, <1>0 DEF WritesRow
    <3> QED BY <3>1 DEF Inherited, Live
  <2> QED BY <2>2, <2>3
<1>3. CASE Accepted(q) /\ q.do = "delete"
  <2>1. x \in Live(t) /\ Cleared(t, x)
    <3>1. Deletes(q)
      BY <1>3, Deleted DEF Execution
    <3> QED BY <3>1, <1>0 DEF Deletes, Live, Absent
  <2> QED BY <2>1 DEF Inherited, Cleared
<1> QED BY <1>1, <1>2, <1>3 DEF Execution, Writing

-----------------------------------------------------------------------------
(* Nothing that is executed joins two enterprises.                           *)
LEMMA ParentsAfter ==
  ASSUME RefsLive', NEW k \in ForeignKeys, NEW t, NEW c, NEW p, NEW a, Parts(k, t, c, p, a),
         NEW x \in Live(t)', db'[t][x][c] # None
  PROVE  db'[t][x][c] \in Live(p)'
<1>1. k.table = t /\ k.column = c /\ k.parent = p
  BY DEF Parts
<1>2. db'[k.table][x][k.column] \in Live(k.parent)' \cup {None}
  BY <1>1 DEF RefsLive
<1> QED BY <1>1, <1>2

(* One enterprise for a row and for what it names.                           *)
LEMMA OwnersStay ==
  ASSUME Steady, NEW t \in Owned, NEW x \in Live(t)', x \in Ids[t], Plain(t, x)',
         db[t][x] # Unborn \/ x \in Live(t)
  PROVE  db'[t][x].ent = db[t][x].ent
<1>1. t \in Tables \ {"spent"}
  BY TheTables DEF Owned
<1>2. x \in Live(t)
  BY <1>1 DEF Steady
<1> QED BY <1>2 DEF Steady

LEMMA IsOfAfter ==
  ASSUME NEW t, NEW x, NEW e, IsOf(t, x, e)', x \in Live(t)', Plain(t, x)'
  PROVE  db'[t][x].ent = e
  BY DEF IsOf

LEMMA LinksStayWithin ==
  ASSUME Ready, Whole', RefsLive', Steady, NEW q, Execution(q), Known(q)',
         NEW l \in Live("link")', db'["link"][l].template # None
  PROVE  db'["template"][db'["link"][l].template].ent = db'["link"][l].ent
<1> PICK m : m = db'["link"][l].template
  OBVIOUS
<1>0. Whole /\ "link" \in Tables \ {"spent"} /\ "link" \in Owned /\ "template" \in Owned
  BY TheTables DEF Ready, Owned
<1>9. Plain("link", l)' /\ Plain("template", m)'
  BY DEF Plain, CheckedTables
<1>1. m \in Live("template")'
  <2>1. \E k \in ForeignKeys : Parts(k, "link", "template", "template", "set_null")
    BY KeyParts DEF ForeignKeys, WorkplaceKeys
  <2> QED BY <2>1, ParentsAfter
<1>2. l \in Ids["link"] /\ m \in Ids["template"]
  BY <1>1 DEF Live
<1>3. db'["link"][l] \in LinkRow
  BY <1>0, <1>2, LiveRowsAfter, TheRows
<1>4. ASSUME l \in Live("link"), m = db["link"][l].template
      PROVE  db'["template"][m].ent = db'["link"][l].ent
  <2>1. m \in Live("template")
    <3>1. \E k \in ForeignKeys : Parts(k, "link", "template", "template", "set_null")
      BY KeyParts DEF ForeignKeys, WorkplaceKeys
    <3>2. db["link"][l].template \in Live("template") \cup {None}
      BY <1>4, <3>1 DEF Ready, RefsLive, Parts
    <3> QED BY <1>4, <3>2
  <2>2. db["template"][m].ent = db["link"][l].ent
    BY <1>4 DEF Ready, TenantsNeverMix
  <2>3. db'["template"][m].ent = db["template"][m].ent
    BY <1>0, <1>1, <1>2, <1>9, <2>1, OwnersStay
  <2>4. db'["link"][l].ent = db["link"][l].ent
    BY <1>0, <1>2, <1>4, <1>9, OwnersStay
  <2> QED BY <2>2, <2>3, <2>4
<1>5. l \in Live("link") => db["link"][l] \in LinkRow
  BY <1>0, <1>2, LiveRows, TheRows
<1>6. CASE Inherited("link", l)
  BY <1>4, <1>5, <1>6 DEF Inherited, LinkRow
<1>7. CASE Given(q, "link", l) /\ "template" \in DOMAIN q.set
  <2>1. m = q.set.template
    BY <1>3, <1>7 DEF Given, LinkRow
  <2>2. PICK e \in Enterprises : LinkOf(q, e)'
    BY <2>1, <1>7 DEF Known, KnowsLink, Given, Writing, Unchecked
  <2>3. db'["template"][m].ent = e
    BY <1>1, <1>9, <2>1, <2>2, IsOfAfter DEF LinkOf
  <2>4. CASE q.do = "insert"
    BY <1>3, <1>7, <2>2, <2>3, <2>4, TheRows DEF Given, LinkOf, LinkRow
  <2>5. CASE q.do = "update"
    BY <1>7, <1>9, <2>2, <2>3, <2>5, IsOfAfter DEF Given, LinkOf
  <2> QED BY <2>4, <2>5, <1>7 DEF Given
<1>8. CASE Given(q, "link", l) /\ "template" \notin DOMAIN q.set
  <2>1. q.do = "update" /\ l \in Live("link")
    BY <1>8, TheRows DEF Given, LinkRow
  <2>2. m = db["link"][l].template
    BY <1>5, <1>8, <2>1 DEF Given, LinkRow
  <2> QED BY <2>1, <2>2, <1>4
<1> QED BY <1>0, <1>6, <1>7, <1>8, <1>9, RowsChange

LEMMA InvoicesStayWithin ==
  ASSUME Ready, Whole', RefsLive', Steady, NEW q, Execution(q), Known(q)',
         NEW i \in Live("invoice")',
         {i, db'["invoice"][i].client, db'["invoice"][i].series} \cap unchecked' = {}
  PROVE  db'["client"][db'["invoice"][i].client].ent = db'["series"][db'["invoice"][i].series].ent
<1> PICK c, s : c = db'["invoice"][i].client /\ s = db'["invoice"][i].series
  OBVIOUS
<1>0. /\ Whole /\ RefsLive /\ "invoice" \in Tables \ {"spent"}
      /\ "client" \in Owned /\ "series" \in Owned
  BY TheTables DEF Ready, Owned
<1>7. Plain("invoice", i)' /\ Plain("client", c)' /\ Plain("series", s)'
  BY DEF Plain
<1>8. {i, c, s} \cap unchecked = {}
  BY DEF Steady
<1>1. i \in Ids["invoice"]
  BY DEF Live
<1>2. db'["invoice"][i] \in InvoiceRow
  BY <1>0, <1>1, LiveRowsAfter, TheRows
<1>3. c \in Clients /\ s \in Series /\ c # None /\ s # None
  <2>1. c \in Clients /\ s \in Series
    BY <1>2 DEF InvoiceRow
  <2> QED BY <2>1, AbsenceAssumption, TheTables, TheIds
<1>4. c \in Live("client")' /\ s \in Live("series")'
  <2>1. /\ \E k \in ForeignKeys : Parts(k, "invoice", "client", "client", "refuse")
        /\ \E k \in ForeignKeys : Parts(k, "invoice", "series", "series", "cascade")
    BY KeyParts DEF ForeignKeys, SaleKeys
  <2>2. c \in Live("client")'
    BY <2>1, <1>3, ParentsAfter
  <2>3. s \in Live("series")'
    BY <2>1, <1>3, ParentsAfter
  <2> QED BY <2>2, <2>3
<1>5. CASE Inherited("invoice", i)
  <2>1. i \in Live("invoice") /\ db["invoice"][i] \in InvoiceRow
    BY <1>0, <1>1, <1>5, LiveRows, TheRows DEF Inherited
  <2>2. c = db["invoice"][i].client /\ s = db["invoice"][i].series
    BY <1>3, <1>5, <2>1 DEF Inherited, InvoiceRow
  <2>3. c \in Live("client") /\ s \in Live("series")
    BY <1>0, <2>1, <2>2, InvoiceClients
  <2>4. db["client"][c].ent = db["series"][s].ent
    BY <1>8, <2>1, <2>2 DEF Ready, TenantsNeverMix, AsJudged
  <2>5. db'["client"][c].ent = db["client"][c].ent /\ db'["series"][s].ent = db["series"][s].ent
    BY <1>0, <1>4, <1>7, <2>3, LiveIds, OwnersStay
  <2> QED BY <2>4, <2>5
<1>6. CASE Given(q, "invoice", i)
  <2>1. /\ "client" \in DOMAIN q.set /\ "series" \in DOMAIN q.set
        /\ \E e \in Enterprises : InvoiceOf(q, e)'
    BY <1>6, <1>7 DEF Known, KnowsInvoice, Given, Writing, Unchecked
  <2>2. c = q.set.client /\ s = q.set.series
    BY <1>2, <1>6, <2>1 DEF Given, InvoiceRow
  <2>3. PICK e : IsOf("client", c, e)' /\ IsOf("series", s, e)'
    BY <2>1, <2>2 DEF InvoiceOf
  <2> QED BY <1>4, <1>7, <2>3, IsOfAfter
<1> QED BY <1>0, <1>5, <1>6, <1>7, RowsChange

LEMMA EarningsStayWithin ==
  ASSUME Ready, Whole', RefsLive', Steady, NEW q, Execution(q), Known(q)',
         NEW i \in Live("earning")',
         {i, db'["earning"][i].client, db'["earning"][i].series} \cap unchecked' = {}
  PROVE  /\ db'["client"][db'["earning"][i].client].ent = db'["earning"][i].ent
         /\ db'["series"][db'["earning"][i].series].ent = db'["earning"][i].ent
<1> PICK c, s : c = db'["earning"][i].client /\ s = db'["earning"][i].series
  OBVIOUS
<1>0. /\ Whole /\ RefsLive /\ "earning" \in Tables \ {"spent"}
      /\ "client" \in Owned /\ "series" \in Owned /\ "earning" \in Owned
  BY TheTables DEF Ready, Owned
<1>7. Plain("earning", i)' /\ Plain("client", c)' /\ Plain("series", s)'
  BY DEF Plain
<1>8. {i, c, s} \cap unchecked = {}
  BY DEF Steady
<1>1. i \in Ids["earning"]
  BY DEF Live
<1>2. db'["earning"][i] \in EarningRow
  BY <1>0, <1>1, LiveRowsAfter, TheRows
<1>3. c \in Clients /\ s \in Series /\ c # None /\ s # None
  <2>1. c \in Clients /\ s \in Series
    BY <1>2 DEF EarningRow
  <2> QED BY <2>1, AbsenceAssumption, TheTables, TheIds
<1>4. c \in Live("client")' /\ s \in Live("series")'
  <2>1. /\ \E k \in ForeignKeys : Parts(k, "earning", "client", "client", "cascade")
        /\ \E k \in ForeignKeys : Parts(k, "earning", "series", "series", "cascade")
    BY KeyParts DEF ForeignKeys, SaleKeys
  <2>2. c \in Live("client")'
    BY <2>1, <1>3, ParentsAfter
  <2>3. s \in Live("series")'
    BY <2>1, <1>3, ParentsAfter
  <2> QED BY <2>2, <2>3
<1>5. CASE Inherited("earning", i)
  <2>1. i \in Live("earning") /\ db["earning"][i] \in EarningRow
    BY <1>0, <1>1, <1>5, LiveRows, TheRows DEF Inherited
  <2>2. c = db["earning"][i].client /\ s = db["earning"][i].series
    BY <1>3, <1>5, <2>1 DEF Inherited, EarningRow
  <2>3. c \in Live("client") /\ s \in Live("series")
    <3>1. /\ \E k \in ForeignKeys : Parts(k, "earning", "client", "client", "cascade")
          /\ \E k \in ForeignKeys : Parts(k, "earning", "series", "series", "cascade")
      BY KeyParts DEF ForeignKeys, SaleKeys
    <3>2. /\ db["earning"][i].client \in Live("client") \cup {None}
          /\ db["earning"][i].series \in Live("series") \cup {None}
      BY <1>0, <2>1, <3>1 DEF RefsLive, Parts
    <3> QED BY <1>3, <2>2, <3>2
  <2>4. db["client"][c].ent = db["earning"][i].ent /\ db["series"][s].ent = db["earning"][i].ent
    BY <1>8, <2>1, <2>2 DEF Ready, TenantsNeverMix, AsJudged
  <2>5. db'["client"][c].ent = db["client"][c].ent /\ db'["series"][s].ent = db["series"][s].ent
    BY <1>0, <1>4, <1>7, <2>3, LiveIds, OwnersStay
  <2>6. db'["earning"][i].ent = db["earning"][i].ent
    BY <1>0, <1>1, <1>7, <2>1, OwnersStay
  <2> QED BY <2>4, <2>5, <2>6
<1>6. CASE Given(q, "earning", i)
  <2>1. {"ent", "client", "series"} \subseteq DOMAIN q.set /\ InvoiceOf(q, q.set.ent)'
    BY <1>6 DEF Known, KnowsEarning, Given, Writing, Unchecked
  <2>2. c = q.set.client /\ s = q.set.series /\ db'["earning"][i].ent = q.set.ent
    BY <1>2, <1>6, <2>1 DEF Given, EarningRow
  <2>3. IsOf("client", c, q.set.ent)' /\ IsOf("series", s, q.set.ent)'
    BY <2>1, <2>2 DEF InvoiceOf
  <2> QED BY <1>4, <1>7, <2>2, <2>3, IsOfAfter
<1> QED BY <1>0, <1>5, <1>6, <1>7, RowsChange

LEMMA LineParents ==
  ASSUME NEW t \in DOMAIN LineTable
  PROVE  /\ \E k \in ForeignKeys : Parts(k, LineTable[t], "doc", t, "cascade")
         /\ \E k \in ForeignKeys : Parts(k, LineTable[t], "item", "item", "set_null")
<1>1. <<LineTable[t], t>> \in {<<"quote_line", "quote">>, <<"order_line", "order">>,
                     <<"invoice_line", "invoice">>}
  BY TheLineTables
<1>2. /\ Key(LineTable[t], "doc", t, "cascade") \in LineKeys
      /\ Key(LineTable[t], "item", "item", "set_null") \in LineKeys
  BY <1>1 DEF LineKeys
<1> QED BY <1>2, KeyParts DEF ForeignKeys

LEMMA LinesStayWithin ==
  ASSUME Ready, Whole', RefsLive', Steady, NEW q, Execution(q), Known(q)',
         NEW t \in DOMAIN LineTable, NEW l \in Live(LineTable[t])', NEW i, NEW d,
         i = db'[LineTable[t]][l].item, d = db'[LineTable[t]][l].doc,
         i # None, d \notin excused' \cup unchecked', PureItems'
  PROVE  ItemEnt(i)' = DocEnt(t, d)'
<1> DEFINE u == LineTable[t]
<1>0. /\ Whole /\ RefsLive /\ u \in Tables \ {"spent"} /\ t \in Tables \ {"spent"}
      /\ "item" \in Tables \ {"spent"}
  BY TheLines, TheTables DEF Ready
<1>13. Plain(u, l)' /\ PureItems
  BY TheLineTables, PlainBefore DEF Plain, CheckedTables, Steady
<1>1. l \in Ids[u]
  BY DEF Live
<1>2. db'[u][l] \in LineRow(Ids[t])
  BY <1>0, <1>1, LiveRowsAfter, LineRows
<1>3. d \in Ids[t] /\ d # None
  <2>1. d \in Ids[t]
    BY <1>2 DEF LineRow
  <2> QED BY <2>1, <1>0, AbsenceAssumption
<1>4. i \in Live("item")'
  <2>1. PICK k \in ForeignKeys : Parts(k, u, "item", "item", "set_null")
    BY LineParents
  <2>2. db'[u][l]["item"] \in Live("item")'
    BY <2>1, ParentsAfter
  <2> QED BY <2>2
<1>5. d \in Live(t)'
  <2>1. PICK k \in ForeignKeys : Parts(k, u, "doc", t, "cascade")
    BY LineParents
  <2>2. db'[u][l]["doc"] \in Live(t)'
    BY <1>3, <2>1, ParentsAfter
  <2> QED BY <2>2
<1>6. i \in Ids["item"]
  BY <1>4 DEF Live
<1>7. ASSUME l \in Live(u), i = db[u][l].item
      PROVE  ItemEnt(i)' = DocEnt(t, d)'
  <2>1. d = db[u][l].doc
    BY <1>7 DEF Steady
  <2>2. i \in Live("item") /\ d \in Live(t)
    <3>1. PICK k \in ForeignKeys : Parts(k, u, "item", "item", "set_null")
      BY LineParents
    <3>2. PICK j \in ForeignKeys : Parts(j, u, "doc", t, "cascade")
      BY LineParents
    <3>3. /\ db[k.table][l][k.column] \in Live(k.parent) \cup {None}
          /\ db[j.table][l][j.column] \in Live(j.parent) \cup {None}
      BY <1>0, <1>7, <3>1, <3>2 DEF RefsLive, Parts
    <3>4. db[u][l]["item"] \in Live("item") \cup {None} /\ db[u][l]["doc"] \in Live(t) \cup {None}
      BY <3>1, <3>2, <3>3 DEF Parts
    <3> QED BY <3>4, <2>1, <1>3, <1>7
  <2>3. d \notin excused \cup unchecked
    BY DEF Steady
  <2>4. ItemEnt(i) = DocEnt(t, d)
    BY <1>7, <1>13, <2>1, <2>3 DEF Ready, TenantsNeverMix, PureItems
  <2>5. ItemEnt(i)' = ItemEnt(i)
    BY <1>4, <2>2 DEF Steady
  <2>6. DocEnt(t, d)' = DocEnt(t, d)
    BY <1>5, <2>2 DEF Steady
  <2> QED BY <2>4, <2>5, <2>6
<1>8. l \in Live(u) => db[u][l] \in LineRow(Ids[t])
  BY <1>0, <1>1, LiveRows, LineRows
<1>12. DOMAIN db'[u][l] = {"doc", "item", "price"}
       /\ \A r \in Row[u] : DOMAIN r = {"doc", "item", "price"}
  <2>1. \A r \in LineRow(Ids[t]) : DOMAIN r = {"doc", "item", "price"}
    BY DEF LineRow
  <2> QED BY <2>1, <1>2, LineRows
<1>9. CASE Inherited(u, l)
  BY <1>7, <1>8, <1>9 DEF Inherited, LineRow
<1>10. CASE Given(q, u, l) /\ "item" \in DOMAIN q.set
  <2>1. i = q.set.item
    BY <1>2, <1>10 DEF Given, LineRow
  <2>2. KnowsLine(q, t)'
    BY <1>10 DEF Known, Given, Writing, Unchecked
  <2>3. PICK f \in Ids[t], e \in Enterprises : SaleOf(q, t, f, e)'
    BY <2>1, <2>2, <1>10 DEF KnowsLine, Given
  <2>4. ItemEnt(i)' = e
    BY <1>4, <2>1, <2>3 DEF SaleOf, ItemIsOf
  <2>5. d = f
    <3>1. CASE q.do = "insert"
      <4>1. q.set.doc = f
        BY <2>3, <3>1 DEF SaleOf
      <4>2. "doc" \in DOMAIN q.set \cap DOMAIN db'[u][l]
        BY <1>10, <1>12, <3>1 DEF Given
      <4> QED BY <4>1, <4>2, <1>10 DEF Given
    <3>2. CASE q.do = "update"
      BY <1>10, <2>3, <3>2 DEF Given, SaleOf, LineIsOf
    <3> QED BY <3>1, <3>2, <1>10 DEF Given
  <2>6. DocEnt(t, d)' = e
    BY <1>5, <2>3, <2>5 DEF SaleOf, DocIsOf
  <2> QED BY <2>4, <2>6
<1>11. CASE Given(q, u, l) /\ "item" \notin DOMAIN q.set
  <2>1. q.do = "update" /\ l \in Live(u)
    BY <1>11, <1>12 DEF Given
  <2>2. i = db[u][l].item
    BY <1>8, <1>11, <2>1 DEF Given, LineRow
  <2> QED BY <2>1, <2>2, <1>7
<1> QED BY <1>0, <1>9, <1>10, <1>11, <1>13, RowsChange

LEMMA TenantsStay ==
  ASSUME Ready, NEW q, Execution(q)
  PROVE  Ready' /\ Steady
<1>1. Whole' /\ RefsLive' /\ Steady
  BY ExecutionIsSteady DEF Ready
<1>2. Known(q)'
  BY <1>1, KnownStays DEF Execution
<1>3. TenantsNeverMix'
  BY <1>1, <1>2, LinksStayWithin, InvoicesStayWithin, EarningsStayWithin, LinesStayWithin
     DEF TenantsNeverMix, AsJudged, PureItems
<1> QED BY <1>1, <1>3 DEF Ready

-----------------------------------------------------------------------------
(* What waits to be sent.                                                    *)
Waiting(q) ==
  /\ Typed(q) /\ Known(q) /\ q.table \in scope.writes
  /\ q.do = "insert" => db[q.table][q.id] = Unborn
  /\ q.do = "save" => q.table = "spent" /\ db[q.table][q.id] # Unborn
  /\ OnStore(q) => OnFile(q, q.table)
  /\ Unchecked(q) => q.table \notin CheckedTables

Pending(q) == Waiting(q) /\ (Unchecked(q) => q.id \in unchecked)

(* One that may make a row, before one that is to insert it.                 *)
Creates(q) == q.do \in {"insert", "overwrite"}

SameInsert(p, q) ==
  Creates(p) /\ q.do = "insert" /\ p.table = q.table /\ p.id = q.id

Waits(w) ==
  \/ request[w] = <<>>
  \/ \E a : request[w] = <<a>> /\ Pending(a)
  \/ \E a, b : /\ request[w] = <<a, b>> /\ Pending(a) /\ Pending(b)
               /\ ~SameInsert(a, b)

AllWait ==
  /\ request = [w \in Workers |-> request[w]]
  /\ \A w \in Workers : Waits(w)

InsertsApart ==
  \A v, w \in Workers : v # w =>
     \A j \in DOMAIN request[v], k \in DOMAIN request[w] :
        ~SameInsert(request[v][j], request[w][k])

Counted ==
  /\ scope \in Scopes /\ overlapped \in BOOLEAN /\ lapses \in 0..scope.lapses
  /\ store \subseteq Paths
  /\ excused \subseteq UNION {Ids[t] : t \in {"document"} \cup DOMAIN Owner}
  /\ unchecked \subseteq UNION {Ids[t] : t \in Tables \ CheckedTables}

BackInv == Ready /\ AllWait /\ InsertsApart /\ Counted

LEMMA OneOrTwo ==
  ASSUME NEW a, NEW b
  PROVE  /\ <<a>> # <<>> /\ Head(<<a>>) = a /\ Tail(<<a>>) = <<>> /\ DOMAIN <<a>> = {1} /\ <<a>>[1] = a
         /\ <<a, b>> # <<>> /\ Head(<<a, b>>) = a /\ Tail(<<a, b>>) = <<b>>
         /\ DOMAIN <<a, b>> = {1, 2} /\ <<a, b>>[1] = a /\ <<a, b>>[2] = b
<1>1. <<a>> \in Seq({a, b}) /\ <<a, b>> \in Seq({a, b}) /\ <<b>> \in Seq({a, b})
  OBVIOUS
<1>2. Tail(<<a, b>>) = <<b>>
  <2>1. Tail(<<a, b>>) \in Seq({a, b}) /\ Len(Tail(<<a, b>>)) = 1 /\ Tail(<<a, b>>)[1] = b
    BY <1>1
  <2> QED BY <1>1, <2>1, SeqEqual
<1>3. Tail(<<a>>) = <<>>
  <2>1. Tail(<<a>>) \in Seq({a, b}) /\ Len(Tail(<<a>>)) = 0
    BY <1>1
  <2> QED BY <2>1, EmptySeq
<1> QED BY <1>2, <1>3

(* What waits, waits on after a step that keeps what is known.               *)
LEMMA PendingStays ==
  ASSUME Steady, scope' = scope, NEW p, Pending(p),
         db[p.table][p.id] = Unborn /\ p.do = "insert" => db'[p.table][p.id] = Unborn,
         db[p.table][p.id] # Unborn => db'[p.table][p.id] # Unborn
  PROVE  Pending(p)'
<1>1. Known(p)'
  BY KnownStays DEF Pending, Waiting
<1> QED BY <1>1 DEF Pending, Waiting, Typed, OnFile, Steady

(* A worker that holds less of what it held.                                 *)
LEMMA FewerInserts ==
  ASSUME InsertsApart, NEW w \in Workers, NEW h, request' = [request EXCEPT ![w] = h],
         request = [v \in Workers |-> request[v]],
         \A k \in DOMAIN h : Creates(h[k]) => \E j \in DOMAIN request[w] : request[w][j] = h[k]
  PROVE  InsertsApart'
<1>1. ASSUME NEW v \in Workers, NEW k \in DOMAIN request'[v], Creates(request'[v][k])
      PROVE  \E j \in DOMAIN request[v] : request[v][j] = request'[v][k]
  <2>1. CASE v = w
    BY <1>1, <2>1
  <2>2. CASE v # w
    BY <1>1, <2>2
  <2> QED BY <2>1, <2>2
<1> SUFFICES ASSUME NEW v \in Workers, NEW u \in Workers, v # u,
                    NEW j \in DOMAIN request'[v], NEW k \in DOMAIN request'[u],
                    SameInsert(request'[v][j], request'[u][k])
             PROVE  FALSE
  BY DEF InsertsApart, SameInsert
<1>2. PICK i \in DOMAIN request[v] : request[v][i] = request'[v][j]
  BY <1>1 DEF SameInsert, Creates
<1>3. PICK m \in DOMAIN request[u] : request[u][m] = request'[u][k]
  BY <1>1 DEF SameInsert, Creates
<1> QED BY <1>2, <1>3 DEF InsertsApart

LEMMA AskedPends ==
  ASSUME BackInv, NEW t \in scope.writes, NEW a, Asked(a, t)
  PROVE  /\ Waiting(a) /\ a.table = t
         /\ a.do = "insert" => a.id \in Fresh(t)
         /\ Unchecked(a) => a.id \in Nameable(t)
<1>1. CASE Sent(a, t)
  <2>1. ~OnStore(a)
    BY <1>1 DEF Sent, OnStore, Writing
  <2> QED BY <1>1, <2>1, FreshIds DEF Sent, Waiting, Born
<1>2. CASE OnFile(a, t)
  <2>1. a.do \in {"upload", "remove", "remove_folder"}
    BY <1>2 DEF OnFile, OnStore
  <2>2. Known(a)
    BY <2>1 DEF Known, Writing, Unchecked
  <2> QED BY <1>2, <2>1, <2>2 DEF Waiting, OnFile, Unchecked
<1> QED BY <1>1, <1>2 DEF Asked

LEMMA QueuesPend ==
  ASSUME BackInv, NEW t \in scope.writes, NEW h, Queue(h, t)
  PROVE  /\ h # <<>>
         /\ \/ \E a : h = <<a>> /\ Waiting(a)
            \/ \E a, b : /\ h = <<a, b>> /\ Waiting(a) /\ Waiting(b)
                         /\ ~SameInsert(a, b) /\ ~Unchecked(b)
         /\ \A k \in DOMAIN h :
               /\ h[k].do = "insert" => \E u \in Tables : h[k].id \in Fresh(u)
               /\ Unchecked(h[k]) => \E u \in Tables : h[k].id \in Nameable(u)
<1>0. t \in Tables /\ (t = "enterprise" => "setting" \in scope.writes /\ "setting" \in Tables)
  BY BackOfficeAssumption, TheTables DEF BackInv, Counted
<1>1. CASE \E a : h = <<a>> /\ Asked(a, t)
  <2>1. PICK a : h = <<a>> /\ Asked(a, t)
    BY <1>1
  <2> QED BY <2>1, <1>0, AskedPends, OneOrTwo
<1>2. CASE \E a, b : /\ h = <<a, b>> /\ Asked(a, t)
               /\ \/ Asked(b, t) /\ Follows(b) /\ (OnStore(a) \/ OnStore(b))
                  \/ t = "enterprise" /\ Sent(b, "setting") /\ b.do = "insert"
  <2>1. PICK a, b : /\ h = <<a, b>> /\ Asked(a, t)
               /\ \/ Asked(b, t) /\ Follows(b) /\ (OnStore(a) \/ OnStore(b))
                  \/ t = "enterprise" /\ Sent(b, "setting") /\ b.do = "insert"
    BY <1>2
  <2>2. /\ Waiting(a) /\ a.table = t /\ (a.do = "insert" => a.id \in Fresh(t))
        /\ Unchecked(a) => a.id \in Nameable(t)
    BY <2>1, AskedPends
  <2>3. CASE Asked(b, t) /\ Follows(b)
    <3>1. Waiting(b) /\ ~Unchecked(b) /\ b.do # "insert"
      BY <2>3, AskedPends DEF Follows
    <3> QED BY <1>0, <2>1, <2>2, <3>1, OneOrTwo DEF SameInsert
  <2>4. CASE t = "enterprise" /\ Sent(b, "setting") /\ b.do = "insert"
    <3>1. Waiting(b) /\ b.id \in Fresh("setting") /\ b.table = "setting"
      BY <1>0, <2>4, AskedPends DEF Asked
    <3>2. ~Unchecked(b)
      BY <2>4 DEF Unchecked
    <3> QED BY <1>0, <2>1, <2>2, <2>4, <3>1, <3>2, OneOrTwo DEF SameInsert
  <2> QED BY <2>1, <2>3, <2>4
<1> QED BY <1>1, <1>2 DEF Queue

LEMMA StandingReady ==
  ASSUME Ready, db' = db, excused \subseteq excused', unchecked \subseteq unchecked'
  PROVE  Ready' /\ Steady
<1>1. \A t : Live(t)' = Live(t)
  BY DEF Live
<1>2. Whole' /\ RefsLive'
  BY <1>1 DEF Ready, Whole, RefsLive
<1>3. TenantsNeverMix'
  BY <1>1 DEF Ready, TenantsNeverMix, ItemEnt, DocEnt, AsJudged
<1> QED BY <1>2, <1>3, StandingStill DEF Ready

(* The worker whose step it is holds less, or what it was given; the others  *)
(* wait as before.                                                           *)
LEMMA StandingWaits ==
  ASSUME BackInv, db' = db, excused \subseteq excused', unchecked \subseteq unchecked', scope' = scope,
         NEW w \in Workers, NEW h, request' = [request EXCEPT ![w] = h],
         \/ h = <<>>
         \/ \E a : h = <<a>> /\ Waiting(a) /\ (Unchecked(a) => a.id \in unchecked')
         \/ \E a, b : /\ h = <<a, b>> /\ Waiting(a) /\ (Unchecked(a) => a.id \in unchecked')
                      /\ Pending(b) /\ ~SameInsert(a, b)
  PROVE  Ready' /\ AllWait'
<1>1. Ready' /\ Steady
  BY StandingReady DEF BackInv
<1>2. ASSUME NEW p, Pending(p) PROVE Pending(p)'
  BY <1>1, <1>2, PendingStays
<1>6. ASSUME NEW p, Waiting(p), Unchecked(p) => p.id \in unchecked' PROVE Pending(p)'
  <2>1. Known(p)'
    BY <1>1, <1>6, KnownStays DEF Waiting
  <2> QED BY <1>6, <2>1 DEF Pending, Waiting, Typed, OnFile
<1>3. request' = [v \in Workers |-> request'[v]] /\ request'[w] = h
      /\ \A v \in Workers : v # w => request'[v] = request[v]
  BY DEF BackInv, AllWait
<1>4. Waits(w)'
  BY <1>2, <1>3, <1>6 DEF Waits
<1>5. ASSUME NEW v \in Workers, v # w PROVE Waits(v)'
  <2>1. Waits(v) /\ request'[v] = request[v]
    BY <1>3, <1>5 DEF BackInv, AllWait
  <2> QED BY <2>1, <1>2 DEF Waits
<1> QED BY <1>1, <1>3, <1>4, <1>5 DEF AllWait

LEMMA BeginKeeps ==
  ASSUME BackInv, NEW w \in Workers, Begin(w)
  PROVE  BackInv'
<1>1. PICK t \in scope.writes : \E h \in HandlersOf(t) :
          WithinBound(h) /\ Goes(w, h) /\ excused' = excused \cup ByHand(Head(h))
          /\ unchecked' = unchecked \cup PastItsHandler(Head(h))
  BY DEF Begin
<1>2. PICK h \in HandlersOf(t) :
          WithinBound(h) /\ Goes(w, h) /\ excused' = excused \cup ByHand(Head(h))
          /\ unchecked' = unchecked \cup PastItsHandler(Head(h))
  BY <1>1
<1>3. t \in Tables /\ Ready
  BY BackOfficeAssumption DEF BackInv, Counted
<1>4. Queue(h, t)
  BY <1>2, <1>3, HandlersSendQueues
<1>5. /\ \/ \E a : h = <<a>> /\ Waiting(a)
         \/ \E a, b : /\ h = <<a, b>> /\ Waiting(a) /\ Waiting(b)
                      /\ ~SameInsert(a, b) /\ ~Unchecked(b)
      /\ \A k \in DOMAIN h :
            /\ h[k].do = "insert" => \E u \in Tables : h[k].id \in Fresh(u)
            /\ Unchecked(h[k]) => \E u \in Tables : h[k].id \in Nameable(u)
  BY <1>4, QueuesPend
<1>6. db' = db /\ scope' = scope /\ store' = store /\ lapses' = lapses
      /\ request' = [request EXCEPT ![w] = h]
  BY <1>2 DEF Begin, Goes
<1>11. \/ \E a : h = <<a>> /\ Waiting(a) /\ (Unchecked(a) => a.id \in unchecked')
       \/ \E a, b : /\ h = <<a, b>> /\ Waiting(a) /\ (Unchecked(a) => a.id \in unchecked')
                    /\ Pending(b) /\ ~SameInsert(a, b)
  BY <1>2, <1>5, OneOrTwo DEF PastItsHandler, Pending
<1>7. Ready' /\ AllWait'
  BY <1>2, <1>6, <1>11, StandingWaits
<1>8. InsertsApart'
  <2>0. request'[w] = h /\ \A v \in Workers : v # w => request'[v] = request[v]
    BY <1>6 DEF BackInv, AllWait
  <2>1. ASSUME NEW v \in Workers, v # w, NEW j \in DOMAIN request[v], NEW k \in DOMAIN h
        PROVE  ~SameInsert(request[v][j], h[k]) /\ ~SameInsert(h[k], request[v][j])
    <3>1. h[k].do = "insert" => h[k].id # request[v][j].id
      BY <1>5 DEF Fresh
    <3>2. h[k].do = "overwrite" /\ request[v][j].do = "insert" => h[k].id # request[v][j].id
      BY <1>5 DEF Nameable, Unchecked
    <3> QED BY <3>1, <3>2 DEF SameInsert, Creates
  <2> SUFFICES ASSUME NEW v \in Workers, NEW u \in Workers, v # u,
                      NEW j \in DOMAIN request'[v], NEW k \in DOMAIN request'[u]
               PROVE  ~SameInsert(request'[v][j], request'[u][k])
    BY DEF InsertsApart, SameInsert
  <2>2. CASE v = w
    BY <2>0, <2>1, <2>2
  <2>3. CASE u = w
    BY <2>0, <2>1, <2>3
  <2>4. CASE v # w /\ u # w
    BY <2>0, <2>4 DEF BackInv, InsertsApart
  <2> QED BY <2>2, <2>3, <2>4
<1>9. ByHand(Head(h)) \subseteq Ids["spent"]
  <2>1. PICK a : Head(h) = a /\ Typed(a)
    BY <1>5, OneOrTwo DEF Waiting
  <2> QED BY <2>1 DEF ByHand, Typed
<1>12. PastItsHandler(Head(h)) \subseteq UNION {Ids[u] : u \in Tables \ CheckedTables}
  <2>1. PICK a : Head(h) = a /\ Waiting(a)
    BY <1>5, OneOrTwo
  <2> QED BY <2>1 DEF PastItsHandler, Waiting, Typed
<1>10. Counted'
  <2>1. overlapped' \in BOOLEAN
    BY DEF Begin, BackInv, Counted
  <2>2. "spent" \in DOMAIN Owner
    BY DEF Owner
  <2>3. excused' \subseteq UNION {Ids[u] : u \in {"document"} \cup DOMAIN Owner}
    BY <1>2, <1>9, <2>2 DEF BackInv, Counted
  <2>4. unchecked' \subseteq UNION {Ids[u] : u \in Tables \ CheckedTables}
    BY <1>2, <1>12 DEF BackInv, Counted
  <2> QED BY <1>6, <2>1, <2>3, <2>4 DEF BackInv, Counted
<1> QED BY <1>7, <1>8, <1>10 DEF BackInv

LEMMA BusyWaits ==
  ASSUME NEW w, Waits(w), request[w] # <<>>
  PROVE  /\ Step(w) = request[w][1] /\ 1 \in DOMAIN request[w] /\ Pending(Step(w))
         /\ \/ Tail(request[w]) = <<>>
            \/ \E b : Tail(request[w]) = <<b>> /\ Pending(b) /\ ~SameInsert(Step(w), b)
                      /\ 2 \in DOMAIN request[w] /\ request[w][2] = b
<1>1. CASE \E a : request[w] = <<a>> /\ Pending(a)
  <2>1. PICK a : request[w] = <<a>> /\ Pending(a)
    BY <1>1
  <2> QED BY <2>1, OneOrTwo DEF Step
<1>2. CASE \E a, b : request[w] = <<a, b>> /\ Pending(a) /\ Pending(b) /\ ~SameInsert(a, b)
  <2>1. PICK a, b : request[w] = <<a, b>> /\ Pending(a) /\ Pending(b) /\ ~SameInsert(a, b)
    BY <1>2
  <2>2. Step(w) = a /\ Tail(request[w]) = <<b>>
    BY <2>1, OneOrTwo DEF Step
  <2>3. DOMAIN request[w] = {1, 2} /\ request[w][1] = a /\ request[w][2] = b
    BY <2>1, OneOrTwo
  <2> QED BY <2>1, <2>2, <2>3
<1> QED BY <1>1, <1>2 DEF Waits

LEMMA ExecuteKeeps ==
  ASSUME BackInv, NEW w \in Workers, Execute(w)
  PROVE  BackInv'
<1> DEFINE q == Step(w)
<1>1. /\ request[w] # <<>> /\ ~OnStore(q) /\ db' = Effect(q)
      /\ request' = [request EXCEPT ![w] = IF Accepted(q) THEN Tail(request[w]) ELSE <<>>]
      /\ excused' = excused \cup CascadedDocuments(db') \cup UNION {Moves(t, db') : t \in DOMAIN Owner}
      /\ store' = store /\ overlapped' = overlapped /\ scope' = scope /\ lapses' = lapses
      /\ unchecked' = unchecked
  BY DEF Execute, Busy, Goes
<1>2. Ready /\ Waits(w) /\ Whole
  BY DEF BackInv, AllWait, Ready
<1>3. /\ q = request[w][1] /\ 1 \in DOMAIN request[w] /\ Pending(q)
      /\ \/ Tail(request[w]) = <<>>
         \/ \E b : Tail(request[w]) = <<b>> /\ Pending(b) /\ ~SameInsert(q, b)
                   /\ 2 \in DOMAIN request[w] /\ request[w][2] = b
  BY <1>1, <1>2, BusyWaits
<1> HIDE DEF q
<1>4. Execution(q)
  <2>1. Writing(q) \/ q.do = "delete"
    BY <1>1, <1>3 DEF Pending, Waiting, Typed, OnStore
  <2> QED BY <1>1, <1>3, <2>1 DEF Execution, Pending, Waiting
<1>5. Ready' /\ Steady
  BY <1>2, <1>4, TenantsStay
<1>6. ASSUME NEW p, Pending(p), ~SameInsert(q, p) PROVE Pending(p)'
  <2>1. p.table \in Tables /\ p.id \in Ids[p.table]
    BY <1>6 DEF Pending, Waiting, Typed
  <2>2. p.do = "insert" /\ db[p.table][p.id] = Unborn
          => ~(q.do \in {"insert", "save", "overwrite"} /\ q.table = p.table /\ q.id = p.id)
    BY <1>3, <1>6 DEF SameInsert, Creates, Pending, Waiting
  <2> QED BY <1>1, <1>2, <1>4, <1>5, <1>6, <2>1, <2>2, NothingIsUnborn, PendingStays
<1>7. request' = [v \in Workers |-> request'[v]]
      /\ \A v \in Workers : v # w => request'[v] = request[v]
  BY <1>1 DEF BackInv, AllWait
<1>11. \/ request'[w] = <<>>
       \/ \E b : request'[w] = <<b>> /\ Pending(b) /\ ~SameInsert(q, b)
  <2>1. request'[w] \in {Tail(request[w]), <<>>}
    BY <1>1 DEF BackInv, AllWait
  <2> QED BY <1>3, <2>1
<1>8. AllWait'
  <2>1. Waits(w)'
    <3>1. CASE request'[w] = <<>>
      BY <3>1 DEF Waits
    <3>2. CASE request'[w] # <<>>
      <4>1. PICK b : request'[w] = <<b>> /\ Pending(b) /\ ~SameInsert(q, b)
        BY <3>2, <1>11
      <4>2. Pending(b)'
        BY <4>1, <1>6
      <4> QED BY <4>1, <4>2 DEF Waits
    <3> QED BY <3>1, <3>2, <1>7
  <2>2. ASSUME NEW v \in Workers, v # w PROVE Waits(v)'
    <3>1. Waits(v) /\ request'[v] = request[v]
      BY <1>7, <2>2 DEF BackInv, AllWait
    <3>2. \A k \in DOMAIN request[v] : ~SameInsert(q, request[v][k])
      BY <1>3, <2>2 DEF BackInv, InsertsApart
    <3>3. CASE \E a : request[v] = <<a>> /\ Pending(a)
      BY <3>1, <3>2, <3>3, <1>6, OneOrTwo DEF Waits
    <3>4. CASE \E a, b : request[v] = <<a, b>> /\ Pending(a) /\ Pending(b) /\ ~SameInsert(a, b)
      BY <3>1, <3>2, <3>4, <1>6, OneOrTwo DEF Waits
    <3> QED BY <3>1, <3>3, <3>4 DEF Waits
  <2> QED BY <1>7, <2>1, <2>2 DEF AllWait
<1>9. InsertsApart'
  <2> DEFINE h == IF Accepted(q) THEN Tail(request[w]) ELSE <<>>
  <2>1. \A k \in DOMAIN h : Creates(h[k]) => \E j \in DOMAIN request[w] : request[w][j] = h[k]
    BY <1>3, OneOrTwo
  <2> HIDE DEF h
  <2>2. request' = [request EXCEPT ![w] = h]
    BY <1>1 DEF h
  <2> QED BY <2>1, <2>2, FewerInserts DEF BackInv, AllWait
<1>10. Counted'
  <2>1. CascadedDocuments(db') \subseteq Ids["document"]
    BY LiveIds DEF CascadedDocuments
  <2>2. \A t \in DOMAIN Owner : Moves(t, db') \subseteq Ids[t]
    BY LiveIds DEF Moves
  <2>3. excused' \subseteq UNION {Ids[t] : t \in {"document"} \cup DOMAIN Owner}
    BY <1>1, <2>1, <2>2 DEF BackInv, Counted
  <2> QED BY <1>1, <2>3 DEF BackInv, Counted
<1> QED BY <1>5, <1>8, <1>9, <1>10 DEF BackInv

(* Dropbox: the worker goes on, or turns to what undoes its first step.      *)
LEMMA FileStepKeeps ==
  ASSUME BackInv, NEW w \in Workers, request[w] # <<>>, OnStore(Step(w)),
         NEW h, h \in {Tail(request[w]), Step(w).undo}, request' = [request EXCEPT ![w] = h],
         db' = db, overlapped' = overlapped, scope' = scope, excused' = excused, unchecked' = unchecked,
         lapses' \in 0..scope.lapses, store' = store \/ store' = Stored(Step(w))
  PROVE  BackInv'
<1> DEFINE q == Step(w)
<1>1. Waits(w) /\ request = [v \in Workers |-> request[v]] /\ InsertsApart
  BY DEF BackInv, AllWait
<1>2. /\ Pending(q)
      /\ \/ Tail(request[w]) = <<>>
         \/ \E b : Tail(request[w]) = <<b>> /\ Pending(b)
                   /\ 2 \in DOMAIN request[w] /\ request[w][2] = b
  BY <1>1, BusyWaits
<1>3. OnFile(q, q.table) /\ q.table \in scope.writes /\ q.table \in Tables /\ q.id \in Ids[q.table]
  BY <1>2 DEF Pending, Waiting, Typed
<1> HIDE DEF q
<1>4. /\ \/ h = <<>> \/ \E a : h = <<a>> /\ Pending(a)
      /\ \A k \in DOMAIN h : Creates(h[k]) => \E j \in DOMAIN request[w] : request[w][j] = h[k]
  <2>1. CASE h = Tail(request[w])
    BY <1>2, <2>1, OneOrTwo
  <2>2. CASE h = q.undo
    <3>1. h = <<>> \/ (h = <<Delete("document", q.id)>> /\ q.table = "document")
      BY <2>2, <1>3 DEF OnFile
    <3>2. ASSUME q.table = "document" PROVE Pending(Delete("document", q.id))
      BY <3>2, <1>3 DEF Pending, Waiting, Typed, Known, Writing, Patching, Delete, OnStore, Unchecked
    <3>3. ~Creates(Delete("document", q.id))
      BY DEF Delete, Creates
    <3> QED BY <3>1, <3>2, <3>3, OneOrTwo
  <2> QED BY <2>1, <2>2 DEF q
<1>5. Ready' /\ AllWait'
  BY <1>4, StandingWaits DEF Pending
<1>6. InsertsApart'
  BY <1>1, <1>4, FewerInserts
<1>7. store' \subseteq Paths
  <2>1. store \subseteq Paths
    BY DEF BackInv, Counted
  <2>2. CASE store' = Stored(q)
    BY <2>1, <2>2, <1>3 DEF Stored, OnFile, OnStore
  <2> QED BY <2>1, <2>2 DEF q
<1> QED BY <1>5, <1>6, <1>7 DEF BackInv, Counted

LEMMA CrashKeeps ==
  ASSUME BackInv, Crash
  PROVE  BackInv'
<1>1. /\ request' = [w \in Workers |-> <<>>] /\ db' = db /\ store' = store
      /\ overlapped' = overlapped /\ scope' = scope /\ excused' = excused
      /\ unchecked' = unchecked
  BY DEF Crash
<1>2. lapses' \in 0..scope.lapses
  <2>1. Cardinality({w \in Workers : Busy(w)}) \in Nat
    BY TablesAssumption, FS_Subset, FS_CardinalityType
  <2>2. scope.lapses \in Nat /\ lapses \in 0..scope.lapses
    BY BackOfficeAssumption DEF BackInv, Counted
  <2> QED BY <2>1, <2>2 DEF Crash, Lapse
<1>3. Ready'
  BY <1>1, StandingReady DEF BackInv
<1>4. AllWait' /\ InsertsApart'
  BY <1>1 DEF AllWait, Waits, InsertsApart
<1> QED BY <1>1, <1>2, <1>3, <1>4 DEF BackInv, Counted

LEMMA StepsKeep ==
  ASSUME BackInv, [Next]_vars
  PROVE  BackInv'
<1>1. ASSUME NEW w \in Workers, Begin(w) PROVE BackInv'
  BY <1>1, BeginKeeps
<1>2. ASSUME NEW w \in Workers, Execute(w) PROVE BackInv'
  BY <1>2, ExecuteKeeps
<1>3. ASSUME NEW w \in Workers, StoreAnswers(w) PROVE BackInv'
  <2>1. lapses \in 0..scope.lapses
    BY DEF BackInv, Counted
  <2> QED BY <1>3, <2>1, FileStepKeeps DEF StoreAnswers, Busy, Goes
<1>4. ASSUME NEW w \in Workers, StoreRefuses(w) PROVE BackInv'
  <2>1. lapses \in 0..scope.lapses
    BY DEF BackInv, Counted
  <2> QED BY <1>4, <2>1, FileStepKeeps DEF StoreRefuses, Busy, Goes
<1>5. ASSUME NEW w \in Workers, AnswerIsLost(w) PROVE BackInv'
  <2>1. lapses' \in 0..scope.lapses
    <3>1. scope.lapses \in Nat /\ lapses \in 0..scope.lapses
      BY BackOfficeAssumption DEF BackInv, Counted
    <3> QED BY <1>5, <3>1 DEF AnswerIsLost, Lapse
  <2> QED BY <1>5, <2>1, FileStepKeeps DEF AnswerIsLost, Busy, Goes
<1>6. CASE UNCHANGED vars
  <2>1. db' = db /\ request' = request /\ store' = store /\ scope' = scope
        /\ overlapped' = overlapped /\ lapses' = lapses /\ excused' = excused
        /\ unchecked' = unchecked
    BY <1>6 DEF vars
  <2>2. Ready' /\ Steady
    BY <2>1, StandingReady DEF BackInv
  <2>3. ASSUME NEW p, Pending(p) PROVE Pending(p)'
    BY <2>1, <2>2, <2>3, PendingStays
  <2>4. ASSUME NEW w \in Workers PROVE Waits(w)'
    <3>1. Waits(w)
      BY DEF BackInv, AllWait
    <3> QED BY <3>1, <2>1, <2>3 DEF Waits
  <2>5. AllWait'
    BY <2>1, <2>4 DEF BackInv, AllWait
  <2> QED BY <2>1, <2>2, <2>5 DEF BackInv, InsertsApart, Counted
<1> QED BY <1>1, <1>2, <1>3, <1>4, <1>5, <1>6, CrashKeeps DEF Next

(* The first rows.                                                           *)
LEMMA StartsWell ==
  ASSUME Init
  PROVE  BackInv
<1> DEFINE Rows(t) == Ids[t] \cap DOMAIN scope.rows
<1>0. /\ scope \in Scopes /\ request = [w \in Workers |-> <<>>]
      /\ store = UNION ({DocumentFiles(d) : d \in Documents} \cup {SpentFiles(s) : s \in Spents})
      /\ overlapped = FALSE /\ lapses = 0 /\ excused = {} /\ unchecked = {}
      /\ db = [t \in Tables |-> [x \in Ids[t] |->
                 IF x \in DOMAIN scope.rows THEN scope.rows[x] ELSE Unborn]]
  BY DEF Init
<1>1. ASSUME NEW t \in Tables, NEW x \in Rows(t) PROVE scope.rows[x] \in Row[t]
  BY <1>0, <1>1, FirstRowsAssumption
<1>2. ASSUME NEW t \in Tables, NEW x \in Ids[t]
      PROVE  /\ x \in Live(t) <=> x \in Rows(t)
             /\ x \in Rows(t) => db[t][x] = scope.rows[x]
             /\ db[t][x] \in Row[t] \cup Absent
  <2>1. CASE x \in Rows(t)
    <3>1. db[t][x] = scope.rows[x] /\ scope.rows[x] \in Row[t]
      BY <1>0, <1>1, <2>1
    <3> QED BY <2>1, <3>1, AbsenceAssumption DEF Live, Absent
  <2>2. CASE x \notin Rows(t)
    BY <1>0, <2>2 DEF Live, Absent
  <2> QED BY <2>1, <2>2
<1>3. Whole
  <2>1. ASSUME NEW t \in Tables PROVE db[t] \in [Ids[t] -> Row[t] \cup Absent]
    BY <1>0, <1>2
  <2> QED BY <1>0, <2>1 DEF Whole
<1>4. \A t \in Tables : Live(t) = Rows(t) /\ \A x \in Live(t) : db[t][x] = scope.rows[x]
  BY <1>2, LiveIds
<1> HIDE DEF Rows
<1>5. RefsLive
  <2> SUFFICES ASSUME NEW k \in ForeignKeys, NEW x \in Live(k.table)
               PROVE  db[k.table][x][k.column] \in Live(k.parent) \cup {None}
    BY DEF RefsLive
  <2>1. k.table \in Tables /\ k.parent \in Tables
    BY KeysFit DEF Fits
  <2>2. x \in Rows(k.table) /\ db[k.table][x] = scope.rows[x] /\ Live(k.parent) = Rows(k.parent)
    BY <1>4, <2>1
  <2>3. scope.rows[x][k.column] \in Rows(k.parent) \cup {None}
    BY <1>0, <2>2, FirstRowsAssumption DEF Rows
  <2> QED BY <2>2, <2>3
<1>6. TenantsNeverMix
  <2>0. Whole /\ RefsLive
    BY <1>3, <1>5
  <2>1. ASSUME NEW l \in Live("link"), db.link[l].template # None
        PROVE  db.template[db.link[l].template].ent = db.link[l].ent
    <3>1. db.link[l].template \in Live("template")
      <4>1. \E k \in ForeignKeys : Parts(k, "link", "template", "template", "set_null")
        BY KeyParts DEF ForeignKeys, WorkplaceKeys
      <4>2. db["link"][l].template \in Live("template") \cup {None}
        BY <1>5, <4>1 DEF RefsLive, Parts
      <4> QED BY <2>1, <4>2
    <3>2. /\ l \in Rows("link") /\ db.link[l] = scope.rows[l]
          /\ db.template[db.link[l].template] = scope.rows[db.link[l].template]
      BY <1>4, <3>1, TheTables
    <3>3. scope.rows[l].template # None
            => scope.rows[scope.rows[l].template].ent = scope.rows[l].ent
      BY <1>0, <3>2, FirstRowsAssumption DEF Rows
    <3> QED BY <2>1, <3>2, <3>3
  <2>2. ASSUME NEW i \in Live("invoice")
        PROVE  db.client[db.invoice[i].client].ent = db.series[db.invoice[i].series].ent
    <3>1. db.invoice[i].client \in Live("client") /\ db.invoice[i].series \in Live("series")
      BY <2>0, InvoiceClients
    <3>2. /\ i \in Rows("invoice") /\ db.invoice[i] = scope.rows[i]
          /\ db.client[db.invoice[i].client] = scope.rows[db.invoice[i].client]
          /\ db.series[db.invoice[i].series] = scope.rows[db.invoice[i].series]
      BY <1>4, <3>1, TheTables
    <3>3. scope.rows[scope.rows[i].client].ent = scope.rows[scope.rows[i].series].ent
      BY <1>0, <3>2, FirstRowsAssumption DEF Rows
    <3> QED BY <3>2, <3>3
  <2>3. ASSUME NEW i \in Live("earning")
        PROVE  /\ db.client[db.earning[i].client].ent = db.earning[i].ent
               /\ db.series[db.earning[i].series].ent = db.earning[i].ent
    <3>1. db.earning[i].client \in Live("client") /\ db.earning[i].series \in Live("series")
      <4>1. /\ \E k \in ForeignKeys : Parts(k, "earning", "client", "client", "cascade")
            /\ \E k \in ForeignKeys : Parts(k, "earning", "series", "series", "cascade")
        BY KeyParts DEF ForeignKeys, SaleKeys
      <4>2. /\ db["earning"][i].client \in Live("client") \cup {None}
            /\ db["earning"][i].series \in Live("series") \cup {None}
        BY <1>5, <4>1 DEF RefsLive, Parts
      <4>3. i \in Ids["earning"] /\ db["earning"][i] \in EarningRow
        BY <2>0, LiveIds, LiveRows, TheTables, TheRows
      <4>4. db["earning"][i].client \in Clients /\ db["earning"][i].series \in Series
        BY <4>3 DEF EarningRow
      <4> QED BY <4>2, <4>4, AbsenceAssumption, TheTables, TheIds
    <3>2. /\ i \in Rows("earning") /\ db.earning[i] = scope.rows[i]
          /\ db.client[db.earning[i].client] = scope.rows[db.earning[i].client]
          /\ db.series[db.earning[i].series] = scope.rows[db.earning[i].series]
      BY <1>4, <3>1, TheTables
    <3>3. /\ scope.rows[scope.rows[i].client].ent = scope.rows[i].ent
          /\ scope.rows[scope.rows[i].series].ent = scope.rows[i].ent
      BY <1>0, <3>2, FirstRowsAssumption DEF Rows
    <3> QED BY <3>2, <3>3
  <2>4. ASSUME NEW t \in DOMAIN LineTable, NEW l \in Live(LineTable[t]),
               db[LineTable[t]][l].item # None
        PROVE  ItemEnt(db[LineTable[t]][l].item) = DocEnt(t, db[LineTable[t]][l].doc)
    <3> PICK i, d, u : i = db[LineTable[t]][l].item /\ d = db[LineTable[t]][l].doc /\ u = LineTable[t]
      OBVIOUS
    <3>0. u \in Tables /\ t \in Tables
      BY TheLines
    <3>1. i \in Live("item") /\ d \in Live(t)
      <4>1. PICK k \in ForeignKeys : Parts(k, u, "item", "item", "set_null")
        BY LineParents
      <4>2. PICK j \in ForeignKeys : Parts(j, u, "doc", t, "cascade")
        BY LineParents
      <4>3. /\ db[k.table][l][k.column] \in Live(k.parent) \cup {None}
            /\ db[j.table][l][j.column] \in Live(j.parent) \cup {None}
        BY <1>5, <4>1, <4>2 DEF RefsLive, Parts
      <4>4. db[u][l]["item"] \in Live("item") \cup {None} /\ db[u][l]["doc"] \in Live(t) \cup {None}
        BY <4>1, <4>2, <4>3 DEF Parts
      <4>5. db[u][l] \in LineRow(Ids[t])
        BY <2>0, <3>0, LiveIds, LiveRows, LineRows
      <4>6. d \in Ids[t]
        BY <4>5 DEF LineRow
      <4> QED BY <2>4, <3>0, <4>4, <4>6, AbsenceAssumption
    <3>2. db["item"][i].category \in Live("category")
      BY <2>0, <3>1, ItemsHaveCategories
    <3>3. db[t][d].client \in Live("client")
      BY <2>0, <3>1, DocumentClients
    <3>4. /\ l \in Rows(u) /\ db[u][l] = scope.rows[l]
          /\ db["item"][i] = scope.rows[i] /\ db[t][d] = scope.rows[d]
      BY <1>4, <3>0, <3>1, TheTables
    <3>5. /\ db["category"][db["item"][i].category] = scope.rows[scope.rows[i].category]
          /\ db["client"][db[t][d].client] = scope.rows[scope.rows[d].client]
      BY <1>4, <3>2, <3>3, <3>4, TheTables
    <3>6. scope.rows[l].item # None =>
                  scope.rows[scope.rows[scope.rows[l].item].category].ent
                    = scope.rows[scope.rows[scope.rows[l].doc].client].ent
      BY <1>0, <3>4, FirstRowsAssumption DEF Rows
    <3> QED BY <2>4, <3>4, <3>5, <3>6 DEF ItemEnt, DocEnt
  <2> QED BY <2>1, <2>2, <2>3, <2>4 DEF TenantsNeverMix
<1>7. AllWait /\ InsertsApart
  BY <1>0 DEF AllWait, Waits, InsertsApart
<1>8. Counted
  <2>1. scope.lapses \in Nat
    BY <1>0, BackOfficeAssumption
  <2>2. lapses \in 0..scope.lapses
    BY <1>0, <2>1
  <2>3. store \subseteq Paths
    BY <1>0, <1>3, <1>5, RowsCallForPaths
  <2> QED BY <1>0, <2>2, <2>3 DEF Counted
<1> QED BY <1>3, <1>5, <1>6, <1>7, <1>8 DEF BackInv, Ready

LEMMA BackInvTypes ==
  ASSUME BackInv
  PROVE  TypeOK
<1>1. ASSUME NEW w \in Workers, NEW k \in DOMAIN request[w]
      PROVE  /\ request[w][k].table \in scope.writes
             /\ request[w][k].id \in Ids[request[w][k].table]
  <2>1. Waits(w)
    BY DEF BackInv, AllWait
  <2>2. Pending(request[w][k])
    BY <2>1, OneOrTwo DEF Waits
  <2> QED BY <2>2 DEF Pending, Waiting, Typed
<1> QED BY <1>1 DEF TypeOK, BackInv, Ready, Whole, Counted, Paths

(* Every table holds whole rows of its entity and every request statements   *)
(* on them, however requests meet, whatever part of a row a save carries and *)
(* whatever a deletion clears (updateById and deleteById of the repositories,*)
(* the keys of src/entities).                                                *)
THEOREM RowsStayWhole == Spec => []TypeOK
<1>1. Init => BackInv
  BY StartsWell
<1>2. BackInv /\ [Next]_vars => BackInv'
  BY StepsKeep
<1>3. BackInv => TypeOK
  BY BackInvTypes
<1> QED BY <1>1, <1>2, <1>3, PTL DEF Spec

(* No save joins two enterprises, though it is made of rows that were read   *)
(* before other requests changed them (assertInvoiceTenantAccessible,        *)
(* validateRelatedEntitiesBelongToEnterprise, resolveOptionalAccessibleItem, *)
(* resolveAccessibleItemCategory, assertDefaultScheduleBelongsToEnterprise). *)
THEOREM TenantsStayApart == Spec => []TenantsNeverMix
<1>1. Init => BackInv
  BY StartsWell
<1>2. BackInv /\ [Next]_vars => BackInv'
  BY StepsKeep
<1>3. BackInv => TenantsNeverMix
  BY DEF BackInv, Ready
<1> QED BY <1>1, <1>2, <1>3, PTL DEF Spec


-----------------------------------------------------------------------------
(* Requests that come one at a time.  What a handler judged stands when its  *)
(* statement is executed: nothing else writes in between.                    *)

(* A row goes with another one by a key that cascades.                       *)
LEMMA GoneWithParent ==
  ASSUME NEW t, NEW x, NEW u, NEW y, <<u, y>> \in GoneWith(t, x), <<u, y>> # <<t, x>>
  PROVE  \E k \in ForeignKeys :
            /\ k.after = "cascade" /\ k.table = u /\ y \in Live(u)
            /\ <<k.parent, db[u][y][k.column]>> \in GoneWith(t, x)
<1> DEFINE S0 == {<<t, x>>}
           S1 == Cascade(S0)
           S2 == Cascade(S1)
<1>1. /\ S1 = S0 \cup NamingAny("cascade", S0)
      /\ S2 = S1 \cup NamingAny("cascade", S1)
      /\ GoneWith(t, x) = S2
  BY DEF Cascade, GoneWith
<1>2. <<u, y>> \notin S0
  OBVIOUS
<1> HIDE DEF S0, S1, S2
<1>3. PICK S \in {S0, S1} : <<u, y>> \in NamingAny("cascade", S)
  BY <1>1, <1>2
<1>4. Hangs("cascade", S, u, y)
  BY <1>3, NamingPairs
<1> QED BY <1>1, <1>3, <1>4 DEF Hangs

(* The keys that cascade, by table.                                          *)
LEMMA CascadingKeys ==
  ASSUME NEW k \in ForeignKeys, k.after = "cascade"
  PROVE  /\ k.table \in {"setting", "template", "holiday", "earning", "document", "invoice",
                         "vacation", "quote_line", "order_line", "invoice_line"}
         /\ k.table = "invoice" => k.parent = "series" /\ k.column = "series"
         /\ k.table = "earning" =>
               \/ k.parent = "series" /\ k.column = "series"
               \/ k.parent = "client" /\ k.column = "client"
               \/ k.parent = "enterprise" /\ k.column = "ent"
         /\ \A t \in DOMAIN LineTable :
               k.table = LineTable[t] => k.parent = t /\ k.column = "doc"
  BY TheLineTables, EnterpriseKeyParts, LineKeyParts, SaleKeyParts, OtherKeyParts
     DEF Parts, ForeignKeys

(* Nothing cascades to these.                                                *)
LEMMA OnlyItself ==
  ASSUME NEW t, NEW x, NEW u \in {"series", "client", "enterprise", "quote", "order", "supplier", "item"},
         NEW y, <<u, y>> \in GoneWith(t, x)
  PROVE  u = t /\ y = x
<1>1. \A k \in ForeignKeys : k.after = "cascade" => k.table # u
  BY CascadingKeys
<1>2. ASSUME <<u, y>> # <<t, x>> PROVE FALSE
  <2>1. PICK k \in ForeignKeys :
            /\ k.after = "cascade" /\ k.table = u /\ y \in Live(u)
            /\ <<k.parent, db[u][y][k.column]>> \in GoneWith(t, x)
    BY <1>2, GoneWithParent
  <2> QED BY <1>1, <2>1
<1> QED BY <1>2

-----------------------------------------------------------------------------
(* What a handler that writes a row has judged.                              *)
Unnumbered(r) == r.status = "draft" => r.number = None

JudgedInvoice(q) ==
  q.table = "invoice" =>
     /\ q.do \in {"insert", "update", "overwrite"} => q.set \in InvoiceRow /\ Unnumbered(q.set)
     /\ q.do = "relink" => {"status", "number"} \cap DOMAIN q.set = {}
     /\ q.do = "insert" => q.set.number \in {None, NextNumber(q.set.series)}
     /\ q.do = "update" =>
           LET r == db.invoice[q.id] IN
              IF r.status = "draft" THEN q.set.number \in {None, NextNumber(q.set.series)}
              ELSE q.set = [r EXCEPT !.status = q.set.status] /\ q.set.status # "draft"
     /\ q.do = "delete" => db.invoice[q.id].status = "draft"

JudgedSeries(q) ==
  q.table = "series" =>
     /\ q.do = "update" =>
           \/ InvoicesIn(q.id) = {} \/ "code" \notin DOMAIN q.set
           \/ q.set.code = db.series[q.id].code
     /\ q.do = "delete" =>
           InvoicesIn(q.id) = {} /\ Where("earning", LAMBDA r : r.series = q.id) = {}

(* Rows that invoices and earnings name are not deleted.                     *)
JudgedDeletion(q) ==
  q.do = "delete" =>
     /\ q.table = "client" => Where("earning", LAMBDA r : r.client = q.id) = {}
     /\ q.table = "enterprise" => Where("earning", LAMBDA r : r.ent = q.id) = {}
     /\ q.table = "quote" => Where("invoice", LAMBDA r : r.quote = q.id) = {}
     /\ q.table = "earning" => Where("invoice", LAMBDA r : r.earning = q.id) = {}
     /\ q.table = "order" => db.order[q.id].status = "awaiting_receipt"

JudgedParty(q, t) ==
  q.table = t =>
     /\ q.do = "insert" => HoldersOf(t, q.set.nif, q.set.ent) = {}
     /\ q.do = "update" =>
           /\ DOMAIN q.set = {"nif"}
           /\ \/ HoldersOf(t, q.set.nif, db[t][q.id].ent) = {}
              \/ q.set.nif = db[t][q.id].nif

JudgedSetting(q) ==
  q.table = "setting" =>
     /\ q.do = "insert" => q.set.ent \in unchecked \/ SettingsOf(q.set.ent) = {}
     /\ q.do = "update" => q.set = <<>>

JudgedLine(q, t) ==
  q.table = LineTable[t] =>
     /\ q.do = "insert" => Open(t, q.set.doc)
     /\ q.do \in {"update", "delete"} => Open(t, db[LineTable[t]][q.id].doc)

Judged(q) ==
  /\ JudgedInvoice(q) /\ JudgedSeries(q) /\ JudgedDeletion(q) /\ JudgedSetting(q)
  /\ \A t \in {"client", "supplier"} : JudgedParty(q, t)
  /\ \A t \in DOMAIN LineTable : JudgedLine(q, t)

(* A deletion takes no invoice along, nor what an invoice names.             *)
LEMMA InvoicesAreSpared ==
  ASSUME Ready, NEW q, Typed(q), q.do = "delete", Judged(q),
         NEW i \in Live("invoice"), ~(q.table = "invoice" /\ q.id = i)
  PROVE  /\ <<"invoice", i>> \notin GoneWith(q.table, q.id)
         /\ <<"quote", db.invoice[i].quote>> \notin GoneWith(q.table, q.id)
         /\ <<"earning", db.invoice[i].earning>> \notin GoneWith(q.table, q.id)
<1>0. i \in InvoicesIn(db.invoice[i].series)
  BY DEF InvoicesIn, Where
<1>1. <<"invoice", i>> \notin GoneWith(q.table, q.id)
  <2> SUFFICES ASSUME <<"invoice", i>> \in GoneWith(q.table, q.id) PROVE FALSE
    OBVIOUS
  <2>1. PICK k \in ForeignKeys :
            /\ k.after = "cascade" /\ k.table = "invoice"
            /\ <<k.parent, db["invoice"][i][k.column]>> \in GoneWith(q.table, q.id)
    BY GoneWithParent
  <2>2. <<"series", db.invoice[i].series>> \in GoneWith(q.table, q.id)
    BY <2>1, CascadingKeys
  <2>3. q.table = "series" /\ q.id = db.invoice[i].series
    BY <2>2, OnlyItself
  <2> QED BY <2>3, <1>0 DEF Judged, JudgedSeries
<1>2. <<"quote", db.invoice[i].quote>> \notin GoneWith(q.table, q.id)
  <2> SUFFICES ASSUME <<"quote", db.invoice[i].quote>> \in GoneWith(q.table, q.id) PROVE FALSE
    OBVIOUS
  <2>1. q.table = "quote" /\ q.id = db.invoice[i].quote
    BY OnlyItself
  <2> QED BY <2>1 DEF Judged, JudgedDeletion, Where
<1>3. <<"earning", db.invoice[i].earning>> \notin GoneWith(q.table, q.id)
  <2> DEFINE e == db.invoice[i].earning
  <2> SUFFICES ASSUME <<"earning", e>> \in GoneWith(q.table, q.id) PROVE FALSE
    OBVIOUS
  <2>1. CASE q.table = "earning" /\ q.id = e
    BY <2>1 DEF Judged, JudgedDeletion, Where
  <2>2. CASE <<"earning", e>> # <<q.table, q.id>>
    <3>1. PICK k \in ForeignKeys :
            /\ k.after = "cascade" /\ k.table = "earning" /\ e \in Live("earning")
            /\ <<k.parent, db["earning"][e][k.column]>> \in GoneWith(q.table, q.id)
      BY <2>2, GoneWithParent
    <3>2. k.parent \in {"series", "client", "enterprise"}
      BY <3>1, CascadingKeys
    <3>3. q.table = k.parent /\ q.id = db["earning"][e][k.column]
      BY <3>1, <3>2, OnlyItself
    <3>4. \/ k.parent = "series" /\ k.column = "series"
          \/ k.parent = "client" /\ k.column = "client"
          \/ k.parent = "enterprise" /\ k.column = "ent"
      BY <3>1, CascadingKeys
    <3> HIDE DEF e
    <3> QED BY <3>1, <3>3, <3>4 DEF Judged, JudgedDeletion, JudgedSeries, Where
  <2> QED BY <2>1, <2>2
<1> QED BY <1>1, <1>2, <1>3

(* What an execution makes of a row.                                         *)
LEMMA GoneAreLive ==
  ASSUME NEW q, q.do = "delete", Accepted(q), NEW t, NEW x, <<t, x>> \in GoneWith(q.table, q.id)
  PROVE  x \in Live(t)
<1>1. CASE <<t, x>> = <<q.table, q.id>>
  BY <1>1 DEF Accepted
<1>2. CASE <<t, x>> # <<q.table, q.id>>
  <2>1. PICK k \in ForeignKeys :
            /\ k.after = "cascade" /\ k.table = t /\ x \in Live(t)
            /\ <<k.parent, db[t][x][k.column]>> \in GoneWith(q.table, q.id)
    BY <1>2, GoneWithParent
  <2> QED BY <2>1
<1> QED BY <1>1, <1>2

Becoming(q, t, x) ==
  /\ q.table = t /\ q.id = x /\ Accepted(q) /\ Writing(q)
  /\ db'[t][x] = Becomes(q) /\ Becomes(q) \in Row[t]

Dying(q, t, x) ==
  /\ q.do = "delete" /\ Accepted(q) /\ x \in Live(t)
  /\ <<t, x>> \in GoneWith(q.table, q.id) /\ db'[t][x] = Gone

Unlinking(q, t, x) ==
  /\ q.do = "delete" /\ Accepted(q) /\ x \in Live(t)
  /\ <<t, x>> \notin GoneWith(q.table, q.id)
  /\ db'[t][x] = Unlinked(t, db[t][x], GoneWith(q.table, q.id))

LEMMA RowsBecome ==
  ASSUME Whole, NEW q, Execution(q), NEW t \in Tables, NEW x \in Ids[t]
  PROVE  db'[t][x] = db[t][x] \/ Becoming(q, t, x) \/ Dying(q, t, x) \/ Unlinking(q, t, x)
<1>1. CASE ~Accepted(q)
  BY <1>1 DEF Execution, Effect
<1>2. CASE Accepted(q) /\ Writing(q)
  <2>1. Becomes(q) \in Row[q.table] /\ WritesRow(q)
    BY <1>2, Written DEF Execution
  <2> QED BY <1>2, <2>1 DEF WritesRow, Becoming
<1>3. CASE Accepted(q) /\ q.do = "delete"
  <2> DEFINE gone == GoneWith(q.table, q.id)
  <2>1. db'[t][x] = IF <<t, x>> \in gone THEN Gone
                    ELSE IF x \in Live(t) THEN Unlinked(t, db[t][x], gone)
                    ELSE db[t][x]
    BY <1>3 DEF Execution, Effect, Without
  <2>2. <<t, x>> \in gone => x \in Live(t)
    BY <1>3, GoneAreLive
  <2> HIDE DEF gone
  <2> QED BY <1>3, <2>1, <2>2 DEF Dying, Unlinking, gone
<1> QED BY <1>1, <1>2, <1>3 DEF Execution, Writing

(* A row that names nothing that is gone stays as it is, and a line at most  *)
(* forgets its item.                                                         *)
LEMMA NothingUnlinked ==
  ASSUME NEW t \in Tables, NEW r \in Row[t], NEW gone,
         \A k \in ForeignKeys :
            k.table = t /\ k.after = "set_null" => <<k.parent, r[k.column]>> \notin gone
  PROVE  Unlinked(t, r, gone) = r
<1>1. r = [c \in DOMAIN r |-> r[c]]
  BY RowsAreFunctions DEF Functions, Function
<1>2. Unlinked(t, r, gone) = [c \in DOMAIN r |-> r[c]]
  BY DEF Unlinked
<1> QED BY <1>1, <1>2

LEMMA LinesForgetItems ==
  ASSUME NEW t \in DOMAIN LineTable, NEW r \in Row[LineTable[t]], NEW gone
  PROVE  Unlinked(LineTable[t], r, gone) \in {r, [r EXCEPT !.item = None]}
<1> DEFINE s == Unlinked(LineTable[t], r, gone)
<1>1. r = [c \in DOMAIN r |-> r[c]]
  BY TheLines, RowsAreFunctions DEF Functions, Function
<1>2. /\ s = [c \in DOMAIN r |-> s[c]] /\ DOMAIN s = DOMAIN r
      /\ \A c \in DOMAIN r : s[c] = r[c] \/ (s[c] = None /\ MayClear(LineTable[t], c))
  BY UnlinkedColumns
<1>3. \A c : MayClear(LineTable[t], c) => c = "item"
  BY ClearedColumns, TheLineTables DEF MayClear
<1>4. "item" \in DOMAIN r
  BY TheLines DEF Names
<1> HIDE DEF s
<1>5. CASE s["item"] = r["item"]
  <2>1. \A c \in DOMAIN r : s[c] = r[c]
    BY <1>2, <1>3, <1>5
  <2>2. [c \in DOMAIN r |-> s[c]] = [c \in DOMAIN r |-> r[c]]
    BY <2>1
  <2>3. s = r
    BY <1>1, <1>2, <2>2, Zenon
  <2> QED BY <2>3 DEF s
<1>6. CASE s["item"] = None
  <2> DEFINE v == [r EXCEPT !.item = None]
  <2>1. v = [c \in DOMAIN r |-> v[c]]
    OBVIOUS
  <2>2. \A c \in DOMAIN r : s[c] = v[c]
    BY <1>2, <1>3, <1>6
  <2> HIDE DEF v
  <2>3. [c \in DOMAIN r |-> s[c]] = [c \in DOMAIN r |-> v[c]]
    BY <2>2
  <2>4. s = v
    BY <1>2, <2>1, <2>3, Zenon
  <2> QED BY <2>4 DEF s, v
<1> QED BY <1>2, <1>4, <1>5, <1>6

LEMMA MergedWhole ==
  ASSUME NEW t \in Tables, NEW r \in Row[t], NEW s \in Row[t]
  PROVE  Merged(r, s) = s
<1>1. DOMAIN r = DOMAIN s
  BY ColumnsAreFixed DEF SameColumns
<1>2. s = [c \in DOMAIN s |-> s[c]]
  BY RowsAreFunctions DEF Functions, Function
<1> QED BY <1>1, <1>2 DEF Merged

(* Only its own statement changes an invoice.                                *)
LEMMA InvoicesChange ==
  ASSUME Ready, NEW q, Execution(q), Judged(q), NEW i \in Ids["invoice"]
  PROVE  \/ db'["invoice"][i] = db["invoice"][i]
         \/ /\ q.table = "invoice" /\ q.id = i /\ Accepted(q)
            /\ \/ q.do \in {"insert", "update"} /\ db'["invoice"][i] = q.set
               \/ q.do = "delete" /\ i \in Live("invoice") /\ db'["invoice"][i] = Gone
               \/ i \in unchecked' /\ q.do = "overwrite" /\ db'["invoice"][i] = q.set
               \/ /\ i \in unchecked' /\ q.do = "relink"
                  /\ db'["invoice"][i] = Merged(db["invoice"][i], q.set)
<1>0. "invoice" \in Tables /\ Whole
  BY TheTables DEF Ready
<1>1. CASE Becoming(q, "invoice", i)
  <2>1. /\ q.do \in {"insert", "update", "overwrite", "relink"}
        /\ q.do \in {"insert", "update"} => q.set \in Row["invoice"]
    BY <1>1, TheRows DEF Becoming, Writing, Judged, JudgedInvoice, Execution
  <2>2. CASE q.do \in {"insert", "overwrite", "relink"}
    BY <1>1, <2>1, <2>2 DEF Becoming, Becomes, Patching, Unchecked, Execution
  <2>3. CASE q.do = "update"
    <3>1. db["invoice"][i] \in Row["invoice"]
      BY <1>0, <1>1, <2>3, LiveRows DEF Becoming, Accepted, Patching
    <3> QED BY <1>0, <1>1, <2>1, <2>3, <3>1, MergedWhole DEF Becoming, Becomes, Patching
  <2> QED BY <2>1, <2>2, <2>3
<1>2. CASE Dying(q, "invoice", i)
  BY <1>2, InvoicesAreSpared DEF Dying, Execution
<1>3. CASE Unlinking(q, "invoice", i)
  <2>1. db["invoice"][i] \in Row["invoice"]
    BY <1>0, <1>3, LiveRows DEF Unlinking
  <2>2. CASE q.table = "invoice" /\ q.id = i
    BY <1>3, <2>2 DEF Unlinking, GoneWith, Cascade
  <2>3. CASE ~(q.table = "invoice" /\ q.id = i)
    <3>1. \A k \in ForeignKeys :
            k.table = "invoice" /\ k.after = "set_null" =>
               <<k.parent, db["invoice"][i][k.column]>> \notin GoneWith(q.table, q.id)
      <4> SUFFICES ASSUME NEW k \in ForeignKeys, k.table = "invoice", k.after = "set_null"
                   PROVE  <<k.parent, db["invoice"][i][k.column]>> \notin GoneWith(q.table, q.id)
        OBVIOUS
      <4>1. (k.column = "quote" /\ k.parent = "quote") \/ (k.column = "earning" /\ k.parent = "earning")
        BY EnterpriseKeyParts, LineKeyParts, SaleKeyParts, OtherKeyParts DEF Parts, ForeignKeys
      <4> QED BY <4>1, <1>3, <2>3, InvoicesAreSpared DEF Unlinking, Execution
    <3> QED BY <1>0, <1>3, <2>1, <3>1, NothingUnlinked DEF Unlinking
  <2> QED BY <2>2, <2>3
<1> QED BY <1>0, <1>1, <1>2, <1>3, RowsBecome

(* Of these tables a row changes by its own statement only, or goes.         *)
LEMMA RowsStayOrGo ==
  ASSUME Whole, NEW q, Execution(q), NEW t \in {"series", "client", "supplier", "setting", "order"},
         NEW x \in Ids[t]
  PROVE  db'[t][x] = db[t][x] \/ Becoming(q, t, x) \/ Dying(q, t, x)
<1>1. t \in Tables /\ \A k \in ForeignKeys : k.after = "set_null" => k.table # t
  BY ClearedColumns, TheTables
<1>2. CASE Unlinking(q, t, x)
  <2>1. db[t][x] \in Row[t]
    BY <1>1, <1>2, LiveRows DEF Unlinking
  <2> QED BY <1>1, <1>2, <2>1, NothingUnlinked DEF Unlinking
<1> QED BY <1>1, <1>2, RowsBecome

DraftsUnnumbered == \A i \in Live("invoice") : Unnumbered(db.invoice[i])

(* What an execution does to an invoice that has its number.                 *)
LEMMA IssuedStays ==
  ASSUME Ready, DraftsUnnumbered, NEW q, Execution(q), Judged(q),
         NEW i \in Live("invoice"), db.invoice[i].number # None,
         AsJudged({i, db.invoice[i].series})
  PROVE  /\ db'.invoice[i] = [db.invoice[i] EXCEPT !.status = db'.invoice[i].status]
         /\ db'.series[db.invoice[i].series].code = db.series[db.invoice[i].series].code
<1> DEFINE s == db.invoice[i].series
<1>0. /\ Whole /\ RefsLive /\ i \in Ids["invoice"] /\ db["invoice"][i] # Unborn
      /\ "invoice" \in Tables /\ "series" \in Tables
  BY LiveIds, TheTables DEF Ready
<1>1. db.invoice[i] \in InvoiceRow /\ s \in Live("series") /\ i \in InvoicesIn(s)
  BY <1>0, InvoiceClients DEF InvoicesIn, Where
<1>2. db.invoice[i].status # "draft"
  BY DEF DraftsUnnumbered, Unnumbered
<1>3. db'.invoice[i] = [db.invoice[i] EXCEPT !.status = db'.invoice[i].status]
  <2>1. CASE db'["invoice"][i] = db["invoice"][i]
    BY <1>1, <2>1 DEF InvoiceRow
  <2>2. CASE q.table = "invoice" /\ q.id = i /\ q.do = "insert"
    BY <1>0, <2>2 DEF Execution
  <2>3. CASE q.table = "invoice" /\ q.id = i /\ q.do = "update" /\ db'["invoice"][i] = q.set
    BY <1>2, <2>3 DEF Judged, JudgedInvoice
  <2>4. CASE q.table = "invoice" /\ q.id = i /\ q.do = "delete"
    BY <1>2, <2>4 DEF Judged, JudgedInvoice
  <2> QED BY <1>0, <2>1, <2>2, <2>3, <2>4, InvoicesChange DEF AsJudged, Execution
<1>5. s \notin unchecked
  BY DEF AsJudged
<1> HIDE DEF s
<1>4. db'["series"][s].code = db["series"][s].code
  <2>0. s \in Ids["series"] /\ db["series"][s] # Unborn /\ db["series"][s] \in SeriesRow
    BY <1>0, <1>1, LiveIds, LiveRows, TheRows
  <2>1. CASE Becoming(q, "series", s)
    <3>1. q.do = "update"
      BY <1>5, <2>0, <2>1 DEF Becoming, Writing, Execution, Unchecked
    <3>2. db'["series"][s] = Merged(db["series"][s], q.set)
      BY <2>1, <3>1 DEF Becoming, Becomes, Patching
    <3>3. "code" \notin DOMAIN q.set \/ q.set.code = db["series"][s].code
      BY <1>1, <2>1, <3>1 DEF Judged, JudgedSeries, Becoming
    <3>4. "code" \in DOMAIN db["series"][s]
      BY <2>0 DEF SeriesRow
    <3> QED BY <3>2, <3>3, <3>4 DEF Merged
  <2>2. CASE Dying(q, "series", s)
    <3>1. q.table = "series" /\ q.id = s
      BY <2>2, OnlyItself DEF Dying
    <3> QED BY <1>1, <2>2, <3>1 DEF Judged, JudgedSeries, Dying
  <2> QED BY <1>0, <2>0, <2>1, <2>2, RowsStayOrGo
<1> QED BY <1>3, <1>4 DEF s

(* What it does to the lines.                                                *)
LEMMA SettledStay ==
  ASSUME Ready, DraftsUnnumbered, NEW q, Execution(q), Judged(q),
         NEW t \in DOMAIN LineTable, NEW l \in Ids[LineTable[t]]
  PROVE  LET old == db[LineTable[t]][l]
             new == db'[LineTable[t]][l]
         IN  IF l \in Live(LineTable[t])
             THEN Settled(t, old.doc) => new \in {old, [old EXCEPT !.item = None]}
             ELSE new \notin Absent => ~Settled(t, new.doc)
<1> PICK u : u = LineTable[t]
  OBVIOUS
<1>0. /\ Whole /\ RefsLive /\ u \in Tables /\ t \in Tables
      /\ u \in {"quote_line", "order_line", "invoice_line"} /\ t \in {"quote", "order", "invoice"}
  BY TheLines, TheLineTables DEF Ready
<1>1. ASSUME NEW d \in Live(t), Settled(t, d) PROVE ~Open(t, d)
  <2>1. t = "invoice" => db.invoice[d].status # "draft"
    BY <1>1 DEF DraftsUnnumbered, Unnumbered, Settled
  <2> QED BY <1>1, <2>1 DEF Settled, Open
<1>2. ASSUME l \in Live(u)
      PROVE  db[u][l].doc \in Live(t) /\ db[u][l] \in Row[u]
  <2>1. PICK k \in ForeignKeys : Parts(k, LineTable[t], "doc", t, "cascade")
    BY LineParents
  <2>2. db[k.table][l][k.column] \in Live(k.parent) \cup {None}
    <3>1. l \in Live(k.table)
      BY <1>2, <2>1 DEF Parts
    <3> QED BY <1>0, <3>1 DEF RefsLive
  <2>3. db[u][l] \in Row[u] /\ db[u][l] \in LineRow(Ids[t])
    BY <1>0, <1>2, LiveRows, LineRows
  <2>4. db[u][l].doc \in Ids[t]
    BY <2>3 DEF LineRow
  <2> QED BY <1>0, <2>1, <2>2, <2>3, <2>4, AbsenceAssumption DEF Parts
<1>3. CASE Becoming(q, u, l)
  <2>1. CASE q.do = "insert"
    <3>1. l \notin Live(u)
      BY <2>1, <1>3, LiveIds DEF Becoming, Execution
    <3>2. db'[u][l] = q.set /\ Open(t, q.set.doc) /\ q.set \in LineRow(Ids[t])
      BY <2>1, <1>0, <1>3, LineRows DEF Becoming, Becomes, Patching, Judged, JudgedLine
    <3>3. q.set.doc \in Live(t)
      <4>1. PICK k \in ForeignKeys : Parts(k, LineTable[t], "doc", t, "cascade")
        BY LineParents
      <4>2. "doc" \in DOMAIN q.set /\ q.set.doc \in Ids[t] /\ ParentsLive(u, q.set)
        BY <3>2, <2>1, <1>3 DEF LineRow, Becoming, Accepted
      <4> QED BY <1>0, <4>1, <4>2, ParentIsLive, AbsenceAssumption
    <3> QED BY <3>1, <3>2, <3>3, <1>1
  <2>2. CASE q.do = "update"
    <3>1. l \in Live(u) /\ Open(t, db[u][l].doc)
      BY <2>2, <1>3 DEF Becoming, Accepted, Judged, JudgedLine
    <3> QED BY <3>1, <1>1, <1>2
  <2> QED BY <2>1, <2>2, <1>0, <1>3, TheLineTables
         DEF Becoming, Writing, Execution, Unchecked, CheckedTables
<1>4. CASE Dying(q, u, l)
  <2> DEFINE d == db[u][l].doc
  <2>1. l \in Live(u) /\ d \in Live(t)
    BY <1>2, <1>4 DEF Dying
  <2>2. CASE <<u, l>> = <<q.table, q.id>>
    <3>1. Open(t, d)
      BY <2>2, <1>4 DEF Dying, Judged, JudgedLine
    <3> QED BY <3>1, <2>1, <1>1
  <2>3. CASE <<u, l>> # <<q.table, q.id>>
    <3>1. PICK k \in ForeignKeys :
            /\ k.after = "cascade" /\ k.table = u /\ l \in Live(u)
            /\ <<k.parent, db[u][l][k.column]>> \in GoneWith(q.table, q.id)
      <4>1. <<u, l>> \in GoneWith(q.table, q.id) /\ <<u, l>> # <<q.table, q.id>>
        BY <2>3, <1>4 DEF Dying
      <4> QED BY <4>1, GoneWithParent
    <3>2. <<t, d>> \in GoneWith(q.table, q.id)
      <4>1. k.parent = t /\ k.column = "doc"
        BY <3>1, CascadingKeys
      <4> QED BY <3>1, <4>1
    <3>3. CASE t = "invoice"
      <4>1. q.table = "invoice" /\ q.id = d
        BY <2>1, <3>2, <3>3, <1>4, InvoicesAreSpared DEF Dying, Execution
      <4>2. Open(t, d)
        BY <4>1, <3>3, <1>4 DEF Open, Judged, JudgedInvoice, Dying
      <4> QED BY <4>2, <2>1, <1>1
    <3>4. CASE t = "order"
      <4>1. q.table = "order" /\ q.id = d
        BY <3>2, <3>4, OnlyItself
      <4>2. Open(t, d)
        BY <4>1, <3>4, <1>4 DEF Open, Judged, JudgedDeletion, Dying
      <4> QED BY <4>2, <2>1, <1>1
    <3>5. CASE t = "quote"
      BY <3>5, <2>1 DEF Settled
    <3> QED BY <3>3, <3>4, <3>5, <1>0
  <2> QED BY <2>2, <2>3
<1>5. CASE Unlinking(q, u, l)
  <2>1. l \in Live(u) /\ db[u][l] \in Row[u]
    BY <1>2, <1>5 DEF Unlinking
  <2>2. db'[u][l] \in {db[u][l], [db[u][l] EXCEPT !.item = None]}
    BY <1>5, <2>1, LinesForgetItems DEF Unlinking
  <2> QED BY <2>1, <2>2
<1>6. CASE db'[u][l] = db[u][l]
  BY <1>6 DEF Live
<1> QED BY <1>0, <1>3, <1>4, <1>5, <1>6, RowsBecome

-----------------------------------------------------------------------------
(* The numbers of a series; one that is not live has none.                   *)
Run(s) ==
  /\ IsFiniteSet(Numbered(s))
  /\ {db.invoice[i].number : i \in Numbered(s)} = 1..Cardinality(Numbered(s))

SeriesRunOn == AsJudged(Invoices) => \A s \in Series : Run(s)

LEMMA NumberedMembers ==
  ASSUME NEW s, NEW i
  PROVE  i \in Numbered(s) <=>
            i \in Live("invoice") /\ db["invoice"][i].series = s /\ db["invoice"][i].number # None
  BY DEF Numbered, Where

LEMMA MaxOfRun ==
  ASSUME NEW n \in Nat
  PROVE  Max({0} \cup 1..n) = n
<1>1. n \in {0} \cup 1..n /\ \A y \in {0} \cup 1..n : n >= y
  OBVIOUS
<1>2. \A x \in {0} \cup 1..n : (\A y \in {0} \cup 1..n : x >= y) => x = n
  OBVIOUS
<1> QED BY <1>1, <1>2 DEF Max

LEMMA NextOfRun ==
  ASSUME NEW s, Run(s)
  PROVE  Cardinality(Numbered(s)) \in Nat /\ NextNumber(s) = Cardinality(Numbered(s)) + 1
<1>1. Cardinality(Numbered(s)) \in Nat
  BY FS_CardinalityType DEF Run
<1>2. NextNumber(s) = 1 + Max({0} \cup {db.invoice[i].number : i \in Numbered(s)})
  BY DEF NextNumber, Numbered, Where
<1> QED BY <1>1, <1>2, MaxOfRun DEF Run

(* The same invoices with the same numbers, or one more.                     *)
LEMMA RunStays ==
  ASSUME NEW s, Run(s), Numbered(s)' = Numbered(s),
         \A i \in Numbered(s) : db'["invoice"][i].number = db["invoice"][i].number
  PROVE  Run(s)'
<1>1. {db'.invoice[i].number : i \in Numbered(s)} = {db.invoice[i].number : i \in Numbered(s)}
  OBVIOUS
<1> QED BY <1>1 DEF Run

LEMMA RunGrows ==
  ASSUME NEW s, Run(s), NEW x, x \notin Numbered(s), Numbered(s)' = Numbered(s) \cup {x},
         db'["invoice"][x].number = NextNumber(s),
         \A i \in Numbered(s) : db'["invoice"][i].number = db["invoice"][i].number
  PROVE  Run(s)'
<1> DEFINE n == Cardinality(Numbered(s))
<1>1. n \in Nat /\ NextNumber(s) = n + 1
  BY NextOfRun
<1>2. IsFiniteSet(Numbered(s)') /\ Cardinality(Numbered(s)') = n + 1
  BY FS_AddElement DEF Run
<1>3. {db'.invoice[i].number : i \in Numbered(s)'}
        = {db.invoice[i].number : i \in Numbered(s)} \cup {n + 1}
  BY <1>1
<1>4. {db.invoice[i].number : i \in Numbered(s)} = 1..n
  BY DEF Run
<1> HIDE DEF n
<1>5. (1..n) \cup {n + 1} = 1..(n + 1)
  BY <1>1
<1>6. {db'.invoice[i].number : i \in Numbered(s)'} = 1..(n + 1)
  BY <1>3, <1>4, <1>5
<1>7. Numbered(s)' = Numbered(s)' /\ Cardinality(Numbered(s)') = n + 1
  BY <1>2
<1> QED BY <1>2, <1>6 DEF Run

LEMMA NumbersGoOn ==
  ASSUME Ready, DraftsUnnumbered, SeriesRunOn, NEW q, Execution(q), Judged(q)
  PROVE  DraftsUnnumbered' /\ SeriesRunOn'
<1>0. Whole /\ "invoice" \in Tables /\ Ids["invoice"] = Invoices
  BY TheTables, TheIds DEF Ready
<1> DEFINE Same(i) == db'["invoice"][i] = db["invoice"][i]
           Writes(i) == q.table = "invoice" /\ q.id = i /\ Accepted(q)
                          /\ q.do \in {"insert", "update"} /\ db'["invoice"][i] = q.set
           Deletes1(i) == q.table = "invoice" /\ q.id = i /\ q.do = "delete"
                          /\ i \in Live("invoice") /\ db'["invoice"][i] = Gone
<1> DEFINE Names1(i) == /\ q.table = "invoice" /\ i \in unchecked' /\ Accepted(q) /\ q.id = i
                         /\ \/ q.do = "overwrite" /\ db'["invoice"][i] = q.set
                            \/ q.do = "relink" /\ db'["invoice"][i] = Merged(db["invoice"][i], q.set)
<1>9. \A i \in Ids["invoice"] : Same(i) \/ Writes(i) \/ Deletes1(i) \/ Names1(i)
  BY InvoicesChange
<1>2. \A i : i \in Live("invoice") => i \in Ids["invoice"]
  BY LiveIds
<1>3. \A i : i \in Live("invoice")' => i \in Ids["invoice"] /\ db'["invoice"][i] \notin Absent
  BY DEF Live
<1>4. \A i \in Ids["invoice"] : Same(i) => (i \in Live("invoice")' <=> i \in Live("invoice"))
  BY DEF Live
<1>5. \A i : Writes(i) => q.set \in InvoiceRow /\ Unnumbered(q.set)
  BY DEF Judged, JudgedInvoice
<1>6. DraftsUnnumbered'
  <2> SUFFICES ASSUME NEW i \in Live("invoice")' PROVE Unnumbered(db'["invoice"][i])
    BY DEF DraftsUnnumbered, Unnumbered
  <2>1. CASE Same(i)
    BY <2>1, <1>3, <1>4 DEF DraftsUnnumbered, Unnumbered
  <2>2. CASE Writes(i)
    BY <2>2, <1>5
  <2>3. CASE Deletes1(i)
    BY <2>3, <1>3 DEF Absent
  <2>4. CASE Names1(i) /\ q.do = "overwrite"
    BY <2>4 DEF Judged, JudgedInvoice
  <2>5. CASE Names1(i) /\ q.do = "relink"
    <3>5. q.table = "invoice" /\ q.id = i /\ Accepted(q) /\ q.do = "relink"
      BY <2>5
    <3>6. i \in Live("invoice")
      BY <3>5 DEF Accepted
    <3>1. i \in Live("invoice") /\ db["invoice"][i] \in InvoiceRow
      BY <1>0, <3>6, LiveIds, LiveRows, TheRows
    <3>2. {"status", "number"} \cap DOMAIN q.set = {}
      BY <2>5 DEF Judged, JudgedInvoice
    <3>3. {"status", "number"} \subseteq DOMAIN db["invoice"][i]
      BY <3>1 DEF InvoiceRow
    <3>4. /\ db'["invoice"][i].status = db["invoice"][i].status
          /\ db'["invoice"][i].number = db["invoice"][i].number
      BY <2>5, <3>2, <3>3 DEF Merged
    <3> QED BY <3>1, <3>4 DEF DraftsUnnumbered, Unnumbered
  <2> QED BY <1>3, <1>9, <2>1, <2>2, <2>3, <2>4, <2>5
<1>7. ASSUME AsJudged(Invoices)', NEW s \in Series PROVE Run(s)'
  <2>0. Run(s)
    BY <1>7 DEF SeriesRunOn, AsJudged, Execution
  <2>9. \A i \in Ids["invoice"] : Same(i) \/ Writes(i) \/ Deletes1(i)
    BY <1>0, <1>7, <1>9 DEF AsJudged
  <2>1. \A i : i \in Numbered(s) <=>
            i \in Live("invoice") /\ db["invoice"][i].series = s /\ db["invoice"][i].number # None
    BY NumberedMembers
  <2>2. \A i : i \in Numbered(s)' <=>
            i \in Live("invoice")' /\ db'["invoice"][i].series = s /\ db'["invoice"][i].number # None
    BY DEF Numbered, Where
  <2>3. \A i \in Ids["invoice"] : Same(i) => (i \in Numbered(s)' <=> i \in Numbered(s))
    BY <2>1, <2>2, <1>4
  <2>4. ASSUME NEW i \in Ids["invoice"], Deletes1(i)
        PROVE  i \notin Numbered(s) /\ i \notin Numbered(s)'
    <3>1. db["invoice"][i].number = None
      BY <2>4 DEF DraftsUnnumbered, Unnumbered, Judged, JudgedInvoice
    <3> QED BY <3>1, <2>1, <2>2, <2>4, <1>3 DEF Absent
  <2>5. ASSUME NEW i \in Ids["invoice"], Writes(i)
        PROVE  /\ i \in Live("invoice")'
               /\ \/ (i \in Numbered(s)' <=> i \in Numbered(s))
                     /\ (i \in Numbered(s) => db'["invoice"][i].number = db["invoice"][i].number)
                  \/ /\ i \notin Numbered(s) /\ i \in Numbered(s)'
                     /\ db'["invoice"][i].number = NextNumber(s)
    <3>1. i \in Live("invoice")'
      <4>1. q.set \in Row["invoice"]
        BY <1>5, <2>5, TheRows
      <4> QED BY <4>1, <2>5, <1>0, AbsenceAssumption DEF Live, Absent
    <3>2. CASE i \in Live("invoice") /\ db["invoice"][i].status # "draft"
      <4>1. q.do = "update"
        BY <3>2, <2>5, LiveIds DEF Execution
      <4>2. q.set = [db["invoice"][i] EXCEPT !.status = q.set.status]
        BY <4>1, <3>2, <2>5 DEF Judged, JudgedInvoice
      <4>3. q.set.series = db["invoice"][i].series /\ q.set.number = db["invoice"][i].number
        <5>1. db["invoice"][i] \in InvoiceRow
          BY <1>0, <3>2, LiveRows, TheRows
        <5> QED BY <4>2, <5>1 DEF InvoiceRow
      <4> QED BY <3>1, <4>3, <2>1, <2>2, <2>5, <3>2
    <3>3. CASE ~(i \in Live("invoice") /\ db["invoice"][i].status # "draft")
      <4>1. i \notin Numbered(s)
        BY <3>3, <2>1 DEF DraftsUnnumbered, Unnumbered
      <4>2. q.set.number \in {None, NextNumber(q.set.series)}
        <5>1. q.do = "update" => i \in Live("invoice")
          BY <2>5 DEF Accepted
        <5> QED BY <5>1, <3>3, <2>5 DEF Judged, JudgedInvoice
      <4> QED BY <3>1, <4>1, <4>2, <2>2, <2>5
    <3> QED BY <3>2, <3>3
  <2>6. \A i \in Numbered(s) \cup Numbered(s)' : i \in Ids["invoice"]
    BY <2>1, <2>2, <1>2, <1>3
  <2>7. CASE \E x \in Ids["invoice"] :
               /\ Writes(x) /\ x \notin Numbered(s) /\ x \in Numbered(s)'
               /\ db'["invoice"][x].number = NextNumber(s)
    <3>1. PICK x \in Ids["invoice"] :
               /\ Writes(x) /\ x \notin Numbered(s) /\ x \in Numbered(s)'
               /\ db'["invoice"][x].number = NextNumber(s)
      BY <2>7
    <3>2. \A i \in Ids["invoice"] : i # x => Same(i)
      BY <3>1, <2>9
    <3>3. Numbered(s)' = Numbered(s) \cup {x}
      BY <3>1, <3>2, <2>3, <2>6
    <3>4. \A i \in Numbered(s) : db'["invoice"][i].number = db["invoice"][i].number
      BY <3>1, <3>2, <2>6
    <3> QED BY <2>0, <3>1, <3>3, <3>4, RunGrows
  <2>8. CASE ~\E x \in Ids["invoice"] :
               /\ Writes(x) /\ x \notin Numbered(s) /\ x \in Numbered(s)'
               /\ db'["invoice"][x].number = NextNumber(s)
    <3>1. \A i \in Ids["invoice"] : i \in Numbered(s)' <=> i \in Numbered(s)
      BY <2>8, <2>3, <2>4, <2>5, <2>9
    <3>2. Numbered(s)' = Numbered(s)
      BY <3>1, <2>6
    <3>3. \A i \in Numbered(s) : db'["invoice"][i].number = db["invoice"][i].number
      BY <2>8, <2>4, <2>5, <2>6, <2>9
    <3> QED BY <2>0, <3>2, <3>3, RunStays
  <2> QED BY <2>7, <2>8
<1>8. SeriesRunOn'
  BY <1>7 DEF SeriesRunOn, AsJudged
<1> QED BY <1>6, <1>8

-----------------------------------------------------------------------------
(* One row of each.                                                          *)
Singles ==
  \A t \in {"client", "supplier", "setting"} : \A c, d \in Live(t) :
     AsJudged({c, d, db[t][c].ent}) /\ db[t][c] = db[t][d] => c = d

LEMMA PartyColumns ==
  ASSUME NEW t \in {"client", "supplier"}, NEW r \in Row[t], NEW v, DOMAIN v = {"nif"}
  PROVE  /\ Merged(r, v) = [r EXCEPT !.nif = v.nif]
         /\ DOMAIN r = {"ent", "nif"}
<1>1. Row[t] = [ent : Enterprises, nif : Nifs]
  BY TheRows DEF ClientRow, SupplierRow
<1> QED BY <1>1 DEF Merged

LEMMA NothingMerged ==
  ASSUME NEW t \in Tables, NEW r \in Row[t]
  PROVE  Merged(r, <<>>) = r
<1>1. DOMAIN <<>> = {}
  OBVIOUS
<1>2. r = [c \in DOMAIN r |-> r[c]]
  BY RowsAreFunctions DEF Functions, Function
<1> QED BY <1>1, <1>2 DEF Merged

(* What a statement writes is of no other row.                               *)
LEMMA WritesAnew ==
  ASSUME Ready, Singles, NEW q, Execution(q), Judged(q),
         NEW t \in {"client", "supplier", "setting"}, NEW c \in Ids[t], Becoming(q, t, c),
         NEW d \in Live(t), d # c, AsJudged({c, d, Becomes(q).ent})
  PROVE  Becomes(q) # db[t][d]
<1>0. /\ Whole /\ t \in Tables /\ d \in Ids[t] /\ db[t][d] \in Row[t]
      /\ q.table = t /\ q.id = c /\ Accepted(q) /\ Becomes(q) \in Row[t]
      /\ q.do \in {"insert", "update"}
  BY TheTables, LiveIds, LiveRows DEF Ready, Becoming, Writing, Execution, Unchecked, AsJudged
<1>1. CASE q.do = "insert" /\ t \in {"client", "supplier"}
  <2>1. HoldersOf(t, q.set.nif, q.set.ent) = {}
    BY <1>0, <1>1 DEF Judged, JudgedParty
  <2>2. ~(db[t][d].ent = q.set.ent /\ db[t][d].nif = q.set.nif)
    BY <2>1 DEF HoldersOf, Where
  <2> QED BY <1>1, <2>2 DEF Becomes, Patching
<1>2. CASE q.do = "update" /\ t \in {"client", "supplier"}
  <2> DEFINE r == db[t][c]
  <2>1. c \in Live(t) /\ r \in Row[t]
    BY <1>0, <1>2, LiveRows DEF Accepted
  <2>2. /\ DOMAIN q.set = {"nif"}
        /\ HoldersOf(t, q.set.nif, r.ent) = {} \/ q.set.nif = r.nif
    BY <1>0, <1>2 DEF Judged, JudgedParty
  <2>3. Becomes(q) = [r EXCEPT !.nif = q.set.nif] /\ DOMAIN r = {"ent", "nif"}
    BY <1>0, <1>2, <2>1, <2>2, PartyColumns DEF Becomes, Patching
  <2>4. r \in [ent : Enterprises, nif : Nifs]
    BY <1>2, <2>1, TheRows DEF ClientRow, SupplierRow
  <2> HIDE DEF r
  <2>5. CASE q.set.nif = r.nif
    <3>1. Becomes(q) = r
      BY <2>3, <2>4, <2>5
    <3> QED BY <3>1, <2>1 DEF Singles, r, AsJudged
  <2>6. CASE HoldersOf(t, q.set.nif, r.ent) = {}
    <3>1. ~(db[t][d].ent = r.ent /\ db[t][d].nif = q.set.nif)
      BY <2>6 DEF HoldersOf, Where
    <3>2. Becomes(q).ent = r.ent /\ Becomes(q).nif = q.set.nif
      BY <2>3, <2>4
    <3> QED BY <3>1, <3>2
  <2> QED BY <2>2, <2>5, <2>6
<1>3. CASE q.do = "insert" /\ t = "setting"
  <2>1. SettingsOf(q.set.ent) = {}
    BY <1>0, <1>3 DEF Judged, JudgedSetting, AsJudged, Becomes, Patching
  <2>2. db[t][d].ent # q.set.ent
    BY <1>3, <2>1 DEF SettingsOf, Where
  <2> QED BY <1>3, <2>2 DEF Becomes, Patching
<1>4. CASE q.do = "update" /\ t = "setting"
  <2>1. c \in Live(t) /\ db[t][c] \in Row[t] /\ q.set = <<>>
    BY <1>0, <1>4, LiveRows DEF Accepted, Judged, JudgedSetting
  <2>2. Becomes(q) = db[t][c]
    BY <1>0, <1>4, <2>1, NothingMerged DEF Becomes, Patching
  <2> QED BY <2>1, <2>2 DEF Singles, AsJudged
<1> QED BY <1>0, <1>1, <1>2, <1>3, <1>4

LEMMA SinglesStay ==
  ASSUME Ready, Singles, NEW q, Execution(q), Judged(q)
  PROVE  Singles'
<1> SUFFICES ASSUME NEW t \in {"client", "supplier", "setting"},
                    NEW c \in Live(t)', NEW d \in Live(t)', db'[t][c] = db'[t][d], c # d,
                    {c, d, db'[t][c].ent} \cap unchecked' = {}
             PROVE  FALSE
  BY DEF Singles, AsJudged
<1>4. {c, d, db'[t][c].ent} \cap unchecked = {}
  BY DEF Execution
<1>0. Whole /\ t \in Tables /\ c \in Ids[t] /\ d \in Ids[t]
      /\ db'[t][c] \notin Absent /\ db'[t][d] \notin Absent
  BY TheTables DEF Ready, Live
<1>1. ASSUME NEW x \in {c, d} PROVE (x \in Live(t) /\ db'[t][x] = db[t][x]) \/ Becoming(q, t, x)
  <2>1. x \in Ids[t] /\ db'[t][x] \notin Absent
    BY <1>0
  <2>2. db'[t][x] = db[t][x] \/ Becoming(q, t, x) \/ Dying(q, t, x)
    BY <1>0, <2>1, RowsStayOrGo
  <2> QED BY <2>1, <2>2 DEF Live, Dying, Absent
<1>2. CASE Becoming(q, t, c)
  <2>1. ~Becoming(q, t, d)
    BY <1>2 DEF Becoming
  <2> QED BY <1>0, <1>1, <1>2, <2>1, <1>4, WritesAnew DEF Becoming, AsJudged
<1>3. CASE Becoming(q, t, d)
  <2>1. ~Becoming(q, t, c)
    BY <1>3 DEF Becoming
  <2> QED BY <1>0, <1>1, <1>3, <2>1, <1>4, WritesAnew DEF Becoming, AsJudged
<1> QED BY <1>1, <1>2, <1>3, <1>4 DEF Singles, AsJudged

-----------------------------------------------------------------------------
(* What is judged stays judged until it is sent.                             *)
LEMMA FilesAreUnjudged ==
  ASSUME NEW q, q.do \notin {"insert", "update", "delete"},
         q.table = "invoice" => q.do \notin {"overwrite", "relink"}
  PROVE  Judged(q)
  BY DEF Judged, JudgedInvoice, JudgedSeries, JudgedDeletion, JudgedSetting, JudgedParty, JudgedLine

LEMMA OtherTablesUnjudged ==
  ASSUME NEW q, q.table \in {"link", "template", "holiday", "vacation", "item", "category",
                             "spent_category", "spent", "document"}
  PROVE  Judged(q)
  BY TheLineTables
     DEF Judged, JudgedInvoice, JudgedSeries, JudgedDeletion, JudgedSetting, JudgedParty, JudgedLine

LEMMA JudgedByTable ==
  ASSUME NEW q
  PROVE  /\ q.table \in {"client", "supplier"} =>
               (JudgedDeletion(q) /\ JudgedParty(q, q.table) => Judged(q))
         /\ q.table \in {"quote", "order", "earning", "enterprise"} => (JudgedDeletion(q) => Judged(q))
         /\ q.table = "setting" => (JudgedSetting(q) => Judged(q))
         /\ q.table = "series" => (JudgedSeries(q) => Judged(q))
         /\ q.table = "invoice" => (JudgedInvoice(q) => Judged(q))
         /\ \A t \in DOMAIN LineTable : q.table = LineTable[t] => (JudgedLine(q, t) => Judged(q))
  BY TheLineTables
     DEF Judged, JudgedInvoice, JudgedSeries, JudgedDeletion, JudgedSetting, JudgedParty, JudgedLine

(* After the row of an enterprise its settings are still to come.            *)
LEMMA SettingStillFree ==
  ASSUME Ready, NEW q, Execution(q), q.table = "enterprise",
         NEW b, b.table = "setting", b.do = "insert", Judged(b)
  PROVE  Judged(b)'
<1>1. b.set.ent \in unchecked \/ SettingsOf(b.set.ent) = {}
  BY DEF Judged, JudgedSetting
<1>2. b.set.ent \in unchecked' \/ SettingsOf(b.set.ent)' = {}
  <2> SUFFICES ASSUME b.set.ent \notin unchecked, NEW x \in SettingsOf(b.set.ent)' PROVE FALSE
    BY DEF Execution
  <2>1. x \in Ids["setting"] /\ db'["setting"][x] \notin Absent
        /\ db'["setting"][x].ent = b.set.ent
    BY DEF SettingsOf, Where, Live
  <2>2. db'["setting"][x] = db["setting"][x]
    BY <2>1, RowsStayOrGo DEF Ready, Becoming, Dying, Absent
  <2>3. x \in SettingsOf(b.set.ent)
    BY <2>1, <2>2 DEF SettingsOf, Where, Live
  <2> QED BY <1>1, <2>3
<1>3. JudgedSetting(b)'
  BY <1>2 DEF JudgedSetting
<1> QED BY <1>3, JudgedByTable, TheLineTables
     DEF Judged, JudgedInvoice, JudgedSeries, JudgedDeletion, JudgedSetting, JudgedParty, JudgedLine


-----------------------------------------------------------------------------
(* What handlers send is judged.                                             *)
LEMMA NamedForms ==
  ASSUME NEW t, NEW rows, NEW q \in AsNamed(t, rows)
  PROVE  q.do = "overwrite" /\ q.table = t /\ q.set \in rows
  BY DEF AsNamed, Overwrite

LEMMA EditedForms ==
  ASSUME NEW t, NEW x, NEW v, NEW q \in Edited(t, x, v)
  PROVE  \/ q = Update(t, x, v)
         \/ q.do = "overwrite" /\ q.table = t /\ q.set = Merged(db[t][x], v)
  BY DEF Edited, Overwrite

LEMMA RelinkedForms ==
  ASSUME NEW t, NEW q \in Relinked(t)
  PROVE  /\ q.do = "relink" /\ q.table = t
         /\ t = "invoice" => {"status", "number"} \cap DOMAIN q.set = {}
         /\ t = "document" => DOMAIN q.set = {"client"}
<1>1. PICK k \in Collections : k.table = t /\ \E x \in Nameable(t) \cap Live(t), v \in Named(k) :
                                                q = Relink(t, x, k.column, v)
  BY DEF Relinked
<1>2. PICK x, v : q = Relink(t, x, k.column, v)
  BY <1>1
<1>3. /\ t = "invoice" => k.column \in {"client", "series", "quote", "earning"}
      /\ t = "document" => k.column = "client"
  <2>1. CASE k \in SaleKeys
    BY <2>1, <1>1, SaleKeyParts DEF Parts
  <2>2. CASE k \in PurchaseKeys
    BY <2>2, <1>1, OtherKeyParts DEF Parts
  <2> QED BY <2>1, <2>2 DEF Collections
<1> QED BY <1>2, <1>3 DEF Relink

LEMMA RelinkedJudged ==
  ASSUME NEW t, NEW q \in Relinked(t)
  PROVE  Judged(q)
<1>1. /\ q.do = "relink" /\ q.table = t
      /\ t = "invoice" => {"status", "number"} \cap DOMAIN q.set = {}
  BY RelinkedForms
<1> QED BY <1>1, FilesAreUnjudged, JudgedByTable DEF JudgedInvoice

LEMMA NamedJudged ==
  ASSUME NEW t, t # "invoice", NEW rows, NEW q \in AsNamed(t, rows)
  PROVE  Judged(q)
  BY NamedForms, FilesAreUnjudged

LEMMA ClientsJudged ==
  ASSUME NEW q \in CreateClient \cup UpdateClient \cup DeleteClient
  PROVE  Judged(q)
<1>1. CASE q \in CreateClient
  <2>1. CASE \E c, k : q = Insert("client", c, k) /\ NifIsFree(k.nif, k.ent)
    <3>1. JudgedDeletion(q) /\ JudgedParty(q, "client") /\ q.table = "client"
      BY <2>1 DEF Insert, JudgedDeletion, JudgedParty, NifIsFree
    <3> QED BY <3>1, JudgedByTable
  <2>2. CASE q \in AsNamed("client", {k \in ClientRow : \E e \in Enterprises : NifIsFree(k.nif, e)})
    BY <2>2, NamedJudged
  <2> QED BY <1>1, <2>1, <2>2 DEF CreateClient, Insert
<1>2. CASE q \in UpdateClient
  <2>0. PICK c \in Live("client") :
           \E n \in {m \in Nifs : NifIsFree(m, db.client[c].ent) \/ db.client[c].nif = m} :
              q \in Edited("client", c, [nif |-> n])
    BY <1>2 DEF UpdateClient
  <2>1. PICK n : /\ q \in Edited("client", c, [nif |-> n])
                 /\ NifIsFree(n, db.client[c].ent) \/ db.client[c].nif = n
    BY <2>0
  <2>2. CASE q = Update("client", c, [nif |-> n])
    <3>1. JudgedDeletion(q) /\ JudgedParty(q, "client") /\ q.table = "client"
      BY <2>1, <2>2 DEF Update, JudgedDeletion, JudgedParty, NifIsFree
    <3> QED BY <3>1, JudgedByTable
  <2> QED BY <2>1, <2>2, EditedForms, FilesAreUnjudged
<1>3. CASE q \in DeleteClient
  <2>1. PICK c : /\ q = Delete("client", c) /\ Where("earning", LAMBDA r : r.client = c) = {}
    BY <1>3 DEF DeleteClient, Delete, Where
  <2>2. JudgedDeletion(q) /\ JudgedParty(q, "client") /\ q.table = "client"
    BY <2>1 DEF Delete, JudgedDeletion, JudgedParty, Where
  <2> QED BY <2>2, JudgedByTable
<1> QED BY <1>1, <1>2, <1>3

LEMMA SuppliersJudged ==
  ASSUME NEW q \in CreateSupplier \cup UpdateSupplier \cup DeleteSupplier
  PROVE  Judged(q)
<1>1. CASE q \in CreateSupplier
  <2>1. CASE \E c, k : q = Insert("supplier", c, k) /\ HoldersOf("supplier", k.nif, k.ent) = {}
    <3>1. JudgedDeletion(q) /\ JudgedParty(q, "supplier") /\ q.table = "supplier"
      BY <2>1 DEF Insert, JudgedDeletion, JudgedParty
    <3> QED BY <3>1, JudgedByTable
  <2>2. CASE q \in AsNamed("supplier", {k \in SupplierRow :
                              \E e \in Enterprises : HoldersOf("supplier", k.nif, e) = {}})
    BY <2>2, NamedJudged
  <2> QED BY <1>1, <2>1, <2>2 DEF CreateSupplier, Insert
<1>2. CASE q \in UpdateSupplier
  <2>1. PICK p, n : /\ q \in Edited("supplier", p, [nif |-> n])
                    /\ HoldersOf("supplier", n, db.supplier[p].ent) = {} \/ db.supplier[p].nif = n
    BY <1>2 DEF UpdateSupplier
  <2>2. CASE q = Update("supplier", p, [nif |-> n])
    <3>1. JudgedDeletion(q) /\ JudgedParty(q, "supplier") /\ q.table = "supplier"
      BY <2>1, <2>2 DEF Update, JudgedDeletion, JudgedParty
    <3> QED BY <3>1, JudgedByTable
  <2> QED BY <2>1, <2>2, EditedForms, FilesAreUnjudged
<1>3. CASE q \in DeleteSupplier
  <2>1. PICK p : q = Delete("supplier", p)
    BY <1>3 DEF DeleteSupplier
  <2>2. JudgedDeletion(q) /\ JudgedParty(q, "supplier") /\ q.table = "supplier"
    BY <2>1 DEF Delete, JudgedDeletion, JudgedParty
  <2> QED BY <2>2, JudgedByTable
<1> QED BY <1>1, <1>2, <1>3

LEMMA SeriesJudged ==
  ASSUME NEW q \in CreateSeries \cup UpdateSeries \cup DeleteSeries
  PROVE  Judged(q)
<1>1. CASE q \in CreateSeries
  <2>1. CASE \E s, k : q = Insert("series", s, k)
    BY <2>1, JudgedByTable DEF Insert, JudgedSeries
  <2>2. CASE q \in AsNamed("series", {k \in SeriesRow : \E e \in Enterprises : k.code \in CodesFor(e)})
    BY <2>2, NamedJudged
  <2> QED BY <1>1, <2>1, <2>2 DEF CreateSeries, Insert
<1>2. CASE q \in UpdateSeries
  <2>1. PICK s \in Live("series") : \E v \in SeriesForms(s) : q \in Edited("series", s, v)
    BY <1>2 DEF UpdateSeries
  <2>2. PICK v \in SeriesForms(s) : q \in Edited("series", s, v)
    BY <2>1
  <2>3. InvoicesIn(s) = {} \/ "code" \notin DOMAIN v \/ v.code = db.series[s].code
    BY DEF SeriesForms
  <2>4. CASE q = Update("series", s, v)
    <3>1. q.table = "series" /\ q.id = s /\ q.do = "update" /\ q.set = v
      BY <2>4 DEF Update
    <3> QED BY <2>3, <3>1, JudgedByTable DEF JudgedSeries
  <2> QED BY <2>2, <2>4, EditedForms, FilesAreUnjudged
<1>3. CASE q \in DeleteSeries
  <2>1. PICK s : /\ q = Delete("series", s) /\ InvoicesIn(s) = {}
                 /\ Where("earning", LAMBDA r : r.series = s) = {}
    BY <1>3 DEF DeleteSeries, Delete, Where
  <2>2. JudgedSeries(q) /\ q.table = "series"
    BY <2>1 DEF Delete, JudgedSeries, Where
  <2> QED BY <2>2, JudgedByTable
<1> QED BY <1>1, <1>2, <1>3

(* Only a deletion of these is judged.                                       *)
LEMMA SavesUnjudged ==
  ASSUME NEW t \in {"quote", "order", "earning", "enterprise"}
  PROVE  /\ \A x, v : Judged(Insert(t, x, v)) /\ Judged(Update(t, x, v))
         /\ \A rows : \A q \in Made(t, rows) : Judged(q)
         /\ \A x, v : \A q \in Edited(t, x, v) : Judged(q)
<1>1. ASSUME NEW x, NEW v PROVE Judged(Insert(t, x, v)) /\ Judged(Update(t, x, v))
  <2>1. /\ JudgedDeletion(Insert(t, x, v)) /\ Insert(t, x, v).table = t
        /\ JudgedDeletion(Update(t, x, v)) /\ Update(t, x, v).table = t
    BY DEF Insert, Update, JudgedDeletion
  <2> QED BY <2>1, JudgedByTable
<1>2. ASSUME NEW rows, NEW q \in Made(t, rows) PROVE Judged(q)
  <2>1. q \in AsNamed(t, rows) \/ \E x, v : q = Insert(t, x, v)
    BY <1>2 DEF Made
  <2> QED BY <2>1, <1>1, NamedJudged
<1>3. ASSUME NEW x, NEW v, NEW q \in Edited(t, x, v) PROVE Judged(q)
  BY <1>1, <1>3, EditedForms, FilesAreUnjudged
<1> QED BY <1>1, <1>2, <1>3

LEMMA EarningsJudged ==
  ASSUME NEW q \in CreateEarning \cup UpdateEarning \cup DeleteEarning
  PROVE  Judged(q)
<1>0. ASSUME NEW e, q \in UncheckedEarnings(e) PROVE Judged(q)
  BY <1>0, NamedJudged DEF UncheckedEarnings
<1>1. CASE q \in CreateEarning
  <2>1. (\E x, v : q = Insert("earning", x, v)) \/ \E e : q \in UncheckedEarnings(e)
    BY <1>1 DEF CreateEarning
  <2> QED BY <1>0, <2>1, SavesUnjudged
<1>2. CASE q \in UpdateEarning
  <2>1. (\E x, v : q = Update("earning", x, v)) \/ \E e : q \in UncheckedEarnings(e)
    BY <1>2 DEF UpdateEarning
  <2> QED BY <1>0, <2>1, SavesUnjudged
<1>3. CASE q \in DeleteEarning
  <2>1. PICK x : q = Delete("earning", x) /\ Where("invoice", LAMBDA i : i.earning = x) = {}
    BY <1>3 DEF DeleteEarning, Delete, Where
  <2>2. JudgedDeletion(q) /\ q.table = "earning"
    BY <2>1 DEF Delete, JudgedDeletion, Where
  <2> QED BY <2>2, JudgedByTable
<1> QED BY <1>1, <1>2, <1>3

LEMMA QuotesJudged ==
  ASSUME NEW q \in CreateQuote \cup UpdateQuote \cup SetQuoteStatus \cup DeleteQuote
  PROVE  Judged(q)
<1>1. CASE q \in CreateQuote
  BY <1>1, SavesUnjudged DEF CreateQuote
<1>2. CASE q \in UpdateQuote
  <2>1. \E x, v : q \in Edited("quote", x, v)
    BY <1>2 DEF UpdateQuote
  <2> QED BY <2>1, SavesUnjudged
<1>3. CASE q \in SetQuoteStatus
  <2>1. \E x, v : q = Update("quote", x, v)
    BY <1>3 DEF SetQuoteStatus, Update
  <2> QED BY <2>1, SavesUnjudged
<1>4. CASE q \in DeleteQuote
  <2>1. PICK x : q = Delete("quote", x) /\ Where("invoice", LAMBDA r : r.quote = x) = {}
    BY <1>4 DEF DeleteQuote, Delete, Where
  <2>2. JudgedDeletion(q) /\ q.table = "quote"
    BY <2>1 DEF Delete, JudgedDeletion, Where
  <2> QED BY <2>2, JudgedByTable
<1> QED BY <1>1, <1>2, <1>3, <1>4

LEMMA OrdersJudged ==
  ASSUME NEW q \in CreateOrder \cup UpdateOrder \cup SetOrderStatus \cup DeleteOrder
  PROVE  Judged(q)
<1>1. CASE q \in CreateOrder
  BY <1>1, SavesUnjudged DEF CreateOrder
<1>2. CASE q \in UpdateOrder
  <2>1. \E x, v : q \in Edited("order", x, v)
    BY <1>2 DEF UpdateOrder
  <2> QED BY <2>1, SavesUnjudged
<1>4. CASE q \in SetOrderStatus
  <2>1. \E x, v : q = Update("order", x, v)
    BY <1>4 DEF SetOrderStatus, Update
  <2> QED BY <2>1, SavesUnjudged
<1>3. CASE q \in DeleteOrder
  <2>1. PICK x : q = Delete("order", x) /\ db["order"][x].status = "awaiting_receipt"
    BY <1>3 DEF DeleteOrder, Delete, Where
  <2>2. JudgedDeletion(q) /\ q.table = "order"
    BY <2>1 DEF Delete, JudgedDeletion
  <2> QED BY <2>2, JudgedByTable
<1> QED BY <1>1, <1>2, <1>3, <1>4

LEMMA SettingsJudged ==
  ASSUME NEW q \in UpdateSetting
  PROVE  Judged(q)
<1>1. CASE q \in {Update("setting", x, <<>>) : x \in UNION {SettingsOf(e) : e \in Live("enterprise")}}
  <2>1. q.table = "setting" /\ q.do = "update" /\ q.set = <<>>
    BY <1>1 DEF Update
  <2> QED BY <2>1, JudgedByTable DEF JudgedSetting
<1>2. CASE q \in {Insert("setting", x, [ent |-> e]) :
            x \in Fresh("setting"), e \in {k \in Live("enterprise") : SettingsOf(k) = {}}}
  <2>1. PICK x, e : q = Insert("setting", x, [ent |-> e]) /\ SettingsOf(e) = {}
    BY <1>2 DEF Insert
  <2>2. q.table = "setting" /\ q.do = "insert" /\ SettingsOf(q.set.ent) = {}
    BY <2>1 DEF Insert
  <2> QED BY <2>2, JudgedByTable DEF JudgedSetting
<1> QED BY <1>1, <1>2 DEF UpdateSetting

LEMMA LinesJudged ==
  ASSUME NEW t \in DOMAIN LineTable, NEW q \in CreateLine(t) \cup UpdateLine(t) \cup DeleteLine(t)
  PROVE  Judged(q)
<1>1. CASE q \in CreateLine(t)
  <2>1. PICK l, d, i, p : q = Insert(LineTable[t], l, [doc |-> d, item |-> i, price |-> p]) /\ Open(t, d)
    BY <1>1 DEF CreateLine, Insert
  <2>2. q.table = LineTable[t] /\ JudgedLine(q, t)
    BY <2>1 DEF Insert, JudgedLine
  <2> QED BY <2>2, JudgedByTable
<1>2. CASE q \in UpdateLine(t)
  <2>1. PICK l \in OpenLines(t) : \E v \in LineForms(t, db[LineTable[t]][l]) : q = Update(LineTable[t], l, v)
    BY <1>2 DEF UpdateLine
  <2>2. Open(t, db[LineTable[t]][l].doc)
    BY DEF OpenLines, Where
  <2>3. q.table = LineTable[t] /\ q.id = l /\ q.do = "update"
    BY <2>1 DEF Update
  <2> QED BY <2>2, <2>3, JudgedByTable DEF JudgedLine
<1>3. CASE q \in DeleteLine(t)
  <2>1. PICK l \in OpenLines(t) : q = Delete(LineTable[t], l)
    BY <1>3 DEF DeleteLine
  <2>2. Open(t, db[LineTable[t]][l].doc)
    BY DEF OpenLines, Where
  <2>3. q.table = LineTable[t] /\ q.id = l /\ q.do = "delete"
    BY <2>1 DEF Delete
  <2> QED BY <2>2, <2>3, JudgedByTable DEF JudgedLine
<1> QED BY <1>1, <1>2, <1>3

(* An invoice that leaves its draft takes the number that runs on.            *)
LEMMA FrozenJudged ==
  ASSUME Whole, NEW f \in InvoiceRow, f.client \in Live("client"),
         Frozen(f).number \in Nat \cup {None}
  PROVE  /\ Frozen(f) \in InvoiceRow /\ Unnumbered(Frozen(f))
         /\ Frozen(f).number \in {None, NextNumber(Frozen(f).series)}
<1>1. Frozen(f) \in InvoiceRow /\ Frozen(f).series = f.series
  BY FrozenRows
<1>3. CASE f.status = "draft"
  <2>1. Frozen(f) = [f EXCEPT !.number = None]
    BY <1>3 DEF Frozen
  <2>2. Frozen(f).number = None
    BY <2>1 DEF InvoiceRow
  <2> QED BY <1>1, <2>2 DEF Unnumbered
<1>4. CASE f.status # "draft"
  <2>1. PICK n, p : Frozen(f) = [f EXCEPT !.number = n, !.party = p] /\ n = NextNumber(f.series)
    BY <1>4 DEF Frozen
  <2>2. Frozen(f).number = n /\ Frozen(f).status # "draft"
    BY <1>4, <2>1 DEF InvoiceRow
  <2> QED BY <1>1, <2>1, <2>2 DEF Unnumbered
<1> QED BY <1>3, <1>4

LEMMA InvoicesJudged ==
  ASSUME Ready, DraftsUnnumbered,
         NEW q \in CreateInvoice \cup UpdateInvoice \cup SetInvoiceStatus \cup DeleteInvoice,
         q.do \notin {"delete", "relink"} => q.set.number \in (0..MaxNumber) \cup {None}
  PROVE  Judged(q)
<1>0. Whole /\ RefsLive /\ 0..MaxNumber \subseteq Nat /\ "invoice" \in Tables /\ Row["invoice"] = InvoiceRow
  BY BackOfficeAssumption, TheTables, TheRows DEF Ready
<1>1. ASSUME NEW old \in Nifs \cup {None}, NEW v \in InvoiceForms(old),
             v.number \in (0..MaxNumber) \cup {None}
      PROVE  /\ v \in InvoiceRow /\ Unnumbered(v) /\ v.number \in {None, NextNumber(v.series)}
  <2>1. PICK f \in [client : Live("client"), series : Live("series"),
                quote : Live("quote") \cup {None}, earning : Live("earning") \cup {None},
                status : InvoiceStatuses, number : {None}, party : {old}] : v = Frozen(f)
    BY DEF InvoiceForms
  <2>2. /\ Live("client") \subseteq Clients /\ Live("series") \subseteq Series
        /\ Live("quote") \subseteq Quotes /\ Live("earning") \subseteq Earnings
    BY LiveIds, TheIds
  <2>3. f \in InvoiceRow /\ f.client \in Live("client")
    BY <2>2 DEF InvoiceRow
  <2> QED BY <1>0, <1>1, <2>1, <2>3, FrozenJudged
<1>2. CASE q \in CreateInvoice
  <2>1. PICK v \in InvoiceForms(None) :
           q.table = "invoice" /\ q.do \in {"insert", "overwrite"} /\ q.set = v
    <3>1. CASE \E x \in Fresh("invoice"), v \in InvoiceForms(None) : q = Insert("invoice", x, v)
      BY <3>1 DEF Insert
    <3>2. CASE q \in AsNamed("invoice", InvoiceForms(None))
      BY <3>2, NamedForms
    <3> QED BY <1>2, <3>1, <3>2 DEF CreateInvoice, Made
  <2>2. v.number \in (0..MaxNumber) \cup {None}
    BY <2>1
  <2> QED BY <1>1, <2>1, <2>2, JudgedByTable DEF JudgedInvoice
<1>3. CASE q \in UpdateInvoice
  <2>1. PICK x \in Drafts : \E v \in InvoiceForms(db.invoice[x].party) : q \in Edited("invoice", x, v)
    BY <1>3 DEF UpdateInvoice
  <2>2. PICK v \in InvoiceForms(db.invoice[x].party) : q \in Edited("invoice", x, v)
    BY <2>1
  <2>3. x \in Live("invoice") /\ db.invoice[x].status = "draft"
    BY DEF Drafts, Where
  <2>4. db.invoice[x].party \in Nifs \cup {None} /\ db["invoice"][x] \in InvoiceRow
    BY <1>0, <2>3, InvoiceClients DEF InvoiceRow
  <2>5. PICK f \in [client : Live("client"), series : Live("series"),
                quote : Live("quote") \cup {None}, earning : Live("earning") \cup {None},
                status : InvoiceStatuses, number : {None}, party : {db.invoice[x].party}] :
          v = Frozen(f)
    BY <2>2 DEF InvoiceForms
  <2>6. DOMAIN v = DOMAIN db.invoice[x] /\ "number" \in DOMAIN db.invoice[x]
    BY <2>4, <2>5 DEF InvoiceRow, Frozen
  <2>7. v.number \in (0..MaxNumber) \cup {None}
    BY <2>2, <2>6 DEF Edited, Update, Overwrite, Merged
  <2>8. v \in InvoiceRow /\ Unnumbered(v) /\ v.number \in {None, NextNumber(v.series)}
    BY <1>1, <2>4, <2>7
  <2>9. CASE q = Update("invoice", x, v)
    <3>1. q.table = "invoice" /\ q.id = x /\ q.do = "update" /\ q.set = v
      BY <2>9 DEF Update
    <3> QED BY <2>3, <2>8, <3>1, JudgedByTable DEF JudgedInvoice
  <2>10. CASE q.do = "overwrite" /\ q.table = "invoice" /\ q.set = Merged(db["invoice"][x], v)
    <3>1. q.set = v
      BY <1>0, <2>4, <2>8, <2>10, MergedWhole
    <3> QED BY <2>8, <2>10, <3>1, JudgedByTable DEF JudgedInvoice
  <2> QED BY <2>2, <2>9, <2>10, EditedForms
<1>4. CASE q \in SetInvoiceStatus
  <2>0. PICK x \in Live("invoice") :
           \E st \in {n \in InvoiceStatuses :
                          IF n = "draft" THEN db.invoice[x].status = "draft"
                          ELSE LeavesDraftWell(db.invoice[x])} :
              q = Update("invoice", x,
                   IF db.invoice[x].status = "draft" THEN Frozen([db.invoice[x] EXCEPT !.status = st])
                   ELSE [db.invoice[x] EXCEPT !.status = st])
    BY <1>4 DEF SetInvoiceStatus
  <2>1. PICK st \in InvoiceStatuses :
           /\ q = Update("invoice", x,
                   IF db.invoice[x].status = "draft" THEN Frozen([db.invoice[x] EXCEPT !.status = st])
                   ELSE [db.invoice[x] EXCEPT !.status = st])
           /\ st = "draft" => db.invoice[x].status = "draft"
    BY <2>0
  <2>2. PICK r \in InvoiceRow : r = db.invoice[x] /\ r.client \in Live("client")
    BY <1>0, InvoiceClients
  <2>3. PICK m : m = [r EXCEPT !.status = st]
    OBVIOUS
  <2>4. m \in InvoiceRow /\ m.client = r.client /\ m.number = r.number /\ m.status = st
    BY <2>2, <2>3 DEF InvoiceRow
  <2>5. q.table = "invoice" /\ q.id = x /\ q.do = "update"
        /\ q.set = IF r.status = "draft" THEN Frozen(m) ELSE m
    BY <2>1, <2>2, <2>3 DEF Update
  <2>7. CASE r.status = "draft"
    <3>1. q.set = Frozen(m) /\ Frozen(m).number \in Nat \cup {None}
      BY <1>0, <2>5, <2>7
    <3> QED BY <1>0, <2>2, <2>4, <2>5, <2>7, <3>1, FrozenJudged, JudgedByTable DEF JudgedInvoice
  <2>8. CASE r.status # "draft"
    <3>1. st # "draft" /\ Unnumbered(m) /\ q.set = m
      BY <2>1, <2>2, <2>4, <2>5, <2>8 DEF Unnumbered
    <3> QED BY <2>2, <2>3, <2>4, <2>5, <2>8, <3>1, JudgedByTable DEF JudgedInvoice
  <2> QED BY <2>7, <2>8
<1>5. CASE q \in DeleteInvoice
  <2>1. PICK x : q = Delete("invoice", x) /\ db.invoice[x].status = "draft"
    BY <1>5 DEF DeleteInvoice, Drafts, Where
  <2>2. q.table = "invoice" /\ q.id = x /\ q.do = "delete"
    BY <2>1 DEF Delete
  <2> QED BY <2>1, <2>2, JudgedByTable DEF JudgedInvoice
<1> QED BY <1>2, <1>3, <1>4, <1>5


-----------------------------------------------------------------------------
(* Two statements of one request: one is a step on Dropbox, or they are an   *)
(* enterprise and its setting.                                               *)
Paired(a, b) ==
  \/ OnStore(a) \/ OnStore(b)
  \/ a.table = "enterprise" /\ b.table = "setting" /\ b.do = "insert"

LEMMA StoreIsUnjudged ==
  ASSUME NEW q, OnStore(q)
  PROVE  Judged(q)
  BY FilesAreUnjudged DEF OnStore

LEMMA OthersJudged ==
  ASSUME NEW t \in {"link", "template", "holiday", "vacation", "item", "category",
                    "spent_category", "spent", "document"}, NEW h, Queue(h, t), NEW k \in DOMAIN h
  PROVE  Judged(h[k])
<1>1. ASSUME NEW a, Asked(a, t) PROVE Judged(a)
  <2>1. a.table = t
    BY <1>1 DEF Asked, Sent, OnFile
  <2> QED BY <2>1, OtherTablesUnjudged
<1>2. CASE \E a : h = <<a>> /\ Asked(a, t)
  BY <1>1, <1>2, OneOrTwo
<1>3. CASE \E a, b : h = <<a, b>> /\ Asked(a, t) /\ Asked(b, t)
  BY <1>1, <1>3, OneOrTwo
<1> QED BY <1>2, <1>3 DEF Queue

(* The settings of an enterprise that the body named come after it.         *)
SeedsUnchecked(h, k) ==
  h[k].table = "setting" /\ h[k].do = "insert" /\ h[k].set.ent \in PastItsHandler(Head(h))

LEMMA EnterprisesJudged ==
  ASSUME Ready, NEW h \in CreateEnterprise \cup UpdateEnterprise \cup CreateLogo \cup DeleteEnterprise,
         NEW k \in DOMAIN h
  PROVE  Judged(h[k]) \/ SeedsUnchecked(h, k)
<1> DEFINE Firsts == {<<Insert("enterprise", e, [nif |-> n, logo |-> FALSE]),
                        Insert("setting", x, [ent |-> e])>> :
                         e \in Fresh("enterprise"), x \in Fresh("setting"),
                         n \in {m \in Nifs : EnterprisesWith(m) = {}}}
           Overwrites == AsNamed("enterprise", [nif : {m \in Nifs : EnterprisesWith(m) = {}},
                                                logo : BOOLEAN])
           Others == {<<q, Insert("setting", x, [ent |-> q.id])>> :
                         q \in Overwrites, x \in Fresh("setting")}
<1>0. CreateEnterprise = Firsts \cup Others
  BY DEF CreateEnterprise
<1>5. CASE h \in Others
  <2>0. \A q \in Overwrites : Judged(q) /\ q.do = "overwrite"
    BY NamedJudged, NamedForms
  <2> HIDE DEF Overwrites
  <2>1. PICK q \in Overwrites, x \in Fresh("setting") : h = <<q, Insert("setting", x, [ent |-> q.id])>>
    BY <1>5
  <2>2. PICK b : h = <<q, b>> /\ b = Insert("setting", x, [ent |-> q.id])
    BY <2>1
  <2>3. b.table = "setting" /\ b.do = "insert" /\ b.set.ent = q.id
    BY <2>2 DEF Insert
  <2>4. DOMAIN h = {1, 2} /\ h[1] = q /\ h[2] = b /\ Head(h) = q
    BY <2>2, OneOrTwo
  <2> QED BY <2>0, <2>3, <2>4 DEF SeedsUnchecked, PastItsHandler, Unchecked
<1> HIDE DEF Others, Overwrites
<1>1. CASE h \in Firsts
  <2>1. PICK e \in Fresh("enterprise"), x \in Fresh("setting"), n \in Nifs :
           h = <<Insert("enterprise", e, [nif |-> n, logo |-> FALSE]),
                 Insert("setting", x, [ent |-> e])>>
    <3> DEFINE Free == {m \in Nifs : EnterprisesWith(m) = {}}
               two(e, x, n) == <<Insert("enterprise", e, [nif |-> n, logo |-> FALSE]),
                                 Insert("setting", x, [ent |-> e])>>
    <3>1. Free \subseteq Nifs
      OBVIOUS
    <3>2. Firsts = {two(e, x, n) : e \in Fresh("enterprise"), x \in Fresh("setting"), n \in Free}
      OBVIOUS
    <3> HIDE DEF Free, two, Firsts
    <3>3. \E e \in Fresh("enterprise"), x \in Fresh("setting"), n \in Nifs : h = two(e, x, n)
      BY <1>1, <3>1, <3>2
    <3> QED BY <3>3 DEF two
  <2>2. PICK a, b : /\ h = <<a, b>> /\ a = Insert("enterprise", e, [nif |-> n, logo |-> FALSE])
                    /\ b = Insert("setting", x, [ent |-> e])
    BY <2>1
  <2>3. SettingsOf(e) = {}
    <3> SUFFICES ASSUME NEW y \in Live("setting"), db["setting"][y].ent = e PROVE FALSE
      BY DEF SettingsOf, Where
    <3>1. PICK f \in ForeignKeys : Parts(f, "setting", "ent", "enterprise", "cascade")
      BY KeyParts DEF ForeignKeys, EnterpriseKeys
    <3>2. db[f.table][y][f.column] \in Live(f.parent) \cup {None}
      BY <3>1 DEF Ready, RefsLive, Parts
    <3>3. e \in Live("enterprise") \cup {None}
      BY <3>1, <3>2 DEF Parts
    <3>4. e \in Ids["enterprise"] /\ db["enterprise"][e] = Unborn
      BY FreshIds
    <3> QED BY <3>3, <3>4, AbsenceAssumption, TheTables DEF Live, Absent
  <2>4. Judged(a)
    BY <2>2, SavesUnjudged
  <2>5. b.table = "setting" /\ b.do = "insert" /\ SettingsOf(b.set.ent) = {}
    BY <2>2, <2>3 DEF Insert
  <2>6. Judged(b)
    BY <2>5, JudgedByTable DEF JudgedSetting
  <2> QED BY <2>2, <2>4, <2>6, OneOrTwo
<1>2. CASE h \in UpdateEnterprise
  <2>1. PICK e \in Live("enterprise"), n \in Nifs :
           \E q \in Edited("enterprise", e, [nif |-> n]) : h = <<q>>
    BY <1>2 DEF UpdateEnterprise
  <2>2. PICK q \in Edited("enterprise", e, [nif |-> n]) : h = <<q>>
    BY <2>1
  <2>3. Judged(q)
    BY SavesUnjudged
  <2> QED BY <2>2, <2>3, OneOrTwo
<1>3. CASE h \in CreateLogo
  <2>1. PICK a, b, e, v : /\ h = <<a, b>> /\ a = Upload("enterprise", LogoPath(e), <<>>)
                          /\ b = Update("enterprise", e, v)
    BY <1>3 DEF CreateLogo
  <2>2. OnStore(a)
    BY <2>1 DEF Upload, OnStore
  <2>3. Judged(a) /\ Judged(b)
    BY <2>1, <2>2, SavesUnjudged, StoreIsUnjudged
  <2> QED BY <2>1, <2>3, OneOrTwo
<1>4. CASE h \in DeleteEnterprise
  <2>1. PICK e \in Live("enterprise") :
           /\ h = <<Delete("enterprise", e), RemoveFolder("enterprise", e)>>
           /\ Where("earning", LAMBDA r : r.ent = e) = {}
    BY <1>4 DEF DeleteEnterprise, Delete, RemoveFolder, Where
  <2>2. PICK a, b : /\ h = <<a, b>> /\ a = Delete("enterprise", e)
                    /\ b = RemoveFolder("enterprise", e)
    BY <2>1
  <2>3. JudgedDeletion(a) /\ a.table = "enterprise"
    BY <2>1, <2>2 DEF Delete, JudgedDeletion, Where
  <2>4. OnStore(b)
    BY <2>2 DEF RemoveFolder, OnStore
  <2> QED BY <2>2, <2>3, <2>4, JudgedByTable, StoreIsUnjudged, OneOrTwo
<1> HIDE DEF Firsts
<1> QED BY <1>0, <1>1, <1>2, <1>3, <1>4, <1>5

LEMMA HandlersJudge ==
  ASSUME Ready, DraftsUnnumbered, NEW t \in Tables, NEW h \in HandlersOf(t), WithinBound(h)
  PROVE  /\ \A k \in DOMAIN h : Judged(h[k]) \/ SeedsUnchecked(h, k)
         /\ \/ \E a : h = <<a>>
            \/ \E a, b : h = <<a, b>> /\ Paired(a, b)
<1>0. Queue(h, t)
  BY HandlersSendQueues
<1>1. \/ \E a : h = <<a>> /\ Asked(a, t)
      \/ \E a, b : h = <<a, b>> /\ Paired(a, b)
  <2>1. ASSUME NEW a, Asked(a, "enterprise") PROVE a.table = "enterprise"
    BY <2>1 DEF Asked, Sent, OnFile
  <2> QED BY <1>0, <2>1 DEF Queue, Paired, Sent
<1>2. ASSUME NEW S, h \in Alone(S), \A q \in S : Judged(q)
      PROVE  \A k \in DOMAIN h : Judged(h[k])
  <2>1. PICK q \in S : h = <<q>>
    BY <1>2 DEF Alone
  <2> QED BY <1>2, <2>1, OneOrTwo
<1>3. \A k \in DOMAIN h : Judged(h[k]) \/ SeedsUnchecked(h, k)
  <2>1. CASE t \in {"client", "series", "earning"}
    BY <2>1, <1>2, ClientsJudged, SeriesJudged, EarningsJudged, RelinkedJudged DEF HandlersOf
  <2>2. CASE t \in {"quote", "order"}
    BY <2>2, <1>2, QuotesJudged, OrdersJudged, RelinkedJudged DEF HandlersOf
  <2>3. CASE t \in {"supplier", "setting"}
    BY <2>3, <1>2, SuppliersJudged, SettingsJudged DEF HandlersOf
  <2>7. CASE t = "invoice"
    <3>1. PICK q \in CreateInvoice \cup UpdateInvoice \cup SetInvoiceStatus \cup DeleteInvoice
                    \cup Relinked(t) : h = <<q>>
      BY <2>7 DEF HandlersOf, Alone
    <3>2. Head(h) = q /\ q.table = "invoice"
      BY <1>0, <2>7, <3>1, OneOrTwo DEF Queue, Asked, Sent, OnFile
    <3>3. q.do \notin {"delete", "relink"} => q.set.number \in (0..MaxNumber) \cup {None}
      BY <3>2 DEF WithinBound
    <3>4. Judged(q)
      BY <3>1, <3>3, InvoicesJudged, RelinkedJudged
    <3> QED BY <3>1, <3>4, OneOrTwo
  <2>4. CASE t \in {"quote_line", "order_line", "invoice_line"}
    <3> DEFINE d == CHOOSE d \in DOMAIN LineTable : LineTable[d] = t
    <3>1. d \in DOMAIN LineTable
      BY <2>4, TheLineTables
    <3>2. h \in Alone(CreateLine(d) \cup UpdateLine(d) \cup DeleteLine(d))
      BY <2>4 DEF HandlersOf
    <3> HIDE DEF d
    <3> QED BY <1>2, <3>1, <3>2, LinesJudged
  <2>5. CASE t = "enterprise"
    BY <2>5, EnterprisesJudged DEF HandlersOf
  <2>6. CASE t \in {"link", "template", "holiday", "vacation", "item", "category",
                    "spent_category", "spent", "document"}
    BY <1>0, <2>6, OthersJudged
  <2> QED BY <2>1, <2>2, <2>3, <2>4, <2>5, <2>6, <2>7, TheTables
<1> QED BY <1>1, <1>3


-----------------------------------------------------------------------------
(* One request at a time, all of it judged, over tables that are in order.   *)
JudgedAll(w) ==
  \/ request[w] = <<>>
  \/ \E a : request[w] = <<a>> /\ Judged(a)
  \/ \E a, b : request[w] = <<a, b>> /\ Judged(a) /\ Judged(b) /\ Paired(a, b)

InOrder ==
  /\ \A v, w \in Workers : request[v] # <<>> /\ request[w] # <<>> => v = w
  /\ DraftsUnnumbered /\ SeriesRunOn /\ Singles
  /\ \A w \in Workers : JudgedAll(w)

OrderInv == Orderly => InOrder

LEMMA TablesStand ==
  ASSUME db' = db, unchecked \subseteq unchecked'
  PROVE  /\ DraftsUnnumbered => DraftsUnnumbered'
         /\ SeriesRunOn => SeriesRunOn'
         /\ Singles => Singles'
         /\ \A q : Judged(q) => Judged(q)'
<1>1. \A t : Live(t)' = Live(t)
  BY DEF Live
<1>2. \A s : Numbered(s)' = Numbered(s)
  BY <1>1 DEF Numbered, Where
<1>3. SeriesRunOn => SeriesRunOn'
  BY <1>2 DEF SeriesRunOn, Run, AsJudged
<1>4. (DraftsUnnumbered => DraftsUnnumbered') /\ (Singles => Singles')
  BY <1>1 DEF DraftsUnnumbered, Singles, AsJudged
<1>5. ASSUME NEW q, Judged(q) PROVE Judged(q)'
  <2>1. \A s : NextNumber(s)' = NextNumber(s) /\ InvoicesIn(s)' = InvoicesIn(s)
               /\ SettingsOf(s)' = SettingsOf(s)
    BY <1>1 DEF NextNumber, InvoicesIn, SettingsOf, Where
  <2>2. \A t, n, e : HoldersOf(t, n, e)' = HoldersOf(t, n, e)
    BY <1>1 DEF HoldersOf, Where
  <2>3. \A t, d : Open(t, d)' = Open(t, d)
    BY DEF Open
  <2>4. JudgedInvoice(q)'
    BY <1>5, <2>1 DEF Judged, JudgedInvoice
  <2>5. JudgedSeries(q)'
    BY <1>1, <1>5, <2>1 DEF Judged, JudgedSeries, Where
  <2>6. JudgedDeletion(q)'
    BY <1>1, <1>5 DEF Judged, JudgedDeletion, Where
  <2>7. JudgedSetting(q)'
    BY <1>5, <2>1 DEF Judged, JudgedSetting
  <2>8. \A t \in {"client", "supplier"} : JudgedParty(q, t)'
    BY <1>5, <2>2 DEF Judged, JudgedParty
  <2>9. \A t \in DOMAIN LineTable : JudgedLine(q, t)'
    BY <1>5, <2>3 DEF Judged, JudgedLine
  <2> QED BY <2>4, <2>5, <2>6, <2>7, <2>8, <2>9 DEF Judged
<1> QED BY <1>3, <1>4, <1>5

(* A step that writes no table: the worker whose step it is holds h now.     *)
LEMMA StandingOrder ==
  ASSUME BackInv, InOrder, db' = db, unchecked \subseteq unchecked',
         NEW w \in Workers, NEW h, request' = [request EXCEPT ![w] = h],
         h = <<>> \/ \A v \in Workers : v # w => request[v] = <<>>,
         \/ h = <<>> \/ \E a : h = <<a>> /\ Judged(a)'
         \/ \E a, b : h = <<a, b>> /\ Judged(a)' /\ Judged(b)' /\ Paired(a, b)
  PROVE  InOrder'
<1>1. /\ request'[w] = h /\ \A v \in Workers : v # w => request'[v] = request[v]
  BY DEF BackInv, AllWait
<1>2. \A v, u \in Workers : request'[v] # <<>> /\ request'[u] # <<>> => v = u
  BY <1>1 DEF InOrder
<1>3. ASSUME NEW v \in Workers PROVE JudgedAll(v)'
  <2>1. \A q : Judged(q) => Judged(q)'
    BY TablesStand
  <2>2. \A a, b : Paired(a, b)' <=> Paired(a, b)
    BY DEF Paired, OnStore
  <2>3. CASE v = w
    BY <1>1, <2>1, <2>2, <2>3 DEF JudgedAll
  <2>4. CASE v # w
    <3>1. JudgedAll(v) /\ request'[v] = request[v]
      BY <1>1, <2>4 DEF InOrder
    <3> QED BY <2>1, <2>2, <3>1 DEF JudgedAll
  <2> QED BY <2>3, <2>4
<1> QED BY <1>2, <1>3, TablesStand DEF InOrder

LEMMA BeginsInOrder ==
  ASSUME BackInv, OrderInv, NEW w \in Workers, Begin(w)
  PROVE  OrderInv'
<1> SUFFICES ASSUME ~overlapped' PROVE InOrder'
  BY DEF OrderInv, Orderly
<1>1. ~overlapped /\ \A v \in Workers : request[v] = <<>>
  BY DEF Begin, Busy
<1>2. PICK t \in scope.writes : \E h \in HandlersOf(t) :
         WithinBound(h) /\ Goes(w, h) /\ unchecked' = unchecked \cup PastItsHandler(Head(h))
  BY DEF Begin
<1>3. PICK h \in HandlersOf(t) :
         WithinBound(h) /\ Goes(w, h) /\ unchecked' = unchecked \cup PastItsHandler(Head(h))
  BY <1>2
<1>4. t \in Tables /\ Ready /\ InOrder
  BY <1>1, BackOfficeAssumption DEF BackInv, Counted, OrderInv, Orderly
<1>7. db' = db /\ request' = [request EXCEPT ![w] = h] /\ unchecked \subseteq unchecked'
  BY <1>3 DEF Begin, Goes
<1>5. /\ \A k \in DOMAIN h : Judged(h[k])'
      /\ \/ \E a : h = <<a>>
         \/ \E a, b : h = <<a, b>> /\ Paired(a, b)
  <2>1. /\ \A k \in DOMAIN h : Judged(h[k]) \/ SeedsUnchecked(h, k)
        /\ \/ \E a : h = <<a>>
           \/ \E a, b : h = <<a, b>> /\ Paired(a, b)
    BY <1>3, <1>4, HandlersJudge DEF InOrder
  <2>2. \A q : Judged(q) => Judged(q)'
    BY <1>7, TablesStand
  <2>3. ASSUME NEW k \in DOMAIN h, SeedsUnchecked(h, k) PROVE Judged(h[k])'
    <3>1. h[k].table = "setting" /\ h[k].do = "insert" /\ h[k].set.ent \in unchecked'
      BY <1>3, <2>3 DEF SeedsUnchecked
    <3>2. JudgedSetting(h[k])'
      BY <3>1 DEF JudgedSetting
    <3> QED BY <3>1, <3>2, TheLineTables
         DEF Judged, JudgedInvoice, JudgedSeries, JudgedDeletion, JudgedSetting, JudgedParty, JudgedLine
  <2> QED BY <2>1, <2>2, <2>3
<1>6. \/ \E a : h = <<a>> /\ Judged(a)'
      \/ \E a, b : h = <<a, b>> /\ Judged(a)' /\ Judged(b)' /\ Paired(a, b)
  BY <1>5, OneOrTwo
<1> QED BY <1>1, <1>4, <1>6, <1>7, StandingOrder

LEMMA ExecutesInOrder ==
  ASSUME BackInv, NEW w \in Workers, Execute(w)
  PROVE  /\ Execution(Step(w))
         /\ InOrder => Judged(Step(w)) /\ InOrder'
<1> DEFINE q == Step(w)
<1>1. /\ request[w] # <<>> /\ ~OnStore(q) /\ db' = Effect(q)
      /\ request' = [request EXCEPT ![w] = IF Accepted(q) THEN Tail(request[w]) ELSE <<>>]
      /\ excused' = excused \cup CascadedDocuments(db') \cup UNION {Moves(t, db') : t \in DOMAIN Owner}
      /\ scope' = scope /\ unchecked' = unchecked
  BY DEF Execute, Busy, Goes
<1>2. Ready /\ Waits(w) /\ Whole /\ request = [v \in Workers |-> request[v]]
  BY DEF BackInv, AllWait, Ready
<1>3. Pending(q)
  BY <1>1, <1>2, BusyWaits
<1> HIDE DEF q
<1>4. Execution(q)
  <2>1. Writing(q) \/ q.do = "delete"
    BY <1>1, <1>3 DEF Pending, Waiting, Typed, OnStore
  <2> QED BY <1>1, <1>3, <2>1 DEF Execution, Pending, Waiting
<1>5. ASSUME InOrder PROVE Judged(q) /\ InOrder'
  <2>1. JudgedAll(w) /\ DraftsUnnumbered /\ SeriesRunOn /\ Singles
        /\ \A v \in Workers : v # w => request[v] = <<>>
    BY <1>1, <1>5 DEF InOrder
  <2>2. /\ Judged(q)
        /\ \/ Tail(request[w]) = <<>>
           \/ \E b : Tail(request[w]) = <<b>> /\ Judged(b) /\ Paired(q, b)
    <3>1. CASE \E a : request[w] = <<a>> /\ Judged(a)
      <4>1. PICK a : request[w] = <<a>> /\ Judged(a)
        BY <3>1
      <4> QED BY <4>1, OneOrTwo DEF Step, q
    <3>2. CASE \E a, b : request[w] = <<a, b>> /\ Judged(a) /\ Judged(b) /\ Paired(a, b)
      <4>1. PICK a, b : request[w] = <<a, b>> /\ Judged(a) /\ Judged(b) /\ Paired(a, b)
        BY <3>2
      <4>2. q = a /\ Tail(request[w]) = <<b>>
        BY <4>1, OneOrTwo DEF Step, q
      <4> QED BY <4>1, <4>2
    <3> QED BY <1>1, <2>1, <3>1, <3>2 DEF JudgedAll
  <2>3. DraftsUnnumbered' /\ SeriesRunOn' /\ Singles'
    BY <1>2, <1>4, <2>1, <2>2, NumbersGoOn, SinglesStay
  <2>4. ASSUME NEW b, Judged(b), Paired(q, b) PROVE Judged(b)'
    <3>1. CASE OnStore(b)
      BY <3>1 DEF OnStore, Judged, JudgedInvoice, JudgedSeries, JudgedDeletion, JudgedSetting,
                  JudgedParty, JudgedLine
    <3>2. CASE q.table = "enterprise" /\ b.table = "setting" /\ b.do = "insert"
      BY <1>2, <1>4, <2>4, <3>2, SettingStillFree
    <3> QED BY <1>1, <2>4, <3>1, <3>2 DEF Paired
  <2>5. JudgedAll(w)'
    <3>1. request'[w] \in {Tail(request[w]), <<>>}
      BY <1>1, <1>2
    <3>2. CASE request'[w] = <<>>
      BY <3>2 DEF JudgedAll
    <3>3. CASE request'[w] # <<>>
      <4>1. PICK b : request'[w] = <<b>> /\ Judged(b) /\ Paired(q, b)
        BY <2>2, <3>1, <3>3
      <4>2. Judged(b)'
        BY <2>4, <4>1
      <4> QED BY <4>1, <4>2 DEF JudgedAll
    <3> QED BY <3>2, <3>3
  <2>6. \A v \in Workers : v # w => request'[v] = <<>>
    BY <1>1, <1>2, <2>1
  <2>7. \A v \in Workers : JudgedAll(v)'
    BY <2>5, <2>6 DEF JudgedAll
  <2> QED BY <2>2, <2>3, <2>6, <2>7 DEF InOrder
<1> QED BY <1>4, <1>5 DEF q

LEMMA FileStepsInOrder ==
  ASSUME BackInv, InOrder, NEW w \in Workers, request[w] # <<>>, OnStore(Step(w)),
         NEW h, h \in {Tail(request[w]), Step(w).undo}, request' = [request EXCEPT ![w] = h],
         db' = db, unchecked' = unchecked
  PROVE  InOrder'
<1>0. \A q : Judged(q) => Judged(q)'
  BY TablesStand
<1>1. Waits(w) /\ JudgedAll(w) /\ \A v \in Workers : v # w => request[v] = <<>>
  BY DEF BackInv, AllWait, InOrder
<1>2. CASE h = Tail(request[w])
  <2>1. h = <<>> \/ \E b : h = <<b>> /\ Judged(b)
    <3>1. CASE \E a : request[w] = <<a>> /\ Judged(a)
      BY <1>2, <3>1, OneOrTwo
    <3>2. CASE \E a, b : request[w] = <<a, b>> /\ Judged(a) /\ Judged(b) /\ Paired(a, b)
      <4>1. PICK a, b : request[w] = <<a, b>> /\ Judged(b)
        BY <3>2
      <4> QED BY <1>2, <4>1, OneOrTwo
    <3> QED BY <1>1, <3>1, <3>2 DEF JudgedAll
  <2>2. h = <<>> \/ \A v \in Workers : v # w => request[v] = <<>>
    BY <1>1
  <2>3. \/ h = <<>> \/ \E a : h = <<a>> /\ Judged(a)
        \/ \E a, b : h = <<a, b>> /\ Judged(a) /\ Judged(b) /\ Paired(a, b)
    BY <2>1
  <2> QED BY <1>0, <2>2, <2>3, StandingOrder
<1>3. CASE h = Step(w).undo
  <2>1. Pending(Step(w))
    BY <1>1, BusyWaits
  <2>2. h = <<>> \/ h = <<Delete("document", Step(w).id)>>
    BY <1>3, <2>1 DEF Pending, Waiting, OnFile
  <2>3. Judged(Delete("document", Step(w).id))
    BY OtherTablesUnjudged DEF Delete
  <2> QED BY <1>0, <1>1, <2>2, <2>3, StandingOrder
<1> QED BY <1>2, <1>3

LEMMA StepsInOrder ==
  ASSUME BackInv, OrderInv, [Next]_vars
  PROVE  OrderInv'
<1>1. ASSUME NEW w \in Workers, Begin(w) PROVE OrderInv'
  BY <1>1, BeginsInOrder
<1>2. ASSUME NEW w \in Workers, Execute(w) PROVE OrderInv'
  <2>1. overlapped' = overlapped
    BY <1>2 DEF Execute
  <2> QED BY <1>2, <2>1, ExecutesInOrder DEF OrderInv, Orderly
<1>3. ASSUME NEW w \in Workers, StoreAnswers(w) \/ StoreRefuses(w) \/ AnswerIsLost(w) PROVE OrderInv'
  <2>1. overlapped' = overlapped /\ db' = db /\ unchecked' = unchecked /\ request[w] # <<>>
        /\ OnStore(Step(w))
    BY <1>3 DEF StoreAnswers, StoreRefuses, AnswerIsLost, Busy
  <2>2. PICK h : h \in {Tail(request[w]), Step(w).undo} /\ request' = [request EXCEPT ![w] = h]
    BY <1>3 DEF StoreAnswers, StoreRefuses, AnswerIsLost, Goes
  <2> QED BY <2>1, <2>2, FileStepsInOrder DEF OrderInv, Orderly
<1>4. CASE Crash
  <2>1. overlapped' = overlapped /\ db' = db /\ unchecked' = unchecked
        /\ request' = [w \in Workers |-> <<>>]
    BY <1>4 DEF Crash
  <2> QED BY <2>1, TablesStand DEF OrderInv, Orderly, InOrder, JudgedAll
<1>5. CASE UNCHANGED vars
  <2>1. overlapped' = overlapped /\ db' = db /\ request' = request /\ unchecked' = unchecked
    BY <1>5 DEF vars
  <2>2. \A q : Judged(q) => Judged(q)'
    BY <2>1, TablesStand
  <2>3. \A w \in Workers : JudgedAll(w) => JudgedAll(w)'
    BY <2>1, <2>2 DEF JudgedAll, Paired, OnStore
  <2> QED BY <2>1, <2>3, TablesStand DEF OrderInv, Orderly, InOrder
<1> QED BY <1>1, <1>2, <1>3, <1>4, <1>5 DEF Next

LEMMA StartsInOrder ==
  ASSUME Init
  PROVE  OrderInv
<1> DEFINE Rows(t) == Ids[t] \cap DOMAIN scope.rows
<1>0. /\ scope \in Scopes /\ request = [w \in Workers |-> <<>>]
      /\ db = [t \in Tables |-> [x \in Ids[t] |->
                 IF x \in DOMAIN scope.rows THEN scope.rows[x] ELSE Unborn]]
  BY DEF Init
<1>1. \A t \in Tables : Live(t) = Rows(t) /\ \A x \in Live(t) : db[t][x] = scope.rows[x]
  <2>1. ASSUME NEW t \in Tables, NEW x \in Ids[t]
        PROVE  /\ x \in Live(t) <=> x \in Rows(t)
               /\ x \in Rows(t) => db[t][x] = scope.rows[x]
    <3>1. CASE x \in Rows(t)
      <4>1. scope.rows[x] \in Row[t]
        BY <1>0, <3>1, FirstRowsAssumption
      <4>2. db[t][x] = scope.rows[x]
        BY <1>0, <3>1
      <4> QED BY <3>1, <4>1, <4>2, AbsenceAssumption DEF Live, Absent
    <3>2. CASE x \notin Rows(t)
      BY <1>0, <3>2 DEF Live, Absent
    <3> QED BY <3>1, <3>2
  <2> QED BY <2>1, LiveIds
<1> HIDE DEF Rows
<1>2. DraftsUnnumbered
  <2>1. \A i \in Rows("invoice") :
           scope.rows[i].status = "draft" => scope.rows[i].number = None
    BY <1>0, FirstOrderAssumption DEF Rows
  <2> QED BY <1>1, <2>1, TheTables DEF DraftsUnnumbered, Unnumbered
<1>3. SeriesRunOn
  <2> SUFFICES ASSUME NEW s \in Series PROVE Run(s)
    BY DEF SeriesRunOn
  <2> DEFINE Issued == {i \in Rows("invoice") :
                          scope.rows[i].series = s /\ scope.rows[i].number # None}
  <2>1. IsFiniteSet(Issued) /\ {scope.rows[i].number : i \in Issued} = 1..Cardinality(Issued)
    BY <1>0, FirstOrderAssumption DEF Rows
  <2>2. \A i : i \in Numbered(s) <=> i \in Issued
    BY <1>1, NumberedMembers, TheTables
  <2>3. Numbered(s) = Issued
    BY <2>2
  <2>4. \A i \in Issued : db["invoice"][i].number = scope.rows[i].number
    BY <1>1, TheTables
  <2> HIDE DEF Issued
  <2>5. {db.invoice[i].number : i \in Numbered(s)} = {scope.rows[i].number : i \in Issued}
    BY <2>3, <2>4
  <2> QED BY <2>1, <2>3, <2>5 DEF Run
<1>4. Singles
  <2>1. \A t \in {"client", "supplier", "setting"} : \A x, y \in Rows(t) :
              scope.rows[x] = scope.rows[y] => x = y
    BY <1>0, FirstOrderAssumption DEF Rows
  <2> QED BY <1>1, <2>1, TheTables DEF Singles
<1> QED BY <1>0, <1>2, <1>3, <1>4 DEF OrderInv, InOrder, JudgedAll

LEMMA OrderHolds == Spec => [](BackInv /\ OrderInv)
<1>1. Init => BackInv /\ OrderInv
  BY StartsWell, StartsInOrder
<1>2. BackInv /\ OrderInv /\ [Next]_vars => (BackInv /\ OrderInv)'
  BY StepsKeep, StepsInOrder
<1> QED BY <1>1, <1>2, PTL DEF Spec

(* While requests come one at a time, and no invoice is written unchecked,   *)
(* the numbers of a series run on from 1, without a gap and without a pair,  *)
(* whatever is issued, cancelled, deleted or moved between series            *)
(* (setInvoiceSeriesNumber of invoice.service).                              *)
THEOREM NumbersAlwaysRunOn == Spec => []NumbersRunOn
<1>1. OrderInv => NumbersRunOn
  <2> SUFFICES ASSUME OrderInv, Orderly, AsJudged(Invoices), NEW s \in Live("series")
               PROVE  {db.invoice[i].number : i \in Numbered(s)} = 1..Cardinality(Numbered(s))
    BY DEF NumbersRunOn
  <2>1. s \in Series
    BY LiveIds, TheIds
  <2> QED BY <2>1 DEF OrderInv, InOrder, SeriesRunOn, Run
<1> QED BY <1>1, OrderHolds, PTL

(* While requests come one at a time no two clients, or suppliers, of an     *)
(* enterprise share a tax number and no setting of it has two rows, unless   *)
(* one of them, or the enterprise, was written unchecked, though no key of   *)
(* the database sees to it (assertNifIsUniqueForEnterprise, updateByKey of   *)
(* the settings), and whatever died half-way.                                *)
THEOREM OneRowStays == Spec => []OneRowOfEach
<1>1. OrderInv => OneRowOfEach
  BY DEF OrderInv, InOrder, Singles, OneRowOfEach
<1> QED BY <1>1, OrderHolds, PTL

(* The steps that write the tables.                                          *)
LEMMA OnlyExecutionsWrite ==
  ASSUME [Next]_vars
  PROVE  db' = db \/ \E w \in Workers : Execute(w)
  BY DEF Next, Begin, StoreAnswers, StoreRefuses, AnswerIsLost, Crash, vars

(* While requests come one at a time an issued invoice is not deleted and    *)
(* changes in its status alone, and the name of its series stays, unless a   *)
(* body has named it or its series past the check of the row addressed       *)
(* (create, updateById, updateStatusById and deleteById of invoice.service,  *)
(* updateById of invoice-series.service, the keys of invoice.entity).        *)
THEOREM IssuedInvoicesAreKept == Spec => IssuedInvoicesStay
<1> DEFINE Kept(i) == /\ db'.invoice[i] = [db.invoice[i] EXCEPT !.status = db'.invoice[i].status]
                      /\ db'.series[db.invoice[i].series].code = db.series[db.invoice[i].series].code
           A == Orderly => \A i \in Live("invoice") :
                   db.invoice[i].number # None /\ AsJudged({i, db.invoice[i].series}) => Kept(i)
<1>1. BackInv /\ OrderInv /\ [Next]_vars => A
  <2> SUFFICES ASSUME BackInv, OrderInv, [Next]_vars, Orderly, NEW i \in Live("invoice"),
                      db.invoice[i].number # None, AsJudged({i, db.invoice[i].series})
               PROVE  Kept(i)
    OBVIOUS
  <2>1. CASE db' = db
    <3>1. db.invoice[i] \in InvoiceRow
      BY InvoiceClients DEF BackInv, Ready
    <3> QED BY <2>1, <3>1 DEF InvoiceRow
  <2>2. ASSUME NEW w \in Workers, Execute(w) PROVE Kept(i)
    <3>1. Execution(Step(w)) /\ Judged(Step(w)) /\ Ready /\ DraftsUnnumbered
      BY <2>2, ExecutesInOrder DEF OrderInv, InOrder, BackInv
    <3> HIDE DEF Kept
    <3> QED BY <3>1, IssuedStays DEF Kept
  <2> QED BY <2>1, <2>2, OnlyExecutionsWrite
<1> QED BY <1>1, OrderHolds, PTL DEF Spec, IssuedInvoicesStay

(* While requests come one at a time no line of a received order or of a     *)
(* numbered invoice is added, lost or changed, save that it forgets an item  *)
(* that is deleted (assertOrderIsAwaitingReceipt, assertInvoiceIsDraft, and  *)
(* the keys of the line entities).                                           *)
THEOREM SettledLinesAreKept == Spec => SettledLinesStay
<1> DEFINE Kept(t, l) ==
             LET old == db[LineTable[t]][l]
                 new == db'[LineTable[t]][l]
             IN  IF l \in Live(LineTable[t])
                 THEN Settled(t, old.doc) => new \in {old, [old EXCEPT !.item = None]}
                 ELSE new \notin Absent => ~Settled(t, new.doc)
           A == Orderly => \A t \in DOMAIN LineTable : \A l \in Ids[LineTable[t]] : Kept(t, l)
<1>1. BackInv /\ OrderInv /\ [Next]_vars => A
  <2> SUFFICES ASSUME BackInv, OrderInv, [Next]_vars, Orderly, NEW t \in DOMAIN LineTable,
                      NEW l \in Ids[LineTable[t]]
               PROVE  Kept(t, l)
    OBVIOUS
  <2>1. CASE db' = db
    BY <2>1 DEF Live
  <2>2. ASSUME NEW w \in Workers, Execute(w) PROVE Kept(t, l)
    <3>1. Execution(Step(w)) /\ Judged(Step(w)) /\ Ready /\ DraftsUnnumbered
      BY <2>2, ExecutesInOrder DEF OrderInv, InOrder, BackInv
    <3> QED BY <3>1, SettledStay
  <2> QED BY <2>1, <2>2, OnlyExecutionsWrite
<1> QED BY <1>1, OrderHolds, PTL DEF Spec, SettledLinesStay

-----------------------------------------------------------------------------
(* Files and their rows.  A document is lost when it has not the file its    *)
(* row calls for, unless a request is about to put that right: one that      *)
(* uploads the file, or one that deletes the row without it.                 *)
Files(x) == {p \in store : p.id = x}

Does(w, do, t, x)  == Busy(w) /\ Step(w).do = do /\ Step(w).table = t /\ Step(w).id = x
Doing(do, t, x)    == \E w \in Workers : Does(w, do, t, x)
Filing(d)          == Doing("upload", "document", d)
DocumentDue(d)     == IF Doing("delete", "document", d) THEN {} ELSE DocumentFiles(d)
LosesDocument(d)   == ~Filing(d) /\ Files(d) # DocumentDue(d)
LostDocuments      == {d \in Documents \ excused : LosesDocument(d)}

(* What a worker that is about a document holds, and knows of it.            *)
Filed(d, p)    == d \in Live("document") => p = DocumentPath(db.document[d].client, d)
Handles(v, d)  == Does(v, "upload", "document", d) \/ Does(v, "delete", "document", d)
Mentions(v, d) == \E k \in DOMAIN request[v] :
                     request[v][k].table = "document" /\ request[v][k].id = d

NoDocument(h) == \A k \in DOMAIN h : h[k].table # "document"

Renames(w, d) == Born("document", d) /\ request[w] = <<Update("document", d, <<>>)>>
Drops(w, d)   == Born("document", d) /\ request[w] = <<Delete("document", d)>>

Takes(w, d, p) ==
  /\ Born("document", d) /\ p.id = d /\ Filed(d, p)
  /\ request[w] = <<Remove("document", p), Delete("document", d)>>

Makes(w, d, c, p) ==
  /\ d \in Documents /\ p.id = d /\ Born("client", c)
  /\ c \in Live("client") => p = DocumentPath(c, d)
  /\ request[w] = <<Insert("document", d, [client |-> c]), Upload("document", p, Rollback(d))>>
  /\ \A v \in Workers \ {w} : ~Mentions(v, d)

Fills(w, d, p) ==
  /\ Born("document", d) /\ p.id = d /\ Filed(d, p)
  /\ d \notin Live("document") => d \in excused
  /\ Files(d) = {}
  /\ request[w] = <<Upload("document", p, Rollback(d))>>
  /\ \A v \in Workers \ {w} : ~Handles(v, d)

DocumentPlan(w) ==
  \/ NoDocument(request[w])
  \/ \E d : Renames(w, d) \/ Drops(w, d)
  \/ \E d, p : Takes(w, d, p) \/ Fills(w, d, p)
  \/ \E d, c, p : Makes(w, d, c, p)

(* A folder is removed when its enterprise is gone.                          *)
NoFolder(h) == \A k \in DOMAIN h : h[k].do # "remove_folder"

FolderPlan(w) ==
  \/ NoFolder(request[w])
  \/ \E e : request[w] = <<Delete("enterprise", e), RemoveFolder("enterprise", e)>>
  \/ \E e : /\ Born("enterprise", e) /\ e \notin Live("enterprise")
            /\ request[w] = <<RemoveFolder("enterprise", e)>>

FilesFit ==
  /\ \A d \in Live("document") : Files(d) \subseteq DocumentFiles(d)
  /\ \A d \in Documents : ~Born("document", d) => Files(d) = {}

FilesInv == FilesFit /\ \A w \in Workers : DocumentPlan(w) /\ FolderPlan(w)

(* What places a document was checked.                                       *)
Sound == AsJudged(Enterprises \cup Clients \cup Documents)

LEMMA SoundRows ==
  ASSUME unchecked \subseteq unchecked', Sound'
  PROVE  Sound /\ \A t \in {"enterprise", "client", "document"} : \A x \in Ids[t] :
                      x \notin unchecked /\ Plain(t, x)'
BY TheIds DEF Sound, AsJudged, Plain

(* Nothing hangs from a document or a spent.                                 *)
LEMMA NothingHangs ==
  ASSUME NEW t \in {"document", "spent"}, NEW x
  PROVE  GoneWith(t, x) = {<<t, x>>} /\ \A after : NamingAny(after, GoneWith(t, x)) = {}
<1>1. \A k \in ForeignKeys : k.parent # t
  BY EnterpriseKeyParts, LineKeyParts, SaleKeyParts, OtherKeyParts DEF Parts, ForeignKeys
<1>2. ASSUME NEW after PROVE NamingAny(after, {<<t, x>>}) = {}
  <2> SUFFICES ASSUME NEW p \in NamingAny(after, {<<t, x>>}) PROVE FALSE
    OBVIOUS
  <2>1. PICK u, y : p = <<u, y>> /\ Hangs(after, {<<t, x>>}, u, y)
    BY NamingPairs
  <2> QED BY <2>1, <1>1 DEF Hangs
<1>3. Cascade({<<t, x>>}) = {<<t, x>>}
  BY <1>2 DEF Cascade
<1> QED BY <1>2, <1>3 DEF GoneWith

(* No key keeps a document or a spent from being deleted.                    *)
LEMMA LeavesAreDeleted ==
  ASSUME NEW t \in {"document", "spent"}, NEW x \in Live(t)
  PROVE  Accepted(Delete(t, x))
<1>1. Delete(t, x).do = "delete" /\ Delete(t, x).table = t /\ Delete(t, x).id = x
  BY DEF Delete
<1>2. NamingAny("refuse", GoneWith(t, x)) \subseteq GoneWith(t, x)
  BY NothingHangs
<1> QED BY <1>1, <1>2 DEF Accepted

(* A document goes by its own deletion or with its client.                   *)
LEMMA DocumentsGo ==
  ASSUME NEW t, NEW x, NEW d, <<"document", d>> \in GoneWith(t, x), <<"document", d>> # <<t, x>>
  PROVE  t = "client"
<1>1. PICK k \in ForeignKeys :
         /\ k.after = "cascade" /\ k.table = "document" /\ d \in Live("document")
         /\ <<k.parent, db["document"][d][k.column]>> \in GoneWith(t, x)
  BY GoneWithParent
<1>2. k.parent = "client"
  BY <1>1, EnterpriseKeyParts, LineKeyParts, SaleKeyParts, OtherKeyParts DEF Parts, ForeignKeys
<1> QED BY <1>1, <1>2, OnlyItself

-----------------------------------------------------------------------------
(* What handlers send says which document, or which folder, it is about.     *)
LEMMA QueueTables ==
  ASSUME NEW t, NEW h, Queue(h, t), NEW k \in DOMAIN h
  PROVE  /\ h[k].table \in {t, "setting"}
         /\ t # "enterprise" => h[k].do # "remove_folder"
<1>1. ASSUME NEW u, NEW a, Asked(a, u)
      PROVE  a.table = u /\ (u # "enterprise" => a.do # "remove_folder")
  BY <1>1 DEF Asked, Sent, OnFile, Writing
<1>2. ASSUME NEW a, Sent(a, "setting") PROVE a.table = "setting"
  BY <1>2 DEF Sent
<1>3. CASE \E a : h = <<a>> /\ Asked(a, t)
  BY <1>1, <1>3, OneOrTwo
<1>4. CASE \E a, b : h = <<a, b>> /\ Asked(a, t) /\ Asked(b, t)
  BY <1>1, <1>4, OneOrTwo
<1>5. CASE \E a, b : h = <<a, b>> /\ Asked(a, t) /\ t = "enterprise" /\ Sent(b, "setting")
  BY <1>1, <1>2, <1>5, OneOrTwo
<1> QED BY <1>3, <1>4, <1>5 DEF Queue

(* The steps on files, column by column.                                     *)
LEMMA StatementColumns ==
  /\ \A t, x, r : /\ Insert(t, x, r).do = "insert" /\ Insert(t, x, r).table = t
                  /\ Insert(t, x, r).id = x /\ Insert(t, x, r).set = r
                  /\ Update(t, x, r).do = "update" /\ Update(t, x, r).table = t
                  /\ Update(t, x, r).id = x /\ Update(t, x, r).set = r
  /\ \A t, x : Delete(t, x).do = "delete" /\ Delete(t, x).table = t /\ Delete(t, x).id = x
BY DEF Insert, Update, Delete

LEMMA StepColumns ==
  /\ \A t, p, u : /\ Upload(t, p, u).do = "upload" /\ Upload(t, p, u).table = t
                  /\ Upload(t, p, u).id = p.id /\ Upload(t, p, u).path = p
                  /\ Upload(t, p, u).undo = u
  /\ \A t, p : /\ Remove(t, p).do = "remove" /\ Remove(t, p).table = t
               /\ Remove(t, p).id = p.id /\ Remove(t, p).path = p
               /\ Remove(t, p).undo = <<>>
  /\ \A t, e : /\ RemoveFolder(t, e).do = "remove_folder" /\ RemoveFolder(t, e).table = t
               /\ RemoveFolder(t, e).id = e /\ RemoveFolder(t, e).undo = <<>>
<1>1. /\ \A t, p, u : /\ Upload(t, p, u).do = "upload" /\ Upload(t, p, u).table = t
                      /\ Upload(t, p, u).id = p.id /\ Upload(t, p, u).path = p
                      /\ Upload(t, p, u).undo = u
  BY DEF Upload
<1>2. /\ \A t, p : /\ Remove(t, p).do = "remove" /\ Remove(t, p).table = t
                   /\ Remove(t, p).id = p.id /\ Remove(t, p).path = p
                   /\ Remove(t, p).undo = <<>>
  BY DEF Remove
<1>3. /\ \A t, e : /\ RemoveFolder(t, e).do = "remove_folder" /\ RemoveFolder(t, e).table = t
                   /\ RemoveFolder(t, e).id = e /\ RemoveFolder(t, e).undo = <<>>
  BY DEF RemoveFolder
<1> QED BY <1>1, <1>2, <1>3

(* What the handlers of documents, and of enterprises, send.                 *)
LEMMA DocumentForms ==
  /\ \A h \in CreateDocument : \E c \in Live("client"), d \in Fresh("document") :
        h = <<Insert("document", d, [client |-> c]),
              Upload("document", DocumentPath(c, d), Rollback(d))>>
  /\ \A h \in UpdateDocument : \E d \in Live("document") : h = <<Update("document", d, <<>>)>>
  /\ \A h \in DeleteDocument : \E d \in Live("document") :
        h = <<Remove("document", DocumentPath(db.document[d].client, d)), Delete("document", d)>>
<1>1. \A h \in CreateDocument : \E c \in Live("client"), d \in Fresh("document") :
        h = <<Insert("document", d, [client |-> c]),
              Upload("document", DocumentPath(c, d), Rollback(d))>>
  BY DEF CreateDocument
<1>2. \A h \in UpdateDocument : \E d \in Live("document") : h = <<Update("document", d, <<>>)>>
  BY DEF UpdateDocument
<1>3. \A h \in DeleteDocument : \E d \in Live("document") :
        h = <<Remove("document", DocumentPath(db.document[d].client, d)), Delete("document", d)>>
  BY DEF DeleteDocument
<1> QED BY <1>1, <1>2, <1>3

LEMMA EnterpriseForms ==
  /\ \A h \in CreateEnterprise :
        \E a, b : h = <<a, b>> /\ a.do \in {"insert", "overwrite"} /\ b.do = "insert"
  /\ \A h \in UpdateEnterprise : \E a : h = <<a>> /\ a.do \in {"update", "overwrite"}
  /\ \A h \in CreateLogo : \E a, b : h = <<a, b>> /\ a.do = "upload" /\ b.do = "update"
  /\ \A h \in DeleteEnterprise :
        \E e : h = <<Delete("enterprise", e), RemoveFolder("enterprise", e)>>
<1>1. ASSUME NEW h \in CreateEnterprise
      PROVE  \E a, b : h = <<a, b>> /\ a.do \in {"insert", "overwrite"} /\ b.do = "insert"
  <2> DEFINE Free == {m \in Nifs : EnterprisesWith(m) = {}}
             two(e, x, n) == <<Insert("enterprise", e, [nif |-> n, logo |-> FALSE]),
                               Insert("setting", x, [ent |-> e])>>
             Bodies == AsNamed("enterprise", [nif : Free, logo : BOOLEAN])
             then(q, x) == <<q, Insert("setting", x, [ent |-> q.id])>>
  <2>1. \A q \in Bodies : q.do = "overwrite"
    BY NamedForms
  <2>2. CreateEnterprise = {two(e, x, n) : e \in Fresh("enterprise"), x \in Fresh("setting"), n \in Free}
                             \cup {then(q, x) : q \in Bodies, x \in Fresh("setting")}
    BY DEF CreateEnterprise
  <2> HIDE DEF Free, two, Bodies, then
  <2>3. (\E e, x, n : h = two(e, x, n)) \/ (\E q \in Bodies : \E x : h = then(q, x))
    BY <2>2
  <2>4. ASSUME NEW e, NEW x, NEW n, h = two(e, x, n)
        PROVE  \E a, b : h = <<a, b>> /\ a.do \in {"insert", "overwrite"} /\ b.do = "insert"
    BY <2>4, StatementColumns DEF two
  <2>5. ASSUME NEW q \in Bodies, NEW x, h = then(q, x)
        PROVE  \E a, b : h = <<a, b>> /\ a.do \in {"insert", "overwrite"} /\ b.do = "insert"
    BY <2>1, <2>5, StatementColumns DEF then
  <2> QED BY <2>3, <2>4, <2>5
<1>2. ASSUME NEW h \in UpdateEnterprise
      PROVE  \E a : h = <<a>> /\ a.do \in {"update", "overwrite"}
  <2>1. PICK e \in Live("enterprise"), n \in Nifs :
           \E q \in Edited("enterprise", e, [nif |-> n]) : h = <<q>>
    BY DEF UpdateEnterprise
  <2> QED BY <2>1, EditedForms, StatementColumns
<1>3. ASSUME NEW h \in CreateLogo PROVE \E a, b : h = <<a, b>> /\ a.do = "upload" /\ b.do = "update"
  <2>1. PICK e \in Live("enterprise") :
           h = <<Upload("enterprise", LogoPath(e), <<>>),
                 Update("enterprise", e, [db.enterprise[e] EXCEPT !.logo = TRUE])>>
    BY DEF CreateLogo
  <2> QED BY <2>1, StatementColumns, StepColumns
<1>4. ASSUME NEW h \in DeleteEnterprise
      PROVE  \E e : h = <<Delete("enterprise", e), RemoveFolder("enterprise", e)>>
  BY DEF DeleteEnterprise
<1> QED BY <1>1, <1>2, <1>3, <1>4

(* What is begun is one of the plans.                                        *)
LEMMA DocumentPlanned ==
  ASSUME BackInv, NEW w \in Workers, db' = db, store' = store,
         NEW h \in CreateDocument \cup UpdateDocument \cup DeleteDocument,
         request' = [request EXCEPT ![w] = h]
  PROVE  DocumentPlan(w)' /\ Head(h).do \notin {"upload", "delete"}
<1>0. Whole /\ RefsLive /\ request'[w] = h /\ \A v \in Workers \ {w} : request'[v] = request[v]
  BY DEF BackInv, Ready, AllWait
<1>1. CASE h \in CreateDocument
  <2>1. PICK c \in Live("client"), d \in Fresh("document") :
           h = <<Insert("document", d, [client |-> c]),
                 Upload("document", DocumentPath(c, d), Rollback(d))>>
    BY <1>1, DocumentForms
  <2>2. d \in Documents /\ Born("client", c)
    BY FreshIds, LiveIds, TheIds DEF Born
  <2>3. \A v \in Workers \ {w} : ~Mentions(v, d)
    BY <2>1 DEF Fresh, Mentions
  <2>4. DocumentPath(c, d).id = d /\ DocumentPath(c, d)' = DocumentPath(c, d)
    BY DEF DocumentPath, Path
  <2>5. Makes(w, d, c, DocumentPath(c, d))'
    <3>1. \A v \in Workers \ {w} : ~Mentions(v, d)'
      BY <1>0, <2>3 DEF Mentions
    <3>2. Born("client", c)'
      BY <2>2 DEF Born
    <3> QED BY <1>0, <2>1, <2>2, <2>4, <3>1, <3>2 DEF Makes
  <2>6. Head(h).do = "insert"
    BY <2>1, OneOrTwo, StatementColumns, StepColumns
  <2> QED BY <2>5, <2>6 DEF DocumentPlan
<1>2. CASE h \in UpdateDocument
  <2>1. PICK d \in Live("document") : h = <<Update("document", d, <<>>)>>
    BY <1>2, DocumentForms
  <2>2. Renames(w, d)'
    BY <1>0, <2>1, LiveIds DEF Renames, Born
  <2>3. Head(h).do = "update"
    BY <2>1, OneOrTwo, StatementColumns, StepColumns
  <2> QED BY <2>2, <2>3 DEF DocumentPlan
<1>3. CASE h \in DeleteDocument
  <2>1. PICK d \in Live("document") :
           h = <<Remove("document", DocumentPath(db.document[d].client, d)), Delete("document", d)>>
    BY <1>3, DocumentForms
  <2>2. PICK p : p = DocumentPath(db.document[d].client, d)
    OBVIOUS
  <2>3. p.id = d
    BY <2>2 DEF DocumentPath, Path
  <2>4. DocumentPath(db.document[d].client, d)' = p
    BY <2>2 DEF DocumentPath
  <2>5. Takes(w, d, p)'
    BY <1>0, <2>1, <2>2, <2>3, <2>4, LiveIds DEF Takes, Born, Filed
  <2>6. Head(h).do = "remove"
    BY <2>1, OneOrTwo, StatementColumns, StepColumns
  <2> QED BY <2>5, <2>6 DEF DocumentPlan
<1> QED BY <1>1, <1>2, <1>3

LEMMA FolderPlanned ==
  ASSUME BackInv, NEW t \in Tables, NEW h \in HandlersOf(t), Queue(h, t)
  PROVE  NoFolder(h) \/ \E e : h = <<Delete("enterprise", e), RemoveFolder("enterprise", e)>>
<1>1. CASE t # "enterprise"
  BY <1>1, QueueTables DEF NoFolder
<1>2. CASE t = "enterprise"
  <2>0. h \in CreateEnterprise \cup UpdateEnterprise \cup CreateLogo \cup DeleteEnterprise
    BY <1>2 DEF HandlersOf
  <2>1. CASE h \in CreateEnterprise \cup CreateLogo
    <3>1. PICK a, b : h = <<a, b>> /\ a.do # "remove_folder" /\ b.do # "remove_folder"
      BY <2>1, EnterpriseForms
    <3> QED BY <3>1, OneOrTwo DEF NoFolder
  <2>2. CASE h \in UpdateEnterprise
    <3>1. PICK a : h = <<a>> /\ a.do \in {"update", "overwrite"}
      BY <2>2, EnterpriseForms
    <3> QED BY <3>1, OneOrTwo DEF NoFolder
  <2>3. CASE h \in DeleteEnterprise
    BY <2>3, EnterpriseForms
  <2> QED BY <2>0, <2>1, <2>2, <2>3
<1> QED BY <1>1, <1>2

-----------------------------------------------------------------------------
(* A worker's plan, and the steps of the others.                             *)
LEMMA PlanSteps ==
  ASSUME NEW w
  PROVE  /\ \A d : Renames(w, d) => /\ request[w] # <<>> /\ Tail(request[w]) = <<>>
                                    /\ Step(w) = Update("document", d, <<>>)
         /\ \A d : Drops(w, d) => /\ request[w] # <<>> /\ Tail(request[w]) = <<>>
                                  /\ Step(w) = Delete("document", d)
         /\ \A d, p : Takes(w, d, p) =>
               /\ request[w] # <<>> /\ Tail(request[w]) = <<Delete("document", d)>>
               /\ Step(w) = Remove("document", p)
         /\ \A d, p : Fills(w, d, p) =>
               /\ request[w] # <<>> /\ Tail(request[w]) = <<>>
               /\ Step(w) = Upload("document", p, Rollback(d))
         /\ \A d, c, p : Makes(w, d, c, p) =>
               /\ request[w] # <<>>
               /\ Tail(request[w]) = <<Upload("document", p, Rollback(d))>>
               /\ Step(w) = Insert("document", d, [client |-> c])
<1>1. ASSUME NEW a, request[w] = <<a>>
      PROVE  request[w] # <<>> /\ Tail(request[w]) = <<>> /\ Step(w) = a
  BY <1>1, OneOrTwo DEF Step
<1>2. ASSUME NEW a, NEW b, request[w] = <<a, b>>
      PROVE  request[w] # <<>> /\ Tail(request[w]) = <<b>> /\ Step(w) = a
  BY <1>2, OneOrTwo DEF Step
<1>3. ASSUME NEW d, Renames(w, d)
      PROVE  /\ request[w] # <<>> /\ Tail(request[w]) = <<>>
             /\ Step(w) = Update("document", d, <<>>)
  BY <1>1, <1>3 DEF Renames
<1>4. ASSUME NEW d, Drops(w, d)
      PROVE  /\ request[w] # <<>> /\ Tail(request[w]) = <<>>
             /\ Step(w) = Delete("document", d)
  BY <1>1, <1>4 DEF Drops
<1>5. ASSUME NEW d, NEW p, Takes(w, d, p)
      PROVE  /\ request[w] # <<>> /\ Tail(request[w]) = <<Delete("document", d)>>
             /\ Step(w) = Remove("document", p)
  BY <1>2, <1>5 DEF Takes
<1>6. ASSUME NEW d, NEW p, Fills(w, d, p)
      PROVE  /\ request[w] # <<>> /\ Tail(request[w]) = <<>>
             /\ Step(w) = Upload("document", p, Rollback(d))
  BY <1>1, <1>6 DEF Fills
<1>7. ASSUME NEW d, NEW c, NEW p, Makes(w, d, c, p)
      PROVE  /\ request[w] # <<>>
             /\ Tail(request[w]) = <<Upload("document", p, Rollback(d))>>
             /\ Step(w) = Insert("document", d, [client |-> c])
  BY <1>2, <1>7 DEF Makes
<1> QED BY <1>3, <1>4, <1>5, <1>6, <1>7

LEMMA HeldSteps ==
  ASSUME BackInv, NEW w \in Workers, request[w] # <<>>
  PROVE  /\ Pending(Step(w)) /\ 1 \in DOMAIN request[w] /\ request[w][1] = Step(w)
         /\ Step(w).table \in Tables /\ Step(w).id \in Ids[Step(w).table]
         /\ NoDocument(request[w]) => Step(w).table # "document"
         /\ NoFolder(request[w]) => Step(w).do # "remove_folder"
BY BusyWaits DEF BackInv, AllWait, NoDocument, NoFolder, Pending, Waiting, Typed

LEMMA PathStands ==
  ASSUME Steady, Sound', NEW c, Born("client", c), c \in Live("client")', NEW d
  PROVE  c \in Live("client") /\ DocumentPath(c, d)' = DocumentPath(c, d)
<1>1. "client" \in Tables \ {"spent"} /\ "client" \in Owned
  BY TheTables DEF Owned
<1>2. Plain("client", c)'
  BY SoundRows DEF Steady, Born
<1>3. c \in Live("client")
  BY <1>1, <1>2 DEF Steady, Born
<1> QED BY <1>1, <1>2, <1>3 DEF Steady, DocumentPath, Path

LEMMA DocumentStands ==
  ASSUME Ready, Ready', Steady, Sound', NEW d \in Live("document"), d \in Live("document")',
         db'["document"][d] = db["document"][d]
  PROVE  /\ DocumentPath(db.document[d].client, d)' = DocumentPath(db.document[d].client, d)
         /\ DocumentFiles(d)' = DocumentFiles(d)
<1>0. PICK c : c = db["document"][d].client
  OBVIOUS
<1>1. c \in Live("client") /\ c # None
  BY <1>0, FiledRows, LiveIds, AbsenceAssumption, TheTables DEF Ready
<1>2. \E k \in ForeignKeys : Parts(k, "document", "client", "client", "cascade")
  BY KeyParts DEF ForeignKeys, SaleKeys
<1>3. c \in Live("client")'
  BY <1>0, <1>1, <1>2, ParentsAfter DEF Ready
<1>4. Born("client", c)
  BY <1>1, LiveIds DEF Born
<1>5. DocumentPath(c, d)' = DocumentPath(c, d)
  BY <1>3, <1>4, PathStands
<1>6. DocumentPath(db.document[d].client, d)' = DocumentPath(db.document[d].client, d)
  BY <1>0, <1>5 DEF DocumentPath
<1> QED BY <1>6 DEF DocumentFiles

(* What a step of w does to the documents of the others.                     *)
RowsOfDocumentsStay(w) ==
  \A d \in Documents :
     /\ Born("document", d) /\ d \in Live("document")' =>
           d \in Live("document") /\ db'["document"][d] = db["document"][d]
     /\ d \in Live("document") /\ d \notin Live("document")' =>
           d \in excused' \/ Does(w, "delete", "document", d)

PlansStayApart(w) ==
  \A d \in Documents :
     /\ Mentions(w, d)' =>
           \/ Mentions(w, d) \/ Born("document", d)
           \/ \A u \in Workers \ {w} : ~Mentions(u, d)
     /\ Handles(w, d)' => Handles(w, d) \/ ~Born("document", d) \/ Files(d) # {}
     /\ Files(d) = {} => Files(d)' = {} \/ Handles(w, d)

LEMMA PlansStay ==
  ASSUME BackInv, Ready', Steady, Sound', NEW w \in Workers,
         RowsOfDocumentsStay(w), PlansStayApart(w),
         NEW v \in Workers \ {w}, \A u \in Workers \ {w} : request'[u] = request[u],
         DocumentPlan(v), FolderPlan(v)
  PROVE  DocumentPlan(v)' /\ FolderPlan(v)'
<1>0. request'[v] = request[v] /\ Documents = Ids["document"] /\ Ready
  BY TheIds DEF BackInv
<1>1. /\ \A d : Born("document", d) => Born("document", d)' /\ d \in Documents
      /\ \A c : Born("client", c) => Born("client", c)'
      /\ \A e : Born("enterprise", e) /\ e \notin Live("enterprise")
                   => Born("enterprise", e)' /\ e \notin Live("enterprise")'
  <2>1. \A e \in Ids["enterprise"] : Plain("enterprise", e)'
    BY SoundRows DEF Steady
  <2> QED BY <1>0, <2>1, TheTables DEF Steady, Born
<1>2. ASSUME NEW d, NEW p, Born("document", d), Filed(d, p) PROVE Filed(d, p)'
  <2> SUFFICES ASSUME d \in Live("document")' PROVE p = DocumentPath(db.document[d].client, d)'
    BY DEF Filed
  <2>1. d \in Live("document") /\ db'["document"][d] = db["document"][d]
    BY <1>1, <1>2 DEF RowsOfDocumentsStay
  <2> QED BY <1>0, <1>2, <2>1, DocumentStands DEF Filed
<1>3. FolderPlan(v)'
  <2>1. CASE NoFolder(request[v])
    BY <1>0, <2>1 DEF FolderPlan
  <2>2. ASSUME NEW e, request[v] = <<Delete("enterprise", e), RemoveFolder("enterprise", e)>>
        PROVE  FolderPlan(v)'
    BY <1>0, <2>2 DEF FolderPlan
  <2>3. ASSUME NEW e, Born("enterprise", e), e \notin Live("enterprise"),
               request[v] = <<RemoveFolder("enterprise", e)>>
        PROVE  FolderPlan(v)'
    BY <1>0, <1>1, <2>3 DEF FolderPlan
  <2> QED BY <2>1, <2>2, <2>3 DEF FolderPlan
<1>4. ASSUME NoDocument(request[v]) PROVE DocumentPlan(v)'
  BY <1>0, <1>4 DEF DocumentPlan
<1>5. ASSUME NEW d, Renames(v, d) \/ Drops(v, d) PROVE DocumentPlan(v)'
  <2>1. Renames(v, d)' \/ Drops(v, d)'
    BY <1>0, <1>1, <1>5 DEF Renames, Drops
  <2> QED BY <2>1 DEF DocumentPlan
<1>6. ASSUME NEW d, NEW p, Takes(v, d, p) PROVE DocumentPlan(v)'
  <2>1. Takes(v, d, p)'
    BY <1>0, <1>1, <1>2, <1>6 DEF Takes
  <2> QED BY <2>1 DEF DocumentPlan
<1>7. ASSUME NEW d, NEW p, Fills(v, d, p) PROVE DocumentPlan(v)'
  <2>1. d \in Documents /\ ~Handles(w, d) /\ \A u \in Workers \ {v} : ~Handles(u, d)
    BY <1>1, <1>7 DEF Fills
  <2>2. d \notin Live("document")' => d \in excused'
    BY <1>7, <2>1 DEF Fills, RowsOfDocumentsStay, Handles, Steady
  <2>3. Files(d)' = {}
    BY <1>7, <2>1 DEF Fills, PlansStayApart
  <2>4. \A u \in Workers \ {v} : ~Handles(u, d)'
    <3>1. ~Handles(w, d)'
      BY <1>7, <2>1 DEF Fills, PlansStayApart
    <3>2. \A u \in Workers \ {w} : Handles(u, d)' <=> Handles(u, d)
      BY DEF Handles, Does, Busy, Step
    <3> QED BY <2>1, <3>1, <3>2
  <2>5. Fills(v, d, p)'
    BY <1>0, <1>1, <1>2, <1>7, <2>2, <2>3, <2>4 DEF Fills
  <2> QED BY <2>5 DEF DocumentPlan
<1>8. ASSUME NEW d, NEW c, NEW p, Makes(v, d, c, p) PROVE DocumentPlan(v)'
  <2>1. d \in Documents /\ \A u \in Workers \ {v} : ~Mentions(u, d)
    BY <1>8 DEF Makes
  <2>2. ~Born("document", d) /\ Mentions(v, d)
    <3>1. Step(v) = Insert("document", d, [client |-> c]) /\ request[v] # <<>>
      BY <1>8, PlanSteps
    <3>2. Pending(Step(v)) /\ 1 \in DOMAIN request[v] /\ request[v][1] = Step(v)
      BY <3>1, HeldSteps
    <3> QED BY <3>1, <3>2, StatementColumns DEF Pending, Waiting, Born, Mentions
  <2>3. \A u \in Workers \ {v} : ~Mentions(u, d)'
    <3>1. ~Mentions(w, d)'
      BY <2>1, <2>2 DEF PlansStayApart
    <3>2. \A u \in Workers \ {w} : Mentions(u, d)' <=> Mentions(u, d)
      BY DEF Mentions
    <3> QED BY <2>1, <3>1, <3>2
  <2>4. c \in Live("client")' => p = DocumentPath(c, d)'
    BY <1>8, PathStands DEF Makes
  <2>5. Makes(v, d, c, p)'
    BY <1>0, <1>1, <1>8, <2>1, <2>3, <2>4 DEF Makes
  <2> QED BY <2>5 DEF DocumentPlan
<1> QED BY <1>3, <1>4, <1>5, <1>6, <1>7, <1>8 DEF DocumentPlan


-----------------------------------------------------------------------------
(* One worker's step, and what it leaves of the others and of the files.     *)
LEMMA PlansAfter ==
  ASSUME BackInv, FilesInv, Ready', Steady, Sound', NEW w \in Workers,
         RowsOfDocumentsStay(w), PlansStayApart(w),
         \A u \in Workers \ {w} : request'[u] = request[u],
         DocumentPlan(w)', FolderPlan(w)', FilesFit'
  PROVE  FilesInv'
<1>1. ASSUME NEW v \in Workers PROVE DocumentPlan(v)' /\ FolderPlan(v)'
  <2>1. CASE v = w
    BY <2>1
  <2>2. CASE v # w
    <3>1. v \in Workers \ {w} /\ DocumentPlan(v) /\ FolderPlan(v)
      BY <2>2 DEF FilesInv
    <3> QED BY <3>1, PlansStay
  <2> QED BY <2>1, <2>2
<1> QED BY <1>1 DEF FilesInv

LEMMA StepsAside ==
  ASSUME NEW w \in Workers, NEW d, \A u \in Workers \ {w} : request'[u] = request[u],
         ~Handles(w, d), ~Handles(w, d)', Files(d)' = Files(d),
         DocumentFiles(d)' = DocumentFiles(d), LosesDocument(d)'
  PROVE  LosesDocument(d)
<1>1. \A u \in Workers : Handles(u, d)' <=> Handles(u, d)
  <2>1. \A u \in Workers \ {w} : Handles(u, d)' <=> Handles(u, d)
    BY DEF Handles, Does, Busy, Step
  <2> QED BY <2>1
<1>2. \A u \in Workers : /\ Does(u, "upload", "document", d)' <=> Does(u, "upload", "document", d)
                         /\ Does(u, "delete", "document", d)' <=> Does(u, "delete", "document", d)
  <2>1. \A u \in Workers \ {w} :
            /\ Does(u, "upload", "document", d)' <=> Does(u, "upload", "document", d)
            /\ Does(u, "delete", "document", d)' <=> Does(u, "delete", "document", d)
    BY DEF Does, Busy, Step
  <2> QED BY <2>1 DEF Handles
<1>3. (Filing(d)' <=> Filing(d))
      /\ (Doing("delete", "document", d)' <=> Doing("delete", "document", d))
  BY <1>2 DEF Filing, Doing
<1> QED BY <1>3 DEF LosesDocument, DocumentDue

(* The plan of a worker whose step is about a document, and of any other.    *)
LEMMA PlanTables ==
  ASSUME BackInv, NEW w \in Workers, request[w] # <<>>, DocumentPlan(w)
  PROVE  /\ Step(w).table # "document" => NoDocument(request[w])
         /\ Step(w).table = "document" =>
               \/ \E d : Renames(w, d) \/ Drops(w, d)
               \/ \E d, p : Takes(w, d, p) \/ Fills(w, d, p)
               \/ \E d, c, p : Makes(w, d, c, p)
<1>1. ASSUME NEW d, Renames(w, d) \/ Drops(w, d) PROVE Step(w).table = "document"
  BY <1>1, PlanSteps, StatementColumns
<1>2. ASSUME NEW d, NEW p, Takes(w, d, p) \/ Fills(w, d, p) PROVE Step(w).table = "document"
  BY <1>2, PlanSteps, StepColumns
<1>3. ASSUME NEW d, NEW c, NEW p, Makes(w, d, c, p) PROVE Step(w).table = "document"
  <2>1. Step(w) = Insert("document", d, [client |-> c])
    BY <1>3, PlanSteps
  <2> QED BY <2>1, StatementColumns
<1>4. NoDocument(request[w]) => Step(w).table # "document"
  BY HeldSteps
<1> QED BY <1>1, <1>2, <1>3, <1>4 DEF DocumentPlan

(* What a worker is about it holds.                                          *)
LEMMA HandledIsMentioned ==
  ASSUME BackInv, NEW v \in Workers, NEW d, Handles(v, d)
  PROVE  Mentions(v, d)
<1>1. request[v] # <<>> /\ Step(v).table = "document" /\ Step(v).id = d
  BY DEF Handles, Does, Busy
<1> QED BY <1>1, HeldSteps DEF Mentions

LEMMA TailPlans ==
  ASSUME BackInv, NEW w \in Workers, request[w] # <<>>
  PROVE  /\ \A k \in DOMAIN Tail(request[w]) :
               k = 1 /\ \E j \in DOMAIN request[w] : request[w][j] = Tail(request[w])[k]
         /\ NoDocument(request[w]) => NoDocument(Tail(request[w]))
         /\ NoFolder(request[w]) => NoFolder(Tail(request[w]))
<1>1. \/ Tail(request[w]) = <<>>
      \/ \E b : /\ Tail(request[w]) = <<b>>
                /\ 2 \in DOMAIN request[w] /\ request[w][2] = b
  BY BusyWaits DEF BackInv, AllWait
<1>2. \A k \in DOMAIN Tail(request[w]) :
         k = 1 /\ \E j \in DOMAIN request[w] : request[w][j] = Tail(request[w])[k]
  BY <1>1, OneOrTwo
<1> QED BY <1>2 DEF NoDocument, NoFolder

-----------------------------------------------------------------------------
(* A request that begins is about documents of its own, or about none that   *)
(* others are about to make.                                                 *)
LEMMA PlanMentions ==
  ASSUME NEW w \in Workers, NEW d, DocumentPlan(w)', Mentions(w, d)'
  PROVE  Born("document", d)' \/ \A u \in Workers \ {w} : ~Mentions(u, d)'
<1>1. PICK k \in DOMAIN request'[w] :
         request'[w][k].table = "document" /\ request'[w][k].id = d
  BY DEF Mentions
<1>2. ~NoDocument(request[w])'
  BY <1>1 DEF NoDocument
<1>3. ASSUME NEW x, Renames(w, x)' \/ Drops(w, x)' PROVE Born("document", d)'
  <2>1. Born("document", x)' /\ request'[w] \in {<<Update("document", x, <<>>)>>, <<Delete("document", x)>>}
    BY <1>3 DEF Renames, Drops
  <2>2. d = x
    BY <1>1, <2>1, OneOrTwo, StatementColumns
  <2> QED BY <2>1, <2>2
<1>4. ASSUME NEW x, NEW p, Takes(w, x, p)' \/ Fills(w, x, p)' PROVE Born("document", d)'
  <2>1. /\ Born("document", x)' /\ p.id = x
        /\ request'[w] \in {<<Remove("document", p), Delete("document", x)>>,
                            <<Upload("document", p, Rollback(x))>>}
    BY <1>4 DEF Takes, Fills, Rollback
  <2>2. d = x
    BY <1>1, <2>1, OneOrTwo, StatementColumns, StepColumns
  <2> QED BY <2>1, <2>2
<1>5. ASSUME NEW x, NEW c, NEW p, Makes(w, x, c, p)'
      PROVE  \A u \in Workers \ {w} : ~Mentions(u, d)'
  <2>1. /\ p.id = x /\ \A u \in Workers \ {w} : ~Mentions(u, x)'
        /\ request'[w] = <<Insert("document", x, [client |-> c]),
                           Upload("document", p, Rollback(x))>>
    BY <1>5 DEF Makes, Rollback
  <2>2. d = x
    BY <1>1, <2>1, OneOrTwo, StatementColumns, StepColumns
  <2> QED BY <2>1, <2>2
<1> QED BY <1>2, <1>3, <1>4, <1>5 DEF DocumentPlan

(* A request that begins loses no document.                                  *)
LEMMA RelinkedIds ==
  ASSUME NEW t, NEW q \in Relinked(t)
  PROVE  q.id \in Live(t) /\ (t = "spent" => "file" \notin DOMAIN q.set)
<1>1. PICK k \in Collections : /\ k.table = t
                              /\ \E x \in Nameable(t) \cap Live(t), v \in Named(k) :
                                    q = Relink(t, x, k.column, v)
  BY DEF Relinked
<1>2. \E x \in Live(t) : \E v \in Named(k) : q = Relink(t, x, k.column, v)
  BY <1>1
<1>4. PICK x \in Live(t) : \E v \in Named(k) : q = Relink(t, x, k.column, v)
  BY <1>2
<1>5. PICK v \in Named(k) : q = Relink(t, x, k.column, v)
  BY <1>4
<1>3. t = "spent" => k.column # "file"
  BY <1>1, SaleKeyParts, OtherKeyParts DEF Parts, Collections
<1> QED BY <1>3, <1>4, <1>5 DEF Relink

LEMMA BeginsOnFiles ==
  ASSUME BackInv, FilesInv, NEW w \in Workers, Begin(w), Sound'
  PROVE  FilesInv' /\ LostDocuments' \subseteq LostDocuments
<1>1. PICK t \in scope.writes : \E h \in HandlersOf(t) :
          /\ WithinBound(h) /\ Goes(w, h)
          /\ excused' = excused \cup ByHand(Head(h))
          /\ unchecked' = unchecked \cup PastItsHandler(Head(h))
  BY DEF Begin
<1>2. PICK h \in HandlersOf(t) :
          /\ WithinBound(h) /\ Goes(w, h)
          /\ excused' = excused \cup ByHand(Head(h))
          /\ unchecked' = unchecked \cup PastItsHandler(Head(h))
  BY <1>1
<1>3. t \in Tables /\ Ready
  BY BackOfficeAssumption DEF BackInv, Counted
<1>4. Queue(h, t)
  BY <1>2, <1>3, HandlersSendQueues
<1>5. /\ db' = db /\ store' = store /\ request[w] = <<>>
      /\ request' = [request EXCEPT ![w] = h]
      /\ excused \subseteq excused' /\ unchecked \subseteq unchecked'
  BY <1>2 DEF Begin, Goes, Busy
<1>6. request'[w] = h /\ \A v \in Workers \ {w} : request'[v] = request[v]
  BY <1>5 DEF BackInv, AllWait
<1>7. Ready' /\ Steady
  BY <1>3, <1>5, StandingReady
<1>8. \A x : Live(x)' = Live(x) /\ (\A y : Born(x, y)' <=> Born(x, y))
  BY <1>5 DEF Live, Born
<1>9. \A d : Files(d)' = Files(d) /\ DocumentFiles(d)' = DocumentFiles(d)
  BY <1>5, <1>8 DEF Files, DocumentFiles, DocumentPath
<1>10. DocumentPlan(w)' /\ (\A d : ~Handles(w, d)')
  <2>1. CASE t = "document"
    <3>0. h \notin Alone(Relinked("document"))
      <4> SUFFICES ASSUME NEW q \in Relinked("document"), h = <<q>> PROVE FALSE
        BY DEF Alone
      <4>1. Head(h) = q /\ Unchecked(q) /\ q.id \in Documents
        BY OneOrTwo, RelinkedForms, RelinkedIds, LiveIds, TheIds DEF Unchecked
      <4> QED BY <1>2, <4>1 DEF PastItsHandler, Sound, AsJudged
    <3>1. h \in CreateDocument \cup UpdateDocument \cup DeleteDocument
      BY <2>1, <3>0 DEF HandlersOf
    <3>2. DocumentPlan(w)' /\ Head(h).do \notin {"upload", "delete"}
      BY <1>5, <3>1, DocumentPlanned
    <3> QED BY <1>6, <3>2 DEF Handles, Does, Step
  <2>2. CASE t # "document"
    <3>1. NoDocument(h)
      BY <1>4, <2>2, QueueTables DEF NoDocument
    <3>2. h = <<>> \/ (1 \in DOMAIN h /\ h[1] = Head(h))
      BY <1>4, OneOrTwo DEF Queue
    <3>3. \A d : ~Handles(w, d)'
      BY <1>6, <3>1, <3>2 DEF Handles, Does, Step, Busy, NoDocument
    <3>4. NoDocument(request[w])'
      BY <1>6, <3>1
    <3> QED BY <3>3, <3>4 DEF DocumentPlan
  <2> QED BY <2>1, <2>2
<1>11. FolderPlan(w)'
  BY <1>3, <1>4, <1>6, FolderPlanned DEF FolderPlan
<1>12. \A d : ~Handles(w, d)
  BY <1>5 DEF Handles, Does, Busy
<1>13. RowsOfDocumentsStay(w)
  BY <1>5, <1>8 DEF RowsOfDocumentsStay
<1>14. PlansStayApart(w)
  <2>1. ASSUME NEW d \in Documents, Mentions(w, d)'
        PROVE  Born("document", d) \/ \A u \in Workers \ {w} : ~Mentions(u, d)
    <3>1. Born("document", d)' \/ \A u \in Workers \ {w} : ~Mentions(u, d)'
      BY <1>10, <2>1, PlanMentions
    <3>2. \A u \in Workers \ {w} : Mentions(u, d)' <=> Mentions(u, d)
      BY <1>6 DEF Mentions
    <3> QED BY <1>8, <3>1, <3>2
  <2> QED BY <1>9, <1>10, <2>1 DEF PlansStayApart
<1>15. FilesFit'
  BY <1>8, <1>9 DEF FilesInv, FilesFit
<1>16. FilesInv'
  BY <1>5, <1>6, <1>7, <1>10, <1>11, <1>13, <1>14, <1>15, PlansAfter
<1>17. \A d : LosesDocument(d)' => LosesDocument(d)
  BY <1>6, <1>9, <1>10, <1>12, StepsAside
<1> QED BY <1>5, <1>16, <1>17 DEF LostDocuments

-----------------------------------------------------------------------------
(* A statement that is executed, and the documents.                          *)
LEMMA DocumentsChange ==
  ASSUME BackInv, FilesInv, NEW w \in Workers, Execute(w), Sound, Execution(Step(w))
  PROVE  /\ RowsOfDocumentsStay(w)
         /\ \A d \in Documents : d \in Live("document")' /\ ~Born("document", d) =>
               \E c, p : Makes(w, d, c, p) /\ Becoming(Step(w), "document", d)
<1> DEFINE q == Step(w)
<1>0. /\ Whole /\ "document" \in Tables /\ Ids["document"] = Documents /\ request[w] # <<>>
      /\ ~OnStore(q) /\ excused' = excused \cup CascadedDocuments(db')
                           \cup UNION {Moves(t, db') : t \in DOMAIN Owner}
  BY TheTables, TheIds DEF BackInv, Ready, Execute, Busy
<1>1. Pending(q) /\ DocumentPlan(w)
  BY <1>0, HeldSteps DEF FilesInv
<1> HIDE DEF q
<1> SUFFICES ASSUME NEW d \in Documents
             PROVE  /\ Born("document", d) /\ d \in Live("document")' =>
                          d \in Live("document") /\ db'["document"][d] = db["document"][d]
                    /\ d \in Live("document") /\ d \notin Live("document")' =>
                          d \in excused' \/ Does(w, "delete", "document", d)
                    /\ d \in Live("document")' /\ ~Born("document", d) =>
                          \E c, p : Makes(w, d, c, p) /\ Becoming(q, "document", d)
  BY <1>0 DEF RowsOfDocumentsStay, q
<1> DEFINE old == db["document"][d]
           new == db'["document"][d]
<1>2. /\ d \in Live("document") <=> old \notin Absent
      /\ d \in Live("document")' <=> new \notin Absent
      /\ Born("document", d) <=> old # Unborn
  BY <1>0 DEF Live, Born
<1>3. CASE new = old
  BY <1>2, <1>3 DEF Absent
<1>4. CASE Becoming(q, "document", d)
  <2>1. q.table = "document" /\ q.id = d /\ Writing(q) /\ new = Becomes(q) /\ new \in Row["document"]
        /\ Accepted(q)
    BY <1>4 DEF Becoming
  <2>2. new \notin Absent
    BY <1>0, <2>1, AbsenceAssumption DEF Absent
  <2>3. ASSUME NEW x, Renames(w, x) PROVE d \in Live("document") /\ new = old
    <3>1. q = Update("document", x, <<>>)
      BY <2>3, PlanSteps DEF q
    <3>2. q.do = "update" /\ q.set = <<>> /\ x = d
      BY <2>1, <3>1, StatementColumns
    <3>3. d \in Live("document") /\ old \in Row["document"]
      BY <1>0, <2>1, <3>2, LiveRows DEF Accepted
    <3> QED BY <1>0, <2>1, <3>2, <3>3, NothingMerged DEF Becomes, Patching
  <2>4. ASSUME NEW x, Drops(w, x) PROVE FALSE
    <3>1. q = Delete("document", x)
      BY <2>4, PlanSteps DEF q
    <3> QED BY <2>1, <3>1, StatementColumns DEF Writing
  <2>5. ASSUME NEW x, NEW p, Takes(w, x, p) \/ Fills(w, x, p) PROVE FALSE
    <3>1. q = Remove("document", p) \/ q = Upload("document", p, Rollback(x))
      BY <2>5, PlanSteps DEF q
    <3> QED BY <2>1, <3>1, StepColumns DEF Writing
  <2>6. ASSUME NEW x, NEW c, NEW p, Makes(w, x, c, p) PROVE old = Unborn /\ Makes(w, d, c, p)
    <3>1. q = Insert("document", x, [client |-> c])
      BY <2>6, PlanSteps DEF q
    <3>2. q.do = "insert" /\ x = d
      BY <2>1, <3>1, StatementColumns
    <3> QED BY <1>1, <2>1, <2>6, <3>2 DEF Pending, Waiting
  <2>7. \/ \E x : Renames(w, x) \/ Drops(w, x)
        \/ \E x, p : Takes(w, x, p) \/ Fills(w, x, p)
        \/ \E x, c, p : Makes(w, x, c, p)
    BY <1>0, <1>1, <2>1, PlanTables DEF q
  <2>8. CASE \E x : Renames(w, x)
    BY <2>2, <2>3, <2>8, <1>2, LiveIds
  <2>9. CASE \E x, c, p : Makes(w, x, c, p)
    <3>1. PICK c, p : old = Unborn /\ Makes(w, d, c, p)
      BY <2>6, <2>9
    <3> QED BY <1>2, <1>4, <2>2, <3>1 DEF Absent
  <2> QED BY <2>4, <2>5, <2>7, <2>8, <2>9
<1>5. CASE Dying(q, "document", d)
  <2>1. /\ q.do = "delete" /\ Accepted(q) /\ d \in Live("document") /\ new = Gone
        /\ <<"document", d>> \in GoneWith(q.table, q.id)
    BY <1>5 DEF Dying
  <2>2. CASE <<"document", d>> = <<q.table, q.id>>
    BY <1>0, <1>2, <2>1, <2>2 DEF Does, Busy, q, Absent
  <2>3. CASE <<"document", d>> # <<q.table, q.id>>
    <3>1. q.table = "client"
      BY <2>1, <2>3, DocumentsGo
    <3>2. q.id \in Live("client") /\ q.id \in Ids["client"] /\ "client" \in Tables
      BY <2>1, <3>1, LiveIds, TheTables DEF Accepted
    <3>3. <<"client", q.id>> \in GoneWith(q.table, q.id)
      BY <3>1 DEF GoneWith, Cascade
    <3>4. db'["client"][q.id] = Gone
      BY <2>1, <3>2, <3>3 DEF Execution, Effect, Without, q
    <3>5. db'["client"] # db["client"]
      BY <3>2, <3>4, LiveIds
    <3>6. d \in CascadedDocuments(db')
      BY <2>1, <3>5 DEF CascadedDocuments
    <3> QED BY <1>0, <1>2, <2>1, <3>6 DEF Absent
  <2> QED BY <2>2, <2>3
<1>6. CASE Unlinking(q, "document", d)
  <2>1. d \in Live("document") /\ old \in Row["document"]
    BY <1>0, <1>6, LiveRows DEF Unlinking
  <2>2. \A k \in ForeignKeys : k.after = "set_null" => k.table # "document"
    BY ClearedColumns
  <2>3. new = old
    BY <1>0, <1>6, <2>1, <2>2, NothingUnlinked DEF Unlinking
  <2> QED BY <1>3, <2>3
<1>7. new = old \/ Becoming(q, "document", d) \/ Dying(q, "document", d)
        \/ Unlinking(q, "document", d)
  BY <1>0, RowsBecome DEF q
<1> QED BY <1>3, <1>4, <1>5, <1>6, <1>7

(* What a statement leaves as it was.                                        *)
LEMMA ExecutionFacts ==
  ASSUME BackInv, NEW w \in Workers, Execute(w)
  PROVE  /\ Execution(Step(w)) /\ Ready' /\ Steady /\ excused \subseteq excused' /\ (Sound => Sound')
         /\ request[w] # <<>> /\ ~OnStore(Step(w)) /\ store' = store
         /\ request'[w] = IF Accepted(Step(w)) THEN Tail(request[w]) ELSE <<>>
         /\ \A v \in Workers \ {w} : request'[v] = request[v]
<1>1. /\ request[w] # <<>> /\ ~OnStore(Step(w)) /\ store' = store /\ excused \subseteq excused'
      /\ request' = [request EXCEPT ![w] = IF Accepted(Step(w)) THEN Tail(request[w]) ELSE <<>>]
  BY DEF Execute, Busy, Goes
<1>2. Execution(Step(w)) /\ Ready
  BY ExecutesInOrder DEF BackInv
<1>3. Ready' /\ Steady
  BY <1>2, TenantsStay
<1>4. request = [v \in Workers |-> request[v]]
  BY DEF BackInv, AllWait
<1>5. Sound => Sound'
  BY <1>2 DEF Execution, Sound, AsJudged
<1> QED BY <1>1, <1>2, <1>3, <1>4, <1>5

(* A worker that goes on with less of what it held.                          *)
LEMMA FewerMentions ==
  ASSUME BackInv, NEW w \in Workers, request[w] # <<>>, request'[w] \in {Tail(request[w]), <<>>}
  PROVE  /\ \A d : Mentions(w, d)' => Mentions(w, d)
         /\ NoDocument(request[w]) => NoDocument(request[w])'
         /\ NoFolder(request[w]) => NoFolder(request[w])'
<1>1. \A k \in DOMAIN request'[w] : \E j \in DOMAIN request[w] : request[w][j] = request'[w][k]
  BY TailPlans
<1> QED BY <1>1 DEF Mentions, NoDocument, NoFolder

(* What an execution leaves to do of what is about a document.               *)
LEMMA ExecutedPlans ==
  ASSUME BackInv, FilesInv, NEW w \in Workers, Execute(w), Sound
  PROVE  /\ DocumentPlan(w)'
         /\ \A d : Handles(w, d)' => \E c, p : Makes(w, d, c, p) /\ Accepted(Step(w))
         /\ \A d : Handles(w, d) => Drops(w, d)
<1> DEFINE q == Step(w)
<1>0. /\ Execution(q) /\ Ready' /\ Steady /\ excused \subseteq excused'
      /\ request[w] # <<>> /\ ~OnStore(q) /\ store' = store
      /\ request'[w] = IF Accepted(q) THEN Tail(request[w]) ELSE <<>>
      /\ \A v \in Workers \ {w} : request'[v] = request[v]
  BY ExecutionFacts
<1>1. /\ DocumentPlan(w) /\ Pending(q) /\ Whole
      /\ "document" \in Tables /\ Ids["document"] = Documents
      /\ "client" \in Tables /\ Ids["client"] = Clients
  BY <1>0, HeldSteps, TheTables, TheIds DEF FilesInv, BackInv, Ready
<1> HIDE DEF q
<1>2. CASE NoDocument(request[w])
  <2>1. NoDocument(request[w])'
    BY <1>0, <1>2, FewerMentions
  <2>2. ASSUME NEW d PROVE ~Mentions(w, d) /\ ~Mentions(w, d)'
    BY <1>2, <2>1 DEF Mentions, NoDocument
  <2>3. ASSUME NEW d PROVE ~Handles(w, d)
    BY <2>2, HandledIsMentioned
  <2>4. ASSUME NEW d PROVE ~Handles(w, d)'
    <3>1. request'[w] # <<>> => 1 \in DOMAIN request'[w] /\ request'[w][1] = Head(request'[w])
      <4>1. \/ Tail(request[w]) = <<>> \/ \E b : Tail(request[w]) = <<b>>
        BY <1>0, BusyWaits DEF BackInv, AllWait
      <4> QED BY <1>0, <4>1, OneOrTwo
    <3> QED BY <2>1, <3>1 DEF Handles, Does, Busy, Step, NoDocument
  <2>5. DocumentPlan(w)'
    BY <2>1 DEF DocumentPlan
  <2> QED BY <2>3, <2>4, <2>5
<1>3. ASSUME NEW x, Renames(w, x) \/ Drops(w, x)
      PROVE  /\ DocumentPlan(w)' /\ \A d : ~Handles(w, d)'
             /\ \A d : Handles(w, d) => Drops(w, d)
  <2>1. /\ Tail(request[w]) = <<>>
        /\ Renames(w, x) => q = Update("document", x, <<>>)
        /\ Drops(w, x) => q = Delete("document", x)
    BY <1>3, PlanSteps DEF q
  <2>2. request'[w] = <<>>
    BY <1>0, <2>1
  <2>3. NoDocument(request[w])' /\ \A d : ~Handles(w, d)'
    BY <2>2 DEF NoDocument, Handles, Does, Busy
  <2>4. ASSUME NEW d, Handles(w, d) PROVE Drops(w, d)
    <3>1. q.do \in {"upload", "delete"} /\ q.id = d
      BY <2>4 DEF Handles, Does, q
    <3>2. ~Renames(w, x)
      BY <2>1, <3>1, StatementColumns
    <3> QED BY <1>3, <2>1, <3>1, <3>2, StatementColumns
  <2>5. DocumentPlan(w)'
    BY <2>3 DEF DocumentPlan
  <2> QED BY <2>3, <2>4, <2>5
<1>4. ASSUME NEW x, NEW p, Takes(w, x, p) \/ Fills(w, x, p) PROVE FALSE
  <2>1. q = Remove("document", p) \/ q = Upload("document", p, Rollback(x))
    BY <1>4, PlanSteps DEF q
  <2> QED BY <1>0, <2>1, StepColumns DEF OnStore
<1>5. ASSUME NEW x, NEW c, NEW p, Makes(w, x, c, p)
      PROVE  /\ DocumentPlan(w)' /\ \A d : ~Handles(w, d)
             /\ \A d : Handles(w, d)' => d = x /\ Accepted(q)
  <2>1. /\ q = Insert("document", x, [client |-> c])
        /\ Tail(request[w]) = <<Upload("document", p, Rollback(x))>>
    BY <1>5, PlanSteps DEF q
  <2>2. q.do = "insert" /\ q.table = "document" /\ q.id = x /\ q.set = [client |-> c]
    BY <2>1, StatementColumns
  <2>3. \A d : ~Handles(w, d)
    BY <2>2 DEF Handles, Does, q
  <2>4. CASE ~Accepted(q)
    <3>1. request'[w] = <<>>
      BY <1>0, <2>4
    <3>2. NoDocument(request[w])' /\ \A d : ~Handles(w, d)'
      BY <3>1 DEF NoDocument, Handles, Does, Busy
    <3>3. DocumentPlan(w)'
      BY <3>2 DEF DocumentPlan
    <3> QED BY <2>3, <3>2, <3>3
  <2>5. CASE Accepted(q)
    <3>1. request'[w] = <<Upload("document", p, Rollback(x))>>
      BY <1>0, <2>1, <2>5
    <3>2. Head(request'[w]) = Upload("document", p, Rollback(x)) /\ p.id = x
      BY <3>1, <1>5, OneOrTwo DEF Makes
    <3>3. \A d : Handles(w, d)' => d = x
      BY <3>2, StepColumns DEF Handles, Does, Step
    <3>4. x \in Documents /\ db["document"][x] = Unborn /\ ~Born("document", x)
      BY <1>1, <1>5, <2>2 DEF Pending, Waiting, Makes, Born
    <3>5. db'["document"][x] = [client |-> c] /\ [client |-> c] \in Row["document"]
      <4>1. Becoming(q, "document", x)
        BY <1>0, <1>1, <2>2, <2>5, <3>4, Written DEF Writing, Becoming, WritesRow, Execution
      <4> QED BY <2>2, <4>1 DEF Becoming, Becomes, Patching
    <3>6. x \in Live("document")' /\ Born("document", x)'
      BY <1>1, <3>4, <3>5, AbsenceAssumption DEF Live, Born, Absent
    <3>7. c \in Clients /\ c # None
      BY <1>1, <3>5, TheRows, AbsenceAssumption DEF DocumentRow
    <3>8. c \in Live("client")'
      <4>1. \E k \in ForeignKeys : Parts(k, "document", "client", "client", "cascade")
        BY KeyParts DEF ForeignKeys, SaleKeys
      <4>2. db'["document"][x]["client"] = c
        BY <3>5
      <4> QED BY <1>0, <3>6, <3>7, <4>1, <4>2, ParentsAfter DEF Ready
    <3>9. c \in Live("client") /\ DocumentPath(c, x)' = DocumentPath(c, x)
      BY <1>0, <1>5, <3>8, PathStands, ExecutionFacts DEF Makes
    <3>10. p = DocumentPath(c, x)'
      BY <1>5, <3>9 DEF Makes
    <3>11. DocumentPath(db.document[x].client, x)' = DocumentPath(c, x)'
      BY <3>5 DEF DocumentPath
    <3>12. Filed(x, p)'
      BY <3>10, <3>11 DEF Filed
    <3>13. Files(x)' = {}
      BY <1>0, <3>4 DEF FilesInv, FilesFit, Files
    <3>14. \A v \in Workers \ {w} : ~Handles(v, x)'
      <4>1. \A v \in Workers \ {w} : ~Handles(v, x)
        BY <1>5, HandledIsMentioned DEF Makes
      <4> QED BY <1>0, <4>1 DEF Handles, Does, Busy, Step
    <3>15. Fills(w, x, p)'
      BY <3>1, <3>2, <3>6, <3>12, <3>13, <3>14 DEF Fills, Rollback
    <3>16. DocumentPlan(w)'
      BY <3>15 DEF DocumentPlan
    <3> QED BY <2>3, <2>5, <3>3, <3>16
  <2> QED BY <2>4, <2>5
<1>6. CASE \E x : Renames(w, x) \/ Drops(w, x)
  BY <1>3, <1>6
<1>7. CASE \E x, c, p : Makes(w, x, c, p)
  <2>1. PICK x, c, p : Makes(w, x, c, p)
    BY <1>7
  <2>2. /\ DocumentPlan(w)' /\ \A d : ~Handles(w, d)
        /\ \A d : Handles(w, d)' => d = x /\ Accepted(q)
    BY <1>5, <2>1
  <2>3. ASSUME NEW d, Handles(w, d)' PROVE \E y, z : Makes(w, d, y, z) /\ Accepted(Step(w))
    <3>1. Makes(w, d, c, p) /\ Accepted(Step(w))
      BY <2>1, <2>2, <2>3 DEF q
    <3> QED BY <3>1
  <2> QED BY <2>2, <2>3
<1> QED BY <1>1, <1>2, <1>4, <1>6, <1>7 DEF DocumentPlan

LEMMA ExecutedFolder ==
  ASSUME BackInv, FilesInv, NEW w \in Workers, Execute(w), Sound
  PROVE  FolderPlan(w)'
<1> DEFINE q == Step(w)
<1>0. /\ Execution(q) /\ request[w] # <<>> /\ ~OnStore(q) /\ Whole
      /\ request'[w] = IF Accepted(q) THEN Tail(request[w]) ELSE <<>>
      /\ "enterprise" \in Tables
  BY ExecutionFacts, TheTables DEF BackInv, Ready
<1> HIDE DEF q
<1>1. CASE NoFolder(request[w])
  <2>1. NoFolder(request[w])'
    BY <1>0, <1>1, FewerMentions
  <2> QED BY <2>1 DEF FolderPlan
<1>2. ASSUME NEW e, request[w] = <<Delete("enterprise", e), RemoveFolder("enterprise", e)>>
      PROVE  FolderPlan(w)'
  <2>1. q = Delete("enterprise", e) /\ Tail(request[w]) = <<RemoveFolder("enterprise", e)>>
    BY <1>2, OneOrTwo DEF q, Step
  <2>2. q.do = "delete" /\ q.table = "enterprise" /\ q.id = e
    BY <2>1, StatementColumns
  <2>3. CASE Accepted(q)
    <3>1. e \in Live("enterprise") /\ e \in Ids["enterprise"]
      BY <2>2, <2>3, LiveIds DEF Accepted
    <3>2. <<"enterprise", e>> \in GoneWith(q.table, q.id)
      BY <2>2 DEF GoneWith, Cascade
    <3>3. db'["enterprise"][e] = Gone
      BY <1>0, <2>2, <2>3, <3>1, <3>2 DEF Execution, Effect, Without
    <3>4. Born("enterprise", e)' /\ e \notin Live("enterprise")'
      BY <3>1, <3>3, AbsenceAssumption DEF Born, Live, Absent
    <3>5. request'[w] = <<RemoveFolder("enterprise", e)>>
      BY <1>0, <2>1, <2>3
    <3> QED BY <3>4, <3>5 DEF FolderPlan
  <2>4. CASE ~Accepted(q)
    <3>1. request'[w] = <<>>
      BY <1>0, <2>4
    <3>2. NoFolder(request[w])'
      BY <3>1 DEF NoFolder
    <3> QED BY <3>2 DEF FolderPlan
  <2> QED BY <2>3, <2>4
<1>3. ASSUME NEW e, request[w] = <<RemoveFolder("enterprise", e)>> PROVE FALSE
  <2>1. q = RemoveFolder("enterprise", e)
    BY <1>3, OneOrTwo DEF q, Step
  <2> QED BY <1>0, <2>1, StepColumns DEF OnStore
<1>4. FolderPlan(w)
  BY DEF FilesInv
<1> QED BY <1>1, <1>2, <1>3, <1>4 DEF FolderPlan

(* A statement loses no document.                                            *)
LEMMA ExecutesOnFiles ==
  ASSUME BackInv, FilesInv, NEW w \in Workers, Execute(w), Sound
  PROVE  FilesInv' /\ LostDocuments' \subseteq LostDocuments
<1>0. /\ Execution(Step(w)) /\ Ready /\ Ready' /\ Steady /\ excused \subseteq excused'
      /\ request[w] # <<>> /\ ~OnStore(Step(w)) /\ store' = store
      /\ \A v \in Workers \ {w} : request'[v] = request[v]
      /\ Documents = Ids["document"] /\ "document" \in Tables \ {"spent"}
  BY ExecutionFacts, TheTables, TheIds DEF BackInv
<1>1. /\ DocumentPlan(w)' /\ FolderPlan(w)' /\ FilesFit
      /\ \A d : Handles(w, d)' => \E c, p : Makes(w, d, c, p) /\ Accepted(Step(w))
      /\ \A d : Handles(w, d) => Drops(w, d)
  BY ExecutedPlans, ExecutedFolder DEF FilesInv
<1>2. /\ RowsOfDocumentsStay(w)
      /\ \A d \in Documents : d \in Live("document")' /\ ~Born("document", d) =>
            \E c, p : Makes(w, d, c, p) /\ Becoming(Step(w), "document", d)
  BY <1>0, DocumentsChange
<1>3. \A d : Files(d)' = Files(d)
  BY <1>0 DEF Files
<1>4. ASSUME NEW d, NEW c, NEW p, Makes(w, d, c, p) PROVE ~Born("document", d)
  <2>1. Step(w) = Insert("document", d, [client |-> c])
    BY <1>4, PlanSteps
  <2> QED BY <1>0, <2>1, HeldSteps, StatementColumns DEF Pending, Waiting, Born
<1>5. PlansStayApart(w)
  <2>1. request'[w] \in {Tail(request[w]), <<>>}
    BY ExecutionFacts
  <2>2. \A d : Mentions(w, d)' => Mentions(w, d)
    BY <1>0, <2>1, FewerMentions
  <2>3. \A d : Handles(w, d)' => ~Born("document", d)
    BY <1>1, <1>4
  <2> QED BY <1>3, <2>2, <2>3 DEF PlansStayApart
<1>6. ASSUME NEW d \in Documents, d \in Live("document"), d \in Live("document")'
      PROVE  DocumentFiles(d)' = DocumentFiles(d)
  <2>1. Born("document", d)
    BY <1>0, <1>6, LiveIds DEF Born
  <2>2. db'["document"][d] = db["document"][d]
    BY <1>2, <1>6, <2>1 DEF RowsOfDocumentsStay
  <2> QED BY <1>0, <1>6, <2>2, DocumentStands, ExecutionFacts
<1>7. FilesFit'
  <2>1. ASSUME NEW d \in Live("document")' PROVE Files(d)' \subseteq DocumentFiles(d)'
    <3>1. d \in Documents
      BY <1>0 DEF Live
    <3>2. CASE Born("document", d)
      <4>1. d \in Live("document")
        BY <1>2, <3>1, <3>2 DEF RowsOfDocumentsStay
      <4> QED BY <1>1, <1>3, <1>6, <3>1, <4>1 DEF FilesFit
    <3>3. CASE ~Born("document", d)
      BY <1>1, <1>3, <3>1, <3>3 DEF FilesFit
    <3> QED BY <3>2, <3>3
  <2>2. ASSUME NEW d \in Documents, ~Born("document", d)' PROVE Files(d)' = {}
    <3>1. ~Born("document", d)
      BY <1>0, <2>2 DEF Steady, Born
    <3> QED BY <1>1, <1>3, <3>1 DEF FilesFit
  <2> QED BY <2>1, <2>2 DEF FilesFit
<1>8. FilesInv'
  BY <1>0, <1>1, <1>2, <1>5, <1>7, PlansAfter, ExecutionFacts
<1>9. ASSUME NEW d, NEW c, NEW p, Makes(w, d, c, p), Accepted(Step(w))
       PROVE  request'[w] = <<Upload("document", p, Rollback(d))>> /\ p.id = d
  <2>1. Tail(request[w]) = <<Upload("document", p, Rollback(d))>>
    BY <1>9, PlanSteps
  <2>2. request'[w] = Tail(request[w])
    BY <1>9, ExecutionFacts
  <2> QED BY <1>9, <2>1, <2>2 DEF Makes
<1>10. ASSUME NEW d \in Documents, d \notin excused', LosesDocument(d)' PROVE LosesDocument(d)
  <2>1. CASE ~Handles(w, d) /\ ~Handles(w, d)'
    <3>1. DocumentFiles(d)' = DocumentFiles(d)
      <4>1. CASE d \in Live("document") /\ d \in Live("document")'
        BY <1>6, <4>1
      <4>2. CASE d \in Live("document") /\ d \notin Live("document")'
        BY <1>2, <1>10, <2>1, <4>2 DEF RowsOfDocumentsStay, Handles
      <4>3. CASE d \notin Live("document") /\ d \in Live("document")'
        <5>1. ~Born("document", d)
          BY <1>2, <4>3 DEF RowsOfDocumentsStay
        <5>2. PICK c, p : Makes(w, d, c, p) /\ Becoming(Step(w), "document", d)
          BY <1>2, <4>3, <5>1
        <5>3. request'[w] = <<Upload("document", p, Rollback(d))>> /\ p.id = d
          BY <1>9, <5>2 DEF Becoming
        <5>4. Handles(w, d)'
          BY <5>3, OneOrTwo, StepColumns DEF Handles, Does, Busy, Step
        <5> QED BY <2>1, <5>4
      <4>4. CASE d \notin Live("document") /\ d \notin Live("document")'
        BY <4>4 DEF DocumentFiles
      <4> QED BY <4>1, <4>2, <4>3, <4>4
    <3> QED BY <1>0, <1>3, <1>10, <2>1, <3>1, StepsAside
  <2>2. CASE Handles(w, d)'
    <3>1. PICK c, p : Makes(w, d, c, p) /\ Accepted(Step(w))
      BY <1>1, <2>2
    <3>2. request'[w] = <<Upload("document", p, Rollback(d))>> /\ p.id = d
      BY <1>9, <3>1
    <3>3. Filing(d)'
      BY <3>2, OneOrTwo, StepColumns DEF Filing, Doing, Does, Busy, Step
    <3> QED BY <1>10, <3>3 DEF LosesDocument
  <2>3. CASE Handles(w, d)
    <3>1. Drops(w, d)
      BY <1>1, <2>3
    <3>2. Step(w) = Delete("document", d)
      BY <3>1, PlanSteps
    <3>3. Step(w).do = "delete" /\ Step(w).table = "document" /\ Step(w).id = d
      BY <3>2, StatementColumns
    <3>4. Doing("delete", "document", d)
      BY <1>0, <3>3 DEF Doing, Does, Busy
    <3>5. ~Filing(d)
      <4>1. \A v \in Workers \ {w} : ~Does(v, "upload", "document", d)'
        BY <1>10 DEF LosesDocument, Filing, Doing
      <4>2. \A v \in Workers \ {w} : ~Does(v, "upload", "document", d)
        BY <1>0, <4>1 DEF Does, Busy, Step
      <4> QED BY <3>3, <4>2 DEF Filing, Doing, Does
    <3>6. d \notin Live("document")'
      <4>1. CASE d \in Live("document")
        <5>1. Accepted(Step(w))
          BY <3>2, <4>1, LeavesAreDeleted
        <5>2. <<"document", d>> \in GoneWith(Step(w).table, Step(w).id)
          BY <3>3 DEF GoneWith, Cascade
        <5>3. db'["document"][d] = Gone
          BY <1>0, <3>3, <5>1, <5>2 DEF Execution, Effect, Without
        <5> QED BY <5>3 DEF Live, Absent
      <4>2. CASE d \notin Live("document")
        <5>1. ~Accepted(Step(w))
          BY <3>3, <4>2 DEF Accepted
        <5>2. db' = db
          BY <1>0, <5>1 DEF Execution, Effect
        <5> QED BY <4>2, <5>2 DEF Live
      <4> QED BY <4>1, <4>2
    <3>7. Files(d)' # {}
      BY <1>10, <3>6 DEF LosesDocument, DocumentDue, DocumentFiles
    <3> QED BY <1>3, <3>4, <3>5, <3>7 DEF LosesDocument, DocumentDue
  <2> QED BY <2>1, <2>2, <2>3
<1> QED BY <1>0, <1>8, <1>10 DEF LostDocuments

-----------------------------------------------------------------------------
(* A step on Dropbox that is about no document leaves their files.           *)
LEMMA ClientsHaveEnterprises ==
  ASSUME Whole, RefsLive, NEW c \in Live("client")
  PROVE  db["client"][c].ent \in Live("enterprise")
<1>1. Key("client", "ent", "enterprise", "refuse") \in ForeignKeys
  BY DEF ForeignKeys, EnterpriseKeys
<1>2. Parts(Key("client", "ent", "enterprise", "refuse"), "client", "ent", "enterprise", "refuse")
  BY KeyParts
<1>3. db["client"][c]["ent"] \in Live("enterprise") \cup {None}
  BY <1>1, <1>2 DEF RefsLive, Parts
<1>4. db["client"][c].ent \in Enterprises
  BY OfItsEnterprise DEF Owned
<1> QED BY <1>3, <1>4, AbsenceAssumption, TheTables, TheIds

LEMMA FoldersOfNone ==
  ASSUME BackInv, NEW w \in Workers, FolderPlan(w), request[w] # <<>>, Step(w).do = "remove_folder"
  PROVE  Step(w).id \notin Live("enterprise")
<1>1. ASSUME NEW e, request[w] = <<Delete("enterprise", e), RemoveFolder("enterprise", e)>> PROVE FALSE
  <2>1. Step(w) = Delete("enterprise", e)
    BY <1>1, OneOrTwo DEF Step
  <2> QED BY <2>1, StatementColumns
<1>2. ASSUME NEW e, request[w] = <<RemoveFolder("enterprise", e)>>, e \notin Live("enterprise")
      PROVE  Step(w).id \notin Live("enterprise")
  <2>1. Step(w) = RemoveFolder("enterprise", e)
    BY <1>2, OneOrTwo DEF Step
  <2> QED BY <1>2, <2>1, StepColumns
<1>3. ~NoFolder(request[w])
  BY HeldSteps
<1> QED BY <1>1, <1>2, <1>3 DEF FolderPlan

LEMMA OtherFilesStay ==
  ASSUME BackInv, FilesInv, NEW w \in Workers, request[w] # <<>>, OnStore(Step(w)),
         Step(w).table # "document", store' = store \/ store' = Stored(Step(w)), NEW d \in Documents
  PROVE  Files(d)' \subseteq Files(d) /\ (d \in Live("document") => Files(d)' = Files(d))
<1> DEFINE q == Step(w)
<1>0. /\ Pending(q) /\ OnFile(q, q.table) /\ q.table \in Tables /\ q.id \in Ids[q.table]
      /\ q.do \in {"upload", "remove", "remove_folder"} /\ q.table # "document"
      /\ Documents = Ids["document"] /\ "document" \in Tables /\ Whole /\ RefsLive
      /\ FilesFit
  BY HeldSteps, TheTables, TheIds DEF Pending, Waiting, OnStore, FilesInv, BackInv, Ready
<1> HIDE DEF q
<1>2. CASE store' = store
  BY <1>2 DEF Files
<1>3. CASE store' = Stored(q) /\ q.do # "remove_folder"
  <2>1. q.path.id = q.id
    BY <1>0, <1>3 DEF OnFile
  <2>2. q.id # d
    BY <1>0, IdsAssumption
  <2>3. store' = store \cup {q.path} \/ store' = store \ {q.path}
    BY <1>0, <1>3 DEF Stored
  <2>4. Files(d)' = Files(d)
    BY <2>1, <2>2, <2>3 DEF Files
  <2> QED BY <2>4
<1>4. CASE store' = Stored(q) /\ q.do = "remove_folder"
  <2>1. store' = {p \in store : p.ent # q.id}
    BY <1>4 DEF Stored
  <2>2. q.id \notin Live("enterprise")
    BY <1>4, FoldersOfNone DEF q, FilesInv
  <2>3. Files(d)' \subseteq Files(d)
    BY <2>1 DEF Files
  <2>4. ASSUME d \in Live("document"), NEW p \in Files(d) PROVE p \in Files(d)'
    <3>1. p = DocumentPath(db.document[d].client, d)
      BY <1>0, <2>4 DEF FilesFit, DocumentFiles
    <3>2. db["document"][d].client \in Live("client")
      BY <1>0, <2>4, FiledRows
    <3>3. p.ent \in Live("enterprise")
      BY <1>0, <3>1, <3>2, ClientsHaveEnterprises DEF DocumentPath, Path
    <3> QED BY <2>1, <2>2, <2>4, <3>3 DEF Files
  <2> QED BY <2>3, <2>4
<1> QED BY <1>2, <1>3, <1>4 DEF q

(* What a step on Dropbox leaves of a worker's plan.                         *)
OneStep(w, h) ==
  /\ request' = [request EXCEPT ![w] = h] /\ request[w] # <<>> /\ OnStore(Step(w))
  /\ db' = db /\ excused' = excused /\ unchecked' = unchecked
  /\ \/ h = Tail(request[w]) /\ Feasible(Step(w)) /\ store' = Stored(Step(w))
     \/ h = Step(w).undo /\ store' = store
     \/ h = Step(w).undo /\ Feasible(Step(w)) /\ store' = Stored(Step(w))

(* A step on Dropbox leaves the tables, and other workers, as they were.     *)
LEMMA StandingFacts ==
  ASSUME BackInv, NEW w \in Workers, NEW h, OneStep(w, h)
  PROVE  /\ request'[w] = h /\ \A v \in Workers \ {w} : request'[v] = request[v]
         /\ Ready /\ Ready' /\ Steady /\ RowsOfDocumentsStay(w) /\ (Sound => Sound')
         /\ \A x : Live(x)' = Live(x) /\ (\A y : Born(x, y)' <=> Born(x, y))
         /\ \A d : DocumentFiles(d)' = DocumentFiles(d) /\ (\A p : Filed(d, p)' <=> Filed(d, p))
<1>1. request'[w] = h /\ \A v \in Workers \ {w} : request'[v] = request[v]
  BY DEF BackInv, AllWait, OneStep
<1>2. db' = db /\ excused' = excused /\ unchecked' = unchecked /\ Ready
  BY DEF OneStep, BackInv
<1>7. Sound => Sound'
  BY <1>2 DEF Sound, AsJudged
<1>3. Ready' /\ Steady
  BY <1>2, StandingReady
<1>4. \A x : Live(x)' = Live(x) /\ (\A y : Born(x, y)' <=> Born(x, y))
  BY <1>2 DEF Live, Born
<1>5. \A d : DocumentFiles(d)' = DocumentFiles(d) /\ (\A p : Filed(d, p)' <=> Filed(d, p))
  BY <1>2, <1>4 DEF DocumentFiles, DocumentPath, Filed
<1>6. RowsOfDocumentsStay(w)
  BY <1>2, <1>4 DEF RowsOfDocumentsStay
<1> QED BY <1>1, <1>2, <1>3, <1>4, <1>5, <1>6, <1>7

LEMMA StepsOnOtherFiles ==
  ASSUME BackInv, FilesInv, Sound, NEW w \in Workers, NEW h, OneStep(w, h), Step(w).table # "document"
  PROVE  FilesInv' /\ LostDocuments' \subseteq LostDocuments
<1>0. /\ request'[w] = h /\ \A v \in Workers \ {w} : request'[v] = request[v]
      /\ Ready /\ Ready' /\ Steady /\ RowsOfDocumentsStay(w) /\ Sound'
      /\ \A x : Live(x)' = Live(x) /\ (\A y : Born(x, y)' <=> Born(x, y))
      /\ \A d : DocumentFiles(d)' = DocumentFiles(d)
      /\ request[w] # <<>> /\ OnStore(Step(w)) /\ excused' = excused
      /\ store' = store \/ store' = Stored(Step(w))
      /\ h = Tail(request[w]) \/ h = Step(w).undo
      /\ FilesFit /\ DocumentPlan(w) /\ FolderPlan(w)
  BY StandingFacts DEF OneStep, FilesInv
<1>1. h = Tail(request[w]) \/ h = <<>>
  <2>1. Pending(Step(w)) /\ OnFile(Step(w), Step(w).table)
    BY <1>0, HeldSteps DEF Pending, Waiting
  <2> QED BY <1>0, <2>1 DEF OnFile
<1>2. NoDocument(request[w]) /\ NoDocument(request[w])'
  <2>1. NoDocument(request[w])
    BY <1>0, PlanTables
  <2> QED BY <1>0, <1>1, <2>1, FewerMentions
<1>3. \A d : ~Handles(w, d) /\ ~Handles(w, d)' /\ ~Mentions(w, d)'
  <2>1. \A d : ~Mentions(w, d) /\ ~Mentions(w, d)'
    BY <1>2 DEF Mentions, NoDocument
  <2>2. \A d : ~Handles(w, d)
    BY <2>1, HandledIsMentioned
  <2>3. request'[w] # <<>> => 1 \in DOMAIN request'[w] /\ request'[w][1] = Head(request'[w])
    <3>1. \/ Tail(request[w]) = <<>> \/ \E b : Tail(request[w]) = <<b>>
      BY <1>0, BusyWaits DEF BackInv, AllWait
    <3> QED BY <1>0, <1>1, <3>1, OneOrTwo
  <2>4. \A d : ~Handles(w, d)'
    BY <1>2, <2>3 DEF Handles, Does, Busy, Step, NoDocument
  <2> QED BY <2>1, <2>2, <2>4
<1>4. \A d \in Documents :
         Files(d)' \subseteq Files(d) /\ (d \in Live("document") => Files(d)' = Files(d))
  BY <1>0, OtherFilesStay
<1>5. DocumentPlan(w)'
  BY <1>2 DEF DocumentPlan
<1>6. FolderPlan(w)'
  <2>1. CASE NoFolder(request[w])
    <3>1. NoFolder(request[w])'
      BY <1>0, <1>1, <2>1, FewerMentions
    <3> QED BY <3>1 DEF FolderPlan
  <2>2. ASSUME NEW e, request[w] = <<RemoveFolder("enterprise", e)>> PROVE FolderPlan(w)'
    <3>1. request'[w] = <<>>
      BY <1>0, <1>1, <2>2, OneOrTwo
    <3>2. NoFolder(request[w])'
      BY <3>1 DEF NoFolder
    <3> QED BY <3>2 DEF FolderPlan
  <2>3. ASSUME NEW e, request[w] = <<Delete("enterprise", e), RemoveFolder("enterprise", e)>> PROVE FALSE
    <3>1. Step(w) = Delete("enterprise", e)
      BY <2>3, OneOrTwo DEF Step
    <3> QED BY <1>0, <3>1, StatementColumns DEF OnStore
  <2> QED BY <1>0, <2>1, <2>2, <2>3 DEF FolderPlan
<1>7. PlansStayApart(w)
  BY <1>3, <1>4 DEF PlansStayApart
<1>8. FilesFit'
  <2>1. \A d \in Live("document") : d \in Documents
    BY TheIds, LiveIds
  <2> QED BY <1>0, <1>4, <2>1 DEF FilesFit
<1>9. FilesInv'
  BY <1>0, <1>5, <1>6, <1>7, <1>8, PlansAfter
<1>10. ASSUME NEW d \in Documents, LosesDocument(d)' PROVE LosesDocument(d)
  <2>1. CASE Files(d)' = Files(d)
    BY <1>0, <1>3, <1>10, <2>1, StepsAside
  <2>2. CASE d \notin Live("document")
    <3>1. DocumentFiles(d) = {} /\ DocumentFiles(d)' = {}
      BY <1>0, <2>2 DEF DocumentFiles
    <3>2. DocumentDue(d) = {} /\ DocumentDue(d)' = {}
      BY <3>1 DEF DocumentDue
    <3>3. Files(d) # {} /\ ~Filing(d)'
      BY <1>4, <1>10, <3>2 DEF LosesDocument
    <3>4. ~Filing(d)
      <4>1. \A v \in Workers \ {w} : ~Does(v, "upload", "document", d)
        BY <1>0, <3>3 DEF Filing, Doing, Does, Busy, Step
      <4> QED BY <1>3, <4>1 DEF Filing, Doing, Handles
    <3> QED BY <3>2, <3>3, <3>4 DEF LosesDocument
  <2> QED BY <1>4, <2>1, <2>2
<1> QED BY <1>0, <1>9, <1>10 DEF LostDocuments

-----------------------------------------------------------------------------
(* A step on Dropbox about a document: one is taken away ...                 *)
LEMMA NoFolderWith ==
  ASSUME NEW a, a.do # "remove_folder"
  PROVE  NoFolder(<<>>) /\ NoFolder(<<a>>)
  BY OneOrTwo DEF NoFolder

LEMMA TakesOnFiles ==
  ASSUME BackInv, FilesInv, Sound, NEW w \in Workers, NEW h, OneStep(w, h),
         NEW x, NEW p, Takes(w, x, p)
  PROVE  FilesInv' /\ LostDocuments' \subseteq LostDocuments \cup {Step(w).id}
         /\ (store' = store \/ h = Tail(request[w]) => LostDocuments' \subseteq LostDocuments)
<1>0. /\ request'[w] = h /\ \A v \in Workers \ {w} : request'[v] = request[v]
      /\ Ready /\ Ready' /\ Steady /\ RowsOfDocumentsStay(w) /\ Sound'
      /\ \A t : Live(t)' = Live(t) /\ (\A y : Born(t, y)' <=> Born(t, y))
      /\ \A d : DocumentFiles(d)' = DocumentFiles(d) /\ (\A y : Filed(d, y)' <=> Filed(d, y))
      /\ excused' = excused /\ FilesFit /\ Documents = Ids["document"]
  BY StandingFacts, TheIds DEF OneStep, FilesInv
<1>1. /\ Step(w) = Remove("document", p) /\ Tail(request[w]) = <<Delete("document", x)>>
      /\ Born("document", x) /\ p.id = x /\ Filed(x, p) /\ request[w] # <<>>
  BY PlanSteps DEF Takes
<1>2. /\ Step(w).do = "remove" /\ Step(w).undo = <<>> /\ Step(w).path = p /\ Step(w).id = x
      /\ Step(w).table = "document"
  BY <1>1, StepColumns
<1>3. /\ \/ h = <<Delete("document", x)>> /\ p \in store /\ store' = store \ {p}
         \/ h = <<>> /\ store' = store
         \/ h = <<>> /\ p \in store /\ store' = store \ {p}
      /\ h \in {<<Delete("document", x)>>, <<>>}
  BY <1>1, <1>2 DEF OneStep, Feasible, Stored
<1>4. x \in Documents
  BY <1>0, <1>1 DEF Born
<1>5. \A d : ~Handles(w, d)
  BY <1>2 DEF Handles, Does
<1>6. ASSUME NEW d, Handles(w, d)' \/ Mentions(w, d)'
      PROVE  d = x /\ h = <<Delete("document", x)>> /\ Doing("delete", "document", x)'
  <2>1. h # <<>>
    BY <1>0, <1>6 DEF Handles, Does, Busy, Mentions
  <2>2. h = <<Delete("document", x)>>
    BY <1>3, <2>1
  <2>3. /\ Head(h) = Delete("document", x) /\ DOMAIN h = {1} /\ h[1] = Delete("document", x)
    BY <2>2, OneOrTwo
  <2>4. d = x
    BY <1>0, <1>6, <2>3, StatementColumns DEF Handles, Does, Busy, Step, Mentions
  <2>5. Does(w, "delete", "document", x)'
    BY <1>0, <2>1, <2>3, StatementColumns DEF Does, Busy, Step
  <2> QED BY <2>2, <2>4, <2>5 DEF Doing
<1>7. \A d : Files(d)' \subseteq Files(d) /\ (d # x => Files(d)' = Files(d))
             /\ Files(d) \ {p} \subseteq Files(d)'
  BY <1>1, <1>3 DEF Files
<1>8. DocumentPlan(w)'
  <2>1. CASE h = <<>>
    <3>1. NoDocument(request[w])'
      BY <1>0, <2>1 DEF NoDocument
    <3> QED BY <3>1 DEF DocumentPlan
  <2>2. CASE h = <<Delete("document", x)>>
    <3>1. Drops(w, x)'
      BY <1>0, <1>1, <2>2 DEF Drops
    <3> QED BY <3>1 DEF DocumentPlan
  <2> QED BY <1>3, <2>1, <2>2
<1>9. FolderPlan(w)'
  <2>1. Delete("document", x).do # "remove_folder"
    BY StatementColumns
  <2>2. NoFolder(h)
    BY <1>3, <2>1, NoFolderWith
  <2> QED BY <1>0, <2>2 DEF FolderPlan
<1>10. PlansStayApart(w)
  <2>1. ASSUME NEW d \in Documents, Handles(w, d)' PROVE Files(d) # {}
    <3>1. d = x /\ h = <<Delete("document", x)>>
      BY <1>6, <2>1
    <3>2. p \in store
      BY <1>3, <3>1, OneOrTwo
    <3> QED BY <1>1, <3>1, <3>2 DEF Files
  <2>2. ASSUME NEW d \in Documents, Mentions(w, d)' PROVE Born("document", d)
    BY <1>1, <1>6, <2>2
  <2> QED BY <1>7, <2>1, <2>2 DEF PlansStayApart
<1>11. FilesFit'
  <2>1. \A d \in Live("document") : d \in Documents
    BY <1>0, LiveIds
  <2> QED BY <1>0, <1>7, <2>1 DEF FilesFit
<1>12. FilesInv'
  BY <1>0, <1>8, <1>9, <1>10, <1>11, PlansAfter
<1>13. ASSUME NEW d \in Documents, d # x \/ store' = store, LosesDocument(d)' , ~Handles(w, d)'
       PROVE  LosesDocument(d)
  <2>1. Files(d)' = Files(d)
    BY <1>7, <1>13 DEF Files
  <2> QED BY <1>0, <1>5, <1>13, <2>1, StepsAside
<1>14. ASSUME h = <<Delete("document", x)>>, LosesDocument(x)' PROVE LosesDocument(x)
  <2>0. store' = store \ {p} /\ p \in store
    BY <1>3, <1>14, OneOrTwo
  <2>1. Doing("delete", "document", x)'
    <3>1. Does(w, "delete", "document", x)'
      BY <1>0, <1>14, OneOrTwo, StatementColumns DEF Does, Busy, Step
    <3> QED BY <3>1 DEF Doing
  <2>2. Files(x)' # {} /\ ~Filing(x)'
    BY <1>14, <2>1 DEF LosesDocument, DocumentDue
  <2>3. ~Filing(x)
    <3>1. \A v \in Workers \ {w} : ~Does(v, "upload", "document", x)
      BY <1>0, <2>2 DEF Filing, Doing, Does, Busy, Step
    <3> QED BY <1>2, <3>1 DEF Filing, Doing, Does
  <2>4. PICK z : z \in Files(x) /\ z # p
    BY <2>0, <2>2 DEF Files
  <2>5. DocumentFiles(x) \subseteq {p}
    BY <1>1 DEF DocumentFiles, Filed
  <2>6. Files(x) # DocumentDue(x)
    BY <2>4, <2>5 DEF DocumentDue
  <2> QED BY <2>3, <2>6 DEF LosesDocument
<1>15. ASSUME NEW d \in Documents, d # x, LosesDocument(d)' PROVE LosesDocument(d)
  BY <1>6, <1>13, <1>15
<1>16. ASSUME LosesDocument(x)', store' = store \/ h = Tail(request[w]) PROVE LosesDocument(x)
  <2>1. CASE h = <<Delete("document", x)>>
    BY <1>14, <1>16, <2>1
  <2>2. CASE h = <<>>
    <3>1. store' = store
      BY <1>1, <1>16, <2>2, OneOrTwo
    <3>2. ~Handles(w, x)'
      BY <1>0, <2>2 DEF Handles, Does, Busy
    <3> QED BY <1>4, <1>13, <1>16, <3>1, <3>2
  <2> QED BY <1>3, <2>1, <2>2
<1> QED BY <1>0, <1>2, <1>12, <1>15, <1>16 DEF LostDocuments

(* ... or is filled.                                                         *)
LEMMA FillsOnFiles ==
  ASSUME BackInv, FilesInv, Sound, NEW w \in Workers, NEW h, OneStep(w, h),
         NEW x, NEW p, Fills(w, x, p)
  PROVE  FilesInv' /\ LostDocuments' \subseteq LostDocuments \cup {Step(w).id}
         /\ (store' = store \/ h = Tail(request[w]) => LostDocuments' \subseteq LostDocuments)
<1>0. /\ request'[w] = h /\ \A v \in Workers \ {w} : request'[v] = request[v]
      /\ Ready /\ Ready' /\ Steady /\ RowsOfDocumentsStay(w) /\ Sound'
      /\ \A t : Live(t)' = Live(t) /\ (\A y : Born(t, y)' <=> Born(t, y))
      /\ \A d : DocumentFiles(d)' = DocumentFiles(d) /\ (\A y : Filed(d, y)' <=> Filed(d, y))
      /\ excused' = excused /\ FilesFit /\ Documents = Ids["document"]
  BY StandingFacts, TheIds DEF OneStep, FilesInv
<1>1. /\ Step(w) = Upload("document", p, Rollback(x)) /\ Tail(request[w]) = <<>>
      /\ Born("document", x) /\ p.id = x /\ Filed(x, p) /\ request[w] # <<>> /\ Files(x) = {}
      /\ x \notin Live("document") => x \in excused
      /\ \A v \in Workers \ {w} : ~Handles(v, x)
  BY PlanSteps DEF Fills
<1>2. /\ Step(w).do = "upload" /\ Step(w).undo = <<Delete("document", x)>> /\ Step(w).path = p
      /\ Step(w).id = x /\ Step(w).table = "document"
  BY <1>1, StepColumns DEF Rollback
<1>3. /\ \/ h = <<>> /\ store' = store \cup {p}
         \/ h = <<Delete("document", x)>> /\ store' = store
         \/ h = <<Delete("document", x)>> /\ store' = store \cup {p}
      /\ h \in {<<Delete("document", x)>>, <<>>}
  BY <1>1, <1>2 DEF OneStep, Stored
<1>4. x \in Documents /\ Handles(w, x) /\ \A d : Handles(w, d) => d = x
  BY <1>0, <1>1, <1>2 DEF Born, Handles, Does, Busy
<1>6. ASSUME NEW d, Handles(w, d)' \/ Mentions(w, d)'
      PROVE  d = x /\ h = <<Delete("document", x)>> /\ Doing("delete", "document", x)'
  <2>1. h # <<>>
    BY <1>0, <1>6 DEF Handles, Does, Busy, Mentions
  <2>2. h = <<Delete("document", x)>>
    BY <1>3, <2>1
  <2>3. /\ Head(h) = Delete("document", x) /\ DOMAIN h = {1} /\ h[1] = Delete("document", x)
    BY <2>2, OneOrTwo
  <2>4. d = x
    BY <1>0, <1>6, <2>3, StatementColumns DEF Handles, Does, Busy, Step, Mentions
  <2>5. Does(w, "delete", "document", x)'
    BY <1>0, <2>1, <2>3, StatementColumns DEF Does, Busy, Step
  <2> QED BY <2>2, <2>4, <2>5 DEF Doing
<1>7. \A d : d # x => Files(d)' = Files(d)
  BY <1>1, <1>3 DEF Files
<1>5. Files(x)' = IF store' = store THEN {} ELSE {p}
  <2>1. CASE store' = store
    BY <1>1, <2>1 DEF Files
  <2>2. CASE store' = store \cup {p}
    <3>1. Files(x)' = Files(x) \cup {p}
      BY <1>1, <2>2 DEF Files
    <3> QED BY <1>1, <2>1, <3>1
  <2> QED BY <1>3, <2>1, <2>2
<1>8. DocumentPlan(w)'
  <2>1. CASE h = <<>>
    <3>1. NoDocument(request[w])'
      BY <1>0, <2>1 DEF NoDocument
    <3> QED BY <3>1 DEF DocumentPlan
  <2>2. CASE h = <<Delete("document", x)>>
    <3>1. Drops(w, x)'
      BY <1>0, <1>1, <2>2 DEF Drops
    <3> QED BY <3>1 DEF DocumentPlan
  <2> QED BY <1>3, <2>1, <2>2
<1>9. FolderPlan(w)'
  <2>1. Delete("document", x).do # "remove_folder"
    BY StatementColumns
  <2>2. NoFolder(h)
    BY <1>3, <2>1, NoFolderWith
  <2> QED BY <1>0, <2>2 DEF FolderPlan
<1>10. PlansStayApart(w)
  BY <1>1, <1>4, <1>6, <1>7 DEF PlansStayApart
<1>11. FilesFit'
  <2>1. \A d \in Live("document") : d \in Documents
    BY <1>0, LiveIds
  <2>2. x \in Live("document") => DocumentFiles(x)' = {p}
    BY <1>0, <1>1 DEF DocumentFiles, Filed
  <2>3. ASSUME NEW d \in Live("document")' PROVE Files(d)' \subseteq DocumentFiles(d)'
    BY <1>0, <1>5, <1>7, <2>2, <2>3 DEF FilesFit
  <2>4. ASSUME NEW d \in Documents, ~Born("document", d)' PROVE Files(d)' = {}
    BY <1>0, <1>1, <1>7, <2>4 DEF FilesFit
  <2> QED BY <2>3, <2>4 DEF FilesFit
<1>12. FilesInv'
  BY <1>0, <1>8, <1>9, <1>10, <1>11, PlansAfter
<1>13. ASSUME NEW d \in Documents, d # x, LosesDocument(d)' PROVE LosesDocument(d)
  BY <1>0, <1>4, <1>6, <1>7, <1>13, StepsAside
<1>14. ASSUME x \notin excused, store' = store \/ h = Tail(request[w]) PROVE ~LosesDocument(x)'
  <2>1. CASE h = <<Delete("document", x)>>
    <3>1. Does(w, "delete", "document", x)'
      BY <1>0, <2>1, OneOrTwo, StatementColumns DEF Does, Busy, Step
    <3>2. DocumentDue(x)' = {}
      BY <3>1 DEF Doing, DocumentDue
    <3>3. store' = store
      BY <1>1, <1>14, <2>1, OneOrTwo
    <3> QED BY <1>5, <3>2, <3>3 DEF LosesDocument
  <2>2. CASE h = <<>>
    <3>1. store' = store \cup {p} /\ store' # store
      <4>1. store' = store \cup {p}
        BY <1>3, <2>2, OneOrTwo
      <4> QED BY <1>1, <4>1 DEF Files
    <3>2. ~Handles(w, x)' /\ \A v \in Workers \ {w} : ~Handles(v, x)'
      BY <1>0, <1>1, <2>2 DEF Handles, Does, Busy, Step
    <3>3. ~Doing("delete", "document", x)'
      BY <3>2 DEF Doing, Handles
    <3>4. x \in Live("document") /\ DocumentFiles(x)' = {p}
      BY <1>0, <1>1, <1>14 DEF DocumentFiles, Filed
    <3>5. DocumentDue(x)' = Files(x)'
      BY <1>5, <3>1, <3>3, <3>4 DEF DocumentDue
    <3> QED BY <3>5 DEF LosesDocument
  <2> QED BY <1>3, <2>1, <2>2
<1> QED BY <1>0, <1>2, <1>12, <1>13, <1>14 DEF LostDocuments

-----------------------------------------------------------------------------
(* Spents, while requests come one at a time.  A spent is lost when it has   *)
(* not the file it says it has, unless the request in progress is about to   *)
(* save what it says, or to delete it.                                       *)
Sends(q) == \E w \in Workers : Busy(w) /\ Step(w) = q

SpentDue(s) ==
  IF Sends(Delete("spent", s)) \/ Sends(Flagged(s, FALSE)) THEN {}
  ELSE IF Sends(Flagged(s, TRUE)) THEN {SpentPath(s)} ELSE SpentFiles(s)

LostSpents == {s \in Spents \ excused : Files(s) # SpentDue(s)}

NoSpent(h) == \A k \in DOMAIN h : h[k].table # "spent"

Enters(h, moved, s, v) == h = <<Insert("spent", s, v)>> /\ (v.file => s \in moved)

Edits(h, moved, s, v) ==
  /\ s \in Live("spent") /\ ("file" \in DOMAIN v => v.file = SaysFile(s) \/ s \in moved)
  /\ h \in {<<Update("spent", s, v)>>, <<Save("spent", s, v)>>}

Settles(h, s) ==
  /\ s \in Live("spent")
  /\ h \in {<<Flagged(s, TRUE)>>, <<Flagged(s, FALSE)>>, <<Delete("spent", s)>>}

Attaches(h, s) ==
  /\ s \in Live("spent")
  /\ h = <<Upload("spent", SpentPath(s), <<>>), Flagged(s, TRUE)>>

Detaches(h, s) ==
  /\ s \in Live("spent") /\ SaysFile(s)
  /\ h \in {<<Remove("spent", SpentPath(s)), Flagged(s, FALSE)>>,
             <<Remove("spent", SpentPath(s)), Delete("spent", s)>>}

Rewrites(h, moved, s, v) ==
  /\ "file" \in DOMAIN v => v.file = SaysFile(s) \/ s \in moved
  /\ \E q : /\ h = <<q>> /\ q.do \in {"overwrite", "relink"}
             /\ q.table = "spent" /\ q.id = s /\ q.set = v

(* These say nothing of a file that is not there, or of one that is.         *)
Quiet(h, moved) ==
  \/ NoSpent(h)
  \/ \E s, v : Rewrites(h, moved, s, v)
  \/ \E s, v : Enters(h, moved, s, v) \/ Edits(h, moved, s, v)
  \/ \E s : Attaches(h, s) \/ Detaches(h, s)

SpentPlan(w) == Quiet(request[w], excused) \/ \E s : Settles(request[w], s)

(* What is due when at most one worker holds anything.                       *)
DueUnder(h, s) ==
  IF h # <<>> /\ Head(h) \in {Delete("spent", s), Flagged(s, FALSE)} THEN {}
  ELSE IF h # <<>> /\ Head(h) = Flagged(s, TRUE) THEN {SpentPath(s)} ELSE SpentFiles(s)

(* The worker that holds anything says what is due.                          *)
LEMMA DueNow ==
  ASSUME NEW w \in Workers, \A v \in Workers \ {w} : request[v] = <<>>, NEW s
  PROVE  SpentDue(s) = DueUnder(request[w], s)
<1>1. \A q : Sends(q) <=> request[w] # <<>> /\ Head(request[w]) = q
  BY DEF Sends, Busy, Step
<1> QED BY <1>1 DEF SpentDue, DueUnder

LEMMA DueThen ==
  ASSUME NEW w \in Workers, \A v \in Workers \ {w} : request'[v] = <<>>, NEW s
  PROVE  SpentDue(s)' = DueUnder(request[w], s)'
<1>1. /\ Sends(Delete("spent", s))' <=> request'[w] # <<>> /\ Head(request'[w]) = Delete("spent", s)
      /\ Sends(Flagged(s, FALSE))' <=> request'[w] # <<>> /\ Head(request'[w]) = Flagged(s, FALSE)'
      /\ Sends(Flagged(s, TRUE))' <=> request'[w] # <<>> /\ Head(request'[w]) = Flagged(s, TRUE)'
  BY DEF Sends, Busy, Step
<1> QED BY <1>1 DEF SpentDue, DueUnder

(* A statement that flags a spent, or deletes it, says so.                   *)
LEMMA FlaggedColumns ==
  /\ \A s, b : Flagged(s, b).do = "update" /\ Flagged(s, b).table = "spent" /\ Flagged(s, b).id = s
  /\ \A t, x, r : /\ Save(t, x, r).do = "save" /\ Save(t, x, r).table = t
                  /\ Save(t, x, r).id = x /\ Save(t, x, r).set = r
<1>1. \A s, b : Flagged(s, b).do = "update" /\ Flagged(s, b).table = "spent" /\ Flagged(s, b).id = s
  BY StatementColumns DEF Flagged
<1>2. \A t, x, r : /\ Save(t, x, r).do = "save" /\ Save(t, x, r).table = t
                   /\ Save(t, x, r).id = x /\ Save(t, x, r).set = r
  BY DEF Save
<1> QED BY <1>1, <1>2

LEMMA DueOfOthers ==
  ASSUME NEW h, NEW s,
         h = <<>> \/ Head(h).table # "spent" \/ Head(h).id # s \/ Head(h).do \notin {"update", "delete"}
  PROVE  DueUnder(h, s) = SpentFiles(s)
<1>1. /\ \A b : Flagged(s, b).do = "update" /\ Flagged(s, b).table = "spent" /\ Flagged(s, b).id = s
      /\ Delete("spent", s).do = "delete" /\ Delete("spent", s).table = "spent"
      /\ Delete("spent", s).id = s
  BY StatementColumns, FlaggedColumns
<1>2. h # <<>> => \A q \in {Delete("spent", s), Flagged(s, FALSE), Flagged(s, TRUE)} : Head(h) # q
  BY <1>1
<1> QED BY <1>2 DEF DueUnder

(* A flag that is put up differs from one that is taken down.                *)
LEMMA DueOfSettled ==
  ASSUME Whole, NEW s \in Live("spent")
  PROVE  /\ DueUnder(<<Delete("spent", s)>>, s) = {}
         /\ DueUnder(<<Flagged(s, FALSE)>>, s) = {}
         /\ DueUnder(<<Flagged(s, TRUE)>>, s) = {SpentPath(s)}
<1>1. db["spent"][s] \in SpentRow
  BY LiveRows, LiveIds, TheTables, TheRows
<1>2. [db["spent"][s] EXCEPT !.file = TRUE] # [db["spent"][s] EXCEPT !.file = FALSE]
  BY <1>1 DEF SpentRow
<1>3. Flagged(s, TRUE).set # Flagged(s, FALSE).set
  BY <1>2 DEF Flagged, Update
<1>4. Flagged(s, TRUE) # Delete("spent", s)
  <2>1. PICK f : f = Flagged(s, TRUE)
    OBVIOUS
  <2>2. f.do = "update"
    BY <2>1, StatementColumns DEF Flagged
  <2>3. Delete("spent", s).do = "delete"
    BY StatementColumns
  <2> QED BY <2>1, <2>2, <2>3
<1>5. Flagged(s, TRUE) # Flagged(s, FALSE)
  BY <1>3
<1>6. /\ <<Delete("spent", s)>> # <<>> /\ Head(<<Delete("spent", s)>>) = Delete("spent", s)
      /\ <<Flagged(s, FALSE)>> # <<>> /\ Head(<<Flagged(s, FALSE)>>) = Flagged(s, FALSE)
      /\ <<Flagged(s, TRUE)>> # <<>> /\ Head(<<Flagged(s, TRUE)>>) = Flagged(s, TRUE)
  BY OneOrTwo
<1>7. DueUnder(<<Delete("spent", s)>>, s) = {}
  BY <1>6 DEF DueUnder
<1>8. DueUnder(<<Flagged(s, FALSE)>>, s) = {}
  BY <1>6 DEF DueUnder
<1>9. DueUnder(<<Flagged(s, TRUE)>>, s) = {SpentPath(s)}
  BY <1>4, <1>5, <1>6 DEF DueUnder
<1> QED BY <1>7, <1>8, <1>9

LEMMA DueOfQuiet ==
  ASSUME Whole, NEW h, NEW moved, Quiet(h, moved), h = <<>> \/ 1 \in DOMAIN h, NEW x, x \notin moved
  PROVE  DueUnder(h, x) = SpentFiles(x)
<1>1. CASE NoSpent(h)
  <2>1. h = <<>> \/ Head(h).table # "spent"
    BY <1>1 DEF NoSpent
  <2> QED BY <2>1, DueOfOthers
<1>2. ASSUME NEW s, NEW v, Enters(h, moved, s, v) PROVE DueUnder(h, x) = SpentFiles(x)
  <2>1. Head(h) = Insert("spent", s, v)
    BY <1>2, OneOrTwo DEF Enters
  <2>2. Head(h).do = "insert"
    BY <2>1, StatementColumns
  <2> QED BY <2>2, DueOfOthers
<1>3. ASSUME NEW s, Attaches(h, s) \/ Detaches(h, s) PROVE DueUnder(h, x) = SpentFiles(x)
  <2>0. \E f : \/ h = <<Upload("spent", SpentPath(s), <<>>), f>>
               \/ h = <<Remove("spent", SpentPath(s)), f>>
    BY <1>3 DEF Attaches, Detaches
  <2>1. Head(h) = Upload("spent", SpentPath(s), <<>>) \/ Head(h) = Remove("spent", SpentPath(s))
    BY <2>0, OneOrTwo
  <2>2. Head(h).do \in {"upload", "remove"}
    BY <2>1, StepColumns
  <2> QED BY <2>2, DueOfOthers
<1>4. ASSUME NEW s, NEW v, Edits(h, moved, s, v) PROVE DueUnder(h, x) = SpentFiles(x)
  <2>1. CASE h = <<Save("spent", s, v)>>
    <3>1. Head(h) = Save("spent", s, v)
      BY <2>1, OneOrTwo
    <3>2. Head(h).do = "save"
      BY <3>1, FlaggedColumns
    <3> QED BY <3>2, DueOfOthers
  <2>2. CASE h = <<Update("spent", s, v)>>
    <3>1. h # <<>> /\ Head(h) = Update("spent", s, v)
      BY <2>2, OneOrTwo
    <3>2. Head(h).id = s /\ Head(h).do = "update" /\ Head(h).set = v
      BY <3>1, StatementColumns
    <3>3. CASE x # s
      BY <3>2, <3>3, DueOfOthers
    <3>4. CASE x = s
      <4>1. s \in Live("spent") /\ ("file" \in DOMAIN v => v.file = SaysFile(s)) /\ db["spent"][s] \in SpentRow
        BY <1>4, <3>4, LiveIds, LiveRows, TheTables, TheRows DEF Edits
      <4>2. Head(h) # Delete("spent", x)
        BY <3>2, StatementColumns
      <4>3. PICK f : f = Flagged(x, FALSE)
        OBVIOUS
      <4>4. PICK g : g = Flagged(x, TRUE)
        OBVIOUS
      <4>5. /\ f.set = [db["spent"][s] EXCEPT !.file = FALSE]
            /\ g.set = [db["spent"][s] EXCEPT !.file = TRUE]
        BY <3>4, <4>3, <4>4, StatementColumns DEF Flagged
      <4>6. /\ f.set.file = FALSE /\ "file" \in DOMAIN f.set
            /\ g.set.file = TRUE /\ "file" \in DOMAIN g.set
        BY <4>1, <4>5 DEF SpentRow
      <4>7. SaysFile(s) \in BOOLEAN
        BY DEF SaysFile
      <4>8. CASE SaysFile(s)
        <5>1. Head(h) # f
          BY <3>2, <4>1, <4>6, <4>8
        <5>2. SpentFiles(x) = {SpentPath(x)}
          BY <3>4, <4>8 DEF SpentFiles
        <5> QED BY <4>2, <4>3, <5>1, <5>2 DEF DueUnder
      <4>9. CASE ~SaysFile(s)
        <5>1. Head(h) # g
          BY <3>2, <4>1, <4>6, <4>9
        <5>2. SpentFiles(x) = {}
          BY <3>4, <4>9 DEF SpentFiles
        <5> QED BY <4>2, <4>4, <5>1, <5>2 DEF DueUnder
      <4> QED BY <4>8, <4>9
    <3> QED BY <3>3, <3>4
  <2> QED BY <1>4, <2>1, <2>2 DEF Edits
<1>5. ASSUME NEW s, NEW v, Rewrites(h, moved, s, v) PROVE DueUnder(h, x) = SpentFiles(x)
  <2>1. Head(h).do \in {"overwrite", "relink"}
    BY <1>5, OneOrTwo DEF Rewrites
  <2> QED BY <2>1, DueOfOthers
<1> QED BY <1>1, <1>2, <1>3, <1>4, <1>5 DEF Quiet

(* A request about a spent begins.                                           *)
LEMMA SpentsBegin ==
  ASSUME Ready, NEW h \in HandlersOf("spent"), NEW moved, ByHand(Head(h)) \subseteq moved
  PROVE  \/ Quiet(h, moved)
         \/ \E s : /\ Settles(h, s) /\ ~SaysFile(s)
                   /\ h \in {<<Flagged(s, FALSE)>>, <<Delete("spent", s)>>}
<1>0. Whole /\ "spent" \in Tables /\ Row["spent"] = SpentRow
  BY TheTables, TheRows DEF Ready
<1>1. CASE h \in Alone(CreateSpent)
  <2>1. PICK s \in Fresh("spent"), v \in SpentForms : h = <<Insert("spent", s, v)>>
    BY <1>1 DEF Alone, CreateSpent
  <2>2. PICK q : q = Insert("spent", s, v)
    OBVIOUS
  <2>3. q.do = "insert" /\ q.table = "spent" /\ q.id = s /\ q.set = v /\ Head(h) = q
    BY <2>1, <2>2, StatementColumns, OneOrTwo
  <2>4. v \in SpentRow
    BY SpentForm
  <2>5. "file" \in DOMAIN v /\ v.file \in BOOLEAN
    BY <2>4 DEF SpentRow
  <2>6. ~SaysFile(s)
    BY FreshIds DEF SaysFile, Live, Absent
  <2>7. v.file => ByHand(q) = {s}
    BY <2>3, <2>5, <2>6 DEF ByHand
  <2>8. Enters(h, moved, s, v)
    BY <2>1, <2>3, <2>7 DEF Enters
  <2> QED BY <2>8 DEF Quiet
<1>9. ASSUME NEW q, h = <<q>>, q.table = "spent", q.do \in {"update", "save", "overwrite"}
      PROVE  "file" \in DOMAIN q.set => q.set.file = SaysFile(q.id) \/ q.id \in moved
  BY <1>9, OneOrTwo DEF ByHand
<1>2. ASSUME NEW s \in Live("spent"), NEW v, h = <<Update("spent", s, v)>> \/ h = <<Save("spent", s, v)>>
      PROVE  Quiet(h, moved)
  <2>1. PICK q : h = <<q>> /\ q.do \in {"update", "save"} /\ q.table = "spent" /\ q.id = s /\ q.set = v
    BY <1>2, StatementColumns, FlaggedColumns
  <2>2. Edits(h, moved, s, v)
    BY <1>2, <1>9, <2>1 DEF Edits
  <2> QED BY <2>2 DEF Quiet
<1>10. ASSUME NEW q, h = <<q>>, q.table = "spent",
              \/ q.do = "overwrite"
              \/ q.do = "relink" /\ "file" \notin DOMAIN q.set
       PROVE  Quiet(h, moved)
  <2>1. Rewrites(h, moved, q.id, q.set)
    BY <1>9, <1>10 DEF Rewrites
  <2> QED BY <2>1 DEF Quiet
<1>11. CASE h \in Alone(UpdateSpent)
  <2>1. PICK q \in UpdateSpent : h = <<q>>
    BY <1>11 DEF Alone
  <2>2. CASE q \in SaveSpentGraph
    <3>1. PICK s \in Live("spent"), v \in SpentPatches : q = Save("spent", s, Merged(db.spent[s], v))
      BY <2>2 DEF SaveSpentGraph
    <3> QED BY <1>2, <2>1, <3>1
  <2>3. CASE q \in PatchSpent
    <3>1. PICK s \in Live("spent"), v \in SpentPatches : q \in Edited("spent", s, v)
      BY <2>3 DEF PatchSpent
    <3>2. \/ q = Update("spent", s, v)
          \/ q.do = "overwrite" /\ q.table = "spent"
      BY <3>1, EditedForms
    <3> QED BY <1>2, <1>10, <2>1, <3>2
  <2> QED BY <2>2, <2>3 DEF UpdateSpent
<1>12. CASE h \in Alone(Relinked("spent"))
  <2>1. PICK q \in Relinked("spent") : h = <<q>>
    BY <1>12 DEF Alone
  <2> QED BY <1>10, <2>1, RelinkedForms, RelinkedIds
<1>3. ASSUME NEW s \in Live("spent"), NEW a, h = FileOf(s) \o <<a>>
      PROVE  IF SaysFile(s) THEN h = <<Remove("spent", SpentPath(s)), a>> ELSE h = <<a>>
  <2>1. SaysFile(s) <=> db.spent[s].file
    BY DEF SaysFile
  <2>2. CASE db.spent[s].file
    <3>0. ASSUME NEW x PROVE <<x>> \o <<a>> = <<x, a>>
      <4>1. <<x>> \in Seq({x, a}) /\ <<a>> \in Seq({x, a}) /\ <<x, a>> \in Seq({x, a})
        OBVIOUS
      <4>2. <<x>> \o <<a>> \in Seq({x, a}) /\ Len(<<x>> \o <<a>>) = 2
        BY <4>1
      <4>3. \A i \in 1..2 : (<<x>> \o <<a>>)[i] = <<x, a>>[i]
        BY <4>1
      <4> QED BY <4>1, <4>2, <4>3, SeqEqual
    <3> QED BY <1>3, <2>1, <2>2, <3>0 DEF FileOf
  <2>3. CASE ~db.spent[s].file
    BY <1>3, <2>1, <2>3 DEF FileOf
  <2> QED BY <2>2, <2>3
<1>4. CASE h \in AddFileToSpent
  <2>1. PICK s \in Live("spent") : h = <<Upload("spent", SpentPath(s), <<>>), Flagged(s, TRUE)>>
    BY <1>4 DEF AddFileToSpent
  <2> QED BY <2>1 DEF Attaches, Quiet
<1>5. ASSUME NEW s \in Live("spent"), NEW a, a \in {Flagged(s, FALSE), Delete("spent", s)},
             h = FileOf(s) \o <<a>>
      PROVE  Detaches(h, s) \/ (Settles(h, s) /\ ~SaysFile(s) /\ h = <<a>>)
  BY <1>3, <1>5 DEF Detaches, Settles
<1>6. CASE h \in RemoveFileFromSpent
  <2>1. PICK s, a : s \in Live("spent") /\ a = Flagged(s, FALSE) /\ h = FileOf(s) \o <<a>>
    BY <1>6 DEF RemoveFileFromSpent
  <2>2. Detaches(h, s) \/ (Settles(h, s) /\ ~SaysFile(s) /\ h = <<a>>)
    BY <1>5, <2>1
  <2> QED BY <2>1, <2>2 DEF Quiet
<1>7. CASE h \in DeleteSpent
  <2>1. PICK s, a : s \in Live("spent") /\ a = Delete("spent", s) /\ h = FileOf(s) \o <<a>>
    BY <1>7 DEF DeleteSpent
  <2>2. Detaches(h, s) \/ (Settles(h, s) /\ ~SaysFile(s) /\ h = <<a>>)
    BY <1>5, <2>1
  <2> QED BY <2>1, <2>2 DEF Quiet
<1>8. h \in Alone(CreateSpent) \cup Alone(UpdateSpent) \cup Alone(Relinked("spent")) \cup AddFileToSpent
              \cup RemoveFileFromSpent \cup DeleteSpent
  BY DEF HandlersOf, Alone
<1> QED BY <1>1, <1>4, <1>6, <1>7, <1>8, <1>11, <1>12

(* A request that begins alone loses no spent.                               *)
LEMMA BeginsOnSpents ==
  ASSUME BackInv, NEW w \in Workers, Begin(w), \A v \in Workers \ {w} : request[v] = <<>>
  PROVE  SpentPlan(w)' /\ LostSpents' \subseteq LostSpents
<1>1. PICK t \in scope.writes : \E h \in HandlersOf(t) :
          WithinBound(h) /\ Goes(w, h) /\ excused' = excused \cup ByHand(Head(h))
  BY DEF Begin
<1>2. PICK h \in HandlersOf(t) :
          WithinBound(h) /\ Goes(w, h) /\ excused' = excused \cup ByHand(Head(h))
  BY <1>1
<1>3. t \in Tables /\ Ready /\ Whole
  BY BackOfficeAssumption DEF BackInv, Counted, Ready
<1>4. Queue(h, t)
  BY <1>2, <1>3, HandlersSendQueues
<1>5. /\ db' = db /\ store' = store /\ request[w] = <<>>
      /\ request' = [request EXCEPT ![w] = h] /\ excused \subseteq excused'
  BY <1>2 DEF Begin, Goes, Busy
<1>6. request'[w] = h /\ \A v \in Workers \ {w} : request'[v] = request[v]
  BY <1>5 DEF BackInv, AllWait
<1>7. PICK moved : moved = excused'
  OBVIOUS
<1>8. h = <<>> \/ 1 \in DOMAIN h
  BY <1>4, OneOrTwo DEF Queue
<1>9. \/ Quiet(h, moved)
      \/ \E s : /\ Settles(h, s) /\ ~SaysFile(s)
                /\ h \in {<<Flagged(s, FALSE)>>, <<Delete("spent", s)>>}
  <2>1. CASE t = "spent"
    <3>1. h \in HandlersOf("spent") /\ ByHand(Head(h)) \subseteq moved
      BY <1>2, <1>7, <2>1
    <3> QED BY <1>3, <3>1, SpentsBegin
  <2>2. CASE t # "spent"
    <3>1. NoSpent(h)
      BY <1>4, <2>2, QueueTables DEF NoSpent
    <3> QED BY <3>1 DEF Quiet
  <2> QED BY <2>1, <2>2
<1>10. \A x : x \notin moved => DueUnder(h, x) = SpentFiles(x)
  <2>1. CASE Quiet(h, moved)
    BY <1>3, <1>8, <2>1, DueOfQuiet
  <2>2. ASSUME NEW s, Settles(h, s), ~SaysFile(s), h \in {<<Flagged(s, FALSE)>>, <<Delete("spent", s)>>},
               NEW x
        PROVE  DueUnder(h, x) = SpentFiles(x)
    <3>1. CASE x = s
      BY <1>3, <2>2, <3>1, DueOfSettled DEF Settles, SpentFiles
    <3>2. CASE x # s
      <4>1. Head(h) = Flagged(s, FALSE) \/ Head(h) = Delete("spent", s)
        BY <2>2, OneOrTwo
      <4>2. Head(h).id = s
        <5>1. PICK f : f = Flagged(s, FALSE)
          OBVIOUS
        <5>2. f.id = s /\ Delete("spent", s).id = s
          BY <5>1, StatementColumns DEF Flagged
        <5> QED BY <4>1, <5>1, <5>2
      <4> QED BY <3>2, <4>2, DueOfOthers
    <3> QED BY <3>1, <3>2
  <2> QED BY <1>9, <2>1, <2>2
<1>11. \A x : Live(x)' = Live(x)
  BY <1>5 DEF Live
<1>12. \A x : SaysFile(x)' = SaysFile(x) /\ SpentPath(x)' = SpentPath(x)
  BY <1>5, <1>11 DEF SaysFile, SpentPath
<1>13. \A x : Files(x)' = Files(x) /\ SpentFiles(x)' = SpentFiles(x)
  BY <1>5, <1>12 DEF Files, SpentFiles
<1>14. \A x, b : Flagged(x, b)' = Flagged(x, b)
  BY <1>5 DEF Flagged
<1>15. \A x : DueUnder(h, x)' = DueUnder(h, x)
  BY <1>12, <1>13, <1>14 DEF DueUnder
<1>16. ASSUME NEW x, x \notin moved, x \notin excused
       PROVE  SpentDue(x)' = SpentFiles(x) /\ SpentDue(x) = SpentFiles(x)
  <2>1. SpentDue(x)' = DueUnder(request[w], x)' /\ SpentDue(x) = DueUnder(request[w], x)
    BY <1>6, DueNow, DueThen
  <2>2. DueUnder(request[w], x)' = DueUnder(h, x)'
    BY <1>6 DEF DueUnder
  <2>3. DueUnder(request[w], x) = SpentFiles(x)
    BY <1>5, DueOfOthers
  <2> QED BY <1>10, <1>15, <1>16, <2>1, <2>2, <2>3
<1>17. SpentPlan(w)'
  <2>1. (\E s : Settles(h, s)) => (\E s : Settles(h, s)')
    BY <1>11, <1>14 DEF Settles
  <2>2. Quiet(h, moved) => Quiet(h, moved)'
    <3>1. ASSUME NEW s PROVE (Attaches(h, s) => Attaches(h, s)') /\ (Detaches(h, s) => Detaches(h, s)')
      BY <1>11, <1>12, <1>14 DEF Attaches, Detaches
    <3>2. ASSUME NEW s, NEW v PROVE Edits(h, moved, s, v) => Edits(h, moved, s, v)'
      BY <1>11, <1>12 DEF Edits
    <3>3. ASSUME NEW s, NEW v PROVE Rewrites(h, moved, s, v) => Rewrites(h, moved, s, v)'
      BY <1>12 DEF Rewrites
    <3> QED BY <3>1, <3>2, <3>3 DEF Quiet
  <2>3. Quiet(h, moved)' => Quiet(request[w], excused)'
    BY <1>6, <1>7
  <2>4. (\E s : Settles(h, s)') => (\E s : Settles(request[w], s)')
    BY <1>6
  <2> QED BY <1>9, <2>1, <2>2, <2>3, <2>4 DEF SpentPlan
<1> QED BY <1>5, <1>7, <1>13, <1>16, <1>17 DEF LostSpents

(* A statement that is executed, and the spents.                             *)
LEMMA SpentRowsChange ==
  ASSUME Whole, NEW q, Execution(q), NEW x \in Spents
  PROVE  \/ db'["spent"][x] = db["spent"][x]
         \/ Becoming(q, "spent", x)
         \/ /\ q.do = "delete" /\ q.table = "spent" /\ q.id = x /\ Accepted(q)
            /\ x \in Live("spent") /\ db'["spent"][x] = Gone
<1>0. "spent" \in Tables /\ x \in Ids["spent"]
  BY TheTables, TheIds
<1>1. CASE Dying(q, "spent", x)
  <2>1. <<"spent", x>> = <<q.table, q.id>>
    <3> SUFFICES ASSUME <<"spent", x>> # <<q.table, q.id>> PROVE FALSE
      OBVIOUS
    <3>0. PICK t, y : t = q.table /\ y = q.id
      OBVIOUS
    <3>1. <<"spent", x>> \in GoneWith(t, y) /\ <<"spent", x>> # <<t, y>>
      BY <1>1, <3>0 DEF Dying
    <3>2. PICK k \in ForeignKeys :
            /\ k.after = "cascade" /\ k.table = "spent" /\ x \in Live("spent")
            /\ <<k.parent, db["spent"][x][k.column]>> \in GoneWith(t, y)
      BY <3>1, GoneWithParent
    <3> QED BY <3>2, CascadingKeys
  <2> QED BY <1>1, <2>1 DEF Dying
<1>2. CASE Unlinking(q, "spent", x)
  <2>1. db["spent"][x] \in Row["spent"]
    BY <1>0, <1>2, LiveRows DEF Unlinking
  <2>2. \A k \in ForeignKeys : k.after = "set_null" => k.table # "spent"
    BY ClearedColumns
  <2>3. db'["spent"][x] = db["spent"][x]
    BY <1>0, <1>2, <2>1, <2>2, NothingUnlinked DEF Unlinking
  <2> QED BY <2>3
<1> QED BY <1>0, <1>1, <1>2, RowsBecome

LEMMA SpentPathStays ==
  ASSUME NEW w \in Workers, Execute(w), NEW x \in Live("spent"), x \in Live("spent")',
         x \notin excused'
  PROVE  SpentPath(x)' = SpentPath(x)
<1>1. Owner["spent"] = "supplier" /\ "spent" \in DOMAIN Owner
  BY DEF Owner
<1>2. x \notin Moves("spent", db')
  BY <1>1 DEF Execute
<1>3. db'["spent"][x] \notin Absent
  BY DEF Live
<1>4. EntOf(db', "spent", x) = EntOf(db, "spent", x)
  BY <1>2, <1>3 DEF Moves
<1> QED BY <1>1, <1>4 DEF EntOf, SpentPath, Path

LEMMA SpentFilesStay ==
  ASSUME NEW w \in Workers, Execute(w), NEW x, x \notin excused',
         x \in Live("spent") <=> x \in Live("spent")',
         x \in Live("spent") => db'["spent"][x].file = db["spent"][x].file
  PROVE  SpentFiles(x)' = SpentFiles(x)
<1>1. SaysFile(x)' <=> SaysFile(x)
  BY DEF SaysFile
<1>2. SaysFile(x) => SpentPath(x)' = SpentPath(x)
  BY SpentPathStays DEF SaysFile
<1>3. CASE SaysFile(x)
  BY <1>1, <1>2, <1>3 DEF SpentFiles
<1>4. CASE ~SaysFile(x)
  BY <1>1, <1>4 DEF SpentFiles
<1> QED BY <1>3, <1>4

LEMMA DueOfNone ==
  ASSUME NEW w \in Workers, \A v \in Workers \ {w} : request'[v] = <<>>, NEW x,
         request'[w] = <<>> \/ Head(request'[w]).table # "spent"
  PROVE  SpentDue(x)' = SpentFiles(x)'
<1>1. SpentDue(x)' = DueUnder(request[w], x)'
  BY DueThen
<1>2. \A y, r : Update("spent", y, r).table = "spent" /\ Delete("spent", y).table = "spent"
  BY StatementColumns
<1>3. /\ Delete("spent", x).table = "spent"
      /\ Flagged(x, FALSE)'.table = "spent" /\ Flagged(x, TRUE)'.table = "spent"
  BY <1>2 DEF Flagged
<1>4. CASE request'[w] = <<>>
  BY <1>1, <1>4 DEF DueUnder
<1>5. CASE Head(request'[w]).table # "spent"
  <2>1. Head(request'[w]) # Delete("spent", x)
    BY <1>3, <1>5
  <2>2. Head(request'[w]) # Flagged(x, FALSE)'
    BY <1>3, <1>5
  <2>3. Head(request'[w]) # Flagged(x, TRUE)'
    BY <1>3, <1>5
  <2> QED BY <1>1, <2>1, <2>2, <2>3 DEF DueUnder
<1> QED BY <1>4, <1>5

LEMMA SpentSteps ==
  ASSUME NEW h, NEW s
  PROVE  /\ \A moved, v : Enters(h, moved, s, v) =>
               h # <<>> /\ Tail(h) = <<>> /\ Head(h) = Insert("spent", s, v)
         /\ \A moved, v : Edits(h, moved, s, v) =>
               /\ h # <<>> /\ Tail(h) = <<>>
               /\ Head(h) = Update("spent", s, v) \/ Head(h) = Save("spent", s, v)
         /\ Settles(h, s) =>
               /\ h # <<>> /\ Tail(h) = <<>>
               /\ \/ Head(h) = Flagged(s, TRUE) \/ Head(h) = Flagged(s, FALSE)
                  \/ Head(h) = Delete("spent", s)
         /\ Attaches(h, s) =>
               /\ h # <<>> /\ Head(h) = Upload("spent", SpentPath(s), <<>>)
               /\ Tail(h) = <<Flagged(s, TRUE)>>
         /\ Detaches(h, s) =>
               /\ h # <<>> /\ Head(h) = Remove("spent", SpentPath(s))
               /\ Tail(h) = <<Flagged(s, FALSE)>> \/ Tail(h) = <<Delete("spent", s)>>
<1>1. ASSUME NEW moved, NEW v, Enters(h, moved, s, v)
      PROVE  h # <<>> /\ Tail(h) = <<>> /\ Head(h) = Insert("spent", s, v)
  BY <1>1, OneOrTwo DEF Enters
<1>2. ASSUME NEW moved, NEW v, Edits(h, moved, s, v)
      PROVE  /\ h # <<>> /\ Tail(h) = <<>>
             /\ Head(h) = Update("spent", s, v) \/ Head(h) = Save("spent", s, v)
  <2>1. CASE h = <<Update("spent", s, v)>>
    BY <2>1, OneOrTwo
  <2>2. CASE h = <<Save("spent", s, v)>>
    BY <2>2, OneOrTwo
  <2> QED BY <1>2, <2>1, <2>2 DEF Edits
<1>3. ASSUME Settles(h, s)
      PROVE  /\ h # <<>> /\ Tail(h) = <<>>
             /\ \/ Head(h) = Flagged(s, TRUE) \/ Head(h) = Flagged(s, FALSE)
                \/ Head(h) = Delete("spent", s)
  <2>1. PICK a : h = <<a>> /\ (a = Flagged(s, TRUE) \/ a = Flagged(s, FALSE) \/ a = Delete("spent", s))
    BY <1>3 DEF Settles
  <2> QED BY <2>1, OneOrTwo
<1>4. ASSUME Attaches(h, s)
      PROVE  /\ h # <<>> /\ Head(h) = Upload("spent", SpentPath(s), <<>>)
             /\ Tail(h) = <<Flagged(s, TRUE)>>
  <2>1. PICK a, b : /\ h = <<a, b>> /\ a = Upload("spent", SpentPath(s), <<>>) /\ b = Flagged(s, TRUE)
    BY <1>4 DEF Attaches
  <2> QED BY <2>1, OneOrTwo
<1>5. ASSUME Detaches(h, s)
      PROVE  /\ h # <<>> /\ Head(h) = Remove("spent", SpentPath(s))
             /\ Tail(h) = <<Flagged(s, FALSE)>> \/ Tail(h) = <<Delete("spent", s)>>
  <2>1. PICK a, b : /\ h = <<a, b>> /\ a = Remove("spent", SpentPath(s))
                    /\ b = Flagged(s, FALSE) \/ b = Delete("spent", s)
    BY <1>5 DEF Detaches
  <2> QED BY <2>1, OneOrTwo
<1> QED BY <1>1, <1>2, <1>3, <1>4, <1>5

LEMMA RewriteStep ==
  ASSUME NEW h, NEW moved, NEW s, NEW v, Rewrites(h, moved, s, v)
  PROVE  /\ h # <<>> /\ Tail(h) = <<>>
         /\ Head(h).do \in {"overwrite", "relink"} /\ Head(h).table = "spent"
         /\ Head(h).id = s /\ Head(h).set = v
  BY OneOrTwo DEF Rewrites

(* The flag of a spent is saved, whatever it was.                            *)
LEMMA FlagIsSaved ==
  ASSUME Whole, RefsLive, NEW s \in Live("spent"), NEW b \in BOOLEAN, NEW q, q = Flagged(s, b),
         Execution(q)
  PROVE  s \in Live("spent")' /\ db'["spent"][s].file = b
<1>0. /\ "spent" \in Tables /\ s \in Ids["spent"] /\ Row["spent"] = SpentRow
      /\ db["spent"][s] \in SpentRow /\ db["spent"][s].supplier \in Live("supplier")
  BY TheTables, TheRows, LiveIds, FiledRows
<1>1. PICK v : v = [db["spent"][s] EXCEPT !.file = b]
  OBVIOUS
<1>2. q.do = "update" /\ q.table = "spent" /\ q.id = s /\ q.set = v
  BY <1>1, StatementColumns DEF Flagged
<1>3. /\ v \in SpentRow /\ v.file = b /\ DOMAIN v = {"supplier", "category", "file"}
      /\ v.supplier = db["spent"][s].supplier /\ v.category = db["spent"][s].category
  BY <1>0, <1>1 DEF SpentRow
<1>4. ParentsLive("spent", v)
  <2> SUFFICES ASSUME NEW k \in ForeignKeys, k.table = "spent", k.column \in DOMAIN v
               PROVE  v[k.column] = None \/ v[k.column] \in Live(k.parent)
    BY DEF ParentsLive
  <2>1. db["spent"][s][k.column] \in Live(k.parent) \cup {None}
    BY DEF RefsLive
  <2>2. k.column \in {"supplier", "category"}
    BY EnterpriseKeyParts, LineKeyParts, SaleKeyParts, OtherKeyParts DEF Parts, ForeignKeys
  <2>3. v[k.column] = db["spent"][s][k.column]
    BY <1>3, <2>2
  <2> QED BY <2>1, <2>3
<1>5. Accepted(q)
  BY <1>2, <1>4 DEF Accepted
<1>6. Whole' /\ Becomes(q) \in Row[q.table] /\ WritesRow(q)
  BY <1>2, <1>5, Written DEF Execution, Writing
<1>7. Becomes(q) = v
  BY <1>0, <1>2, <1>3, MergedWhole DEF Becomes
<1>8. db'["spent"][s] = v
  BY <1>0, <1>2, <1>6, <1>7 DEF WritesRow
<1>9. s \in Live("spent")'
  BY <1>0, <1>3, <1>6, <1>8, LiveRowsAfter
<1> QED BY <1>3, <1>8, <1>9

LEMMA SpentIsDeleted ==
  ASSUME NEW s \in Live("spent"), Execution(Delete("spent", s))
  PROVE  s \notin Live("spent")'
<1>1. /\ Delete("spent", s).do = "delete" /\ Delete("spent", s).table = "spent"
      /\ Delete("spent", s).id = s
  BY StatementColumns
<1>2. Accepted(Delete("spent", s)) /\ GoneWith("spent", s) = {<<"spent", s>>}
  BY LeavesAreDeleted, NothingHangs
<1>3. db' = Without({<<"spent", s>>})
  BY <1>1, <1>2 DEF Execution, Effect
<1>4. db'["spent"][s] = Gone
  BY <1>3, LiveIds, TheTables DEF Without
<1> QED BY <1>4 DEF Live, Absent

LEMMA ExecutedSpents ==
  ASSUME BackInv, NEW w \in Workers, Execute(w), SpentPlan(w), NEW x \in Spents, x \notin excused'
  PROVE  SpentFiles(x)' = DueUnder(request[w], x)
<1> DEFINE q == Step(w)
<1>0. /\ Execution(q) /\ excused \subseteq excused' /\ request[w] # <<>> /\ ~OnStore(q)
      /\ Whole /\ RefsLive /\ Pending(q) /\ 1 \in DOMAIN request[w] /\ request[w][1] = q
      /\ "spent" \in Tables /\ Ids["spent"] = Spents /\ Row["spent"] = SpentRow
      /\ q = Head(request[w])
  BY ExecutionFacts, HeldSteps, TheTables, TheIds, TheRows DEF BackInv, Ready, Step
<1>1. x \notin excused
  BY <1>0
<1> HIDE DEF q
<1>2. ASSUME db'["spent"][x] = db["spent"][x] PROVE SpentFiles(x)' = SpentFiles(x)
  <2>1. x \in Live("spent") <=> x \in Live("spent")'
    BY <1>2 DEF Live
  <2> QED BY <1>2, <2>1, SpentFilesStay
<1>3. \/ db'["spent"][x] = db["spent"][x]
      \/ q.table = "spent" /\ q.id = x /\ Writing(q) /\ Accepted(q)
           /\ db'["spent"][x] = Becomes(q)
      \/ q.table = "spent" /\ q.id = x /\ q.do = "delete"
  BY <1>0, SpentRowsChange DEF Becoming
<1>4. ASSUME Quiet(request[w], excused), db'["spent"][x] = db["spent"][x]
      PROVE  SpentFiles(x)' = DueUnder(request[w], x)
  BY <1>0, <1>1, <1>2, <1>4, DueOfQuiet
<1>5. CASE NoSpent(request[w])
  <2>1. q.table # "spent"
    BY <1>0, <1>5 DEF NoSpent
  <2> QED BY <1>3, <1>4, <1>5, <2>1 DEF Quiet
<1>6. ASSUME NEW s, NEW v, Enters(request[w], excused, s, v)
      PROVE  SpentFiles(x)' = DueUnder(request[w], x)
  <2>0. Quiet(request[w], excused)
    BY <1>6 DEF Quiet
  <2>1. q = Insert("spent", s, v)
    <3>1. Head(request[w]) = Insert("spent", s, v)
      BY <1>6, OneOrTwo DEF Enters
    <3> QED BY <1>0, <3>1
  <2>2. q.do = "insert" /\ q.id = s /\ q.set = v /\ q.table = "spent"
    BY <2>1, StatementColumns
  <2>3. CASE db'["spent"][x] = v /\ x = s
    <3>1. db["spent"][s] = Unborn
      BY <1>0, <2>2 DEF Pending, Waiting
    <3>2. ~SaysFile(x)
      BY <2>3, <3>1 DEF SaysFile, Live, Absent
    <3>3. ~v.file
      BY <1>1, <1>6, <2>3 DEF Enters
    <3>4. ~SaysFile(x)'
      BY <2>3, <3>3 DEF SaysFile
    <3>5. DueUnder(request[w], x) = SpentFiles(x)
      BY <1>0, <1>1, <2>0, DueOfQuiet
    <3> QED BY <3>2, <3>4, <3>5 DEF SpentFiles
  <2> QED BY <1>3, <1>4, <2>0, <2>2, <2>3 DEF Becomes, Patching
<1>7. ASSUME NEW s, NEW v, Edits(request[w], excused, s, v)
      PROVE  SpentFiles(x)' = DueUnder(request[w], x)
  <2>0. Quiet(request[w], excused)
    BY <1>7 DEF Quiet
  <2>1. /\ q.id = s /\ q.set = v /\ q.table = "spent"
        /\ q.do = "update" \/ q.do = "save"
    <3>0. Head(request[w]) = Update("spent", s, v) \/ Head(request[w]) = Save("spent", s, v)
      BY <1>7, SpentSteps
    <3>1. q = Update("spent", s, v) \/ q = Save("spent", s, v)
      BY <1>0, <3>0
    <3>2. CASE q = Update("spent", s, v)
      BY <3>2, StatementColumns
    <3>3. CASE q = Save("spent", s, v)
      BY <3>3, FlaggedColumns
    <3> QED BY <3>1, <3>2, <3>3
  <2>2. CASE db'["spent"][x] = Becomes(q) /\ x = s
    <3>1. /\ s \in Live("spent") /\ ("file" \in DOMAIN v => v.file = SaysFile(s))
          /\ db["spent"][s] \in SpentRow
      BY <1>0, <1>1, <1>7, <2>2, FiledRows DEF Edits
    <3>2. SaysFile(s) = db["spent"][s].file
      BY <3>1 DEF SaysFile, SpentRow
    <3>3. Becomes(q) \in SpentRow
      BY <1>0, <2>1, <3>1 DEF Becomes, Execution, Typed, Patching, Writing
    <3>4. Becomes(q).file = db["spent"][s].file
      <4>1. CASE q.do = "update"
        <5>1. Becomes(q) = Merged(db["spent"][s], v)
          BY <2>1, <4>1 DEF Becomes, Patching
        <5> QED BY <3>1, <3>2, <5>1 DEF Merged, SpentRow
      <4>2. CASE q.do = "save"
        <5>1. Becomes(q) = v
          BY <2>1, <4>2 DEF Becomes, Patching
        <5> QED BY <3>1, <3>2, <3>3, <5>1 DEF SpentRow
      <4> QED BY <2>1, <4>1, <4>2
    <3>5. x \in Live("spent")'
      <4>1. db'["spent"][x] \in Row["spent"]
        BY <1>0, <2>2, <3>3
      <4>2. db'["spent"][x] \notin Absent
        BY <1>0, <4>1, AbsenceAssumption DEF Absent
      <4> QED BY <1>0, <4>2 DEF Live
    <3>6. SpentFiles(x)' = SpentFiles(x)
      BY <2>2, <3>1, <3>4, <3>5, SpentFilesStay
    <3> QED BY <1>0, <1>1, <2>0, <3>6, DueOfQuiet
  <2> QED BY <1>3, <1>4, <2>0, <2>1, <2>2
<1>8. ASSUME NEW s, Settles(request[w], s) PROVE SpentFiles(x)' = DueUnder(request[w], x)
  <2>0. s \in Live("spent")
    BY <1>8 DEF Settles
  <2>1. q = Flagged(s, TRUE) \/ q = Flagged(s, FALSE) \/ q = Delete("spent", s)
    BY <1>0, <1>8, SpentSteps
  <2>2. q.id = s /\ q.table = "spent"
    <3>1. \A v : Update("spent", s, v).id = s /\ Update("spent", s, v).table = "spent"
      BY StatementColumns
    <3>2. Delete("spent", s).id = s /\ Delete("spent", s).table = "spent"
      BY StatementColumns
    <3> QED BY <2>1, <3>1, <3>2 DEF Flagged
  <2>3. CASE x # s
    <3>1. DueUnder(request[w], x) = SpentFiles(x)
      BY <1>0, <2>2, <2>3, DueOfOthers
    <3> QED BY <1>2, <1>3, <2>2, <2>3, <3>1
  <2>4. CASE x = s
    <3>0. DueUnder(request[w], s) = DueUnder(<<q>>, s)
      BY <1>0, OneOrTwo DEF DueUnder
    <3>1. ASSUME NEW b \in BOOLEAN, q = Flagged(s, b)
          PROVE  SpentFiles(s)' = IF b THEN {SpentPath(s)} ELSE {}
      <4>1. s \in Live("spent")' /\ db'["spent"][s].file = b
        BY <1>0, <2>0, <3>1, FlagIsSaved
      <4>2. SpentPath(s)' = SpentPath(s)
        BY <2>0, <2>4, <4>1, SpentPathStays
      <4> QED BY <4>1, <4>2 DEF SpentFiles, SaysFile
    <3>2. CASE q = Flagged(s, TRUE)
      BY <1>0, <2>0, <2>4, <3>0, <3>1, <3>2, DueOfSettled
    <3>3. CASE q = Flagged(s, FALSE)
      BY <1>0, <2>0, <2>4, <3>0, <3>1, <3>3, DueOfSettled
    <3>4. CASE q = Delete("spent", s)
      <4>1. s \notin Live("spent")'
        BY <1>0, <2>0, <3>4, SpentIsDeleted
      <4>2. SpentFiles(s)' = {}
        BY <4>1 DEF SpentFiles, SaysFile
      <4> QED BY <1>0, <2>0, <2>4, <3>0, <3>4, <4>2, DueOfSettled
    <3> QED BY <2>1, <3>2, <3>3, <3>4
  <2> QED BY <2>3, <2>4
<1>9. ASSUME NEW s, Attaches(request[w], s) \/ Detaches(request[w], s) PROVE FALSE
  <2>1. q = Upload("spent", SpentPath(s), <<>>) \/ q = Remove("spent", SpentPath(s))
    BY <1>0, <1>9, SpentSteps
  <2> QED BY <1>0, <2>1, StepColumns DEF OnStore
<1>10. ASSUME NEW s, NEW v, Rewrites(request[w], excused, s, v)
       PROVE  SpentFiles(x)' = DueUnder(request[w], x)
  <2>0. Quiet(request[w], excused)
    BY <1>10 DEF Quiet
  <2>1. q.do \in {"overwrite", "relink"} /\ q.table = "spent" /\ q.id = s /\ q.set = v
    BY <1>0, <1>10, RewriteStep
  <2>2. ASSUME x = s, db'["spent"][x] = Becomes(q), Accepted(q) PROVE SpentFiles(x)' = SpentFiles(x)
    <3>1. "file" \in DOMAIN v => v.file = SaysFile(x)
      BY <1>1, <1>10, <2>2 DEF Rewrites
    <3>2. Becomes(q) \in SpentRow
      BY <1>0, <2>1, <2>2, Written DEF Execution, Writing
    <3>3. Becomes(q).file = SaysFile(x)
      <4>1. CASE q.do = "overwrite"
        BY <2>1, <3>1, <3>2, <4>1 DEF Becomes, Patching, SpentRow
      <4>2. CASE q.do = "relink"
        <5>1. x \in Live("spent") /\ db["spent"][x] \in SpentRow
          BY <1>0, <2>1, <2>2, <4>2, LiveRows DEF Accepted
        <5>2. Becomes(q) = Merged(db["spent"][x], v)
          BY <2>1, <2>2, <4>2 DEF Becomes, Patching
        <5> QED BY <3>1, <5>1, <5>2 DEF Merged, SpentRow, SaysFile
      <4> QED BY <2>1, <4>1, <4>2
    <3>4. db'["spent"][x] \notin Absent
      BY <1>0, <2>2, <3>2, AbsenceAssumption DEF Absent
    <3>5. x \in Live("spent")'
      BY <1>0, <3>4 DEF Live
    <3>6. CASE x \in Live("spent")
      <4>1. db["spent"][x].file = SaysFile(x)
        <5>1. db["spent"][x] \in SpentRow
          BY <1>0, <3>6, LiveRows
        <5>2. db["spent"][x].file \in BOOLEAN
          BY <5>1 DEF SpentRow
        <5>3. SaysFile(x) = db["spent"][x].file
          BY <3>6, <5>2 DEF SaysFile
        <5> QED BY <5>3
      <4> QED BY <2>2, <3>3, <3>5, <3>6, <4>1, SpentFilesStay
    <3>7. CASE x \notin Live("spent")
      BY <2>2, <3>3, <3>7 DEF SaysFile, SpentFiles
    <3> QED BY <3>6, <3>7
  <2>3. CASE db'["spent"][x] = db["spent"][x]
    BY <1>4, <2>0, <2>3
  <2>4. CASE db'["spent"][x] # db["spent"][x]
    BY <1>0, <1>1, <1>3, <2>0, <2>1, <2>2, <2>4, DueOfQuiet
  <2> QED BY <2>3, <2>4
<1> QED BY <1>5, <1>6, <1>7, <1>8, <1>9, <1>10 DEF SpentPlan, Quiet

(* A statement loses no spent, while requests come one at a time.            *)
LEMMA ExecutesOnSpents ==
  ASSUME BackInv, NEW w \in Workers, Execute(w), SpentPlan(w),
         \A v \in Workers \ {w} : request[v] = <<>>
  PROVE  SpentPlan(w)' /\ LostSpents' \subseteq LostSpents
<1>0. /\ request[w] # <<>> /\ ~OnStore(Step(w)) /\ store' = store /\ excused \subseteq excused'
      /\ request'[w] \in {Tail(request[w]), <<>>} /\ \A v \in Workers \ {w} : request'[v] = <<>>
  BY ExecutionFacts
<1>1. NoSpent(request'[w])
  <2>1. ASSUME NEW k \in DOMAIN request'[w], NoSpent(request[w])
        PROVE  request'[w][k].table # "spent"
    <3>1. \E j \in DOMAIN request[w] : request[w][j] = request'[w][k]
      BY <1>0, <2>1, TailPlans
    <3> QED BY <2>1, <3>1 DEF NoSpent
  <2>2. ASSUME Tail(request[w]) = <<>> PROVE NoSpent(request'[w])
    BY <1>0, <2>2 DEF NoSpent
  <2>3. ASSUME NEW s, Attaches(request[w], s) \/ Detaches(request[w], s) PROVE FALSE
    <3>1. Step(w) = Upload("spent", SpentPath(s), <<>>) \/ Step(w) = Remove("spent", SpentPath(s))
      BY <2>3, SpentSteps DEF Step
    <3> QED BY <1>0, <3>1, StepColumns DEF OnStore
  <2>4. ASSUME NEW s, Settles(request[w], s) PROVE Tail(request[w]) = <<>>
    BY <2>4, SpentSteps
  <2>5. ASSUME NEW s, NEW v, Enters(request[w], excused, s, v) \/ Edits(request[w], excused, s, v)
        PROVE  Tail(request[w]) = <<>>
    BY <2>5, SpentSteps
  <2>7. ASSUME NEW s, NEW v, Rewrites(request[w], excused, s, v) PROVE Tail(request[w]) = <<>>
    BY <2>7, RewriteStep
  <2>6. NoSpent(request[w]) \/ Tail(request[w]) = <<>>
    BY <2>3, <2>4, <2>5, <2>7 DEF SpentPlan, Quiet
  <2> QED BY <2>1, <2>2, <2>6 DEF NoSpent
<1>2. request'[w] = <<>> \/ Head(request'[w]).table # "spent"
  <2>1. \/ Tail(request[w]) = <<>> \/ \E b : Tail(request[w]) = <<b>>
    BY <1>0, BusyWaits DEF BackInv, AllWait
  <2>2. request'[w] # <<>> => 1 \in DOMAIN request'[w] /\ request'[w][1] = Head(request'[w])
    BY <1>0, <2>1, OneOrTwo
  <2> QED BY <1>1, <2>2 DEF NoSpent
<1>3. SpentPlan(w)'
  BY <1>1 DEF SpentPlan, Quiet, NoSpent
<1>4. ASSUME NEW x \in Spents, x \notin excused', Files(x)' # SpentDue(x)'
      PROVE  Files(x) # SpentDue(x)
  <2>1. SpentDue(x)' = SpentFiles(x)'
    BY <1>0, <1>2, DueOfNone
  <2>2. SpentDue(x) = DueUnder(request[w], x)
    BY DueNow
  <2>3. SpentFiles(x)' = DueUnder(request[w], x)
    BY <1>4, ExecutedSpents
  <2> QED BY <1>0, <1>4, <2>1, <2>2, <2>3 DEF Files
<1> QED BY <1>0, <1>3, <1>4 DEF LostSpents

(* A step on Dropbox, and the files of the spents.                           *)
LEMMA SuppliersHaveEnterprises ==
  ASSUME Whole, RefsLive, NEW x \in Live("supplier")
  PROVE  db["supplier"][x].ent \in Live("enterprise")
<1>1. Key("supplier", "ent", "enterprise", "refuse") \in ForeignKeys
  BY DEF ForeignKeys, EnterpriseKeys
<1>2. Parts(Key("supplier", "ent", "enterprise", "refuse"), "supplier", "ent", "enterprise", "refuse")
  BY KeyParts
<1>3. db["supplier"][x]["ent"] \in Live("enterprise") \cup {None}
  BY <1>1, <1>2 DEF RefsLive, Parts
<1>4. db["supplier"][x].ent \in Enterprises
  BY OfItsEnterprise DEF Owned
<1> QED BY <1>3, <1>4, AbsenceAssumption, TheTables, TheIds

LEMMA SpentFilesAside ==
  ASSUME BackInv, FilesInv, NEW w \in Workers, request[w] # <<>>, OnStore(Step(w)),
         Step(w).table # "spent", store' = store \/ store' = Stored(Step(w)), NEW x \in Spents,
         Files(x) = SpentFiles(x)
  PROVE  Files(x)' = Files(x)
<1> DEFINE q == Step(w)
<1>0. /\ Pending(q) /\ OnFile(q, q.table) /\ q.table \in Tables /\ q.id \in Ids[q.table]
      /\ q.do \in {"upload", "remove", "remove_folder"} /\ q.table # "spent"
      /\ Spents = Ids["spent"] /\ "spent" \in Tables /\ Whole /\ RefsLive
  BY HeldSteps, TheTables, TheIds DEF Pending, Waiting, OnStore, BackInv, Ready
<1>1. q.do = "remove_folder" => q.id \notin Live("enterprise")
  BY FoldersOfNone DEF FilesInv
<1> HIDE DEF q
<1>2. CASE store' = store
  BY <1>2 DEF Files
<1>3. CASE store' = Stored(q) /\ q.do # "remove_folder"
  <2>1. q.path.id = q.id
    BY <1>0, <1>3 DEF OnFile
  <2>2. q.id # x
    BY <1>0, IdsAssumption
  <2>3. store' = store \cup {q.path} \/ store' = store \ {q.path}
    BY <1>0, <1>3 DEF Stored
  <2> QED BY <2>1, <2>2, <2>3 DEF Files
<1>4. CASE store' = Stored(q) /\ q.do = "remove_folder"
  <2>1. store' = {p \in store : p.ent # q.id}
    BY <1>4 DEF Stored
  <2>2. ASSUME NEW p \in Files(x) PROVE p.ent # q.id
    <3>1. p = SpentPath(x) /\ x \in Live("spent")
      BY <2>2 DEF SpentFiles, SaysFile
    <3>2. p.ent \in Live("enterprise")
      BY <1>0, <3>1, FiledRows, SuppliersHaveEnterprises DEF SpentPath, Path
    <3> QED BY <1>1, <1>4, <3>2
  <2> QED BY <2>1, <2>2 DEF Files
<1> QED BY <1>2, <1>3, <1>4 DEF q

(* A step on Dropbox loses one spent at most, when its answer is lost.       *)
LEMMA StepsOnSpents ==
  ASSUME BackInv, FilesInv, NEW w \in Workers, NEW h, OneStep(w, h), SpentPlan(w),
         \A v \in Workers \ {w} : request[v] = <<>>
  PROVE  SpentPlan(w)' /\ LostSpents' \subseteq LostSpents \cup {Step(w).id}
         /\ (store' = store \/ h = Tail(request[w]) => LostSpents' \subseteq LostSpents)
<1>0. /\ request'[w] = h /\ \A v \in Workers \ {w} : request'[v] = <<>>
      /\ db' = db /\ excused' = excused /\ request[w] # <<>> /\ OnStore(Step(w))
      /\ store' = store \/ store' = Stored(Step(w))
      /\ h = Tail(request[w]) \/ h = Step(w).undo
      /\ Whole /\ 1 \in DOMAIN request[w] /\ request[w][1] = Step(w) /\ Step(w) = Head(request[w])
      /\ Spents = Ids["spent"] /\ OnFile(Step(w), Step(w).table)
  BY StandingFacts, HeldSteps, TheIds DEF OneStep, Ready, Step, BackInv, Pending, Waiting
<1>1. \A t : Live(t)' = Live(t)
  BY <1>0 DEF Live
<1>2. \A x : SaysFile(x)' = SaysFile(x) /\ SpentPath(x)' = SpentPath(x)
  BY <1>0, <1>1 DEF SaysFile, SpentPath
<1>3. \A x, b : Flagged(x, b)' = Flagged(x, b)
  BY <1>0 DEF Flagged
<1>4. \A x : SpentDue(x)' = DueUnder(h, x)
  <2> TAKE x
  <2>1. SpentDue(x)' = DueUnder(request[w], x)'
    BY <1>0, DueThen
  <2> QED BY <1>0, <1>2, <1>3, <2>1 DEF DueUnder, SpentFiles
<1>9. ASSUME NEW s, NEW v, Rewrites(request[w], excused, s, v) PROVE FALSE
  BY <1>0, <1>9, RewriteStep DEF OnStore
<1>5. \/ NoSpent(request[w])
      \/ \E s : Attaches(request[w], s) \/ Detaches(request[w], s)
  <2>1. ASSUME NEW s, NEW v, Enters(request[w], excused, s, v) \/ Edits(request[w], excused, s, v)
        PROVE  FALSE
    <3>1. \/ Step(w) = Insert("spent", s, v) \/ Step(w) = Update("spent", s, v)
          \/ Step(w) = Save("spent", s, v)
      BY <2>1, SpentSteps DEF Step
    <3> QED BY <1>0, <3>1, StatementColumns, FlaggedColumns DEF OnStore
  <2>2. ASSUME NEW s, Settles(request[w], s) PROVE FALSE
    <3>1. \E v : Step(w) = Update("spent", s, v) \/ Step(w) = Delete("spent", s)
      BY <2>2, SpentSteps DEF Step, Flagged
    <3> QED BY <1>0, <3>1, StatementColumns DEF OnStore
  <2> QED BY <1>9, <2>1, <2>2 DEF SpentPlan, Quiet
<1>6. \A x : x \notin excused => SpentDue(x) = SpentFiles(x)
  <2>1. Quiet(request[w], excused)
    BY <1>5 DEF Quiet
  <2> QED BY <1>0, <2>1, DueNow, DueOfQuiet
<1>7. CASE NoSpent(request[w])
  <2>1. Step(w).table # "spent"
    BY <1>0, <1>7 DEF NoSpent
  <2>2. NoSpent(h) /\ (h = <<>> \/ 1 \in DOMAIN h)
    <3>1. CASE h = Tail(request[w])
      <4>1. \A k \in DOMAIN h : \E j \in DOMAIN request[w] : request[w][j] = h[k]
        BY <1>0, <3>1, TailPlans
      <4>2. \/ Tail(request[w]) = <<>> \/ \E b : Tail(request[w]) = <<b>>
        BY <1>0, BusyWaits DEF BackInv, AllWait
      <4> QED BY <1>7, <3>1, <4>1, <4>2, OneOrTwo DEF NoSpent
    <3>2. CASE h = Step(w).undo
      <4>1. h = <<>> \/ h = <<Delete("document", Step(w).id)>>
        BY <1>0, <3>2 DEF OnFile
      <4> QED BY <4>1, OneOrTwo, StatementColumns DEF NoSpent
    <3> QED BY <1>0, <3>1, <3>2
  <2>3. h = <<>> \/ Head(h).table # "spent"
    BY <2>2 DEF NoSpent
  <2>4. \A x : DueUnder(h, x) = SpentFiles(x)
    BY <2>3, DueOfOthers
  <2>5. SpentPlan(w)'
    BY <1>0, <2>2 DEF SpentPlan, Quiet, NoSpent
  <2>6. \A x \in Spents : Files(x) = SpentFiles(x) => Files(x)' = Files(x)
    BY <1>0, <2>1, SpentFilesAside
  <2>7. LostSpents' \subseteq LostSpents
    BY <1>0, <1>4, <1>6, <2>4, <2>6 DEF LostSpents
  <2> QED BY <2>5, <2>7
<1>8. ASSUME NEW s, Attaches(request[w], s) \/ Detaches(request[w], s)
      PROVE  SpentPlan(w)' /\ LostSpents' \subseteq LostSpents \cup {Step(w).id}
             /\ (store' = store \/ h = Tail(request[w]) => LostSpents' \subseteq LostSpents)
  <2>1. PICK p : p = SpentPath(s)
    OBVIOUS
  <2>2. p.id = s /\ s \in Live("spent") /\ SpentFiles(s) \subseteq {p}
    BY <1>8, <2>1 DEF SpentPath, Path, SpentFiles, Attaches, Detaches
  <2>3. PICK f : /\ Tail(request[w]) = <<f>>
                 /\ \/ /\ Step(w) = Upload("spent", p, <<>>) /\ f = Flagged(s, TRUE)
                    \/ /\ Step(w) = Remove("spent", p) /\ SaysFile(s)
                       /\ f = Flagged(s, FALSE) \/ f = Delete("spent", s)
    <3>1. CASE Attaches(request[w], s)
      BY <1>0, <2>1, <3>1, SpentSteps
    <3>2. CASE Detaches(request[w], s)
      <4>1. SaysFile(s)
        BY <3>2 DEF Detaches
      <4>2. /\ Head(request[w]) = Remove("spent", p)
            /\ Tail(request[w]) = <<Flagged(s, FALSE)>> \/ Tail(request[w]) = <<Delete("spent", s)>>
        BY <2>1, <3>2, SpentSteps
      <4> QED BY <1>0, <4>1, <4>2
    <3> QED BY <1>8, <3>1, <3>2
  <2>4. /\ Step(w).undo = <<>> /\ Step(w).id = s
        /\ Step(w) = Upload("spent", p, <<>>) => Stored(Step(w)) = store \cup {p}
        /\ Step(w) = Remove("spent", p) => Stored(Step(w)) = store \ {p}
    <3>1. CASE Step(w) = Upload("spent", p, <<>>)
      <4>1. Step(w).do = "upload" /\ Step(w).path = p /\ Step(w).undo = <<>> /\ Step(w).id = s
        BY <2>2, <3>1, StepColumns
      <4> QED BY <4>1, StepColumns DEF Stored
    <3>2. CASE Step(w) = Remove("spent", p)
      <4>1. Step(w).do = "remove" /\ Step(w).path = p /\ Step(w).undo = <<>> /\ Step(w).id = s
        BY <2>2, <3>2, StepColumns
      <4> QED BY <4>1, StepColumns DEF Stored
    <3> QED BY <2>3, <3>1, <3>2
  <2>5. \/ h = <<f>> /\ store' = Stored(Step(w))
        \/ h = <<>>
    BY <2>3, <2>4 DEF OneStep
  <2>6. f.id = s /\ <<f>> # <<>> /\ Head(<<f>>) = f
    <3>1. \A v : Update("spent", s, v).id = s
      BY StatementColumns
    <3>2. Delete("spent", s).id = s
      BY StatementColumns
    <3> QED BY <2>3, <3>1, <3>2, OneOrTwo DEF Flagged
  <2>7. ASSUME NEW x, x # s PROVE DueUnder(h, x) = SpentFiles(x) /\ Files(x)' = Files(x)
    <3>1. h = <<>> \/ Head(h).id # x
      BY <2>5, <2>6, <2>7
    <3>2. store' = store \/ store' = store \cup {p} \/ store' = store \ {p}
      BY <1>0, <2>3, <2>4
    <3> QED BY <2>2, <2>7, <3>1, <3>2, DueOfOthers DEF Files
  <2>8. h = <<>> => DueUnder(h, s) = SpentFiles(s)
    BY DueOfOthers
  <2>9. ASSUME h = <<f>>, Files(s) = SpentFiles(s) PROVE Files(s)' = DueUnder(h, s)
    <3>0. store' = Stored(Step(w))
      BY <2>5, <2>6, <2>9
    <3>1. CASE Step(w) = Upload("spent", p, <<>>) /\ f = Flagged(s, TRUE)
      <4>1. Files(s)' = Files(s) \cup {p}
        BY <2>2, <2>4, <3>0, <3>1 DEF Files
      <4>2. DueUnder(h, s) = {p}
        BY <1>0, <2>1, <2>2, <2>9, <3>1, DueOfSettled
      <4> QED BY <2>2, <2>9, <4>1, <4>2
    <3>2. CASE /\ Step(w) = Remove("spent", p) /\ SaysFile(s)
               /\ f = Flagged(s, FALSE) \/ f = Delete("spent", s)
      <4>1. Files(s)' = Files(s) \ {p}
        BY <2>2, <2>4, <3>0, <3>2 DEF Files
      <4>2. DueUnder(h, s) = {}
        BY <1>0, <2>2, <2>9, <3>2, DueOfSettled
      <4>3. SpentFiles(s) = {p}
        BY <2>1, <3>2 DEF SpentFiles
      <4> QED BY <2>9, <4>1, <4>2, <4>3
    <3> QED BY <2>3, <3>1, <3>2
  <2>10. SpentPlan(w)'
    <3>1. CASE h = <<>>
      BY <1>0, <3>1 DEF SpentPlan, Quiet, NoSpent
    <3>2. CASE h = <<f>>
      <4>1. h \in {<<Flagged(s, TRUE)>>, <<Flagged(s, FALSE)>>, <<Delete("spent", s)>>}
        BY <2>3, <3>2
      <4>2. Settles(h, s)'
        BY <1>1, <1>3, <2>2, <4>1 DEF Settles
      <4>3. Settles(request[w], s)'
        BY <1>0, <4>2
      <4> QED BY <4>3 DEF SpentPlan
    <3> QED BY <2>5, <3>1, <3>2
  <2>11. LostSpents' \subseteq LostSpents \cup {s}
    BY <1>0, <1>4, <1>6, <2>7 DEF LostSpents
  <2>12. ASSUME store' = store \/ h = Tail(request[w]) PROVE LostSpents' \subseteq LostSpents
    <3>1. ASSUME s \notin excused, Files(s)' # SpentDue(s)' PROVE Files(s) # SpentDue(s)
      <4>1. CASE h = <<f>>
        BY <1>4, <1>6, <2>9, <3>1, <4>1
      <4>2. CASE h = <<>>
        <5>1. store' = store
          BY <2>3, <2>6, <2>12, <4>2
        <5> QED BY <1>4, <1>6, <2>8, <3>1, <4>2, <5>1 DEF Files
      <4> QED BY <2>5, <4>1, <4>2
    <3> QED BY <1>0, <2>11, <3>1 DEF LostSpents
  <2> QED BY <2>4, <2>10, <2>11, <2>12
<1> QED BY <1>5, <1>7, <1>8

-----------------------------------------------------------------------------
(* What may be lost is counted by the lapses.                                *)
SpentInv == Orderly => \A w \in Workers : SpentPlan(w)

Counts(lost) == IsFiniteSet(lost) /\ Cardinality(lost) <= lapses

LossInv == Counts(LostDocuments) /\ (Orderly => Counts(LostDocuments \cup LostSpents))

(* With one lapse more, one file more may be lost.                           *)
LEMMA CountsGrow ==
  ASSUME NEW S, IsFiniteSet(S), NEW n \in Nat, Cardinality(S) <= n,
         NEW X, IsFiniteSet(X), NEW m \in Nat, Cardinality(X) <= m,
         NEW T, T \subseteq S \cup X
  PROVE  IsFiniteSet(T) /\ Cardinality(T) <= n + m
<1>1. /\ IsFiniteSet(S \cup X)
      /\ Cardinality(S \cup X) = Cardinality(S) + Cardinality(X) - Cardinality(S \cap X)
  BY FS_Union
<1>2. Cardinality(S) \in Nat /\ Cardinality(X) \in Nat /\ Cardinality(S \cap X) \in Nat
  <2>1. IsFiniteSet(S \cap X)
    BY FS_Subset
  <2> QED BY <2>1, FS_CardinalityType
<1>3. Cardinality(S \cup X) <= n + m
  BY <1>1, <1>2
<1>4. IsFiniteSet(T) /\ Cardinality(T) <= Cardinality(S \cup X) /\ Cardinality(S \cup X) \in Nat
  BY <1>1, FS_Subset, FS_CardinalityType
<1>5. Cardinality(T) \in Nat
  BY <1>4, FS_CardinalityType
<1> QED BY <1>3, <1>4, <1>5

LEMMA LossesGrow ==
  ASSUME BackInv, LossInv, NEW X, IsFiniteSet(X), NEW m \in Nat, Cardinality(X) <= m,
         lapses' = lapses + m, LostDocuments' \subseteq LostDocuments \cup X,
         Orderly' => Orderly /\ LostSpents' \subseteq LostSpents \cup X
  PROVE  LossInv'
<1>0. lapses \in Nat
  <2>1. scope.lapses \in Nat /\ lapses \in 0..scope.lapses
    BY BackOfficeAssumption DEF BackInv, Counted
  <2> QED BY <2>1
<1>1. Counts(LostDocuments)'
  <2>1. PICK S : S = LostDocuments
    OBVIOUS
  <2>2. PICK T : T = LostDocuments'
    OBVIOUS
  <2>3. IsFiniteSet(T) /\ Cardinality(T) <= lapses + m
    BY <1>0, <2>1, <2>2, CountsGrow DEF LossInv, Counts
  <2> QED BY <2>2, <2>3 DEF Counts
<1>2. ASSUME Orderly' PROVE Counts(LostDocuments \cup LostSpents)'
  <2>1. PICK S : S = LostDocuments \cup LostSpents
    OBVIOUS
  <2>2. PICK T : T = (LostDocuments \cup LostSpents)'
    OBVIOUS
  <2>3. T \subseteq S \cup X /\ IsFiniteSet(S) /\ Cardinality(S) <= lapses
    BY <1>2, <2>1, <2>2 DEF LossInv, Counts
  <2>4. IsFiniteSet(T) /\ Cardinality(T) <= lapses + m
    BY <1>0, <2>3, CountsGrow
  <2> QED BY <2>2, <2>4 DEF Counts
<1> QED BY <1>1, <1>2 DEF LossInv

LEMMA NothingIsLost ==
  ASSUME BackInv, LossInv, lapses' = lapses, LostDocuments' \subseteq LostDocuments,
         Orderly' => Orderly /\ LostSpents' \subseteq LostSpents
  PROVE  LossInv'
<1>1. IsFiniteSet({}) /\ Cardinality({}) = 0
  BY FS_EmptySet
<1>2. lapses \in Nat
  <2>1. scope.lapses \in Nat /\ lapses \in 0..scope.lapses
    BY BackOfficeAssumption DEF BackInv, Counted
  <2> QED BY <2>1
<1>3. /\ LostDocuments' \subseteq LostDocuments \cup {} /\ Cardinality({}) <= 0 /\ 0 \in Nat
      /\ Orderly' => Orderly /\ LostSpents' \subseteq LostSpents \cup {}
      /\ lapses' = lapses + 0
  BY <1>1, <1>2
<1> QED BY <1>1, <1>3, LossesGrow

LEMMA OneIsLost ==
  ASSUME BackInv, LossInv, NEW x, lapses' = lapses + 1, LostDocuments' \subseteq LostDocuments \cup {x},
         Orderly' => Orderly /\ LostSpents' \subseteq LostSpents \cup {x}
  PROVE  LossInv'
<1>1. IsFiniteSet({x}) /\ Cardinality({x}) = 1
  BY FS_Singleton
<1>2. Cardinality({x}) <= 1 /\ 1 \in Nat
  BY <1>1
<1> QED BY <1>1, <1>2, LossesGrow

(* A step on Dropbox, of whatever plan.                                      *)
LEMMA FileStepLoses ==
  ASSUME BackInv, FilesInv, Sound, NEW w \in Workers, NEW h, OneStep(w, h)
  PROVE  FilesInv' /\ LostDocuments' \subseteq LostDocuments \cup {Step(w).id}
         /\ (store' = store \/ h = Tail(request[w]) => LostDocuments' \subseteq LostDocuments)
<1>0. request[w] # <<>> /\ OnStore(Step(w)) /\ DocumentPlan(w)
  BY DEF OneStep, FilesInv
<1>1. CASE Step(w).table # "document"
  <2>1. FilesInv' /\ LostDocuments' \subseteq LostDocuments
    BY <1>1, StepsOnOtherFiles
  <2> QED BY <2>1
<1>2. CASE Step(w).table = "document"
  <2>1. ASSUME NEW d, Renames(w, d) \/ Drops(w, d) PROVE FALSE
    <3>1. Step(w) = Update("document", d, <<>>) \/ Step(w) = Delete("document", d)
      BY <2>1, PlanSteps
    <3> QED BY <1>0, <3>1, StatementColumns DEF OnStore
  <2>2. ASSUME NEW d, NEW c, NEW p, Makes(w, d, c, p) PROVE FALSE
    <3>1. Step(w) = Insert("document", d, [client |-> c])
      BY <2>2, PlanSteps
    <3> QED BY <1>0, <3>1, StatementColumns DEF OnStore
  <2>3. \E d, p : Takes(w, d, p) \/ Fills(w, d, p)
    BY <1>0, <1>2, <2>1, <2>2, PlanTables
  <2>4. PICK d, p : Takes(w, d, p) \/ Fills(w, d, p)
    BY <2>3
  <2>5. CASE Takes(w, d, p)
    BY <2>5, TakesOnFiles
  <2>6. CASE Fills(w, d, p)
    BY <2>6, FillsOnFiles
  <2> QED BY <2>4, <2>5, <2>6
<1> QED BY <1>1, <1>2

(* The process dies: what its requests had begun is lost, one file each.     *)
LEMMA CrashLoses ==
  ASSUME BackInv, FilesInv, LossInv, Crash
  PROVE  FilesInv' /\ SpentInv' /\ LossInv'
<1> DEFINE B == {w \in Workers : Busy(w)}
           f == [w \in B |-> Step(w).id]
           X == {f[w] : w \in B}
<1>1. /\ request' = [w \in Workers |-> <<>>] /\ db' = db /\ store' = store
      /\ overlapped' = overlapped /\ excused' = excused /\ lapses' = lapses + Cardinality(B)
  BY DEF Crash, Lapse
<1>2. \A w \in Workers : request'[w] = <<>> /\ ~Busy(w)'
  BY <1>1 DEF Busy
<1>3. \A x : Live(x)' = Live(x) /\ (\A y : Born(x, y)' <=> Born(x, y))
  BY <1>1 DEF Live, Born
<1>4. \A x : /\ Files(x)' = Files(x) /\ DocumentFiles(x)' = DocumentFiles(x)
             /\ SpentFiles(x)' = SpentFiles(x)
  BY <1>1, <1>3 DEF Files, DocumentFiles, DocumentPath, SpentFiles, SaysFile, SpentPath
<1>5. FilesInv'
  <2>1. \A w \in Workers : NoDocument(request[w])' /\ NoFolder(request[w])'
    BY <1>2 DEF NoDocument, NoFolder
  <2>2. \A w \in Workers : DocumentPlan(w)' /\ FolderPlan(w)'
    BY <2>1 DEF DocumentPlan, FolderPlan
  <2>3. FilesFit'
    BY <1>3, <1>4 DEF FilesInv, FilesFit
  <2> QED BY <2>2, <2>3 DEF FilesInv
<1>6. SpentInv'
  BY <1>2 DEF SpentInv, SpentPlan, Quiet, NoSpent
<1>7. IsFiniteSet(B) /\ Cardinality(B) \in Nat
  BY TablesAssumption, FS_Subset, FS_CardinalityType
<1>8. IsFiniteSet(X) /\ Cardinality(X) <= Cardinality(B)
  <2>1. f \in Surjection(B, X)
    BY DEF Surjection, Range
  <2> QED BY <1>7, <2>1, FS_Surjection
<1>9. \A w \in B : Step(w).id \in X
  OBVIOUS
<1>10. LostDocuments' \subseteq LostDocuments \cup X
  <2> SUFFICES ASSUME NEW d \in Documents \ excused, LosesDocument(d)', ~LosesDocument(d)
               PROVE  d \in X
    BY <1>1 DEF LostDocuments
  <2>1. Files(d) # DocumentFiles(d)
    BY <1>2, <1>4 DEF LosesDocument, DocumentDue, Doing, Does
  <2>2. PICK w \in Workers : Does(w, "upload", "document", d) \/ Does(w, "delete", "document", d)
    BY <2>1 DEF LosesDocument, DocumentDue, Filing, Doing
  <2>3. w \in B /\ Step(w).id = d
    BY <2>2 DEF Does
  <2> QED BY <1>9, <2>3
<1>11. LostSpents' \subseteq LostSpents \cup X
  <2> SUFFICES ASSUME NEW x \in Spents \ excused, Files(x)' # SpentDue(x)', Files(x) = SpentDue(x)
               PROVE  x \in X
    BY <1>1 DEF LostSpents
  <2>1. SpentDue(x)' = SpentFiles(x)
    BY <1>2, <1>4 DEF SpentDue, Sends
  <2>2. PICK q : Sends(q) /\ q.id = x
    <3>1. /\ Delete("spent", x).id = x
          /\ \E q : q = Flagged(x, FALSE) /\ q.id = x
          /\ \E q : q = Flagged(x, TRUE) /\ q.id = x
      BY StatementColumns DEF Flagged
    <3>2. \/ Sends(Delete("spent", x)) \/ Sends(Flagged(x, FALSE)) \/ Sends(Flagged(x, TRUE))
      BY <1>4, <2>1 DEF SpentDue
    <3> QED BY <3>1, <3>2
  <2>3. PICK w \in Workers : Busy(w) /\ Step(w) = q
    BY <2>2 DEF Sends
  <2> QED BY <1>9, <2>2, <2>3
<1>12. Orderly' => Orderly
  BY <1>1 DEF Orderly
<1> HIDE DEF B, f, X
<1>13. LossInv'
  BY <1>1, <1>7, <1>8, <1>10, <1>11, <1>12, LossesGrow
<1> QED BY <1>5, <1>6, <1>13

(* Every step keeps plans, files and the count of what is lost.              *)
LEMMA StepsOnFiles ==
  ASSUME BackInv, OrderInv, OrderInv', FilesInv, SpentInv, LossInv, Sound, Sound', [Next]_vars
  PROVE  FilesInv' /\ SpentInv' /\ LossInv'
<1>0. ASSUME NEW w \in Workers, request[w] # <<>>, Orderly
      PROVE  SpentPlan(w) /\ \A v \in Workers \ {w} : request[v] = <<>>
  BY <1>0 DEF SpentInv, OrderInv, InOrder
<1>1. ASSUME NEW w \in Workers, Orderly' => Orderly /\ SpentPlan(w)',
             \A v \in Workers \ {w} : request'[v] = request[v],
             Orderly => \A v \in Workers \ {w} : request[v] = <<>>
      PROVE  SpentInv'
  <2> SUFFICES ASSUME Orderly', NEW v \in Workers PROVE SpentPlan(v)'
    BY DEF SpentInv
  <2>1. CASE v = w
    BY <1>1, <2>1
  <2>2. CASE v # w
    <3>1. NoSpent(request[v])'
      BY <1>1, <2>2 DEF NoSpent
    <3> QED BY <3>1 DEF SpentPlan, Quiet
  <2> QED BY <2>1, <2>2
<1>2. ASSUME NEW w \in Workers, Begin(w) PROVE FilesInv' /\ SpentInv' /\ LossInv'
  <2>1. FilesInv' /\ LostDocuments' \subseteq LostDocuments
    BY <1>2, BeginsOnFiles
  <2>2. /\ lapses' = lapses /\ overlapped' = (overlapped \/ \E v \in Workers : Busy(v))
        /\ \A v \in Workers \ {w} : request'[v] = request[v]
    BY <1>2 DEF Begin, Goes, BackInv, AllWait
  <2>3. Orderly' => Orderly /\ \A v \in Workers : request[v] = <<>>
    BY <2>2 DEF Orderly, Busy
  <2>4. Orderly' => SpentPlan(w)' /\ LostSpents' \subseteq LostSpents
    BY <1>2, <2>3, BeginsOnSpents
  <2>5. LossInv'
    BY <2>1, <2>2, <2>3, <2>4, NothingIsLost
  <2>6. SpentInv'
    <3>1. ASSUME Orderly', NEW v \in Workers PROVE SpentPlan(v)'
      <4>1. CASE v = w
        BY <2>4, <3>1, <4>1
      <4>2. CASE v # w
        <5>1. NoSpent(request[v])'
          BY <2>2, <2>3, <3>1, <4>2 DEF NoSpent
        <5> QED BY <5>1 DEF SpentPlan, Quiet
      <4> QED BY <4>1, <4>2
    <3> QED BY <3>1 DEF SpentInv
  <2> QED BY <2>1, <2>5, <2>6
<1>3. ASSUME NEW w \in Workers, Execute(w) PROVE FilesInv' /\ SpentInv' /\ LossInv'
  <2>1. FilesInv' /\ LostDocuments' \subseteq LostDocuments
    BY <1>3, ExecutesOnFiles
  <2>2. /\ lapses' = lapses /\ overlapped' = overlapped /\ request[w] # <<>>
        /\ \A v \in Workers \ {w} : request'[v] = request[v]
    BY <1>3, ExecutionFacts DEF Execute
  <2>3. Orderly' => Orderly
    BY <2>2 DEF Orderly
  <2>4. Orderly => SpentPlan(w)' /\ LostSpents' \subseteq LostSpents
    BY <1>0, <1>3, <2>2, ExecutesOnSpents
  <2>5. LossInv'
    BY <2>1, <2>2, <2>3, <2>4, NothingIsLost
  <2>6. SpentInv'
    BY <1>0, <1>1, <2>2, <2>3, <2>4
  <2> QED BY <2>1, <2>5, <2>6
<1>4. ASSUME NEW w \in Workers, StoreAnswers(w) \/ StoreRefuses(w) \/ AnswerIsLost(w)
      PROVE  FilesInv' /\ SpentInv' /\ LossInv'
  <2>1. /\ overlapped' = overlapped /\ request[w] # <<>>
        /\ lapses' = lapses \/ lapses' = lapses + 1
    BY <1>4 DEF StoreAnswers, StoreRefuses, AnswerIsLost, Busy, Lapse
  <2>2. PICK h : /\ OneStep(w, h)
                 /\ lapses' = lapses => store' = store \/ h = Tail(request[w])
    <3>1. CASE StoreAnswers(w)
      BY <3>1 DEF StoreAnswers, Busy, Goes, OneStep
    <3>2. CASE StoreRefuses(w)
      BY <3>2 DEF StoreRefuses, Busy, Goes, OneStep
    <3>3. CASE AnswerIsLost(w)
      <4>1. OneStep(w, Step(w).undo) /\ lapses' = lapses + 1
        BY <3>3 DEF AnswerIsLost, Busy, Goes, OneStep, Lapse
      <4>2. lapses \in Nat
        <5>1. scope.lapses \in Nat /\ lapses \in 0..scope.lapses
          BY BackOfficeAssumption DEF BackInv, Counted
        <5> QED BY <5>1
      <4> QED BY <4>1, <4>2
    <3> QED BY <1>4, <3>1, <3>2, <3>3
  <2>3. /\ FilesInv' /\ LostDocuments' \subseteq LostDocuments \cup {Step(w).id}
        /\ lapses' = lapses => LostDocuments' \subseteq LostDocuments
    BY <2>2, FileStepLoses
  <2>4. (Orderly' => Orderly) /\ \A v \in Workers \ {w} : request'[v] = request[v]
    BY <2>1, <2>2, StandingFacts DEF Orderly
  <2>5. Orderly => /\ SpentPlan(w)' /\ LostSpents' \subseteq LostSpents \cup {Step(w).id}
                   /\ lapses' = lapses => LostSpents' \subseteq LostSpents
    BY <1>0, <2>1, <2>2, StepsOnSpents
  <2>6. LossInv'
    <3>1. CASE lapses' = lapses
      BY <2>3, <2>4, <2>5, <3>1, NothingIsLost
    <3>2. CASE lapses' = lapses + 1
      BY <2>3, <2>4, <2>5, <3>2, OneIsLost
    <3> QED BY <2>1, <3>1, <3>2
  <2>7. SpentInv'
    BY <1>0, <1>1, <2>1, <2>4, <2>5
  <2> QED BY <2>3, <2>6, <2>7
<1>5. CASE UNCHANGED vars
  <2>1. /\ db' = db /\ request' = request /\ store' = store /\ overlapped' = overlapped
        /\ lapses' = lapses /\ excused' = excused
    BY <1>5 DEF vars
  <2>2. \A x : Live(x)' = Live(x) /\ (\A y : Born(x, y)' <=> Born(x, y))
    BY <2>1 DEF Live, Born
  <2>3. \A x : /\ Files(x)' = Files(x) /\ DocumentFiles(x)' = DocumentFiles(x)
               /\ SpentFiles(x)' = SpentFiles(x) /\ SpentPath(x)' = SpentPath(x)
               /\ SaysFile(x)' = SaysFile(x)
    BY <2>1, <2>2 DEF Files, DocumentFiles, DocumentPath, SpentFiles, SaysFile, SpentPath
  <2>4. \A x, b : Flagged(x, b)' = Flagged(x, b)
    BY <2>1 DEF Flagged
  <2>5. FilesInv'
    <3>1. \A w, do, t, x : Does(w, do, t, x)' <=> Does(w, do, t, x)
      BY <2>1 DEF Does, Busy, Step
    <3>2. \A w, d, c, p : /\ Renames(w, d)' <=> Renames(w, d)
                          /\ Drops(w, d)' <=> Drops(w, d)
                          /\ Takes(w, d, p)' <=> Takes(w, d, p)
                          /\ Fills(w, d, p)' <=> Fills(w, d, p)
                          /\ Makes(w, d, c, p)' <=> Makes(w, d, c, p)
      BY <2>1, <2>2, <2>3, <3>1
         DEF Renames, Drops, Takes, Fills, Makes, Filed, DocumentPath, Handles, Mentions
    <3>3. \A w \in Workers : (DocumentPlan(w) => DocumentPlan(w)') /\ (FolderPlan(w) => FolderPlan(w)')
      BY <2>1, <2>2, <3>2 DEF DocumentPlan, FolderPlan
    <3>4. FilesFit => FilesFit'
      BY <2>2, <2>3 DEF FilesFit
    <3> QED BY <3>3, <3>4 DEF FilesInv
  <2>6. SpentInv'
    <3>1. ASSUME NEW w \in Workers, SpentPlan(w) PROVE SpentPlan(w)'
      <4>0. PICK h, m : h = request[w] /\ m = excused
        OBVIOUS
      <4>1. request'[w] = h /\ excused' = m
        BY <2>1, <4>0
      <4>2. ASSUME NEW s, Settles(h, s) PROVE Settles(h, s)'
        BY <2>2, <2>3, <2>4, <4>2 DEF Settles
      <4>3. ASSUME NEW s, NEW v, Enters(h, m, s, v) PROVE Enters(h, m, s, v)'
        BY <4>3 DEF Enters
      <4>4. ASSUME NEW s, NEW v, Edits(h, m, s, v) PROVE Edits(h, m, s, v)'
        BY <2>2, <2>3, <4>4 DEF Edits
      <4>5. ASSUME NEW s, Attaches(h, s) PROVE Attaches(h, s)'
        BY <2>2, <2>3, <2>4, <4>5 DEF Attaches
      <4>6. ASSUME NEW s, Detaches(h, s) PROVE Detaches(h, s)'
        BY <2>2, <2>3, <2>4, <4>6 DEF Detaches
      <4>9. ASSUME NEW s, NEW v, Rewrites(h, m, s, v) PROVE Rewrites(h, m, s, v)'
        BY <2>3, <4>9 DEF Rewrites
      <4>7. Quiet(h, m) => Quiet(h, m)'
        BY <4>3, <4>4, <4>5, <4>6, <4>9 DEF Quiet, NoSpent
      <4>8. Quiet(h, m)' => Quiet(request[w], excused)'
        BY <4>1
      <4> QED BY <3>1, <4>0, <4>1, <4>2, <4>7, <4>8 DEF SpentPlan
    <3> QED BY <2>1, <3>1 DEF SpentInv, Orderly
  <2>7. LostDocuments' = LostDocuments
    BY <2>1, <2>3 DEF LostDocuments, LosesDocument, DocumentDue, Filing, Doing, Does, Busy, Step
  <2>8. LostSpents' = LostSpents
    BY <2>1, <2>3, <2>4 DEF LostSpents, SpentDue, Sends, Busy, Step
  <2>9. LossInv'
    BY <2>1, <2>7, <2>8 DEF LossInv, Counts, Orderly
  <2> QED BY <2>5, <2>6, <2>9
<1> QED BY <1>2, <1>3, <1>4, <1>5, CrashLoses DEF Next

(* In the first state every row has the files it calls for, and no others.   *)
LEMMA FilesStart ==
  ASSUME Init
  PROVE  FilesInv /\ SpentInv /\ LossInv
<1>0. /\ \A w \in Workers : request[w] = <<>> /\ ~Busy(w)
      /\ store = UNION ({DocumentFiles(d) : d \in Documents} \cup {SpentFiles(s) : s \in Spents})
      /\ lapses = 0 /\ excused = {} /\ unchecked = {}
  BY DEF Init, Busy
<1>1. /\ \A d : \A p \in DocumentFiles(d) : p.id = d
      /\ \A s : \A p \in SpentFiles(s) : p.id = s
  BY DEF DocumentFiles, SpentFiles, DocumentPath, SpentPath, Path
<1>2. \A x : x \in Documents => x \notin Spents
  <2>1. Ids["document"] \cap Ids["spent"] = {}
    BY IdsAssumption, TheTables
  <2> QED BY <2>1, TheIds
<1>3. ASSUME NEW d \in Documents PROVE Files(d) = DocumentFiles(d)
  <2>1. ASSUME NEW p \in store, p.id = d PROVE p \in DocumentFiles(d)
    BY <1>0, <1>1, <1>2, <2>1
  <2>2. DocumentFiles(d) \subseteq store
    BY <1>0
  <2> QED BY <1>1, <2>1, <2>2 DEF Files
<1>4. ASSUME NEW s \in Spents PROVE Files(s) = SpentFiles(s)
  <2>1. ASSUME NEW p \in store, p.id = s PROVE p \in SpentFiles(s)
    BY <1>0, <1>1, <1>2, <2>1
  <2>2. SpentFiles(s) \subseteq store
    BY <1>0
  <2> QED BY <1>1, <2>1, <2>2 DEF Files
<1>5. FilesInv
  <2>1. \A w \in Workers : DocumentPlan(w) /\ FolderPlan(w)
    BY <1>0 DEF DocumentPlan, NoDocument, FolderPlan, NoFolder
  <2>2. \A d \in Live("document") : d \in Documents
    BY LiveIds, TheIds
  <2>3. \A d \in Documents : ~Born("document", d) => d \notin Live("document")
    BY TheIds DEF Born, Live, Absent
  <2>4. FilesFit
    BY <1>3, <2>2, <2>3 DEF FilesFit, DocumentFiles
  <2> QED BY <2>1, <2>4 DEF FilesInv
<1>6. SpentInv
  BY <1>0 DEF SpentInv, SpentPlan, Quiet, NoSpent
<1>7. LossInv
  <2>1. \A do, t, x : ~Doing(do, t, x)
    BY <1>0 DEF Doing, Does
  <2>2. \A q : ~Sends(q)
    BY <1>0 DEF Sends
  <2>3. LostDocuments = {}
    BY <1>3, <2>1 DEF LostDocuments, LosesDocument, DocumentDue
  <2>4. LostSpents = {}
    BY <1>4, <2>2 DEF LostSpents, SpentDue
  <2>5. Counts({})
    BY <1>0, FS_EmptySet DEF Counts
  <2> QED BY <2>3, <2>4, <2>5 DEF LossInv
<1> QED BY <1>5, <1>6, <1>7

LEMMA SoundBefore ==
  ASSUME [Next]_vars, Sound'
  PROVE  Sound
<1>1. unchecked \subseteq unchecked'
  BY DEF Next, Begin, Execute, StoreAnswers, StoreRefuses, AnswerIsLost, Crash, vars
<1> QED BY <1>1, SoundRows

(* Once nobody is at work, what is astray and not excused is lost.           *)
LEMMA AtRest ==
  ASSUME Sound => LossInv
  PROVE  EachLapseCostsOneFile
<1> SUFFICES ASSUME LossInv, \A w \in Workers : ~Busy(w)
             PROVE  /\ Cardinality(StrayDocuments \ excused) <= lapses
                    /\ Orderly =>
                          Cardinality((StrayDocuments \cup StraySpents) \ excused) <= lapses
  BY DEF EachLapseCostsOneFile, Sound
<1>1. \A do, t, x : ~Doing(do, t, x)
  BY DEF Doing, Does
<1>2. \A q : ~Sends(q)
  BY DEF Sends
<1>3. StrayDocuments \ excused = LostDocuments
  BY <1>1 DEF StrayDocuments, Astray, Files, LostDocuments, LosesDocument, DocumentDue, Filing
<1>4. StraySpents \ excused = LostSpents
  BY <1>2 DEF StraySpents, Astray, Files, LostSpents, SpentDue
<1>5. (StrayDocuments \cup StraySpents) \ excused = LostDocuments \cup LostSpents
  BY <1>3, <1>4
<1> QED BY <1>3, <1>5 DEF LossInv, Counts

(* When no request is in progress, no more documents are without the file    *)
(* their row calls for, or have one it does not, than answers of Dropbox     *)
(* were lost and requests died half-way, as long as no enterprise, client or *)
(* document was written unchecked; while requests come one at a time the     *)
(* same holds of documents and spents together.  Rows whose path moved       *)
(* under a request are left out (create and deleteById of                    *)
(* client-document.service, addFileToSpentById, removeFileFromSpentById and  *)
(* deleteById of spent.service).                                             *)
THEOREM LapsesCostOneFileEach == Spec => []EachLapseCostsOneFile
<1> DEFINE F == Sound => FilesInv /\ SpentInv /\ LossInv
           I == BackInv /\ OrderInv /\ F
<1>1. Init => I
  BY StartsWell, StartsInOrder, FilesStart
<1>2. I /\ [Next]_vars => I'
  <2> SUFFICES ASSUME I, [Next]_vars PROVE I'
    OBVIOUS
  <2>1. BackInv' /\ OrderInv'
    BY StepsKeep, StepsInOrder
  <2>2. F'
    <3> SUFFICES ASSUME Sound' PROVE FilesInv' /\ SpentInv' /\ LossInv'
      OBVIOUS
    <3> QED BY <2>1, SoundBefore, StepsOnFiles
  <2> QED BY <2>1, <2>2
<1>3. I => EachLapseCostsOneFile
  BY AtRest
<1> QED BY <1>1, <1>2, <1>3, PTL DEF Spec
=============================================================================
