------------------------------ MODULE BackOffice ------------------------------
(***************************************************************************)
(* The requests of the back office in flight together over one database    *)
(* and one Dropbox: a worker runs a handler up to the statements it sends  *)
(* (Begin), which are executed later, one by one, with anything in         *)
(* between.  The process may die at any of them.                           *)
(*                                                                         *)
(* A behaviour keeps to one scope: the tables it writes, the rows it       *)
(* starts from, and how much of it goes astray.                            *)
(***************************************************************************)
EXTENDS SalesDocuments, Catalogue, Workplace

CONSTANTS
    MaxNumber,    \* bound: numbers of invoices
    Scopes        \* bound: what a behaviour writes, its first rows and lapses

ASSUME BackOfficeAssumption ==
    /\ MaxNumber \in Nat
    /\ \A s \in Scopes :
          /\ s.writes \subseteq Tables /\ s.lapses \in Nat /\ s.unchecked \in Nat
          /\ "enterprise" \in s.writes => "setting" \in s.writes

(* The first rows of a behaviour: whole, naming each other, and of one       *)
(* enterprise where they must be.                                            *)
ASSUME FirstRowsAssumption ==
    \A s \in Scopes :
        LET rows    == s.rows
            Rows(t) == Ids[t] \cap DOMAIN rows
        IN
        /\ \A t \in Tables : \A x \in Rows(t) : rows[x] \in Row[t]
        /\ \A k \in ForeignKeys : \A x \in Rows(k.table) :
              rows[x][k.column] \in Rows(k.parent) \cup {None}
        /\ \A l \in Rows("link") :
              rows[l].template # None => rows[rows[l].template].ent = rows[l].ent
        /\ \A i \in Rows("invoice") : rows[rows[i].client].ent = rows[rows[i].series].ent
        /\ \A r \in Rows("earning") :
              rows[rows[r].client].ent = rows[r].ent /\ rows[rows[r].series].ent = rows[r].ent
        /\ \A t \in DOMAIN LineTable : \A l \in Rows(LineTable[t]) :
              rows[l].item # None =>
                  rows[rows[rows[l].item].category].ent = rows[rows[rows[l].doc].client].ent

(* They are in order as well: drafts alone have no number, the numbers of a  *)
(* series run on, and no two rows are one.                                   *)
ASSUME FirstOrderAssumption ==
    \A s \in Scopes :
        LET rows      == s.rows
            Rows(t)   == Ids[t] \cap DOMAIN rows
            Issued(x) == {i \in Rows("invoice") : rows[i].series = x /\ rows[i].number # None}
        IN
        /\ \A i \in Rows("invoice") : rows[i].status = "draft" <=> rows[i].number = None
        /\ \A x \in Series :
              /\ IsFiniteSet(Issued(x))
              /\ {rows[i].number : i \in Issued(x)} = 1..Cardinality(Issued(x))
        /\ \A t \in {"client", "supplier", "setting"} : \A x, y \in Rows(t) :
              rows[x] = rows[y] => x = y

VARIABLES
    overlapped,   \* two requests have been in progress at once
    lapses,       \* requests that died, and answers of Dropbox that were lost
    excused       \* what was moved, flagged by hand, or went with its client

vars == <<db, request, store, scope, overlapped, lapses, excused, unchecked>>

Alone(statements) == {<<q>> : q \in statements}

HandlersOf(t) ==
    CASE t = "client"  -> Alone(CreateClient \cup UpdateClient \cup DeleteClient)
      [] t = "series"  -> Alone(CreateSeries \cup UpdateSeries \cup DeleteSeries)
      [] t = "earning" -> Alone(CreateEarning \cup UpdateEarning \cup DeleteEarning
                                    \cup Relinked(t))
      [] t = "quote"   -> Alone(CreateQuote \cup UpdateQuote \cup SetQuoteStatus
                                    \cup DeleteQuote \cup Relinked(t))
      [] t = "order"   -> Alone(CreateOrder \cup UpdateOrder \cup SetOrderStatus
                                    \cup DeleteOrder \cup Relinked(t))
      [] t = "invoice" -> Alone(CreateInvoice \cup UpdateInvoice
                                    \cup SetInvoiceStatus \cup DeleteInvoice \cup Relinked(t))
      [] t = "item"    -> Alone(CreateItem \cup UpdateItem \cup DeleteItem \cup Relinked(t))
      [] t = "supplier" -> Alone(CreateSupplier \cup UpdateSupplier \cup DeleteSupplier)
      [] t = "spent"   -> Alone(CreateSpent \cup UpdateSpent \cup Relinked(t)) \cup AddFileToSpent
                              \cup RemoveFileFromSpent \cup DeleteSpent
      [] t = "document" -> CreateDocument \cup UpdateDocument \cup DeleteDocument
                              \cup Alone(Relinked(t))
      [] t = "enterprise" -> CreateEnterprise \cup UpdateEnterprise \cup CreateLogo
                              \cup DeleteEnterprise
      [] t = "setting" -> Alone(UpdateSetting)
      [] t = "link"    -> Alone(CreateLink \cup UpdateLink \cup DeleteLink)
      [] t = "vacation" -> Alone(CreateVacation \cup UpdateIn(t) \cup DeleteIn(t))
      [] t \in {"template", "holiday"} ->
            Alone(CreateIn(t) \cup UpdateIn(t) \cup DeleteIn(t))
      [] t \in {"category", "spent_category"} ->
            Alone(CreateCategory(t) \cup UpdateCategory(t) \cup DeleteCategory(t))
      [] OTHER ->
            LET d == CHOOSE d \in DOMAIN LineTable : LineTable[d] = t
            IN  Alone(CreateLine(d) \cup UpdateLine(d) \cup DeleteLine(d))

WithinBound(h) ==
    (Head(h).table = "invoice" /\ Head(h).do \notin {"delete", "relink"}) =>
        Head(h).set.number \in (0..MaxNumber) \cup {None}

(* The files that rows call for: a document has one, and a spent that says   *)
(* so.  The first rows have theirs.                                         *)
SaysFile(s) == s \in Live("spent") /\ db.spent[s].file

DocumentFiles(d) ==
    IF d \in Live("document") THEN {DocumentPath(db.document[d].client, d)} ELSE {}

SpentFiles(s) == IF SaysFile(s) THEN {SpentPath(s)} ELSE {}

Init ==
    /\ scope \in Scopes
    /\ db = [t \in Tables |-> [x \in Ids[t] |->
                IF x \in DOMAIN scope.rows THEN scope.rows[x] ELSE Unborn]]
    /\ request = [w \in Workers |-> <<>>]
    /\ store = UNION ({DocumentFiles(d) : d \in Documents} \cup {SpentFiles(s) : s \in Spents})
    /\ overlapped = FALSE /\ lapses = 0 /\ excused = {} /\ unchecked = {}

Busy(w) == request[w] # <<>>
Step(w) == Head(request[w])
Goes(w, h) == request' = [request EXCEPT ![w] = h]
Lapse(n) == lapses + n <= scope.lapses /\ lapses' = lapses + n

(* A client may write the flag of a spent itself.                           *)
ByHand(q) ==
    IF /\ q.table = "spent" /\ q.do \in {"insert", "update", "save", "overwrite"}
       /\ "file" \in DOMAIN q.set /\ q.set.file # SaysFile(q.id)
    THEN {q.id} ELSE {}

PastItsHandler(q) == IF Unchecked(q) THEN {q.id} ELSE {}

Begin(w) ==
    /\ ~Busy(w)
    /\ \E t \in scope.writes : \E h \in HandlersOf(t) :
          /\ WithinBound(h) /\ Goes(w, h)
          /\ excused' = excused \cup ByHand(Head(h))
          /\ unchecked' = unchecked \cup PastItsHandler(Head(h))
    /\ overlapped' = (overlapped \/ \E v \in Workers : Busy(v))
    /\ UNCHANGED <<db, store, scope, lapses>>

(* What changes to a client or supplier of another enterprise.              *)
Owner == [quote |-> "client", order |-> "client", invoice |-> "client",
          spent |-> "supplier"]

EntOf(tables, t, x) == tables[Owner[t]][tables[t][x][Owner[t]]].ent

Moves(t, new) ==
    {x \in Live(t) : new[t][x] \notin Absent /\ EntOf(new, t, x) # EntOf(db, t, x)}

CascadedDocuments(new) ==
    {d \in Live("document") : new.document[d] = Gone /\ new.client # db.client}

Execute(w) ==
    /\ Busy(w) /\ ~OnStore(Step(w))
    /\ db' = Effect(Step(w))
    /\ Goes(w, IF Accepted(Step(w)) THEN Tail(request[w]) ELSE <<>>)
    /\ excused' = excused \cup CascadedDocuments(db')
                     \cup UNION {Moves(t, db') : t \in DOMAIN Owner}
    /\ UNCHANGED <<store, overlapped, scope, lapses, unchecked>>

StoreAnswers(w) ==
    /\ Busy(w) /\ OnStore(Step(w)) /\ Feasible(Step(w))
    /\ store' = Stored(Step(w))
    /\ Goes(w, Tail(request[w]))
    /\ UNCHANGED <<db, overlapped, scope, lapses, excused, unchecked>>

StoreRefuses(w) ==
    /\ Busy(w) /\ OnStore(Step(w))
    /\ Goes(w, Step(w).undo)
    /\ UNCHANGED <<db, store, overlapped, scope, lapses, excused, unchecked>>

AnswerIsLost(w) ==
    /\ Busy(w) /\ OnStore(Step(w)) /\ Feasible(Step(w))
    /\ store' = Stored(Step(w))
    /\ Goes(w, Step(w).undo)
    /\ Lapse(1)
    /\ UNCHANGED <<db, overlapped, scope, excused, unchecked>>

(* The process dies, and all its requests with it.                          *)
Crash ==
    /\ \E w \in Workers : Busy(w)
    /\ Lapse(Cardinality({w \in Workers : Busy(w)}))
    /\ request' = [w \in Workers |-> <<>>]
    /\ UNCHANGED <<db, store, overlapped, scope, excused, unchecked>>

Next ==
    \/ \E w \in Workers :
          Begin(w) \/ Execute(w) \/ StoreAnswers(w) \/ StoreRefuses(w) \/ AnswerIsLost(w)
    \/ Crash

Spec == Init /\ [][Next]_vars

-----------------------------------------------------------------------------
Orderly == ~overlapped

(* What these rows say was checked before it was written.                    *)
AsJudged(rows) == rows \cap unchecked = {}

(* The tables that every write checks.                                       *)
CheckedTables ==
    {"setting", "link", "template", "holiday", "vacation"}
       \cup {LineTable[t] : t \in DOMAIN LineTable}

(* Every table holds whole rows of its entity, whatever part of one a save   *)
(* carries, and a worker holds statements on a table of the behaviour        *)
(* (updateById of the repositories: the row found, with what is given).      *)
TypeOK ==
    /\ \A t \in Tables : db[t] \in [Ids[t] -> Row[t] \cup Absent]
    /\ \A w \in Workers : \A k \in DOMAIN request[w] :
          /\ request[w][k].table \in scope.writes
          /\ request[w][k].id \in Ids[request[w][k].table]
    /\ store \subseteq [ent : Enterprises, folder : Clients \cup {"spents", "logo"},
                        id : Documents \cup Spents \cup Enterprises]
    /\ overlapped \in BOOLEAN /\ scope \in Scopes /\ lapses \in 0..scope.lapses
    /\ excused \subseteq UNION {Ids[t] : t \in {"document"} \cup DOMAIN Owner}
    /\ unchecked \subseteq UNION {Ids[t] : t \in Tables \ CheckedTables}

(* Nothing that was checked joins two enterprises, however requests meet,   *)
(* and whatever was written unchecked elsewhere: an earning and an invoice  *)
(* are of the enterprise of their client and of their series, and a line    *)
(* sells or orders an item of the enterprise of its document's client,      *)
(* unless the whole document was moved to a client of another one, which    *)
(* leaves its lines as they were; people work to a schedule of theirs       *)
(* (assertInvoiceTenantAccessible, validateRelatedEntitiesBelongToEnterprise,*)
(* resolveOptionalAccessibleItem of the lines, resolveAccessibleItemCategory *)
(* of the items, assertDefaultScheduleBelongsToEnterpriseOrThrow).          *)
TenantsNeverMix ==
    /\ \A l \in Live("link") :
          LET r == db.link[l] IN r.template # None => db.template[r.template].ent = r.ent
    /\ \A i \in Live("invoice") :
          LET r == db.invoice[i] IN
              AsJudged({i, r.client, r.series}) =>
                  db.client[r.client].ent = db.series[r.series].ent
    /\ \A e \in Live("earning") :
          LET r == db.earning[e] IN
              AsJudged({e, r.client, r.series}) =>
                  /\ db.client[r.client].ent = r.ent
                  /\ db.series[r.series].ent = r.ent
    /\ AsJudged(Categories \cup Items) =>
          \A t \in DOMAIN LineTable : \A l \in Live(LineTable[t]) :
              LET r == db[LineTable[t]][l] IN
                  r.item # None /\ r.doc \notin excused \cup unchecked =>
                      ItemEnt(r.item) = DocEnt(t, r.doc)

(* The numbers of a series run on from 1 without a gap and without a pair,  *)
(* as long as requests come one at a time and no invoice is written         *)
(* unchecked: drafts are deleted, cancelled invoices keep theirs            *)
(* (setInvoiceSeriesNumber).                                                *)
Numbered(s) == Where("invoice", LAMBDA r : r.series = s /\ r.number # None)

NumbersRunOn ==
    Orderly /\ AsJudged(Invoices) => \A s \in Live("series") :
        {db.invoice[i].number : i \in Numbered(s)} = 1..Cardinality(Numbered(s))

(* Two clients, or two suppliers, of an enterprise share a tax number, and  *)
(* a setting of it has two rows, only if requests met or one of the rows,   *)
(* or the enterprise, was written unchecked, and whatever died half-way; no *)
(* key of the database sees to it                                           *)
(* (assertNifIsUniqueForEnterprise, updateByKey of the settings).           *)
OneRowOfEach ==
    Orderly => \A t \in {"client", "supplier", "setting"} : \A c, d \in Live(t) :
        AsJudged({c, d, db[t][c].ent}) /\ db[t][c] = db[t][d] => c = d

(* What an issued invoice says is said otherwise only by a body that names  *)
(* it, or its series, past the check of the invoice addressed: while        *)
(* requests come one at a time its status alone changes, whatever becomes   *)
(* of its client, its quote and its earning (updateById, updateStatusById   *)
(* and deleteById of invoice.service).                                      *)
IssuedInvoicesStay ==
    [][Orderly => \A i \in Live("invoice") :
          db.invoice[i].number # None /\ AsJudged({i, db.invoice[i].series}) =>
              /\ db'.invoice[i] = [db.invoice[i] EXCEPT !.status = db'.invoice[i].status]
              /\ db'.series[db.invoice[i].series].code
                     = db.series[db.invoice[i].series].code]_vars

(* The lines of a received order and of a numbered invoice are settled:     *)
(* while requests come one at a time none is added, lost or changed, save   *)
(* that it forgets an item that is deleted, even when the order or invoice  *)
(* itself is written unchecked (assertOrderIsAwaitingReceipt,               *)
(* assertInvoiceIsDraft, and the foreign keys of the three line entities).  *)
Settled(t, d) ==
    \/ t = "order" /\ db.order[d].status = "received"
    \/ t = "invoice" /\ db.invoice[d].number # None

SettledLinesStay ==
    [][Orderly => \A t \in DOMAIN LineTable : \A l \in Ids[LineTable[t]] :
          LET old == db[LineTable[t]][l]
              new == db'[LineTable[t]][l]
          IN  IF l \in Live(LineTable[t])
              THEN Settled(t, old.doc) => new \in {old, [old EXCEPT !.item = None]}
              ELSE new \notin Absent => ~Settled(t, new.doc)]_vars

(* A document has its file and a file its document, however requests meet   *)
(* and whatever Dropbox refuses; so have the spents that say so, while      *)
(* requests come one at a time.  Every request that dies and every answer   *)
(* of Dropbox that is lost costs at most one of them, unless an unchecked   *)
(* body moved a document, its client or its enterprise (create and          *)
(* deleteById of client-document.service; addFileToSpentById,               *)
(* removeFileFromSpentById and deleteById of spent.service).                *)
Astray(x, paths) == {p \in store : p.id = x} # paths

StrayDocuments == {d \in Documents : Astray(d, DocumentFiles(d))}
StraySpents    == {s \in Spents : Astray(s, SpentFiles(s))}

EachLapseCostsOneFile ==
    (\A w \in Workers : ~Busy(w)) /\ AsJudged(Enterprises \cup Clients \cup Documents) =>
        /\ Cardinality(StrayDocuments \ excused) <= lapses
        /\ Orderly =>
              Cardinality((StrayDocuments \cup StraySpents) \ excused) <= lapses
=============================================================================
