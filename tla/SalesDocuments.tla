--------------------------- MODULE SalesDocuments ---------------------------
(***************************************************************************)
(* Clients, invoice series, recurrent earnings, quotes, orders and         *)
(* invoices: every handler that writes them                                *)
(* (src/api/{client,invoice-series,recurrent-earning,quote,order,invoice}).*)
(*                                                                         *)
(* Each of these handlers reads, judges, and sends ONE statement to the    *)
(* database.  An operator is the set of statements that the handler of     *)
(* that name may send, given what it reads now; they are executed later.   *)
(*                                                                         *)
(* Left out: the inventory that an issue moves (InventoryLedger), who may  *)
(* call (Access), and which of two clients of one enterprise a row copies  *)
(* or names, when the columns of a body name the one and its objects the   *)
(* other.                                                                  *)
(***************************************************************************)
EXTENDS BackOfficeTables

(***************************************************************************)
(* Clients.  The nif is unique in its enterprise, as far as the handler    *)
(* can see; findOne may find the client itself among several.              *)
(***************************************************************************)
NifIsFree(n, e) == HoldersOf("client", n, e) = {}

(* The body may place it in another enterprise than the one looked at.      *)
CreateClient ==
    {Insert("client", c, r) :
        c \in Fresh("client"), r \in {k \in ClientRow : NifIsFree(k.nif, k.ent)}}
    \cup AsNamed("client",
                 {k \in ClientRow : \E e \in Enterprises : NifIsFree(k.nif, e)})

UpdateClient ==
    UNION {UNION {Edited("client", c, [nif |-> n]) :
                      n \in {m \in Nifs : \/ NifIsFree(m, db.client[c].ent)
                                          \/ db.client[c].nif = m}} :
              c \in Live("client")}

DeleteClient ==
    {Delete("client", c) :
        c \in {k \in Live("client") :
                  Where("earning", LAMBDA r : r.client = k) = {}}}

(***************************************************************************)
(* Invoice series.  The name cannot change, and the series cannot go,      *)
(* once it has invoices.                                                   *)
(***************************************************************************)
InvoicesIn(s) == Where("invoice", LAMBDA r : r.series = s)

CodesFor(e) == {k \in Codes : Where("series", LAMBDA r : r.ent = e /\ r.code = k) = {}}

CreateSeries ==
    {Insert("series", s, r) :
        s \in Fresh("series"), r \in {k \in SeriesRow : k.code \in CodesFor(k.ent)}}
    \cup AsNamed("series",
                 {k \in SeriesRow : \E e \in Enterprises : k.code \in CodesFor(e)})

SeriesForms(s) ==
    LET codes == {d \in Codes : InvoicesIn(s) = {} \/ db.series[s].code = d}
    IN  [code : codes] \cup [active : BOOLEAN] \cup [code : codes, active : BOOLEAN]

UpdateSeries ==
    UNION {UNION {Edited("series", s, v) : v \in SeriesForms(s)} : s \in Live("series")}

DeleteSeries ==
    {Delete("series", s) :
        s \in {k \in Live("series") :
                  /\ InvoicesIn(k) = {}
                  /\ Where("earning", LAMBDA r : r.series = k) = {}}}

(***************************************************************************)
(* Recurrent earnings: the client and the series that the columns of the   *)
(* body name belong to the enterprise of the earning, which an update      *)
(* keeps in its column.  The relation objects of the body are saved        *)
(* unread, and may say otherwise.                                          *)
(***************************************************************************)
EarningsOf(e) ==
    {[ent |-> e, client |-> c, series |-> s] :
        c \in Where("client", LAMBDA r : r.ent = e),
        s \in Where("series", LAMBDA r : r.ent = e)}

EarningObjects ==
    [ent : Live("enterprise"), client : Live("client"), series : Live("series")]

(* With columns that pass for an earning of e, objects of any kind.         *)
UncheckedEarnings(e) ==
    AsNamed("earning", IF EarningsOf(e) = {} THEN {} ELSE EarningObjects)

CreateEarning ==
    {Insert("earning", r, v) :
        r \in Fresh("earning"), v \in UNION {EarningsOf(e) : e \in Enterprises}}
    \cup UNION {UncheckedEarnings(e) : e \in Enterprises}

UpdateEarning ==
    UNION {{Update("earning", r, v) : v \in EarningsOf(db.earning[r].ent)}
               \cup UncheckedEarnings(db.earning[r].ent) :
              r \in Live("earning")}

DeleteEarning ==
    {Delete("earning", r) :
        r \in {k \in Live("earning") :
                  Where("invoice", LAMBDA i : i.earning = k) = {}}}

(***************************************************************************)
(* Quotes.  A quote that is no draft copies the data of its client each    *)
(* time it is saved through create and update; the change of status copies *)
(* them when it leaves the draft, and only it refuses the way back.        *)
(***************************************************************************)
QuoteParty(v, old) ==
    IF v.status # "draft" THEN db.client[v.client].nif ELSE old

QuoteWith(c, st, old) ==
    [client |-> c, status |-> st,
     party |-> QuoteParty([client |-> c, status |-> st], old)]

QuoteForms(old) ==
    {QuoteWith(c, st, old) : c \in Live("client"), st \in QuoteStatuses}

CreateQuote == Made("quote", QuoteForms(None))

UpdateQuote ==
    UNION {UNION {Edited("quote", q, v) : v \in QuoteForms(db.quote[q].party)} :
              q \in Live("quote")}

SetQuoteStatus ==
    UNION {{Update("quote", q,
                   [db.quote[q] EXCEPT
                       !.status = st,
                       !.party = IF db.quote[q].status = "draft"
                                 THEN QuoteParty([db.quote[q] EXCEPT !.status = st], @)
                                 ELSE @]) :
                st \in {n \in QuoteStatuses : db.quote[q].status = "draft" \/ n # "draft"}} :
              q \in Live("quote")}

DeleteQuote ==
    {Delete("quote", q) :
        q \in {k \in Live("quote") :
                  /\ Where("invoice", LAMBDA r : r.quote = k) = {}
                  /\ Where("order", LAMBDA r : r.quote = k) = {}}}

(***************************************************************************)
(* Orders: of the client of their quote; the data of the client are copied *)
(* at every save but that of the status alone.                             *)
(***************************************************************************)
OrderParty(c) == db.client[c].nif

OrderForms ==
    {[client |-> db.quote[q].client, quote |-> q, status |-> st,
      party |-> OrderParty(db.quote[q].client)] :
        q \in Live("quote"), st \in OrderStatuses}

CreateOrder == Made("order", OrderForms)

UpdateOrder ==
    UNION {UNION {Edited("order", o, v) : v \in OrderForms} : o \in Live("order")}

SetOrderStatus ==
    {Update("order", o, [db.order[o] EXCEPT !.status = st]) :
        o \in Live("order"), st \in OrderStatuses}

DeleteOrder ==
    {Delete("order", o) :
        o \in Where("order", LAMBDA r : r.status = "awaiting_receipt")}

(***************************************************************************)
(* Invoices.  One that is no draft gets the number after the highest of    *)
(* its series, and the data of its client; a draft has no number.          *)
(***************************************************************************)
(* mutant: cancelled invoices give their number back *)
NumberAfterIssued(s) ==
    1 + Max({0} \cup {db.invoice[i].number :
                i \in Where("invoice",
                            LAMBDA r : r.series = s /\ r.status = "issued")})

NextNumber(s) ==
    1 + Max({0} \cup {db.invoice[i].number :
                i \in Where("invoice",
                            LAMBDA r : r.series = s /\ r.number # None)})

Frozen(v) ==
    IF v.status # "draft"
    THEN [v EXCEPT !.number = NextNumber(v.series),
                   !.party = db.client[v.client].nif]
    ELSE [v EXCEPT !.number = None]

(* mutant: only the series is looked at *)
SeriesIsActive(c, s) ==
    c \in Live("client") /\ s \in Live("series") /\ db.series[s].active

SameTenant(c, s) ==
    /\ c \in Live("client") /\ s \in Live("series")
    /\ db.series[s].active
    /\ db.client[c].ent = db.series[s].ent

(* The column of the earning is looked at, its object is saved.             *)
EarningFits(v) ==
    v.earning # None => \E r \in Live("earning") : db.earning[r].client = v.client

InvoiceForms(old) ==
    {Frozen(v) : v \in
        {f \in [client : Live("client"), series : Live("series"),
                quote : Live("quote") \cup {None},
                earning : Live("earning") \cup {None},
                status : InvoiceStatuses, number : {None}, party : {old}] :
            SameTenant(f.client, f.series) /\ EarningFits(f)}}

CreateInvoice == Made("invoice", InvoiceForms(None))

(* mutant: an invoice may be edited until it is cancelled *)
NotCancelled == Where("invoice", LAMBDA r : r.status # "cancelled")

Drafts == Where("invoice", LAMBDA r : r.status = "draft")

UpdateInvoice ==
    UNION {UNION {Edited("invoice", i, v) : v \in InvoiceForms(db.invoice[i].party)} :
              i \in Drafts}

LeavesDraftWell(r) == r.status = "draft" => SameTenant(r.client, r.series)

SetInvoiceStatus ==
    UNION {{Update("invoice", i,
                   LET moved == [db.invoice[i] EXCEPT !.status = st]
                   IN  IF db.invoice[i].status = "draft" THEN Frozen(moved) ELSE moved) :
                st \in {n \in InvoiceStatuses :
                          IF n = "draft" THEN db.invoice[i].status = "draft"
                          ELSE LeavesDraftWell(db.invoice[i])}} :
              i \in Live("invoice")}

DeleteInvoice ==
    {Delete("invoice", i) : i \in Drafts}
=============================================================================
