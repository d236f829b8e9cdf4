---------------------------- MODULE MCBackOffice ----------------------------
(* Two enterprises with a client each where a second one matters; a         *)
(* behaviour writes two or three tables, starting from the rows they need.  *)
EXTENDS BackOffice, TLC

CONSTANTS e1, e2, c1, c2, s1, s2, q1, o1, i1, g1, g2, k1, p1, p2, x1, l1, st1

AnEnterprise == e1 :> [nif |-> "n1", logo |-> FALSE]
TwoEnterprises == AnEnterprise @@ (e2 :> [nif |-> "n2", logo |-> FALSE])
AClient == c1 :> [ent |-> e1, nif |-> "n1"]
TwoClients == AClient @@ (c2 :> [ent |-> e2, nif |-> "n1"])
ASeries == s1 :> [ent |-> e1, code |-> "A", active |-> TRUE]
TwoSeries ==
    ASeries @@ (s2 :> [ent |-> e2, code |-> "A", active |-> TRUE])
Catalogue0 ==
    (g1 :> [ent |-> e1]) @@ (g2 :> [ent |-> e2])
        @@ (k1 :> [category |-> g1, serial |-> FALSE, stock |-> FALSE])
AQuote ==
    q1 :> [client |-> c1, status |-> "draft", party |-> None]
AnOrder ==
    o1 :> [client |-> c1, quote |-> q1, status |-> "awaiting_receipt", party |-> "n1"]
AnInvoice ==  \* a draft
    i1 :> [client |-> c1, series |-> s1, quote |-> None, earning |-> None,
           status |-> "draft", number |-> None, party |-> None]
AnIssued ==
    i1 :> [client |-> c1, series |-> s1, quote |-> None, earning |-> None,
           status |-> "issued", number |-> 1, party |-> "n1"]
ASupplier == p1 :> [ent |-> e1, nif |-> "n1"]
TwoSuppliers == ASupplier @@ (p2 :> [ent |-> e2, nif |-> "n1"])

ASetting == st1 :> [ent |-> e1]
ALink == l1 :> [ent |-> e1, template |-> None]

(* The workers are alike.                                                   *)
AlikeWorkers == Permutations(Workers)

Scope(rows, writes, most, past) ==
    {[writes |-> w, rows |-> rows, lapses |-> most, unchecked |-> past] : w \in writes}

From(rows, writes, most) == Scope(TwoEnterprises @@ rows, writes, most, 0)
FromOne(rows, writes, most) == Scope(AnEnterprise @@ rows, writes, most, 0)

(* One row may be written past the checks.                                   *)
Unjudged(rows, writes) == Scope(TwoEnterprises @@ rows, writes, 0, 1)

ScopesChecked ==
    From(AClient @@ TwoSeries,
         {{"client", "earning"}, {"series", "earning"}, {"earning", "invoice"},
          {"quote", "order"}, {"quote", "invoice"}}, 0)
    \cup From(AClient @@ TwoSeries @@ AnInvoice, {{"series", "invoice"}}, 0)
    \cup From(TwoClients @@ ASeries, {{"client", "invoice"}}, 0)
    \cup From(TwoClients @@ Catalogue0 @@ AQuote,
              {{"quote", "quote_line"}, {"item", "quote_line"}}, 0)
    \cup From(AClient @@ Catalogue0 @@ AQuote @@ AnOrder, {{"order", "order_line"}}, 0)
    \cup From(AClient @@ TwoSeries @@ Catalogue0 @@ AnInvoice,
              {{"invoice", "invoice_line"}}, 0)
    \cup From(Catalogue0, {{"category", "item"}}, 0)
    \cup From(TwoSuppliers, {{"supplier", "spent"}}, 0)
    \cup From(ASupplier @@ (x1 :> [ent |-> e2]), {{"spent_category", "spent"}}, 0)
    \cup From(TwoSuppliers, {{"spent"}}, 2)
    \cup From(AClient, {{"client", "document"}}, 2)
    \cup FromOne(<<>>, {{"enterprise", "setting"}}, 1)
    \cup FromOne(<<>>, {{"enterprise", "setting", "holiday"}}, 0)
    \cup FromOne(ALink @@ ASetting, {{"enterprise", "setting", "link"}}, 0)
    \cup From(ALink, {{"link", "template", "vacation"}}, 0)
    \cup From(<<>>, {{"client"}, {"supplier"}}, 0)
    \cup Unjudged(TwoClients @@ TwoSeries @@ AnIssued, {{"invoice"}})
    \cup Unjudged(AClient @@ TwoSeries @@ AnIssued, {{"series"}, {"quote"}})
    \cup Unjudged(TwoClients @@ TwoSeries, {{"client", "earning"}})
    \cup Unjudged(AClient @@ Catalogue0 @@ AQuote, {{"category", "quote_line"}})
    \cup Unjudged(TwoClients, {{"document"}})
    \cup Unjudged(TwoSuppliers, {{"supplier"}})
    \cup Scope(AnEnterprise @@ ASetting, {{"enterprise", "setting"}}, 0, 1)
=============================================================================
