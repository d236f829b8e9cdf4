---------------------- MODULE InventoryRequestsInvariants ----------------------
(***************************************************************************)
(* What the proofs about InventoryRequests carry from step to step: the    *)
(* inductive invariants and the parts they are made of, and what a step    *)
(* leaves of them.  SparedInv is for the sales that meet the edit of a     *)
(* spent, RaceInv for requests of every kind together, and LoneInv for a   *)
(* request of any kind that is alone.                                      *)
(***************************************************************************)
EXTENDS InventoryRequests

\* What a sale may turn a unit into.
Held == {"in_stock", "reserved", "sold"}

\* The statements of requests that sell.
SaleStatements ==
  UNION {
    [op : {"unit"}, unit : Units, to : Held],
    [op : {"sale_out", "sale_in", "add_row", "drop_row"}, line : Lines, unit : Units],
    [op : {"swap_row"}, line : Lines, unit : Units, next : Units],
    [op : {"invoice"}, invoice : Invoices, to : InvoiceStatus],
    [op : {"delete_invoice"}, invoice : Invoices],
    [op : {"delete_line"}, line : Lines],
    [op : {"quantity"}, line : Lines, to : Nat],
    {Fail, Nothing}}

-----------------------------------------------------------------------------
(* The invariant: while nothing but one edit touches the purchases, every unit *)
(* that exists was bought once and counted once, and every request knows       *)
(* enough: the plan of a sale is of statements that spare the purchases, and   *)
(* the plan of the edit names rows that are all still there, since nobody else *)
(* takes rows away.  Whether an invoice claims one of them meanwhile is what   *)
(* the foreign keys ask when the graph is saved.                               *)
Careful ==
  /\ Cardinality(Serving({"edit_spent"})) <= 1
  /\ Serving({"buy_serial", "return_serial", "cancel_spent", "delete_spent", "delete_spent_line"}) = {}

\* The tables: what is in stock was bought, once, and is counted once.
UnitsAreBought ==
  /\ status \in [Units -> UnitStatus] /\ lines \subseteq Lines /\ rows \subseteq Lines \X Units
  /\ spent \in [Spents -> SpentStatus] /\ spentLines \subseteq SpentLines
  /\ purchaseRows \subseteq spentLines \X Units /\ purchaseMoves = purchaseRows
  /\ purchaseNet \in [Units -> Int]
  /\ \A k \in spentLines : spent[SpentOf[k]] # "absent"
  /\ \A p, q \in purchaseRows : p[2] = q[2] => p = q
  /\ \A u \in Units : status[u] # "absent" =>
        purchaseNet[u] = 1 /\ \E p \in purchaseRows : p[2] = u
  /\ \A p \in purchaseRows : status[p[2]] # "absent"
  /\ \A r \in rows : status[r[2]] # "absent"

\* What the one edit in flight read of the graph of its spent still holds, P being
\* the rows of the spents and L their lines.
Graph(P, L, x) ==
  /\ x = [op |-> "save_graph", spent |-> x.spent, to |-> x.to, lines |-> x.lines,
          dropped |-> x.dropped, out |-> x.out, new |-> x.new]
  /\ x.spent \in Spents /\ x.to \in {"open", "cancelled"}
  /\ x.lines \subseteq SpentLines /\ \A k \in x.lines : SpentOf[k] = x.spent
  /\ x.dropped \subseteq L /\ x.lines \cap x.dropped = {}
  /\ x.out \subseteq P /\ \A r \in x.out : r[1] \in x.lines \cup x.dropped
  /\ \A r \in P : r[1] \in x.dropped => r \in x.out
  /\ x.new \subseteq x.lines \X Units
  /\ \A p, q \in x.new : p[2] = q[2] => p = q

EditKnows(P, L, j) ==
  /\ IsGraph(j.req[2], j.req[3], j.req[4])
  /\ \/ j.at = "spent" /\ j.todo = <<>>
     \/ j.at = "graph_lines" /\ j.todo = <<>> /\ j.seen[1] \in {"open", "cancelled"}
     \/ j.at \in {"graph_units", "write"} /\ \E x : j.todo = <<x>> /\ Graph(P, L, x)

SaleKnows(j) == j.todo \in Seq(SaleStatements) /\ (j.at = "write" => j.todo # <<>>)

IsRequest(w, req) ==
  /\ req[1] \in load.kinds[w]
  /\ req \in Requests(load.units, load.lines, load.most, load.spentLines)

IsJob(j) == j = [at |-> j.at, req |-> j.req, seen |-> j.seen, todo |-> j.todo]

Knows(P, L, j) ==
  IF j.req[1] = "edit_spent" THEN EditKnows(P, L, j) ELSE SaleKnows(j)

Serves(w, j) == j = Idle \/ (IsJob(j) /\ j.at # "idle" /\ IsRequest(w, j.req))

JobsKnow ==
  /\ job = [w \in Workers |-> job[w]]
  /\ \A w \in Workers : Serves(w, job[w])
  /\ \A w \in Workers : job[w] # Idle => Knows(purchaseRows, spentLines, job[w])

SparedInv == load \in Loads /\ (Careful => UnitsAreBought /\ JobsKnow)

-----------------------------------------------------------------------------
(* A query turns one job into another.                                       *)
Turns(w, j) ==
  /\ job' = [job EXCEPT ![w] = j]
  /\ j = Idle \/ (Serves(w, j) /\ Knows(purchaseRows, spentLines, j))

BecomesJob(w, at, seen, todo) ==
  job' = [job EXCEPT ![w] = [at |-> at, req |-> job[w].req, seen |-> seen, todo |-> todo]]

\* A request that sells, and what its queries may rely on.
Selling(w) ==
  /\ load \in Loads /\ lines \subseteq Lines /\ rows \subseteq Lines \X Units
  /\ job = [v \in Workers |-> job[v]] /\ job[w] # Idle
  /\ Serves(w, job[w]) /\ SaleKnows(job[w])

SaleTurn(w, j) ==
  /\ job' = [job EXCEPT ![w] = j]
  /\ j = Idle \/ (Serves(w, j) /\ SaleKnows(j) /\ j.req = job[w].req)

Renewed(j, units, pairs, bought) == [j EXCEPT !.todo = Renew(j.todo, units, pairs, bought)]

\* From P and L to Q and M no line that was there gains or loses a row, and
\* nothing that was there is inserted again.
Kept(P, L, Q, M, units, bought) ==
  /\ P \subseteq Q /\ L \subseteq M /\ \A r \in Q \ P : r[1] \notin L
  /\ \A r \in P : r \notin bought /\ r[2] \notin units

\* One request executes, or creates, while the others keep their plans.
OthersRenew(W, units, pairs, bought) ==
  job' = [v \in Workers |-> IF v \in W THEN job'[v] ELSE Renewed(job[v], units, pairs, bought)]

-----------------------------------------------------------------------------
(* Requests of the purchase side race.  The plans that remove or void what    *)
(* was bought are made of these statements, besides those of the sales.       *)
WipeStatements ==
  SaleStatements \cup UNION {
    [op : {"unit"}, unit : Units, to : {"voided"}],
    [op : {"purchase_out", "drop_bought"}, line : SpentLines, unit : Units],
    [op : {"delete_unit", "delete_unit_moves"}, unit : Units],
    [op : {"delete_line_moves", "delete_spent_line", "purge_line"}, line : SpentLines],
    [op : {"spent"}, spent : Spents, to : {"cancelled"}],
    [op : {"delete_spent"}, spent : Spents]}

Voids(x) == x.op = "unit" /\ x.to = "voided"

\* A unit is voided and then, next, taken out of the kardex.
Paired(t) ==
  \A n \in DOMAIN t : Voids(t[n]) =>
    n + 1 \in DOMAIN t /\ t[n + 1].op = "purchase_out" /\ t[n + 1].unit = t[n].unit

Wipes == {t \in Seq(WipeStatements) : Paired(t)}

\* The registration of one unit, and what is left of it.
BuyOf(t, k, u) ==
  t \in {<<OnUnit("create_unit", u), OnPair("purchase_in", k, u), OnPair("add_bought", k, u)>>,
         <<OnPair("purchase_in", k, u), OnPair("add_bought", k, u)>>,
         <<OnPair("add_bought", k, u)>>}
Buys(t) == \E k \in SpentLines, u \in Units : BuyOf(t, k, u)

\* The graph of a spent: a unit is new on one line.
Edits(t) ==
  \E x : /\ t = <<x>>
         /\ x = [op |-> "save_graph", spent |-> x.spent, to |-> x.to, lines |-> x.lines,
                 dropped |-> x.dropped, out |-> x.out, new |-> x.new]
         /\ x.lines \subseteq SpentLines /\ x.new \subseteq x.lines \X Units
         /\ \A p, q \in x.new : p[2] = q[2] => p = q

Plan(t) == t \in Wipes \/ Buys(t) \/ Edits(t)

-----------------------------------------------------------------------------
\* A plan has still to make line k the one of unit u, or to take it out of it.
Enters(x, k, u) ==
  x.op \in {"purchase_in", "add_bought", "purchase_out"} /\ x.line = k /\ x.unit = u
Refers(t, k, u) ==
  t # <<>> /\ Head(t).op # "create_unit" /\ \E n \in DOMAIN t : Enters(t[n], k, u)

\* It has created the unit and counts it next.
Bears(t, k, u) == t # <<>> /\ Head(t) = OnPair("purchase_in", k, u)

\* It takes the unit out of the kardex next.
Tends(t, u) == t # <<>> /\ Head(t).op = "purchase_out" /\ Head(t).unit = u

\* What becomes of a plan while another request replaces units.
Follows(t, r, units) ==
  /\ \A k \in SpentLines, u \in Units : Refers(r, k, u) => Refers(t, k, u) /\ u \notin units
  /\ \A k \in SpentLines, u \in Units : Bears(r, k, u) => Bears(t, k, u) /\ u \notin units
  /\ \A u \in Units \ units : Tends(t, u) => Tends(r, u)

-----------------------------------------------------------------------------
(* The invariant.  An existing unit has one line of a spent: its row, the      *)
(* entries of its kardex and what the plans have still to write all say so.    *)
(* A unit that was created and is not counted yet is unknown to the rest.  So  *)
(* it is counted once, and one that is voided is taken out by the request that *)
(* voided it, unless that one dies first.                                      *)
SaleKinds == {"status", "patch_invoice", "delete_invoice", "add_serial", "swap_serial",
              "drop_serial", "quantity", "delete_line"}

RaceKnows(j) ==
  /\ Plan(j.todo)
  /\ j.at # "write" => j.todo \in Seq(SaleStatements) \/ Edits(j.todo)
  /\ j.at = "write" => j.todo # <<>>
  /\ j.req[1] \in SaleKinds => j.todo \in Seq(SaleStatements)
  /\ j.req[1] = "edit_spent" => /\ IsGraph(j.req[2], j.req[3], j.req[4])
                                /\ j.at = "graph_units" => Edits(j.todo)

Prepared(w, j) == Serves(w, j) /\ (j # Idle => RaceKnows(j))

RaceJobs ==
  /\ job = [w \in Workers |-> job[w]]
  /\ \A w \in Workers : Prepared(w, job[w])

RaceTables ==
  /\ status \in [Units -> UnitStatus] /\ lines \subseteq Lines /\ rows \subseteq Lines \X Units
  /\ spentLines \subseteq SpentLines /\ purchaseNet \in [Units -> Int]
  /\ purchaseRows \subseteq SpentLines \X Units /\ purchaseMoves \subseteq spentLines \X Units
  /\ \A p \in purchaseRows \cup purchaseMoves : status[p[2]] # "absent"
  /\ \A u \in Units : purchaseNet[u] <= 1 /\ (purchaseNet[u] > 0 => \E m \in purchaseMoves : m[2] = u)

\* What says that u was bought with line k, or will.
Written(k, u) == <<k, u>> \in purchaseRows \cup purchaseMoves
Refs(k, u) == Written(k, u) \/ \E w \in Workers : Refers(job[w].todo, k, u)

OneLineEach ==
  \A u \in Units, k, h \in SpentLines : status[u] # "absent" /\ Refs(k, u) /\ Refs(h, u) => k = h

\* Nothing was written about u since it was created, or it was taken back.
Unspoiled(u) ==
  /\ status[u] # "voided" /\ purchaseNet[u] <= 0
  /\ \A r \in purchaseRows : r[2] # u

NewbornsAreNew ==
  \A w \in Workers, k \in SpentLines, u \in Units :
    Bears(job[w].todo, k, u) /\ status[u] # "absent" =>
      Unspoiled(u) /\ \A v \in Workers \ {w}, h \in SpentLines : ~Refers(job[v].todo, h, u)

RaceInv == load \in Loads /\ RaceTables /\ RaceJobs /\ OneLineEach /\ NewbornsAreNew

Untended == {u \in Units : /\ purchaseNet[u] > 0 /\ status[u] = "voided"
                           /\ \A w \in Workers : ~Tends(job[w].todo, u)}
FewUntended == crashes \in Nat /\ Cardinality(Untended) <= crashes

\* The requests W act, others follow; units are those that are replaced.
Served(W, units) ==
  /\ load' = load /\ job' = [v \in Workers |-> job'[v]]
  /\ \A v \in Workers : Prepared(v, job'[v])
  /\ \A v \in Workers \ W : Follows(job[v].todo, job'[v].todo, units)
  /\ \A w \in W, k \in SpentLines, u \in Units :
       Refers(job'[w].todo, k, u) =>
         Refers(job[w].todo, k, u) \/ <<k, u>> \in purchaseRows \/ u \in units

\* What a step may do to the tables, W acting.
Acted(W, k, u) == \E w \in W : Refers(job'[w].todo, k, u)

Lawful(W, units) ==
  /\ \A u \in Units \ units : status'[u] # "absent" => status[u] # "absent"
  /\ \A u \in Units \ units, k \in SpentLines : Written(k, u)' => Refs(k, u)
  /\ \A u \in units, k, h \in SpentLines :
       (Written(k, u)' \/ Acted(W, k, u)) /\ (Written(h, u)' \/ Acted(W, h, u)) => k = h
  /\ \A u \in Units \ units :
       /\ status[u] # "absent" /\ Unspoiled(u)
       /\ \A w \in W, k \in SpentLines : ~Refers(job[w].todo, k, u)
       => Unspoiled(u)'
  /\ \A w \in W, k \in SpentLines, u \in Units :
       Bears(job'[w].todo, k, u) => u \in units /\ Unspoiled(u)'

-----------------------------------------------------------------------------
(* The queries: one request goes on, the tables and the others stay.          *)
RaceTurn(w, j) ==
  /\ job' = [job EXCEPT ![w] = j]
  /\ Prepared(w, j)
  /\ \A k \in SpentLines, u \in Units :
       /\ ~Bears(j.todo, k, u)
       /\ Refers(j.todo, k, u) => Refers(job[w].todo, k, u) \/ <<k, u>> \in purchaseRows

Idles(w) == \A k, u : ~Refers(job[w].todo, k, u) /\ ~Bears(job[w].todo, k, u) /\ ~Tends(job[w].todo, u)

(* The plans of the purchase side take out of the kardex what they read a row *)
(* of.                                                                        *)
Takes(t) ==
  \A n \in DOMAIN t, k \in SpentLines, u \in Units : Enters(t[n], k, u) => <<k, u>> \in purchaseRows
Takings == {t \in Wipes : Takes(t)}

\* Worker w performs x, the first statement of its plan.
Acts(w, x, units) ==
  /\ Served({w}, units)
  /\ Plan(job[w].todo) /\ job[w].todo # <<>> /\ x = Head(job[w].todo)
  /\ job'[w].todo = Tail(job[w].todo)

\* A voided unit that is counted stays with the request that takes it out.
Tended(w, units) ==
  \A u \in Units :
    purchaseNet'[u] > 0 /\ status'[u] = "voided" /\ ~Tends(job'[w].todo, u) =>
      /\ u \notin units /\ purchaseNet[u] > 0 /\ status[u] = "voided"
      /\ ~Tends(job[w].todo, u)

Outcome(w, units) == RaceTables' /\ Lawful({w}, units) /\ Tended(w, units)

-----------------------------------------------------------------------------
(* One request at a time, on one line: a crash costs one unit at most.  A     *)
(* unit is at odds with its kardex if its sale movements do not say what its  *)
(* status says, but for the movement that the request under way writes next.  *)
Lone == Cardinality(Serving(AllKinds)) = 1 /\ Cardinality(load.lines) = 1

SaleOps == {"sale_out", "sale_in"}

Pending(op, u) ==
  \E w \in Workers : job[w].todo # <<>> /\ Head(job[w].todo).op = op /\ Head(job[w].todo).unit = u
Booked(u) == (status[u] = "sold" /\ ~Pending("sale_out", u)) \/ Pending("sale_in", u)
AtOdds == {u \in Units : saleNet[u] # IF Booked(u) THEN 1 ELSE 0}

\* Statement x turns a unit over, and y books that in the kardex.
TurnsOver(x) == x.op = "unit" /\ (x.to = "sold" \/ status[x.unit] = "sold")
Books(x, y) ==
  /\ x.op = "unit" /\ y.op \in SaleOps /\ y.unit = x.unit /\ y.line \in lines
  /\ IF x.to = "sold" THEN y.op = "sale_out" /\ Saleable(x.unit)
     ELSE y.op = "sale_in" /\ x.to = "in_stock" /\ status[x.unit] = "sold"

\* The plan of a sale: what it turns over it books next, what it books it has
\* just turned over, it marks a unit once, and a deletion ends it.
Deletions == {"delete_line", "delete_invoice"}
Coupled(t) ==
  /\ \A n \in DOMAIN t : TurnsOver(t[n]) => n + 1 \in DOMAIN t /\ Books(t[n], t[n + 1])
  /\ \A n \in DOMAIN t : t[n].op \in SaleOps => n - 1 \in DOMAIN t /\ Books(t[n - 1], t[n])
  /\ \A m, n \in DOMAIN t :
       t[m].op = "unit" /\ t[n].op = "unit" /\ t[m].unit = t[n].unit => m = n
  /\ \A n \in DOMAIN t : t[n].op \in Deletions => n + 1 \notin DOMAIN t

\* It has turned a unit over, and books it next.
Halfway(t) ==
  /\ t # <<>> /\ Head(t).op \in SaleOps /\ Head(t).line \in lines
  /\ status[Head(t).unit] = IF Head(t).op = "sale_out" THEN "sold" ELSE "in_stock"
  /\ Coupled(Tail(t))

\* A statement of the other plans, which neither sell nor touch what is sold.
Mild(x) ==
  /\ x.op \notin SaleOps
  /\ x.op = "unit" => x.to = "voided" /\ status[x.unit] # "sold"
  /\ x.op = "delete_unit_moves" => status[x.unit] # "sold"
Harmless(t) == \A n \in DOMAIN t : Mild(t[n])

Reserves(req) == IF req[1] = "swap_serial" THEN req[4] ELSE req[3]
Marks(t, u) == \E n \in DOMAIN t : t[n].op = "unit" /\ t[n].unit = u

\* Its plan begins with no movement of the sales.
Calm(j) ==
  IF j.req[1] \in SaleKinds
  THEN Coupled(j.todo) /\ (j.at = "unit" => ~Marks(j.todo, Reserves(j.req)))
  ELSE Harmless(j.todo)

LonePlan(j) == Calm(j) \/ (j.req[1] \in SaleKinds /\ j.at = "write" /\ Halfway(j.todo))

LoneTables ==
  /\ saleNet \in [Units -> Int] /\ saleMoves \subseteq Lines \X Units
  /\ lines \subseteq load.lines /\ rows \subseteq lines \X Units
  /\ \A u \in Units : saleNet[u] # 0 => \E m \in saleMoves : m[2] = u

LonePlans == \A w \in Workers : job[w] # Idle => LonePlan(job[w])
LoneInv == Lone => LoneTables /\ LonePlans /\ Cardinality(AtOdds) <= crashes

-----------------------------------------------------------------------------
(* Plans are put together of blocks that mark different units.                *)
Blocks(U) ==
  {t \in Seq(SaleStatements) :
     /\ Coupled(t)
     /\ \A n \in DOMAIN t : /\ t[n].op = "unit" => t[n].unit \in U
                            /\ t[n].op \notin Deletions}

UnitsOf(pairs) == UNION {{p[2]} : p \in pairs}

\* What the plans of the sales are made from.
OneRowEach ==
  /\ \A p, q \in rows : p[2] = q[2] => p = q
  /\ lines \subseteq Lines /\ rows \subseteq Lines \X Units
  /\ \A p \in rows : p[1] \in lines /\ p[1] \in Lines /\ p[2] \in Units
  /\ \A i : Cardinality(LinesOf(i)) <= 1

-----------------------------------------------------------------------------
(* The queries make plans of this kind.                                       *)
CalmTurn(w, j) == job' = [job EXCEPT ![w] = j] /\ (j = Idle \/ Calm(j))

\* What a query of a sale may rely on.
Asks(w) == RaceInv /\ OneRowEach /\ job[w].at # "idle" /\ Calm(job[w])

-----------------------------------------------------------------------------
(* The plans of the purchase side harm no sale.                               *)
Harms == {t \in Seq(WipeStatements) : Harmless(t)}

Heads(j, op, u) == j.todo # <<>> /\ Head(j.todo).op = op /\ Head(j.todo).unit = u

\* The tables and plans after a step of the request w, which is alone.
LoneOutcome(w) ==
  /\ LoneTables' /\ AtOdds' \subseteq AtOdds
  /\ \A v \in Workers \ {w} : job'[v] = Idle
  /\ job'[w] # Idle => LonePlan(job[w])'

\* What r is to t when the units change hands.
Recalls(t, r, units) ==
  /\ DOMAIN r = DOMAIN t
  /\ \A n \in DOMAIN t :
       /\ r[n] = t[n] \/ r[n] \in {Fail, Nothing}
       /\ t[n].op \in {"unit"} \cup SaleOps => (r[n] = t[n] <=> t[n].unit \notin units)

-----------------------------------------------------------------------------
\* Units enter stock, and lines are only added.
Enter(units) ==
  /\ status \in [Units -> UnitStatus] /\ \A u \in units : status[u] = "absent"
  /\ status' = [u \in Units |-> IF u \in units THEN "in_stock" ELSE status[u]]
  /\ lines \subseteq lines'

\* What unit u is at odds by, before plan t.
Owes(t, u) ==
  saleNet[u] # IF \/ status[u] = "sold" /\ ~(t # <<>> /\ Head(t).op = "sale_out" /\ Head(t).unit = u)
                  \/ t # <<>> /\ Head(t).op = "sale_in" /\ Head(t).unit = u
               THEN 1 ELSE 0
Moves(t) == t # <<>> /\ Head(t).op \in SaleOps

-----------------------------------------------------------------------------
\* Statement x moves nothing that is sold.
Odd(u) == saleNet[u] # IF status[u] = "sold" THEN 1 ELSE 0
Tame(x) ==
  /\ x.op \notin SaleOps
  /\ x.op = "unit" => x.unit \in Units /\ x.to # "sold" /\ status[x.unit] # "sold"
  /\ x.op \in {"create_unit", "delete_unit"} => "unit" \in DOMAIN x /\ x.unit \in Units
  /\ x.op = "add_row" => x.unit \in Units
  /\ x.op = "swap_row" => x.next \in Units
  /\ x.op \in {"delete_unit_moves", "delete_line_moves"} =>
       \A u \in Units : Names(x, "unit", u) => status[u] # "sold"
================================================================================
