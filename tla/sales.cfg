SPECIFICATION Spec
CONSTANTS
    e1 = e1  e2 = e2  c1 = c1  c2 = c2  s1 = s1  s2 = s2  q1 = q1  o1 = o1  i1 = i1
    g1 = g1  g2 = g2  k1 = k1  p1 = p1  p2 = p2  x1 = x1  l1 = l1  st1 = st1
    Enterprises = {e1, e2}
    Settings = {st1, st2}
    Links = {l1, l2}
    Templates = {tp1, tp2}
    Holidays = {h1}
    Vacations = {v1}
    Clients = {c1, c2}
    Series = {s1, s2}
    Earnings = {r1}
    Quotes = {q1}
    Orders = {o1}
    Invoices = {i1, i2}
    QuoteLines = {ql1}
    OrderLines = {ol1}
    InvoiceLines = {il1}
    Categories = {g1, g2}
    Items = {k1, k2}
    Suppliers = {p1, p2}
    SpentCategories = {x1, x2}
    Spents = {t1}
    Documents = {d1, d2}
    Nifs = {"n1", "n2"}
    Codes = {"A", "B"}
    Prices = {"low", "high"}
    QuoteStatuses = {"draft", "accepted"}
    OrderStatuses = {"awaiting_receipt", "received"}
    InvoiceStatuses = {"draft", "issued", "cancelled"}
    Workers = {w1, w2}
    MaxNumber = 2
    Scopes <- ScopesChecked
    None = None  Unborn = Unborn  Gone = Gone
INVARIANTS TypeOK TenantsNeverMix NumbersRunOn OneRowOfEach 
PROPERTIES IssuedInvoicesStay SettledLinesStay
SYMMETRY AlikeWorkers
CHECK_DEADLOCK FALSE
