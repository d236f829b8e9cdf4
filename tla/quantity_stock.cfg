SPECIFICATION Spec
CONSTANTS
  a = a b = b i1 = i1 l1 = l1 l2 = l2 s1 = s1 k1 = k1 k2 = k2 None = None
  Items = {a, b}
  Invoices = {i1}
  Lines = {l1, l2}
  Spents = {s1}
  SpentLines = {k1, k2}
  InvoiceOf <- InvoiceOfLine
  SpentOf <- SpentOfLine
  Position <- InOrder
  MaxQuantity = 1
  MaxMoves = 2
  Loads <- Desks
INVARIANTS
  SalesAreCounted
  PurchasesAreCounted
