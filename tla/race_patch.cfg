SPECIFICATION SerialSpec
CONSTANTS
  u1 = u1 u2 = u2 i1 = i1 l1 = l1 l2 = l2 s1 = s1 k1 = k1 k2 = k2 w1 = w1 w2 = w2
  Units = {u1, u2}
  Invoices = {i1}
  Lines = {l1, l2}
  InvoiceOf <- SameInvoice
  Spents = {s1}
  SpentLines = {k1, k2}
  SpentOf <- SameSpent
  MaxQuantity = 1
  MaxDrift = 1
  Routes <- AllRoutes
  Workers = {w1, w2}
  Position <- InOrder
  Loads <- Patching
PROPERTY IssuedNeverDraftAgain
