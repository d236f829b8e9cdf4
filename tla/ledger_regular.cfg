SPECIFICATION Spec
CONSTANTS
  u1 = u1 u2 = u2 i1 = i1 i2 = i2 l1 = l1 l2 = l2 l3 = l3
  s1 = s1 k1 = k1 k2 = k2
  Nobody = Nobody
  Units = {u1, u2}
  Invoices = {i1, i2}
  Lines <- ThreeLines
  InvoiceOf <- ThreeLinesOf
  Spents = {s1}
  SpentLines = {k1, k2}
  SpentOf <- TwoSpentLinesOf
  MaxQuantity = 2
  MaxDrift = 1
  Routes = {}
SYMMETRY UnitSymmetry
INVARIANTS
  SoldMatchesIssuedRows
  ReservedMatchesDraftRows
  LinesNameTheirUnits
  NoUnitOnTwoInvoices
  SaleKardexMatchesStatus
PROPERTIES
  ImplementsAllocation
