SPECIFICATION Spec
CONSTANTS
  u1 = u1 u2 = u2 i1 = i1 i2 = i2 l1 = l1 l2 = l2 l3 = l3
  s1 = s1 k1 = k1 k2 = k2
  Nobody = Nobody
  Units = {u1, u2}
  Invoices = {i1, i2}
  Lines <- ThreeLines
  InvoiceOf <- ThreeLinesOf
  Spents = {s1}
  SpentLines = {k1}
  SpentOf <- OneSpentLineOf
  MaxQuantity = 1
  MaxDrift = 1
  Routes = {"patch", "reopen", "refused_issue", "rejected_cancel"}
SYMMETRY UnitSymmetry
INVARIANTS
  KardexNeverOverstates
  CancelledSpentUnitsAreVoided
PROPERTIES
  SoldLeavesByCancellation
