SPECIFICATION Spec
CONSTANTS
  u1 = u1 u2 = u2 ana = ana bea = bea e1 = e1 e2 = e2 w1 = w1 w2 = w2
  None = None
  UserIds = {u1, u2}
  Emails = {ana, bea}
  Enterprises = {e1, e2}
  Workers = {w1, w2}
  MaxCard = 2
SYMMETRY AccountsSymmetry
INVARIANTS
  LoginsHaveUsers
  AccountsAreWhole
PROPERTY
  UnlinkKeepsOtherLinks
