SPECIFICATION Spec
CONSTANTS
  e1 = e1 e2 = e2 r1 = r1 r2 = r2 r3 = r3 m1 = m1
  invoices = invoices dashboard = dashboard w1 = w1 w2 = w2 None = None
  Resources = {invoices, dashboard}
  Allowed <- Contract
  Enterprises = {e1, e2}
  RoleIds = {r1, r2, r3}
  HomeOf <- Homes
  Names = {"Administrador", "Empleado", "Ventas"}
  Members = {m1}
  EnterpriseOf <- Links
  Payloads <- Bodies
  Workers = {w1, w2}
SYMMETRY WorkerSymmetry
INVARIANTS
  AdministratorIsFixed
  MutationImpliesRead
  AssignedRolesAreLocal
