SPECIFICATION AccessSpec
CONSTANTS
  ann = ann bob = bob e1 = e1 e2 = e2 None = None
  Resources <- Catalogue
  Allowed <- Contract
  Users = {ann, bob}
  Admins = {}
  Enterprises = {e1, e2}
  RoleNames = {"Administrador", "Empleado"}
  Payloads <- Bodies
  Surface <- Called
  Addressed <- Pairs
INVARIANTS
  ChangersMayLook
PROPERTIES
  OwnPeopleChangeAnEnterprise
  RevocationTakesHold
