----------------------------- MODULE Permissions -----------------------------
(***************************************************************************)
(* The permissions of a role: which actions its JSON grants on each        *)
(* resource of the catalogue and, under the wildcard, on all of them.  A   *)
(* key that is absent or false denies; both are the empty grant here.      *)
(* Roles are of an enterprise; Administrador is the name of one in each.   *)
(***************************************************************************)
CONSTANTS
  Resources,   \* PERMISSION_RESOURCES
  Allowed,     \* PERMISSION_RESOURCE_ALLOWED_ACTIONS
  Payloads,    \* the permissions the clients send
  Enterprises,
  None         \* a column that is null, a field that is not in the body

Actions == {"read", "write", "delete"}
Mutations == {"write", "delete"}
Wildcard == "*"
Administrator == "Administrador"

ASSUME CatalogueAssumption ==
  /\ Wildcard \notin Resources
  /\ Allowed \in [Resources -> SUBSET Actions]
  /\ \A res \in Resources : "read" \in Allowed[res]

Keys == Resources \cup {Wildcard}
PermissionMaps == [Keys -> SUBSET Actions]

\* validateEnterpriseRolePermissionsPayload, for a body with known keys.
Valid(p) == \A res \in Resources : p[res] \subseteq Allowed[res]

\* Mutation: the normalisation keeps every grant.
KeepsMutations(p) == p

\* revokeMutationsWhenReadIsNotGranted: key by key, the wildcard included.
Revoked(p) == [k \in Keys |-> IF "read" \in p[k] THEN p[k] ELSE p[k] \ Mutations]

\* hasEnterprisePermission: the contract of the resource first, then the
\* wildcard, then the resource itself.
Has(p, res, action) ==
  /\ action \in Allowed[res]
  /\ action \in p[Wildcard] \cup p[res]

AdministratorPermissions == [k \in Keys |-> IF k = Wildcard THEN Actions ELSE {}]
EmployeePermissions == [k \in Keys |-> {}]

\* Whoever may write or delete a resource may see it ("Revocar la lectura
\* implica no poder crear ni borrar esa entidad"), however the wildcard and the
\* resource's own key divide the grant.
Consistent(p) ==
  \A res \in Resources : (\E a \in Mutations : Has(p, res, a)) => Has(p, res, "read")
=============================================================================
