--------------------------- MODULE EnterpriseRoles ---------------------------
(***************************************************************************)
(* The roles of the enterprises and the links of the users that hold them: *)
(* EnterpriseRoleService, the part of UserService and EnterpriseService    *)
(* that uses it, and their two tables, await by await.                     *)
(*                                                                         *)
(* A request reads, decides and writes in separate statements, so what it  *)
(* decided on may be gone when it writes; the process may die in between.  *)
(* findOne + save of one row in a repository is one statement.             *)
(***************************************************************************)
EXTENDS Permissions

CONSTANTS
  RoleIds, Names, Members, Workers,
  HomeOf,        \* enterprise_roles.enterprise_id, never updated
  EnterpriseOf   \* user_enterprise.enterprise_id of the link of a member

Employee == "Empleado"

ASSUME RolesAssumption ==
  /\ {Administrator, Employee} \subseteq Names
  /\ HomeOf \in [RoleIds -> Enterprises]
  /\ EnterpriseOf \in [Members -> Enterprises]
  /\ Payloads \subseteq PermissionMaps
  /\ None \notin Enterprises \cup RoleIds \cup Names \cup Members \cup PermissionMaps

VARIABLES
  founded,   \* enterprises
  roles,     \* ids of the rows of enterprise_roles
  used,      \* ids that were given to a row at some time
  name,      \* enterprise_roles.role, Empleado where there is no row
  perms,     \* enterprise_roles.permissions, none where there is no row
  roleOf,    \* user_enterprise.enterprise_role_id, None: no link
  seeded,    \* history: the role the foundation of an enterprise inserted
             \* as its Administrador
  job        \* what each worker is doing

vars == <<founded, roles, used, name, perms, roleOf, seeded, job>>

-----------------------------------------------------------------------------
Kinds == {"found", "create", "update", "delete", "assign", "join"}
Stages == {"enterprise", "vacancy", "insert", "role", "collision", "save", "remove", "link"}

\* What a request knows: its body and what it has read so far.
Jobs == [at : Stages, kind : Kinds, enterprise : Enterprises, id : RoleIds \cup {None},
         name : Names \cup {None}, perms : PermissionMaps \cup {None},
         member : Members \cup {None}]

Busy(w) == job[w] # None
Ends(w) == job' = [job EXCEPT ![w] = None]
Goes(w, at) == job' = [job EXCEPT ![w].at = at]

\* The unique key of enterprise_roles (enterprise_id, role).
Named(e, n) == {r \in roles : HomeOf[r] = e /\ name[r] = n}

Body(at, kind, e, id, n, p, m) ==
  [at |-> at, kind |-> kind, enterprise |-> e, id |-> id, name |-> n, perms |-> p, member |-> m]

\* The requests of the controllers and of the registration of users; an id is
\* one that the client has seen.
Requests ==
  UNION {
    {Body("enterprise", "found", e, None, Administrator, AdministratorPermissions, None) :
       e \in Enterprises \ founded},
    {Body("vacancy", "create", e, None, n, p, None) :
       e \in Enterprises, n \in Names, p \in Payloads},
    {Body("role", "update", HomeOf[r], r, n, p, None) :
       r \in roles, n \in Names \cup {None}, p \in Payloads \cup {None}},
    {Body("role", "delete", HomeOf[r], r, None, None, None) : r \in roles},
    {Body("role", "assign", EnterpriseOf[m], r, None, None, m) : r \in roles, m \in Members},
    {Body("role", "join", EnterpriseOf[m], r, None, None, m) : r \in roles, m \in Members},
    {Body("vacancy", "join", EnterpriseOf[m], None, Employee, EmployeePermissions, m) :
       m \in Members}}

Start(w) ==
  /\ ~Busy(w)
  /\ \E body \in Requests : job' = [job EXCEPT ![w] = body]
  /\ UNCHANGED <<founded, roles, used, name, perms, roleOf, seeded>>

-----------------------------------------------------------------------------
At(w, stage) == Busy(w) /\ job[w].at = stage
Reads == UNCHANGED <<founded, roles, used, name, perms, roleOf, seeded>>

\* EnterpriseService.create: the row, before its roles are seeded.
InsertEnterprise(w) ==
  /\ At(w, "enterprise")
  /\ IF job[w].enterprise \in founded THEN Ends(w) ELSE Goes(w, "vacancy")
  /\ founded' = founded \cup {job[w].enterprise}
  /\ UNCHANGED <<roles, used, name, perms, roleOf, seeded>>

\* What follows ensureNamedRole when it has the role r: seedDefaultRoles goes
\* on with Empleado, a registration with the link.
Continues(w, r) ==
  CASE job[w].kind = "join" -> job' = [job EXCEPT ![w].at = "link", ![w].id = r]
    [] job[w].kind = "found" /\ job[w].name = Administrator ->
         job' = [job EXCEPT ![w].at = "vacancy", ![w].name = Employee,
                            ![w].perms = EmployeePermissions]
    [] OTHER -> Ends(w)

\* findByEnterpriseIdAndRoleName of create and of ensureNamedRole; create has
\* validated the permissions before.
FindVacancy(w) ==
  LET found == Named(job[w].enterprise, job[w].name) IN
  /\ At(w, "vacancy")
  /\ IF job[w].kind = "create" /\ ~Valid(job[w].perms) THEN Ends(w)
     ELSE IF found = {} THEN Goes(w, "insert")
     ELSE IF job[w].kind = "create" THEN Ends(w)
     ELSE \E r \in found : Continues(w, r)
  /\ Reads

\* The insert, refused by the unique key or by the foreign key.
InsertRole(w) ==
  LET e == job[w].enterprise IN
  /\ At(w, "insert")
  /\ \/ /\ e \notin founded \/ Named(e, job[w].name) # {}
        /\ Ends(w)
        /\ Reads
     \/ /\ e \in founded /\ Named(e, job[w].name) = {}
        /\ \E r \in RoleIds \ used :
             /\ HomeOf[r] = e
             /\ roles' = roles \cup {r}
             /\ used' = used \cup {r}
             /\ name' = [name EXCEPT ![r] = job[w].name]
             /\ perms' = [perms EXCEPT ![r] = IF job[w].kind = "create" THEN Revoked(job[w].perms)
                                              ELSE job[w].perms]
             /\ seeded' = IF job[w].kind = "found" /\ job[w].name = Administrator
                          THEN [seeded EXCEPT ![e] = r] ELSE seeded
             /\ Continues(w, r)
        /\ UNCHANGED <<founded, roleOf>>

-----------------------------------------------------------------------------
\* Mutations: only Empleado is kept from deletion; a role of any enterprise is
\* accepted for a link.
OnlyEmployee(n) == n = Employee
AnyRole(r, e) == TRUE

Protected(n) == n \in {Administrator, Employee}

\* assertAdministratorRoleConstraints.
AdministratorRefuses(r, next, p) == name[r] = Administrator /\ (next # Administrator \/ p # None)

\* assertRoleBelongsToEnterprise.
BelongsTo(r, e) == HomeOf[r] = e

\* The findById that opens updateById, deleteById and the assignment of a role.
\* updateById keeps what the body does not change from the row as read here.
ReadRole(w) ==
  LET r == job[w].id
      next == IF job[w].name = None THEN name[r] ELSE job[w].name
      p == IF job[w].perms = None THEN perms[r] ELSE Revoked(job[w].perms)
  IN
  /\ At(w, "role")
  /\ IF r \notin roles THEN Ends(w)
     ELSE CASE job[w].kind = "update" ->
                 IF \/ AdministratorRefuses(r, next, job[w].perms)
                    \/ job[w].perms # None /\ ~Valid(job[w].perms)
                 THEN Ends(w)
                 ELSE job' = [job EXCEPT ![w].at = IF next # name[r] THEN "collision" ELSE "save",
                                         ![w].name = next, ![w].perms = p]
            [] job[w].kind = "delete" -> IF Protected(name[r]) THEN Ends(w) ELSE Goes(w, "remove")
            [] OTHER -> IF BelongsTo(r, job[w].enterprise) THEN Goes(w, "link") ELSE Ends(w)
  /\ Reads

\* The name of an update must not belong to another role.
FindCollision(w) ==
  /\ At(w, "collision")
  /\ IF Named(job[w].enterprise, job[w].name) \subseteq {job[w].id} THEN Goes(w, "save") ELSE Ends(w)
  /\ Reads

\* EnterpriseRoleRepository.updateById: both columns are written back.
SaveRole(w) ==
  LET r == job[w].id IN
  /\ At(w, "save")
  /\ Ends(w)
  /\ IF r \in roles /\ Named(job[w].enterprise, job[w].name) \subseteq {r}
     THEN /\ name' = [name EXCEPT ![r] = job[w].name]
          /\ perms' = [perms EXCEPT ![r] = job[w].perms]
     ELSE UNCHANGED <<name, perms>>
  /\ UNCHANGED <<founded, roles, used, roleOf, seeded>>

\* The delete, refused while a link holds the role (ON DELETE RESTRICT).
RemoveRole(w) ==
  LET r == job[w].id IN
  /\ At(w, "remove")
  /\ Ends(w)
  /\ IF \E m \in Members : roleOf[m] = r
     THEN UNCHANGED <<roles, name, perms>>
     ELSE /\ roles' = roles \ {r}
          /\ name' = [name EXCEPT ![r] = Employee]
          /\ perms' = [perms EXCEPT ![r] = EmployeePermissions]
  /\ UNCHANGED <<founded, used, roleOf, seeded>>

\* The link: updated by updateUserEnterpriseRole, inserted by
\* addUserToEnterprise; the foreign key wants the role to be there still.
SaveLink(w) ==
  LET m == job[w].member
      fits == IF job[w].kind = "assign" THEN roleOf[m] # None ELSE roleOf[m] = None
  IN
  /\ At(w, "link")
  /\ Ends(w)
  /\ roleOf' = IF fits /\ job[w].id \in roles THEN [roleOf EXCEPT ![m] = job[w].id] ELSE roleOf
  /\ UNCHANGED <<founded, roles, used, name, perms, seeded>>

\* The link goes: unlinkUserFromEnterprise.
Leave(m) ==
  /\ roleOf[m] # None
  /\ roleOf' = [roleOf EXCEPT ![m] = None]
  /\ UNCHANGED <<founded, roles, used, name, perms, seeded, job>>

\* The process dies, or the database does not answer.
Crash(w) == Busy(w) /\ Ends(w) /\ Reads

-----------------------------------------------------------------------------
Init ==
  /\ founded = {} /\ roles = {} /\ used = {}
  /\ name = [r \in RoleIds |-> Employee]
  /\ perms = [r \in RoleIds |-> EmployeePermissions]
  /\ roleOf = [m \in Members |-> None]
  /\ seeded = [e \in Enterprises |-> None]
  /\ job = [w \in Workers |-> None]

Next ==
  \/ \E w \in Workers :
       \/ Start(w)
       \/ InsertEnterprise(w)
       \/ FindVacancy(w)
       \/ InsertRole(w)
       \/ ReadRole(w)
       \/ FindCollision(w)
       \/ SaveRole(w)
       \/ RemoveRole(w)
       \/ SaveLink(w)
       \/ Crash(w)
  \/ \E m \in Members : Leave(m)

Spec == Init /\ [][Next]_vars

-----------------------------------------------------------------------------
(* Properties.                                                             *)

RolesTypeOK ==
  /\ founded \subseteq Enterprises
  /\ roles \subseteq used /\ used \subseteq RoleIds
  /\ name \in [RoleIds -> Names]
  /\ perms \in [RoleIds -> PermissionMaps]
  /\ roleOf \in [Members -> RoleIds \cup {None}]
  /\ seeded \in [Enterprises -> RoleIds \cup {None}]
  /\ job \in [Workers -> Jobs \cup {None}]

\* enterprise-permissions.md, "No se puede borrar, ni renombrar, ni cambiarle los
\* permisos": the Administrador an enterprise was founded with is there for
\* good, with every permission, whatever updates and deletions are in flight.
AdministratorIsFixed ==
  \A e \in Enterprises :
    seeded[e] # None => /\ seeded[e] \in roles
                        /\ name[seeded[e]] = Administrator
                        /\ perms[seeded[e]] = AdministratorPermissions

\* No role that a user can hold lets its holder change what the holder cannot
\* see (parseAndValidatePermissions).
MutationImpliesRead == \A r \in roles : Consistent(perms[r])

\* The role of a link exists and belongs to the enterprise of the link, though
\* it was checked some statements before the link was saved
\* (assertRoleBelongsToEnterprise).
AssignedRolesAreLocal ==
  \A m \in Members :
    roleOf[m] # None => roleOf[m] \in roles /\ HomeOf[roleOf[m]] = EnterpriseOf[m]
=============================================================================
