------------------------------- MODULE Access -------------------------------
(***************************************************************************)
(* Who may do what: a call is admitted by FirebaseMiddleware and the two   *)
(* global guards, which freeze what its user may do, and is judged again   *)
(* by the service when the enterprise is only known from the record.  The  *)
(* links and roles it was judged by may be gone when it takes effect.      *)
(*                                                                         *)
(* The guards judge the first enterprise that the request names: that of   *)
(* the query, then of the body, then of the path.  The handler acts on the *)
(* one of the record, of the body or of the path, which may be another.    *)
(* The permissions of an Administrador never change: EnterpriseRoles shows *)
(* that they stay as they were founded.                                    *)
(***************************************************************************)
EXTENDS Routes, Permissions

CONSTANTS
  Users, RoleNames,
  Admins,     \* users.role = administrator, which no other user can give
  Surface,    \* the routes that each user calls: bound
  Addressed   \* what the guards judge in a call, and what it acts on: bound

ASSUME AccessAssumption ==
  /\ Admins \subseteq Users
  /\ Administrator \in RoleNames
  /\ Payloads \subseteq PermissionMaps
  /\ Surface \in [Users -> SUBSET AllRoutes]
  /\ Addressed \subseteq [judged : Enterprises \cup {None}, enterprise : Enterprises \cup {None}]
  /\ None \notin Users \cup Enterprises \cup RoleNames

VARIABLES
  role,     \* the role of the link of a user with an enterprise, None: no link
  grants,   \* enterprise_roles.permissions per enterprise and name
  call      \* what each user has asked for

accessVars == <<role, grants, call>>

-----------------------------------------------------------------------------
\* Mutations: a link is enough, whatever its role grants; a permission in one
\* enterprise is one in all.
LinkIsEnough(u, may, e, route) == u \in Admins \/ e \in DOMAIN may
Anywhere(u, may, e, route) ==
  u \in Admins \/ \E f \in DOMAIN may : Has(may[f], route.resource, route.action)

Links(u) == {e \in Enterprises : role[u][e] # None}

\* buildAccessContext: what the user may do in each enterprise, as of now.
Context(u) ==
  [e \in Links(u) |-> grants[e][role[u][e]]]

\* assertCanAccessEnterprise and assertEntityAccessible.
CanAccess(u, may, e) == u \in Admins \/ e \in DOMAIN may

\* assertCanPerformEnterprisePermission.
CanPerform(u, may, e, route) ==
  \/ u \in Admins
  \/ e \in DOMAIN may /\ Has(may[e], route.resource, route.action)

\* EnterpriseAccessGuard, then EnterprisePermissionGuard: the enterprise that
\* extractEnterpriseId finds, when it finds one, whatever the call acts on.
GuardsPass(u, may, route, judged) ==
  CASE judged = None \/ route.where = "open" -> TRUE
    [] route.where \in {"linked", "admin"} -> CanAccess(u, may, judged)
    [] OTHER -> CanPerform(u, may, judged, route)

\* assertCurrentUserRecordAccessible, assertCurrentUserResourcePermission: the
\* permission in any enterprise that the two share; one may read oneself.
CanPerformOn(u, may, target, route) ==
  \/ u \in Admins
  \/ u = target /\ route.action = "read"
  \/ \E e \in Links(target) \cap DOMAIN may : Has(may[e], route.resource, route.action)

\* assertCurrentEntityAccessible with its permission, assertCanAccessEnterprise,
\* assertCanCreateEnterprise, assertCanDeleteEnterprise.
ServicePasses(u, may, route, e, target) ==
  CASE route.where = "record" -> CanPerform(u, may, e, route)
    [] route.where = "sent"  -> CanAccess(u, may, e)
    [] route.where = "person" -> CanPerformOn(u, may, target, route)
    [] route.where = "admin"  -> u \in Admins
    [] OTHER -> TRUE

-----------------------------------------------------------------------------
Calling(u) == call[u] # None
CallIs(u, stage) == Calling(u) /\ call[u].at = stage
Returns(u) == call' = [call EXCEPT ![u] = None]

\* The users a route may be about: the one it addresses, the one it links.
Targets(route) ==
  IF route.where = "person" \/ route = Sent("users", "write") THEN Users ELSE {None}

\* What the guards may judge in a call that acts on e.  The query's enterprise
\* comes first, and handlers that ask for one there act on it, a change of role
\* too; a body or a path that names one is judged only without a query.
JudgedFor(route, judged, e) ==
  CASE route.where \in {"asked", "within", "linked"} \/ route = Person("write") ->
         e # None /\ judged = e
    [] route.where = "sent" \/ route = Person("delete") -> e # None /\ judged # None
    [] route.where = "record" -> e # None
    [] OTHER -> e = None

\* AccessContext: what a call carries with it from here on.
Admitted(u, route, names, target) ==
  [at |-> "admitted", route |-> route, judged |-> names.judged,
   enterprise |-> names.enterprise, target |-> target, may |-> Context(u)]

\* FirebaseMiddleware.use loads the user with his links and their roles; the
\* guards refuse or let the call in.
Authenticate(u) ==
  /\ ~Calling(u)
  /\ \E route \in Surface[u], names \in Addressed : \E target \in Targets(route) :
       /\ JudgedFor(route, names.judged, names.enterprise)
       /\ GuardsPass(u, Context(u), route, names.judged)
       /\ call' = [call EXCEPT ![u] = Admitted(u, route, names, target)]
  /\ UNCHANGED <<role, grants>>

\* The service loads what the call addresses and judges it by the frozen
\* context (EnterpriseAccessContextInterceptor).
Judge(u) ==
  LET c == call[u] IN
  /\ CallIs(u, "admitted")
  /\ IF ServicePasses(u, c.may, c.route, c.enterprise, c.target)
     THEN call' = [call EXCEPT ![u].at = "judged"]
     ELSE Returns(u)
  /\ UNCHANGED <<role, grants>>

-----------------------------------------------------------------------------
(* What judged calls do, each in the statement that writes.                 *)

Does(u, route) == CallIs(u, "judged") /\ call[u].route = route /\ Returns(u)

\* UserService.create, of the body's enterprise: a link that is there already
\* stays as it is.
LinkUser(u) ==
  LET e == call[u].enterprise
      t == call[u].target
  IN
  /\ Does(u, Sent("users", "write"))
  /\ \E r \in RoleNames :
       role' = IF role[t][e] = None THEN [role EXCEPT ![t][e] = r] ELSE role
  /\ UNCHANGED grants

\* UserService.updateById with a role, in the query's enterprise: the link is
\* looked for again.
ChangeRole(u) ==
  LET e == call[u].enterprise
      t == call[u].target
  IN
  /\ Does(u, Person("write"))
  /\ \E r \in RoleNames :
       role' = IF role[t][e] # None THEN [role EXCEPT ![t][e] = r] ELSE role
  /\ UNCHANGED grants

\* unlinkUserFromEnterprise, of the path's enterprise; the user goes with the
\* last of the links.
UnlinkUser(u) ==
  /\ Does(u, Person("delete"))
  /\ role' = [role EXCEPT ![call[u].target][call[u].enterprise] = None]
  /\ UNCHANGED grants

\* EnterpriseRoleService.updateById.
ChangeGrants(u) ==
  /\ Does(u, Record("enterpriseRoles", "write"))
  /\ \E r \in RoleNames \ {Administrator}, p \in Payloads :
       grants' = [grants EXCEPT ![call[u].enterprise][r] = Revoked(p)]
  /\ UNCHANGED role

Changing ==
  {Sent("users", "write"), Person("write"), Person("delete"),
   Record("enterpriseRoles", "write")}

\* Every other endpoint leaves the links and the roles alone.
Serve(u) ==
  /\ \E route \in Surface[u] \ Changing : Does(u, route)
  /\ UNCHANGED <<role, grants>>

-----------------------------------------------------------------------------
\* Some user has been made administrator of each enterprise by a global one.
AccessInit ==
  /\ role \in [Users -> [Enterprises -> {Administrator, None}]]
  /\ grants = [e \in Enterprises |-> [r \in RoleNames |->
                 IF r = Administrator THEN AdministratorPermissions ELSE EmployeePermissions]]
  /\ call = [u \in Users |-> None]

Answer(u) ==
  Judge(u) \/ LinkUser(u) \/ ChangeRole(u) \/ UnlinkUser(u) \/ ChangeGrants(u) \/ Serve(u)

AccessNext == \E u \in Users : Authenticate(u) \/ Answer(u)

\* A request runs to its end: every await in it returns.
AccessFairness == \A u \in Users : WF_accessVars(Answer(u))

AccessSpec == AccessInit /\ [][AccessNext]_accessVars /\ AccessFairness

-----------------------------------------------------------------------------
(* Properties.                                                             *)

\* What the role of the link grants now, asked of the tables themselves.
Grants(u, e, route) ==
  e \in Links(u) /\ Has(grants[e][role[u][e]], route.resource, route.action)

\* Whoever may change something through a controller may also look at it there,
\* for every role that can be stored: no screen of the application is write-only.
ChangersMayLook ==
  \A c \in Controllers, e \in Enterprises, r \in RoleNames :
    \A route \in {x \in RoutesOf(c) : x.resource \in Resources /\ x.action \in Mutations} :
      Has(grants[e][r], route.resource, route.action) =>
        \E x \in RoutesOf(c) :
          /\ x.action = "read" /\ x.where # "open"
          /\ \/ x.resource = "none"
             \/ x.resource = route.resource /\ Has(grants[e][r], x.resource, "read")

\* How a link changed.
Joins(t, e)      == role[t][e] = None /\ role'[t][e] # None
Leaves(t, e)     == role[t][e] # None /\ role'[t][e] = None
Reassigned(t, e) == role[t][e] # None /\ role'[t][e] \notin {role[t][e], None}

\* The call of u is past every check and about to take effect, and its user had
\* the right for its route in e when it began.
Effective(u, route) == CallIs(u, "judged") /\ call[u].route = route
HadRight(u, e, route) ==
  /\ Effective(u, route)
  /\ \/ u \in Admins
     \/ e \in DOMAIN call[u].may /\ Has(call[u].may[e], route.resource, route.action)

\* Whose call lets somebody into e, and whose takes somebody out.
LetsIn(u, e) ==
  /\ \E f \in Enterprises : HadRight(u, f, Sent("users", "write"))
  /\ u \in Admins \/ e \in DOMAIN call[u].may
TakesOut(u) == \E f \in Enterprises : HadRight(u, f, Person("delete"))

ChangedByItsOwn(e) ==
  /\ grants'[e] # grants[e] =>
       \E u \in Users : HadRight(u, e, Record("enterpriseRoles", "write"))
  /\ (\E t \in Users : Reassigned(t, e)) =>
       \E u \in Users : HadRight(u, e, Person("write"))
  /\ (\E t \in Users : Joins(t, e)) => \E u \in Users : LetsIn(u, e)
  /\ (\E t \in Users : Leaves(t, e)) => \E u \in Users : TakesOut(u)

\* Only its own people change what the roles of an enterprise grant and who holds
\* them, by a role there that let them, and only they let somebody in: people who
\* were linked with it when the call began, however it changed since.  Letting in
\* asks for the permission only where the guards judged, and taking out in any
\* enterprise of the caller, so that a stranger of this one may do that.
OwnPeopleChangeAnEnterprise == [][\A e \in Enterprises : ChangedByItsOwn(e)]_accessVars

\* Where a call needs its permission: the service looks for it in the enterprise
\* of the record, and the guards in the one they judge.
RestsOn(c) == IF c.route.where = "record" THEN c.enterprise ELSE c.judged

Exercises(u, e, route) == Effective(u, route) /\ RestsOn(call[u]) = e

\* A right that is taken away for good, with the link or from the role, admits no
\* call from some moment on, and the user whose link is taken away for good lets
\* nobody into that enterprise any more: no call holds on to either.  What the
\* call acts on may be another enterprise than the one the right was in.
RevocationTakesHold ==
  \A u \in Users \ Admins, e \in Enterprises :
    /\ \A route \in Changing : <>[]~Grants(u, e, route) => <>[]~Exercises(u, e, route)
    /\ <>[](e \notin Links(u)) =>
         <>[]~(Effective(u, Sent("users", "write")) /\ call[u].enterprise = e)
=============================================================================
