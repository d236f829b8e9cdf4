----------------------------- MODULE AccessProofs -----------------------------
(***************************************************************************)
(* What EnterpriseRoles and Access guarantee for every number of           *)
(* enterprises, roles, users and concurrent requests, and for every        *)
(* catalogue of resources: first who holds which permissions, then what    *)
(* the calls that are judged by them may do.                               *)
(*                                                                         *)
(* The properties of EnterpriseRoles speak of the tables; they hold        *)
(* because of what the requests in flight know, so the invariant has a     *)
(* clause for each stage of a request.  The one that matters is that of    *)
(* collision, save and remove: a request past its checks never holds the   *)
(* founding Administrador with another name, other permissions or to be    *)
(* deleted, because that role has had its name since it was inserted.      *)
(*                                                                         *)
(* In Access the tables change under a call: what is kept of it is what    *)
(* its guards and its service found in the context it carries.             *)
(***************************************************************************)
EXTENDS EnterpriseRoles, Access, TLAPS

\* What a request knows at each stage, of the ids that were given out and of the
\* founding Administrador of each enterprise.
KnowsBody(j) ==
  /\ j.kind \in {"found", "create", "join"}
  /\ j.name # None /\ j.perms # None
  /\ j.kind # "create" => Consistent(j.perms)
  /\ j.kind = "found" /\ j.name = Administrator => j.perms = AdministratorPermissions
  /\ j.kind = "join" => j.member # None /\ j.enterprise = EnterpriseOf[j.member]

KnowsRole(j, ids) ==
  /\ j.id \in ids
  /\ j.kind \in {"update", "delete", "assign", "join"}
  /\ j.kind \in {"update", "delete"} => j.enterprise = HomeOf[j.id]
  /\ j.kind \in {"assign", "join"} => j.member # None /\ j.enterprise = EnterpriseOf[j.member]

KnowsUpdate(j, ids, first) ==
  /\ j.id \in ids
  /\ j.name # None /\ j.perms # None
  /\ Consistent(j.perms)
  /\ \A e \in Enterprises :
       first[e] = j.id => j.name = Administrator /\ j.perms = AdministratorPermissions

KnowsRemoval(j, ids, first) == j.id \in ids /\ \A e \in Enterprises : first[e] # j.id

KnowsLink(j, ids) ==
  /\ j.id \in ids
  /\ j.member # None
  /\ HomeOf[j.id] = EnterpriseOf[j.member]

Knows(j, ids, first) ==
  /\ j.at \in {"enterprise", "vacancy", "insert"} => KnowsBody(j)
  /\ j.at = "enterprise" => j.kind = "found"
  /\ j.at = "role" => KnowsRole(j, ids)
  /\ j.at \in {"collision", "save"} => KnowsUpdate(j, ids, first)
  /\ j.at = "remove" => KnowsRemoval(j, ids, first)
  /\ j.at = "link" => KnowsLink(j, ids)

RequestsKnow == \A w \in Workers : job[w] # None => Knows(job[w], used, seeded)

SeededIsUsed == \A e \in Enterprises : seeded[e] # None => seeded[e] \in used

RolesInv ==
  /\ RolesTypeOK
  /\ RequestsKnow
  /\ SeededIsUsed
  /\ AdministratorIsFixed
  /\ MutationImpliesRead
  /\ AssignedRolesAreLocal

-----------------------------------------------------------------------------
(* The permissions the code stores.                                         *)

\* A normalised body is consistent: parseAndValidatePermissions is enough.
LEMMA RevokedIsConsistent ==
  ASSUME NEW p \in PermissionMaps
  PROVE  Revoked(p) \in PermissionMaps /\ Consistent(Revoked(p))
<1>1. Revoked(p) \in PermissionMaps
  BY DEF Revoked, PermissionMaps, Keys
<1>2. \A k \in Keys : (\E a \in Mutations : a \in Revoked(p)[k]) => "read" \in Revoked(p)[k]
  BY DEF Revoked, PermissionMaps, Mutations
<1>3. \A res \in Resources : res \in Keys /\ Wildcard \in Keys /\ "read" \in Allowed[res]
  BY CatalogueAssumption DEF Keys
<1> QED BY <1>1, <1>2, <1>3 DEF Consistent, Has

LEMMA SeedsAreConsistent ==
  /\ AdministratorPermissions \in PermissionMaps /\ Consistent(AdministratorPermissions)
  /\ EmployeePermissions \in PermissionMaps /\ Consistent(EmployeePermissions)
<1>1. AdministratorPermissions \in PermissionMaps /\ EmployeePermissions \in PermissionMaps
  BY DEF AdministratorPermissions, EmployeePermissions, PermissionMaps, Keys, Actions
<1>2. \A res \in Resources : res \in Keys /\ res # Wildcard /\ Wildcard \in Keys
                             /\ "read" \in Allowed[res]
  BY CatalogueAssumption DEF Keys
<1>3. Consistent(AdministratorPermissions)
  BY <1>2 DEF Consistent, Has, AdministratorPermissions, Actions
<1>4. Consistent(EmployeePermissions)
  BY <1>2 DEF Consistent, Has, EmployeePermissions
<1> QED BY <1>1, <1>3, <1>4

-----------------------------------------------------------------------------
(* What holds of the requests in flight goes on holding when one of them    *)
(* moves: an id that a request knows is not given out again, so no new      *)
(* founding Administrador is one of them.                                   *)

NewIds ==
  /\ used \subseteq used'
  /\ \A e \in Enterprises : seeded'[e] = seeded[e] \/ seeded'[e] \notin used

LEMMA KnowledgeLasts ==
  ASSUME NEW j, Knows(j, used, seeded), NewIds
  PROVE  Knows(j, used', seeded')
BY DEF Knows, KnowsRole, KnowsUpdate, KnowsRemoval, KnowsLink, NewIds

\* The worker w goes on with j, and no other moves.
Moves(w, j) ==
  /\ job' = [job EXCEPT ![w] = j]
  /\ j \in Jobs \cup {None}
  /\ j # None => Knows(j, used', seeded')

LEMMA OneRequestMoves ==
  ASSUME RolesInv, NEW w \in Workers, NEW j, Moves(w, j), NewIds
  PROVE  RequestsKnow' /\ job' \in [Workers -> Jobs \cup {None}]
<1>1. job \in [Workers -> Jobs \cup {None}]
  BY DEF RolesInv, RolesTypeOK
<1>2. job' \in [Workers -> Jobs \cup {None}]
  BY <1>1 DEF Moves
<1>3. ASSUME NEW v \in Workers, job'[v] # None
      PROVE  Knows(job'[v], used', seeded')
  <2>1. CASE v = w
    BY <1>1, <1>3, <2>1 DEF Moves
  <2>2. CASE v # w
    <3>1. job'[v] = job[v]
      BY <1>1, <2>2 DEF Moves
    <3>2. Knows(job[v], used, seeded)
      BY <1>3, <3>1 DEF RolesInv, RequestsKnow
    <3> QED BY <3>1, <3>2, KnowledgeLasts
  <2> QED BY <2>1, <2>2
<1> QED BY <1>2, <1>3 DEF RequestsKnow

\* A step that only moves a request.
LEMMA OnlyAMove ==
  ASSUME RolesInv, NEW w \in Workers, NEW j \in Jobs \cup {None}, Reads,
         job' = [job EXCEPT ![w] = j], j # None => Knows(j, used, seeded)
  PROVE  RolesInv'
<1>1. NewIds /\ Moves(w, j)
  BY DEF Reads, NewIds, Moves
<1>2. RequestsKnow' /\ job' \in [Workers -> Jobs \cup {None}]
  BY <1>1, OneRequestMoves
<1>3. RolesTypeOK'
  BY <1>2 DEF RolesInv, RolesTypeOK, Reads
<1>4. SeededIsUsed' /\ AdministratorIsFixed' /\ MutationImpliesRead' /\ AssignedRolesAreLocal'
  BY DEF RolesInv, SeededIsUsed, AdministratorIsFixed, MutationImpliesRead,
         AssignedRolesAreLocal, Reads
<1> QED BY <1>2, <1>3, <1>4 DEF RolesInv

\* A request that ends, or that goes to the next stage with what it has.
LEMMA EndsWithoutAWrite ==
  ASSUME RolesInv, NEW w \in Workers, Ends(w), Reads
  PROVE  RolesInv'
BY OnlyAMove DEF Ends

LEMMA GoesWithoutAWrite ==
  ASSUME RolesInv, NEW w \in Workers, NEW at \in Stages, Busy(w), Goes(w, at), Reads,
         Knows([job[w] EXCEPT !.at = at], used, seeded)
  PROVE  RolesInv'
<1> DEFINE j == [job[w] EXCEPT !.at = at]
<1>1. job[w] \in Jobs
  BY DEF RolesInv, RolesTypeOK, Busy
<1>2. j \in Jobs
  BY <1>1 DEF Jobs
<1>3. job' = [job EXCEPT ![w] = j]
  BY <1>1 DEF Goes
<1> QED BY <1>2, <1>3, OnlyAMove

-----------------------------------------------------------------------------
(* One step per action.                                                     *)

LEMMA InitSatisfies == Init => RolesInv
<1> SUFFICES ASSUME Init PROVE RolesInv
  OBVIOUS
<1>1. RolesTypeOK
  BY SeedsAreConsistent, RolesAssumption DEF Init, RolesTypeOK, Employee
<1>2. RequestsKnow /\ SeededIsUsed /\ AdministratorIsFixed /\ MutationImpliesRead
      /\ AssignedRolesAreLocal
  BY DEF Init, RequestsKnow, SeededIsUsed, AdministratorIsFixed, MutationImpliesRead,
         AssignedRolesAreLocal
<1> QED BY <1>1, <1>2 DEF RolesInv

LEMMA RequestsAreBodies ==
  ASSUME RolesInv, NEW j \in Requests
  PROVE  j \in Jobs /\ Knows(j, used, seeded)
<1>0. None \notin Enterprises \cup RoleIds \cup Names \cup Members \cup PermissionMaps
      /\ Administrator \in Names /\ Employee \in Names /\ Administrator # Employee
      /\ roles \subseteq used /\ used \subseteq RoleIds
      /\ HomeOf \in [RoleIds -> Enterprises] /\ EnterpriseOf \in [Members -> Enterprises]
      /\ Payloads \subseteq PermissionMaps
  BY RolesAssumption DEF RolesInv, RolesTypeOK, Administrator, Employee
<1>1. ASSUME NEW e \in Enterprises,
             j = Body("enterprise", "found", e, None, Administrator, AdministratorPermissions, None)
      PROVE  j \in Jobs /\ Knows(j, used, seeded)
  BY <1>0, <1>1, SeedsAreConsistent
     DEF Body, Jobs, Stages, Kinds, Knows, KnowsBody
<1>2. ASSUME NEW e \in Enterprises, NEW n \in Names, NEW p \in Payloads,
             j = Body("vacancy", "create", e, None, n, p, None)
      PROVE  j \in Jobs /\ Knows(j, used, seeded)
  BY <1>0, <1>2 DEF Body, Jobs, Stages, Kinds, Knows, KnowsBody
<1>3. ASSUME NEW r \in roles, NEW n \in Names \cup {None}, NEW p \in Payloads \cup {None},
             j = Body("role", "update", HomeOf[r], r, n, p, None)
      PROVE  j \in Jobs /\ Knows(j, used, seeded)
  BY <1>0, <1>3 DEF Body, Jobs, Stages, Kinds, Knows, KnowsRole
<1>4. ASSUME NEW r \in roles, j = Body("role", "delete", HomeOf[r], r, None, None, None)
      PROVE  j \in Jobs /\ Knows(j, used, seeded)
  BY <1>0, <1>4 DEF Body, Jobs, Stages, Kinds, Knows, KnowsRole
<1>5. ASSUME NEW r \in roles, NEW m \in Members, NEW k \in {"assign", "join"},
             j = Body("role", k, EnterpriseOf[m], r, None, None, m)
      PROVE  j \in Jobs /\ Knows(j, used, seeded)
  BY <1>0, <1>5 DEF Body, Jobs, Stages, Kinds, Knows, KnowsRole
<1>6. ASSUME NEW m \in Members,
             j = Body("vacancy", "join", EnterpriseOf[m], None, Employee, EmployeePermissions, m)
      PROVE  j \in Jobs /\ Knows(j, used, seeded)
  BY <1>0, <1>6, SeedsAreConsistent DEF Body, Jobs, Stages, Kinds, Knows, KnowsBody
<1> QED BY <1>1, <1>2, <1>3, <1>4, <1>5, <1>6 DEF Requests

LEMMA StartKeeps ==
  ASSUME RolesInv, NEW w \in Workers, Start(w)
  PROVE  RolesInv'
<1>1. PICK j \in Requests : job' = [job EXCEPT ![w] = j]
  BY DEF Start
<1> QED BY <1>1, RequestsAreBodies, OnlyAMove DEF Start, Reads

LEMMA CrashKeeps ==
  ASSUME RolesInv, NEW w \in Workers, Crash(w)
  PROVE  RolesInv'
BY EndsWithoutAWrite DEF Crash

\* A request that is at a stage is one, and knows what the stage says.
LEMMA AtKnows ==
  ASSUME RolesInv, NEW w \in Workers, NEW stage \in Stages, At(w, stage)
  PROVE  job[w] \in Jobs /\ job[w].at = stage /\ Knows(job[w], used, seeded)
BY DEF RolesInv, RolesTypeOK, RequestsKnow, At, Busy

LEMMA InsertEnterpriseKeeps ==
  ASSUME RolesInv, NEW w \in Workers, InsertEnterprise(w)
  PROVE  RolesInv'
<1> DEFINE j == [job[w] EXCEPT !.at = "vacancy"]
<1>1. job[w] \in Jobs /\ job[w].at = "enterprise" /\ Knows(job[w], used, seeded)
  BY AtKnows DEF InsertEnterprise, Stages
<1>2. PICK k \in {j, None} : job' = [job EXCEPT ![w] = k]
  BY DEF InsertEnterprise, Ends, Goes
<1>3. j \in Jobs /\ Knows(j, used, seeded)
  BY <1>1 DEF Jobs, Stages, Knows, KnowsBody
<1>4. used' = used /\ seeded' = seeded /\ NewIds
  BY DEF InsertEnterprise, NewIds
<1>5. Moves(w, k)
  BY <1>2, <1>3, <1>4 DEF Moves
<1>6. RequestsKnow' /\ job' \in [Workers -> Jobs \cup {None}]
  BY <1>4, <1>5, OneRequestMoves
<1>7. founded' \subseteq Enterprises
  BY <1>1 DEF InsertEnterprise, RolesInv, RolesTypeOK, Jobs
<1>8. RolesTypeOK'
  BY <1>6, <1>7 DEF InsertEnterprise, RolesInv, RolesTypeOK
<1>9. SeededIsUsed' /\ AdministratorIsFixed' /\ MutationImpliesRead' /\ AssignedRolesAreLocal'
  BY DEF InsertEnterprise, RolesInv, SeededIsUsed, AdministratorIsFixed, MutationImpliesRead,
         AssignedRolesAreLocal
<1> QED BY <1>6, <1>8, <1>9 DEF RolesInv

\* What ensureNamedRole and create hand on, when the role r is used.
LEMMA ContinuesKnows ==
  ASSUME RolesInv, NEW w \in Workers, job[w] \in Jobs, KnowsBody(job[w]),
         NEW ids, NEW first, NEW r \in ids, r \in RoleIds, HomeOf[r] = job[w].enterprise,
         Continues(w, r)
  PROVE  \E j \in Jobs \cup {None} :
           job' = [job EXCEPT ![w] = j] /\ (j # None => Knows(j, ids, first))
<1>1. CASE job[w].kind = "join"
  <2> DEFINE j == [job[w] EXCEPT !.at = "link", !.id = r]
  <2>1. job' = [job EXCEPT ![w] = j]
    BY <1>1 DEF Continues, RolesInv, RolesTypeOK
  <2>2. j \in Jobs
    BY DEF Jobs, Stages
  <2>3. Knows(j, ids, first)
    BY <1>1 DEF Jobs, Knows, KnowsLink, KnowsBody
  <2> QED BY <2>1, <2>2, <2>3
<1>2. CASE job[w].kind = "found" /\ job[w].name = Administrator
  <2> DEFINE j == [job[w] EXCEPT !.at = "vacancy", !.name = Employee, !.perms = EmployeePermissions]
  <2>1. job' = [job EXCEPT ![w] = j]
    BY <1>2 DEF Continues, RolesInv, RolesTypeOK
  <2>2. j \in Jobs
    BY RolesAssumption, SeedsAreConsistent DEF Jobs, Stages
  <2>3. Employee # Administrator /\ Employee # None /\ EmployeePermissions # None
    BY RolesAssumption, SeedsAreConsistent DEF Administrator, Employee
  <2>4. Knows(j, ids, first)
    BY <1>2, <2>3, SeedsAreConsistent DEF Jobs, Knows, KnowsBody
  <2> QED BY <2>1, <2>2, <2>4
<1>3. CASE job[w].kind # "join" /\ ~(job[w].kind = "found" /\ job[w].name = Administrator)
  BY <1>3 DEF Continues, Ends
<1> QED BY <1>1, <1>2, <1>3

LEMMA FindVacancyKeeps ==
  ASSUME RolesInv, NEW w \in Workers, FindVacancy(w)
  PROVE  RolesInv'
<1>1. job[w] \in Jobs /\ job[w].at = "vacancy" /\ Knows(job[w], used, seeded) /\ Busy(w)
  BY AtKnows DEF FindVacancy, Stages, At
<1>2. KnowsBody(job[w])
  BY <1>1 DEF Knows
<1>3. CASE Ends(w)
  BY <1>3, EndsWithoutAWrite DEF FindVacancy
<1>4. CASE Goes(w, "insert")
  <2>1. Knows([job[w] EXCEPT !.at = "insert"], used, seeded)
    BY <1>1, <1>2 DEF Jobs, Knows, KnowsBody
  <2> QED BY <1>1, <1>4, <2>1, GoesWithoutAWrite DEF FindVacancy, Stages
<1>5. ASSUME NEW r \in Named(job[w].enterprise, job[w].name), Continues(w, r)
      PROVE  RolesInv'
  <2>1. r \in used /\ r \in RoleIds /\ HomeOf[r] = job[w].enterprise
    BY DEF Named, RolesInv, RolesTypeOK
  <2>2. PICK j \in Jobs \cup {None} :
          job' = [job EXCEPT ![w] = j] /\ (j # None => Knows(j, used, seeded))
    BY <1>1, <1>2, <1>5, <2>1, ContinuesKnows
  <2> QED BY <2>2, OnlyAMove DEF FindVacancy
<1> QED BY <1>3, <1>4, <1>5 DEF FindVacancy

LEMMA InsertRoleKeeps ==
  ASSUME RolesInv, NEW w \in Workers, InsertRole(w)
  PROVE  RolesInv'
<1>1. job[w] \in Jobs /\ job[w].at = "insert" /\ Knows(job[w], used, seeded)
  BY AtKnows DEF InsertRole, Stages
<1>2. KnowsBody(job[w])
  BY <1>1 DEF Knows
<1>3. CASE Ends(w) /\ Reads
  BY <1>3, EndsWithoutAWrite
<1>4. CASE ~(Ends(w) /\ Reads)
  <2> DEFINE e == job[w].enterprise
             p == IF job[w].kind = "create" THEN Revoked(job[w].perms) ELSE job[w].perms
             founds == job[w].kind = "found" /\ job[w].name = Administrator
  <2>1. PICK r \in RoleIds \ used :
          /\ HomeOf[r] = e
          /\ roles' = roles \cup {r} /\ used' = used \cup {r}
          /\ name' = [name EXCEPT ![r] = job[w].name]
          /\ perms' = [perms EXCEPT ![r] = p]
          /\ seeded' = IF founds THEN [seeded EXCEPT ![e] = r] ELSE seeded
          /\ Continues(w, r)
          /\ founded' = founded /\ roleOf' = roleOf
    BY <1>4 DEF InsertRole
  <2>2. p \in PermissionMaps /\ Consistent(p) /\ job[w].name \in Names /\ e \in Enterprises
        /\ (founds => p = AdministratorPermissions)
    BY <1>1, <1>2, RevokedIsConsistent DEF Jobs, KnowsBody
  <2>3. NewIds
    BY <2>1, <2>2 DEF NewIds, RolesInv, RolesTypeOK
  <2>4. PICK j \in Jobs \cup {None} :
          job' = [job EXCEPT ![w] = j] /\ (j # None => Knows(j, used', seeded'))
    BY <1>1, <1>2, <2>1, ContinuesKnows
  <2>5. RequestsKnow' /\ job' \in [Workers -> Jobs \cup {None}]
    BY <2>3, <2>4, OneRequestMoves DEF Moves
  <2>6. RolesTypeOK'
    BY <2>1, <2>2, <2>5 DEF RolesInv, RolesTypeOK
  <2>7. SeededIsUsed'
    BY <2>1, <2>2 DEF RolesInv, RolesTypeOK, SeededIsUsed
  <2>8. AdministratorIsFixed'
    <3> SUFFICES ASSUME NEW f \in Enterprises, seeded'[f] # None
                 PROVE  /\ seeded'[f] \in roles'
                        /\ name'[seeded'[f]] = Administrator
                        /\ perms'[seeded'[f]] = AdministratorPermissions
      BY DEF AdministratorIsFixed
    <3>1. CASE founds /\ f = e
      BY <2>1, <2>2, <3>1 DEF RolesInv, RolesTypeOK
    <3>2. CASE ~(founds /\ f = e)
      <4>1. seeded'[f] = seeded[f] /\ seeded[f] \in used /\ seeded[f] # r
        BY <2>1, <2>2, <3>2 DEF RolesInv, RolesTypeOK, SeededIsUsed
      <4> QED BY <2>1, <4>1 DEF RolesInv, RolesTypeOK, AdministratorIsFixed
    <3> QED BY <3>1, <3>2
  <2>9. MutationImpliesRead'
    BY <2>1, <2>2 DEF RolesInv, RolesTypeOK, MutationImpliesRead
  <2>10. AssignedRolesAreLocal'
    BY <2>1 DEF RolesInv, AssignedRolesAreLocal
  <2> QED BY <2>5, <2>6, <2>7, <2>8, <2>9, <2>10 DEF RolesInv
<1> QED BY <1>3, <1>4

\* updateById goes on with what it kept of the row and what it was sent; of the
\* founding Administrador it can only keep both.
LEMMA ReadRoleKeeps ==
  ASSUME RolesInv, NEW w \in Workers, ReadRole(w)
  PROVE  RolesInv'
<1> DEFINE r == job[w].id
           next == IF job[w].name = None THEN name[r] ELSE job[w].name
           p == IF job[w].perms = None THEN perms[r] ELSE Revoked(job[w].perms)
<1>1. job[w] \in Jobs /\ job[w].at = "role" /\ Knows(job[w], used, seeded) /\ Busy(w) /\ Reads
  BY AtKnows DEF ReadRole, Stages, At
<1>2. KnowsRole(job[w], used)
  BY <1>1 DEF Knows
<1>3. CASE Ends(w)
  BY <1>1, <1>3, EndsWithoutAWrite
<1>4. CASE r \in roles /\ job[w].kind = "update" /\ ~Ends(w)
  <2>1. ~AdministratorRefuses(r, next, job[w].perms)
    BY <1>4 DEF ReadRole
  <2>2. PICK at \in {"collision", "save"} :
          job' = [job EXCEPT ![w].at = at, ![w].name = next, ![w].perms = p]
    BY <1>4 DEF ReadRole
  <2> DEFINE j == [job[w] EXCEPT !.at = at, !.name = next, !.perms = p]
  <2>3. next \in Names /\ p \in PermissionMaps /\ Consistent(p)
    BY <1>1, <1>4, RevokedIsConsistent
       DEF Jobs, RolesInv, RolesTypeOK, MutationImpliesRead
  <2>4. next # None /\ p # None
    BY <2>3, RolesAssumption
  <2>5. job' = [job EXCEPT ![w] = j] /\ j \in Jobs
    BY <1>1, <2>2, <2>3 DEF Jobs, Stages, RolesInv, RolesTypeOK
  <2>6. j.at \in {"collision", "save"} /\ j.name = next /\ j.perms = p /\ j.id = r
    BY <1>1 DEF Jobs
  <2>7. ASSUME NEW e \in Enterprises, seeded[e] = r
        PROVE  next = Administrator /\ p = AdministratorPermissions
    <3>1. seeded[e] # None
      BY <1>2, <2>7, RolesAssumption DEF KnowsRole, RolesInv, RolesTypeOK
    <3>2. name[r] = Administrator /\ perms[r] = AdministratorPermissions
      BY <2>7, <3>1 DEF RolesInv, AdministratorIsFixed
    <3> QED BY <2>1, <3>2 DEF AdministratorRefuses
  <2>8. KnowsUpdate(j, used, seeded)
    BY <1>2, <2>3, <2>4, <2>6, <2>7 DEF KnowsUpdate, KnowsRole
  <2>9. Knows(j, used, seeded)
    BY <2>6, <2>8 DEF Knows
  <2> QED BY <1>1, <2>5, <2>9, OnlyAMove
<1>5. CASE r \in roles /\ job[w].kind = "delete" /\ ~Ends(w)
  <2>1. ~Protected(name[r]) /\ Goes(w, "remove")
    BY <1>5 DEF ReadRole
  <2>2. \A e \in Enterprises : seeded[e] # r
    BY <1>2, <2>1, RolesAssumption
       DEF RolesInv, RolesTypeOK, AdministratorIsFixed, Protected, KnowsRole
  <2>3. Knows([job[w] EXCEPT !.at = "remove"], used, seeded)
    BY <1>1, <1>2, <2>2 DEF Knows, KnowsRemoval, KnowsRole, Jobs
  <2> QED BY <1>1, <2>1, <2>3, GoesWithoutAWrite DEF Stages
<1>6. CASE r \in roles /\ job[w].kind \notin {"update", "delete"} /\ ~Ends(w)
  <2>1. BelongsTo(r, job[w].enterprise) /\ Goes(w, "link")
    BY <1>6 DEF ReadRole
  <2>2. Knows([job[w] EXCEPT !.at = "link"], used, seeded)
    BY <1>1, <1>2, <1>6, <2>1 DEF Knows, KnowsLink, KnowsRole, BelongsTo, Jobs
  <2> QED BY <1>1, <2>1, <2>2, GoesWithoutAWrite DEF Stages
<1>7. CASE r \notin roles
  BY <1>3, <1>7 DEF ReadRole
<1> QED BY <1>3, <1>4, <1>5, <1>6, <1>7

LEMMA FindCollisionKeeps ==
  ASSUME RolesInv, NEW w \in Workers, FindCollision(w)
  PROVE  RolesInv'
<1>1. job[w] \in Jobs /\ job[w].at = "collision" /\ Knows(job[w], used, seeded) /\ Busy(w)
  BY AtKnows DEF FindCollision, Stages, At
<1>2. Knows([job[w] EXCEPT !.at = "save"], used, seeded)
  BY <1>1 DEF Knows, KnowsUpdate, Jobs
<1>3. CASE Ends(w)
  BY <1>3, EndsWithoutAWrite DEF FindCollision
<1>4. CASE Goes(w, "save")
  BY <1>1, <1>2, <1>4, GoesWithoutAWrite DEF FindCollision, Stages
<1> QED BY <1>3, <1>4 DEF FindCollision

\* A request that ends with a write: the requests in flight are as before.
LEMMA EndsWithAWrite ==
  ASSUME RolesInv, NEW w \in Workers, Ends(w), used' = used, seeded' = seeded
  PROVE  RequestsKnow' /\ job' \in [Workers -> Jobs \cup {None}] /\ SeededIsUsed'
<1>1. NewIds /\ Moves(w, None)
  BY DEF NewIds, Moves, Ends
<1>2. SeededIsUsed'
  BY DEF RolesInv, SeededIsUsed
<1> QED BY <1>1, <1>2, OneRequestMoves

LEMMA SaveRoleKeeps ==
  ASSUME RolesInv, NEW w \in Workers, SaveRole(w)
  PROVE  RolesInv'
<1> DEFINE r == job[w].id
<1>1. job[w] \in Jobs /\ KnowsUpdate(job[w], used, seeded)
  BY AtKnows DEF SaveRole, Stages, Knows
<1>2. RequestsKnow' /\ job' \in [Workers -> Jobs \cup {None}] /\ SeededIsUsed'
  BY EndsWithAWrite DEF SaveRole
<1>3. r \in RoleIds /\ job[w].name \in Names /\ job[w].perms \in PermissionMaps
  BY <1>1 DEF Jobs, KnowsUpdate, RolesInv, RolesTypeOK
<1>4. \/ name' = name /\ perms' = perms
      \/ name' = [name EXCEPT ![r] = job[w].name] /\ perms' = [perms EXCEPT ![r] = job[w].perms]
  BY DEF SaveRole
<1>5. RolesTypeOK'
  BY <1>2, <1>3, <1>4 DEF SaveRole, RolesInv, RolesTypeOK
<1>6. AdministratorIsFixed'
  <2> SUFFICES ASSUME NEW e \in Enterprises, seeded[e] # None
               PROVE  /\ seeded[e] \in roles
                      /\ name'[seeded[e]] = Administrator
                      /\ perms'[seeded[e]] = AdministratorPermissions
    BY DEF SaveRole, AdministratorIsFixed
  <2>1. seeded[e] \in roles /\ name[seeded[e]] = Administrator
        /\ perms[seeded[e]] = AdministratorPermissions
    BY DEF RolesInv, AdministratorIsFixed
  <2>2. seeded[e] = r => job[w].name = Administrator /\ job[w].perms = AdministratorPermissions
    BY <1>1 DEF KnowsUpdate
  <2> QED BY <1>3, <1>4, <2>1, <2>2 DEF RolesInv, RolesTypeOK
<1>7. MutationImpliesRead'
  BY <1>1, <1>3, <1>4 DEF SaveRole, RolesInv, RolesTypeOK, MutationImpliesRead, KnowsUpdate
<1>8. AssignedRolesAreLocal'
  BY DEF SaveRole, RolesInv, AssignedRolesAreLocal
<1> QED BY <1>2, <1>5, <1>6, <1>7, <1>8 DEF RolesInv

LEMMA RemoveRoleKeeps ==
  ASSUME RolesInv, NEW w \in Workers, RemoveRole(w)
  PROVE  RolesInv'
<1> DEFINE r == job[w].id
<1>1. job[w] \in Jobs /\ KnowsRemoval(job[w], used, seeded)
  BY AtKnows DEF RemoveRole, Stages, Knows
<1>2. RequestsKnow' /\ job' \in [Workers -> Jobs \cup {None}] /\ SeededIsUsed'
  BY EndsWithAWrite DEF RemoveRole
<1>3. \/ roles' = roles /\ name' = name /\ perms' = perms
      \/ /\ \A m \in Members : roleOf[m] # r
         /\ roles' = roles \ {r}
         /\ name' = [name EXCEPT ![r] = Employee]
         /\ perms' = [perms EXCEPT ![r] = EmployeePermissions]
  BY DEF RemoveRole
<1>4. RolesTypeOK'
  BY <1>2, <1>3, SeedsAreConsistent, RolesAssumption DEF RemoveRole, RolesInv, RolesTypeOK
<1>5. AdministratorIsFixed'
  BY <1>1, <1>3 DEF RemoveRole, RolesInv, RolesTypeOK, AdministratorIsFixed, KnowsRemoval
<1>6. MutationImpliesRead'
  BY <1>3 DEF RemoveRole, RolesInv, RolesTypeOK, MutationImpliesRead
<1>7. AssignedRolesAreLocal'
  BY <1>3 DEF RemoveRole, RolesInv, AssignedRolesAreLocal
<1> QED BY <1>2, <1>4, <1>5, <1>6, <1>7 DEF RolesInv

LEMMA SaveLinkKeeps ==
  ASSUME RolesInv, NEW w \in Workers, SaveLink(w)
  PROVE  RolesInv'
<1> DEFINE m == job[w].member
<1>1. job[w] \in Jobs /\ KnowsLink(job[w], used)
  BY AtKnows DEF SaveLink, Stages, Knows
<1>2. RequestsKnow' /\ job' \in [Workers -> Jobs \cup {None}] /\ SeededIsUsed'
  BY EndsWithAWrite DEF SaveLink
<1>3. \/ roleOf' = roleOf
      \/ job[w].id \in roles /\ roleOf' = [roleOf EXCEPT ![m] = job[w].id]
  BY DEF SaveLink
<1>4. m \in Members /\ HomeOf[job[w].id] = EnterpriseOf[m]
  BY <1>1 DEF Jobs, KnowsLink
<1>5. RolesTypeOK'
  BY <1>2, <1>3 DEF SaveLink, RolesInv, RolesTypeOK
<1>6. AdministratorIsFixed' /\ MutationImpliesRead'
  BY DEF SaveLink, RolesInv, AdministratorIsFixed, MutationImpliesRead
<1>7. AssignedRolesAreLocal'
  BY <1>3, <1>4 DEF SaveLink, RolesInv, RolesTypeOK, AssignedRolesAreLocal
<1> QED BY <1>2, <1>5, <1>6, <1>7 DEF RolesInv

LEMMA LeaveKeeps ==
  ASSUME RolesInv, NEW m \in Members, Leave(m)
  PROVE  RolesInv'
<1>1. RequestsKnow' /\ SeededIsUsed'
  BY DEF Leave, RolesInv, RequestsKnow, SeededIsUsed
<1>2. RolesTypeOK' /\ AssignedRolesAreLocal'
  BY DEF Leave, RolesInv, RolesTypeOK, AssignedRolesAreLocal
<1>3. AdministratorIsFixed' /\ MutationImpliesRead'
  BY DEF Leave, RolesInv, AdministratorIsFixed, MutationImpliesRead
<1> QED BY <1>1, <1>2, <1>3 DEF RolesInv

-----------------------------------------------------------------------------
LEMMA RolesInvIsInductive == RolesInv /\ [Next]_vars => RolesInv'
<1> SUFFICES ASSUME RolesInv, [Next]_vars PROVE RolesInv'
  OBVIOUS
<1>1. ASSUME NEW w \in Workers, Start(w) PROVE RolesInv'
  BY <1>1, StartKeeps
<1>2. ASSUME NEW w \in Workers, InsertEnterprise(w) PROVE RolesInv'
  BY <1>2, InsertEnterpriseKeeps
<1>3. ASSUME NEW w \in Workers, FindVacancy(w) PROVE RolesInv'
  BY <1>3, FindVacancyKeeps
<1>4. ASSUME NEW w \in Workers, InsertRole(w) PROVE RolesInv'
  BY <1>4, InsertRoleKeeps
<1>5. ASSUME NEW w \in Workers, ReadRole(w) PROVE RolesInv'
  BY <1>5, ReadRoleKeeps
<1>6. ASSUME NEW w \in Workers, FindCollision(w) PROVE RolesInv'
  BY <1>6, FindCollisionKeeps
<1>7. ASSUME NEW w \in Workers, SaveRole(w) PROVE RolesInv'
  BY <1>7, SaveRoleKeeps
<1>8. ASSUME NEW w \in Workers, RemoveRole(w) PROVE RolesInv'
  BY <1>8, RemoveRoleKeeps
<1>9. ASSUME NEW w \in Workers, SaveLink(w) PROVE RolesInv'
  BY <1>9, SaveLinkKeeps
<1>10. ASSUME NEW w \in Workers, Crash(w) PROVE RolesInv'
  BY <1>10, CrashKeeps
<1>11. ASSUME NEW m \in Members, Leave(m) PROVE RolesInv'
  BY <1>11, LeaveKeeps
<1>12. ASSUME UNCHANGED vars PROVE RolesInv'
  BY <1>12 DEF vars, RolesInv, RolesTypeOK, RequestsKnow, SeededIsUsed, AdministratorIsFixed,
               MutationImpliesRead, AssignedRolesAreLocal
<1> QED BY <1>1, <1>2, <1>3, <1>4, <1>5, <1>6, <1>7, <1>8, <1>9, <1>10, <1>11, <1>12 DEF Next

LEMMA RolesInvHolds == Spec => []RolesInv
BY InitSatisfies, RolesInvIsInductive, PTL DEF Spec

\* The tables and the requests in flight stay of their types: an id of a deleted
\* role is never given out again, so a request that holds it finds nothing.
THEOREM RolesTypeCorrect == Spec => []RolesTypeOK
<1>1. RolesInv => RolesTypeOK
  BY DEF RolesInv
<1> QED BY <1>1, RolesInvHolds, PTL

\* The Administrador an enterprise is founded with can be neither deleted nor
\* renamed nor restricted, whatever requests of EnterpriseRoleService are in
\* flight at the same time and wherever they die.
THEOREM FoundingAdministratorIsFixed == Spec => []AdministratorIsFixed
<1>1. RolesInv => AdministratorIsFixed
  BY DEF RolesInv
<1> QED BY <1>1, RolesInvHolds, PTL

\* No role ever grants writing or deleting of a resource without reading it,
\* for every catalogue in which each resource can be read.
THEOREM WhoMutatesReads == Spec => []MutationImpliesRead
<1>1. RolesInv => MutationImpliesRead
  BY DEF RolesInv
<1> QED BY <1>1, RolesInvHolds, PTL

\* The role of a link is a row of the link's own enterprise, although nothing but
\* an earlier read and a foreign key on the id keeps it so.
THEOREM LinksHoldLocalRoles == Spec => []AssignedRolesAreLocal
<1>1. RolesInv => AssignedRolesAreLocal
  BY DEF RolesInv
<1> QED BY <1>1, RolesInvHolds, PTL
-----------------------------------------------------------------------------
(* The endpoints.                                                           *)

\* A controller shows what it changes.
Shows(controller) ==
  \A route \in RoutesOf(controller) : route.action \in Mutations =>
    \E x \in RoutesOf(controller) :
      /\ x.action = "read" /\ x.where # "open"
      /\ x.resource \in {"none", route.resource}

\* One endpoint shows the resource that all the others change.
LEMMA ShowsOne ==
  ASSUME NEW c, NEW res, NEW n \in DOMAIN c,
         c[n].action = "read", c[n].where # "open", c[n].resource \in {"none", res},
         \A m \in DOMAIN c : c[m].action \in Mutations => c[m].resource = res
  PROVE  Shows(c)
BY DEF Shows, RoutesOf

\* The tables of an enterprise, however they are asked for.
LEMMA TablesShow ==
  ASSUME NEW res
  PROVE  Shows(Crud(res)) /\ Shows(CrudWithin(res)) /\ Shows(Shown(res)) /\ Shows(Document(res))
<1>1. Shows(Crud(res))
  BY DEF Shows, RoutesOf, Crud, Asked, Record, Route
<1>2. Shows(CrudWithin(res))
  BY DEF Shows, RoutesOf, CrudWithin, Asked, Within, Route
<1>3. Shows(Shown(res))
  BY DEF Shows, RoutesOf, Shown, Asked, Record, Route
<1>4. Shows(Document(res))
  <2>1. "findAll" \in DOMAIN Document(res) /\ Document(res)["findAll"] = Asked(res, "read")
    BY DEF Document, With, Crud
  <2>2. \A m \in DOMAIN Document(res) : Document(res)[m].resource = res
    BY DEF Document, With, Crud, Asked, Record, Route
  <2> QED BY <2>1, <2>2, ShowsOne DEF Asked, Route
<1> QED BY <1>1, <1>2, <1>3, <1>4

\* The controllers that add endpoints of their own to a table.
LEMMA OthersShow ==
  /\ Shows(AiRequestRoutes) /\ Shows(ClientDocumentRoutes) /\ Shows(EnterpriseRoleRoutes)
  /\ Shows(EnterpriseSettingsRoutes) /\ Shows(SigningRoutes)
<1>1. Shows(AiRequestRoutes)
  <2>1. "findAll" \in DOMAIN AiRequestRoutes /\ AiRequestRoutes["findAll"] = Asked("aiRequests", "read")
    BY DEF AiRequestRoutes, With, Shown
  <2>2. \A m \in DOMAIN AiRequestRoutes : AiRequestRoutes[m].resource = "aiRequests"
    BY DEF AiRequestRoutes, With, Shown, Asked, Record, Route
  <2> QED BY <2>1, <2>2, ShowsOne DEF Asked, Route
<1>2. Shows(ClientDocumentRoutes)
  <2>1. /\ "findAll" \in DOMAIN ClientDocumentRoutes
        /\ ClientDocumentRoutes["findAll"] = Asked("documentManagement", "read")
    BY DEF ClientDocumentRoutes, With, Crud
  <2>2. \A m \in DOMAIN ClientDocumentRoutes :
          ClientDocumentRoutes[m].resource = "documentManagement"
    BY DEF ClientDocumentRoutes, With, Crud, Asked, Record, Route
  <2> QED BY <2>1, <2>2, ShowsOne DEF Asked, Route
<1>3. Shows(EnterpriseRoleRoutes)
  <2>1. /\ "findAll" \in DOMAIN EnterpriseRoleRoutes
        /\ EnterpriseRoleRoutes["findAll"] = Asked("enterpriseRoles", "read")
    BY DEF EnterpriseRoleRoutes, With, Crud
  <2>2. \A m \in DOMAIN EnterpriseRoleRoutes :
          EnterpriseRoleRoutes[m].resource = "enterpriseRoles"
    BY DEF EnterpriseRoleRoutes, With, Crud, Asked, Record, Route
  <2> QED BY <2>1, <2>2, ShowsOne DEF Asked, Route
<1>4. Shows(EnterpriseSettingsRoutes)
  BY DEF Shows, RoutesOf, EnterpriseSettingsRoutes, Asked, Within, Route
<1>5. Shows(SigningRoutes)
  <2>1. "findAll" \in DOMAIN SigningRoutes /\ SigningRoutes["findAll"] = Asked("signings", "read")
    BY DEF SigningRoutes, With, CrudWithin
  <2>2. \A m \in DOMAIN SigningRoutes : SigningRoutes[m].resource = "signings"
    BY DEF SigningRoutes, With, CrudWithin, Asked, Within, Route
  <2> QED BY <2>1, <2>2, ShowsOne DEF Asked, Route
<1> QED BY <1>1, <1>2, <1>3, <1>4, <1>5

\* The controllers whose routes are listed in two parts.
LEMMA PartsShow ==
  /\ Shows(With(BillingRoutes, BillingChangeRoutes))
  /\ Shows(With(EnterpriseRoutes, EnterpriseCreationRoutes))
  /\ Shows(With(SpentRoutes, SpentUploadRoutes))
  /\ Shows(With(UserRoutes, UserByIdRoutes))
<1>1. Shows(With(BillingRoutes, BillingChangeRoutes))
  <2> DEFINE c == With(BillingRoutes, BillingChangeRoutes)
  <2>1. "getActiveSubscriptions" \in DOMAIN c /\ c["getActiveSubscriptions"] = Linked
    BY DEF With, BillingRoutes
  <2>2. \A m \in DOMAIN c : c[m].action \in Mutations => c[m].resource = "billing"
    BY DEF With, BillingRoutes, BillingChangeRoutes, Sent, Open, Linked, Route, Mutations
  <2> HIDE DEF c
  <2>3. Linked.action = "read" /\ Linked.where # "open" /\ Linked.resource = "none"
    BY DEF Linked, Route
  <2>4. Shows(c)
    BY <2>1, <2>2, <2>3, ShowsOne
  <2> QED BY <2>4 DEF c
<1>2. Shows(With(EnterpriseRoutes, EnterpriseCreationRoutes))
  <2> DEFINE c == With(EnterpriseRoutes, EnterpriseCreationRoutes)
  <2>1. "findAll" \in DOMAIN c /\ c["findAll"] = Several("enterprises")
    BY DEF With, EnterpriseRoutes
  <2>2. \A m \in DOMAIN c : c[m].resource = "enterprises"
    BY DEF With, EnterpriseRoutes, EnterpriseCreationRoutes, Asked, Record, Several, Admin, Route
  <2> HIDE DEF c
  <2>3. Shows(c)
    BY <2>1, <2>2, ShowsOne DEF Several, Route
  <2> QED BY <2>3 DEF c
<1>3. Shows(With(SpentRoutes, SpentUploadRoutes))
  <2> DEFINE c == With(SpentRoutes, SpentUploadRoutes)
  <2>1. "findAll" \in DOMAIN c /\ c["findAll"] = Asked("spents", "read")
    BY DEF With, SpentRoutes
  <2>2. \A m \in DOMAIN c : c[m].resource = "spents"
    BY DEF With, SpentRoutes, SpentUploadRoutes, Asked, Record, Route
  <2> HIDE DEF c
  <2>3. Shows(c)
    BY <2>1, <2>2, ShowsOne DEF Asked, Route
  <2> QED BY <2>3 DEF c
<1>4. Shows(With(UserRoutes, UserByIdRoutes))
  <2> DEFINE c == With(UserRoutes, UserByIdRoutes)
  <2>1. "findAll" \in DOMAIN c /\ c["findAll"] = Asked("users", "read")
    BY DEF With, UserRoutes
  <2>2. \A m \in DOMAIN c : c[m].action \in Mutations => c[m].resource = "users"
    BY DEF With, UserRoutes, UserByIdRoutes, Asked, Sent, Person, Open, Route, Mutations
  <2> HIDE DEF c
  <2>3. Shows(c)
    BY <2>1, <2>2, ShowsOne DEF Asked, Route
  <2> QED BY <2>3 DEF c
<1> QED BY <1>1, <1>2, <1>3, <1>4

\* Metrics, and the way from a card to its user, only read.
LEMMA ReadersShow ==
  /\ Shows(MetricCountRoutes) /\ Shows(MetricListRoutes)
  /\ Shows(MetricPeriodRoutes) /\ Shows(MetricYearRoutes)
  /\ Shows(UserEnterpriseRoutes)
BY DEF Shows, RoutesOf, MetricCountRoutes, MetricListRoutes, MetricPeriodRoutes,
       MetricYearRoutes, UserEnterpriseRoutes, Asked, Route, Mutations

LEMMA ControllersShow == \A c \in Controllers : Shows(c)
<1> SUFFICES ASSUME NEW c \in Controllers PROVE Shows(c)
  OBVIOUS
<1>1. CASE \E res : c \in {Crud(res), CrudWithin(res), Shown(res), Document(res)}
  BY <1>1, TablesShow
<1>2. CASE ~ \E res : c \in {Crud(res), CrudWithin(res), Shown(res), Document(res)}
  BY <1>2, OthersShow, PartsShow, ReadersShow
     DEF Controllers, ClientRoutes, DefaultScheduleRoutes, HolidayRoutes,
         InvoiceConceptSerialRoutes, InvoiceConceptRoutes, InvoiceSeriesRoutes, InvoiceRoutes,
         ItemCategoryRoutes, ItemSerialRoutes, ItemRoutes, OrderConceptRoutes, OrderRoutes,
         QuoteConceptRoutes, QuoteRoutes, RecurrentEarningRoutes, SpentCategoryRoutes,
         SpentConceptSerialRoutes, SpentConceptRoutes, StockMovementRoutes, SupplierRoutes,
         VacationRoutes, WorkScheduleRoutes
<1> QED BY <1>1, <1>2

-----------------------------------------------------------------------------
(* Calls.                                                                   *)

Contexts == UNION {[links -> PermissionMaps] : links \in SUBSET Enterprises}

Calls == [at : {"admitted", "judged"}, route : AllRoutes, judged : Enterprises \cup {None},
          enterprise : Enterprises \cup {None}, target : Users \cup {None}, may : Contexts]

AccessTypeOK ==
  /\ role \in [Users -> [Enterprises -> RoleNames \cup {None}]]
  /\ grants \in [Enterprises -> [RoleNames -> PermissionMaps]]
  /\ call \in [Users -> Calls \cup {None}]

\* A role stores what it was seeded with, or what a client sent, normalised.
GrantsConsist == \A e \in Enterprises, r \in RoleNames : Consistent(grants[e][r])

\* What stays true of a call: it is about what its route is about, and what the
\* guards found of the enterprise they judged, and the service of the one it acts
\* on, by the context it carries.
KnowsCall(u, c) ==
  /\ JudgedFor(c.route, c.judged, c.enterprise) /\ c.target \in Targets(c.route)
  /\ GuardsPass(u, c.may, c.route, c.judged)
  /\ c.at = "judged" /\ c.route.where = "record" => CanPerform(u, c.may, c.enterprise, c.route)
  /\ c.at = "judged" /\ c.route.where = "sent" => CanAccess(u, c.may, c.enterprise)

AccessInv ==
  /\ AccessTypeOK
  /\ GrantsConsist
  /\ \A u \in Users : Calling(u) => KnowsCall(u, call[u])

LEMMA TargetsAreUsers ==
  ASSUME NEW route
  PROVE  Targets(route) \subseteq Users \cup {None}
BY DEF Targets

LEMMA ChangingRoutes ==
  /\ Sent("users", "write").where = "sent"
  /\ Person("write").where = "person" /\ Person("write") # Person("delete")
  /\ Person("delete").where = "person"
  /\ Record("enterpriseRoles", "write").where = "record"
BY DEF Sent, Person, Record, Route

\* Whoever changes links or roles may do what his route asks: in the enterprise
\* of the role, in that of the query, or in the one that the guards judged.
LEMMA ChangersMay ==
  ASSUME AccessInv, NEW u \in Users, CallIs(u, "judged")
  PROVE  LET c == call[u] IN
         /\ c.route = Record("enterpriseRoles", "write") => HadRight(u, c.enterprise, c.route)
         /\ c.route = Person("write") => HadRight(u, c.enterprise, c.route)
         /\ c.route = Sent("users", "write") => LetsIn(u, c.enterprise)
         /\ c.route = Person("delete") => TakesOut(u)
<1> DEFINE c == call[u]
<1>1. KnowsCall(u, c) /\ c \in Calls /\ c.at = "judged"
  BY DEF AccessInv, AccessTypeOK, CallIs, Calling
<1>2. CASE c.route = Record("enterpriseRoles", "write")
  <2>1. CanPerform(u, c.may, c.enterprise, c.route)
    BY <1>1, <1>2, ChangingRoutes DEF KnowsCall
  <2> QED BY <1>2, <2>1, ChangingRoutes DEF HadRight, Effective, CanPerform
<1>3. ASSUME c.route \in {Sent("users", "write"), Person("write"), Person("delete")}
      PROVE  CanPerform(u, c.may, c.judged, c.route) /\ c.judged \in Enterprises
  <2>1. c.judged # None /\ c.judged \in Enterprises
    BY <1>1, <1>3, ChangingRoutes DEF KnowsCall, JudgedFor, Calls
  <2> QED BY <1>1, <1>3, <2>1, ChangingRoutes DEF KnowsCall, GuardsPass
<1>4. CASE c.route = Person("write")
  <2>1. c.judged = c.enterprise
    BY <1>1, <1>4, ChangingRoutes DEF KnowsCall, JudgedFor
  <2> QED BY <1>3, <1>4, <2>1, ChangingRoutes DEF HadRight, Effective, CanPerform
<1>5. CASE c.route = Sent("users", "write")
  <2>1. CanAccess(u, c.may, c.enterprise)
    BY <1>1, <1>5, ChangingRoutes DEF KnowsCall
  <2> QED BY <1>3, <1>5, <2>1, ChangingRoutes DEF HadRight, Effective, LetsIn, CanPerform, CanAccess
<1>6. CASE c.route = Person("delete")
  BY <1>3, <1>6, ChangingRoutes DEF HadRight, Effective, TakesOut, CanPerform
<1> QED BY <1>2, <1>4, <1>5, <1>6

LEMMA AccessInitSatisfies == AccessInit => AccessInv
<1> SUFFICES ASSUME AccessInit PROVE AccessInv
  OBVIOUS
<1>1. AccessTypeOK
  BY AccessAssumption, SeedsAreConsistent DEF AccessInit, AccessTypeOK
<1>2. GrantsConsist
  BY SeedsAreConsistent DEF AccessInit, GrantsConsist
<1>3. \A u \in Users : ~Calling(u)
  BY DEF AccessInit, Calling
<1> QED BY <1>1, <1>2, <1>3 DEF AccessInv

\* One user's call goes on, and what it knows is so.
LEMMA OneCallMoves ==
  ASSUME AccessInv, NEW u \in Users, NEW c \in Calls \cup {None}, c # None => KnowsCall(u, c),
         call' = [call EXCEPT ![u] = c]
  PROVE  /\ call' \in [Users -> Calls \cup {None}]
         /\ \A v \in Users : Calling(v)' => KnowsCall(v, call'[v])
BY DEF AccessInv, AccessTypeOK, Calling

LEMMA ContextIsTyped ==
  ASSUME AccessInv, NEW u \in Users
  PROVE  Context(u) \in Contexts
<1>1. Links(u) \in SUBSET Enterprises
  BY DEF Links
<1>2. Context(u) \in [Links(u) -> PermissionMaps]
  BY DEF AccessInv, AccessTypeOK, Context, Links
<1> QED BY <1>1, <1>2 DEF Contexts

LEMMA AuthenticateKeeps ==
  ASSUME AccessInv, NEW u \in Users, Authenticate(u)
  PROVE  AccessInv'
<1>a. PICK route \in Surface[u], names \in Addressed : \E target \in Targets(route) :
        /\ JudgedFor(route, names.judged, names.enterprise)
        /\ GuardsPass(u, Context(u), route, names.judged)
        /\ call' = [call EXCEPT ![u] = Admitted(u, route, names, target)]
  BY DEF Authenticate
<1>0. PICK target \in Targets(route) :
        /\ JudgedFor(route, names.judged, names.enterprise)
        /\ GuardsPass(u, Context(u), route, names.judged)
        /\ call' = [call EXCEPT ![u] = Admitted(u, route, names, target)]
  BY <1>a
<1> DEFINE c == Admitted(u, route, names, target)
<1>1. /\ route \in AllRoutes
      /\ names \in [judged : Enterprises \cup {None}, enterprise : Enterprises \cup {None}]
  BY AccessAssumption
<1>2. c \in Calls
  BY <1>1, ContextIsTyped, TargetsAreUsers DEF Admitted, Calls
<1>3. KnowsCall(u, c)
  BY <1>0 DEF KnowsCall, Admitted
<1>4. /\ call' \in [Users -> Calls \cup {None}]
      /\ \A v \in Users : Calling(v)' => KnowsCall(v, call'[v])
  BY <1>0, <1>2, <1>3, OneCallMoves
<1> QED BY <1>4 DEF Authenticate, AccessInv, AccessTypeOK, GrantsConsist

\* Whatever ends a call.
LEMMA ReturnsKeeps ==
  ASSUME AccessInv, NEW u \in Users, Returns(u)
  PROVE  /\ call' \in [Users -> Calls \cup {None}]
         /\ \A v \in Users : Calling(v)' => KnowsCall(v, call'[v])
BY OneCallMoves DEF Returns

LEMMA JudgeKeeps ==
  ASSUME AccessInv, NEW u \in Users, Judge(u)
  PROVE  AccessInv'
<1> DEFINE c == call[u]
           d == [c EXCEPT !.at = "judged"]
<1>1. c \in Calls /\ KnowsCall(u, c)
  BY DEF Judge, CallIs, Calling, AccessInv, AccessTypeOK
<1>2. d \in Calls /\ d.route = c.route /\ d.judged = c.judged /\ d.enterprise = c.enterprise
      /\ d.target = c.target /\ d.may = c.may
  BY <1>1 DEF Calls
<1>3. /\ call' \in [Users -> Calls \cup {None}]
      /\ \A v \in Users : Calling(v)' => KnowsCall(v, call'[v])
  <2>1. CASE Returns(u)
    BY <2>1, ReturnsKeeps
  <2>2. CASE ServicePasses(u, c.may, c.route, c.enterprise, c.target)
             /\ call' = [call EXCEPT ![u].at = "judged"]
    <3>1. KnowsCall(u, d)
      BY <1>1, <1>2, <2>2 DEF KnowsCall, ServicePasses
    <3>2. call' = [call EXCEPT ![u] = d]
      BY <2>2
    <3> QED BY <1>2, <3>1, <3>2, OneCallMoves
  <2> QED BY <2>1, <2>2 DEF Judge
<1> QED BY <1>3 DEF Judge, AccessInv, AccessTypeOK, GrantsConsist

LEMMA LinksKeep ==
  ASSUME AccessInv, NEW u \in Users, LinkUser(u) \/ ChangeRole(u) \/ UnlinkUser(u)
  PROVE  AccessInv'
<1>1. Returns(u) /\ UNCHANGED grants
  BY DEF LinkUser, ChangeRole, UnlinkUser, Does
<1>2. \E r \in RoleNames \cup {None} :
        role' \in {role, [role EXCEPT ![call[u].target][call[u].enterprise] = r]}
  BY DEF LinkUser, ChangeRole, UnlinkUser
<1>3. role' \in [Users -> [Enterprises -> RoleNames \cup {None}]]
  <2> DEFINE t == call[u].target
             LinkRows == [Enterprises -> RoleNames \cup {None}]
  <2>1. PICK r \in RoleNames \cup {None} :
          role' \in {role, [role EXCEPT ![t][call[u].enterprise] = r]}
    BY <1>2
  <2>2. role \in [Users -> LinkRows]
    BY DEF AccessInv, AccessTypeOK
  <2>3. \A v \in Users : [role[v] EXCEPT ![call[u].enterprise] = r] \in LinkRows
    BY <2>2
  <2> HIDE DEF LinkRows
  <2>4. role' \in [Users -> LinkRows]
    BY <2>1, <2>2, <2>3
  <2> QED BY <2>4 DEF LinkRows
<1> QED BY <1>1, <1>3, ReturnsKeeps DEF AccessInv, AccessTypeOK, GrantsConsist

LEMMA ChangeGrantsKeeps ==
  ASSUME AccessInv, NEW u \in Users, ChangeGrants(u)
  PROVE  AccessInv'
<1>1. Returns(u) /\ UNCHANGED role
  BY DEF ChangeGrants, Does
<1>2. PICK r \in RoleNames, p \in Payloads :
        grants' = [grants EXCEPT ![call[u].enterprise][r] = Revoked(p)]
  BY DEF ChangeGrants
<1>3. Revoked(p) \in PermissionMaps /\ Consistent(Revoked(p))
  BY RevokedIsConsistent, AccessAssumption
<1>4. grants' \in [Enterprises -> [RoleNames -> PermissionMaps]] /\ GrantsConsist'
  BY <1>2, <1>3 DEF AccessInv, AccessTypeOK, GrantsConsist
<1> QED BY <1>1, <1>4, ReturnsKeeps DEF AccessInv, AccessTypeOK

LEMMA ServeKeeps ==
  ASSUME AccessInv, NEW u \in Users, Serve(u)
  PROVE  AccessInv'
BY ReturnsKeeps DEF Serve, Does, AccessInv, AccessTypeOK, GrantsConsist

LEMMA AccessInvIsInductive == AccessInv /\ [AccessNext]_accessVars => AccessInv'
<1> SUFFICES ASSUME AccessInv, [AccessNext]_accessVars PROVE AccessInv'
  OBVIOUS
<1>1. ASSUME NEW u \in Users, Authenticate(u) PROVE AccessInv'
  BY <1>1, AuthenticateKeeps
<1>2. ASSUME NEW u \in Users, Answer(u) PROVE AccessInv'
  BY <1>2, JudgeKeeps, LinksKeep, ChangeGrantsKeeps, ServeKeeps DEF Answer
<1>3. ASSUME UNCHANGED accessVars PROVE AccessInv'
  BY <1>3 DEF accessVars, AccessInv, AccessTypeOK, GrantsConsist, Calling
<1> QED BY <1>1, <1>2, <1>3 DEF AccessNext

LEMMA AccessInvHolds == AccessSpec => []AccessInv
BY AccessInitSatisfies, AccessInvIsInductive, PTL DEF AccessSpec

\* Links hold roles of the enterprise, and a call carries permissions of the
\* enterprises of its user and of no others.
THEOREM AccessTypeCorrect == AccessSpec => []AccessTypeOK
<1>1. AccessInv => AccessTypeOK
  BY DEF AccessInv
<1> QED BY <1>1, AccessInvHolds, PTL

\* Whatever a call changes is of the enterprise it acts on.
LEMMA ActsOnItsEnterprise ==
  ASSUME AccessInv, NEW u \in Users,
         LinkUser(u) \/ ChangeRole(u) \/ UnlinkUser(u) \/ ChangeGrants(u),
         NEW e \in Enterprises, e # call[u].enterprise
  PROVE  grants'[e] = grants[e] /\ \A t \in Users : role'[t][e] = role[t][e]
<1> DEFINE at == call[u].enterprise
<1>1. /\ role \in [Users -> [Enterprises -> RoleNames \cup {None}]]
      /\ grants \in [Enterprises -> [RoleNames -> PermissionMaps]]
  BY DEF AccessInv, AccessTypeOK
<1>2. CASE ChangeGrants(u)
  <2>1. role' = role /\ \E r, p : grants' = [grants EXCEPT ![at][r] = p]
    BY <1>2 DEF ChangeGrants
  <2> QED BY <1>1, <2>1
<1>3. CASE LinkUser(u) \/ ChangeRole(u) \/ UnlinkUser(u)
  <2>1. grants' = grants
    BY <1>3 DEF LinkUser, ChangeRole, UnlinkUser
  <2>2. \E r, t : role' \in {role, [role EXCEPT ![t][at] = r]}
    BY <1>3 DEF LinkUser, ChangeRole, UnlinkUser
  <2> QED BY <1>1, <2>1, <2>2
<1> QED BY <1>2, <1>3

\* How each call that changes links changes one.
LEMMA HowLinksChange ==
  ASSUME AccessInv, NEW u \in Users, NEW t \in Users, NEW e \in Enterprises
  PROVE  /\ LinkUser(u) => ~Leaves(t, e) /\ ~Reassigned(t, e)
         /\ ChangeRole(u) => ~Leaves(t, e) /\ ~Joins(t, e)
         /\ UnlinkUser(u) => ~Joins(t, e) /\ ~Reassigned(t, e)
         /\ ChangeGrants(u) => role' = role
<1>1. role \in [Users -> [Enterprises -> RoleNames \cup {None}]] /\ None \notin RoleNames
  BY AccessAssumption DEF AccessInv, AccessTypeOK
<1> DEFINE at == call[u].enterprise
           of == call[u].target
<1>2. ASSUME LinkUser(u) PROVE ~Leaves(t, e) /\ ~Reassigned(t, e)
  <2>1. PICK r \in RoleNames :
          role' = IF role[of][at] = None THEN [role EXCEPT ![of][at] = r] ELSE role
    BY <1>2 DEF LinkUser
  <2>2. role'[t][e] = role[t][e] \/ (role[t][e] = None /\ role'[t][e] = r)
    BY <1>1, <2>1
  <2> QED BY <1>1, <2>2 DEF Leaves, Reassigned
<1>3. ASSUME ChangeRole(u) PROVE ~Leaves(t, e) /\ ~Joins(t, e)
  <2>1. PICK r \in RoleNames :
          role' = IF role[of][at] # None THEN [role EXCEPT ![of][at] = r] ELSE role
    BY <1>3 DEF ChangeRole
  <2>2. role'[t][e] = role[t][e] \/ (role[t][e] # None /\ role'[t][e] = r)
    BY <1>1, <2>1
  <2> QED BY <1>1, <2>2 DEF Leaves, Joins
<1>4. ASSUME UnlinkUser(u) PROVE ~Joins(t, e) /\ ~Reassigned(t, e)
  <2>1. role' = [role EXCEPT ![of][at] = None]
    BY <1>4 DEF UnlinkUser
  <2>2. role'[t][e] \in {role[t][e], None}
    BY <1>1, <2>1
  <2> QED BY <2>2 DEF Joins, Reassigned
<1> QED BY <1>2, <1>3, <1>4 DEF ChangeGrants

LEMMA OwnPeopleStep ==
  ASSUME AccessInv, [AccessNext]_accessVars, NEW e \in Enterprises
  PROVE  ChangedByItsOwn(e)
<1>1. CASE grants' = grants /\ role' = role
  BY <1>1 DEF ChangedByItsOwn, Joins, Leaves, Reassigned
<1>2. CASE ~(grants' = grants /\ role' = role)
  <2>1. PICK u \in Users :
          LinkUser(u) \/ ChangeRole(u) \/ UnlinkUser(u) \/ ChangeGrants(u)
    BY <1>2 DEF AccessNext, accessVars, Authenticate, Answer, Judge, Serve
  <2>2. CallIs(u, "judged")
    BY <2>1 DEF LinkUser, ChangeRole, UnlinkUser, ChangeGrants, Does
  <2>3. CASE e # call[u].enterprise
    BY <2>1, <2>3, ActsOnItsEnterprise DEF ChangedByItsOwn, Joins, Leaves, Reassigned
  <2>4. CASE e = call[u].enterprise
    <3>1. CASE LinkUser(u)
      <4>1. grants' = grants /\ LetsIn(u, e)
        BY <2>2, <2>4, <3>1, ChangersMay DEF LinkUser, Does
      <4> QED BY <3>1, <4>1, HowLinksChange DEF ChangedByItsOwn
    <3>2. CASE ChangeRole(u)
      <4>1. grants' = grants /\ HadRight(u, e, Person("write"))
        BY <2>2, <2>4, <3>2, ChangersMay DEF ChangeRole, Does
      <4> QED BY <3>2, <4>1, HowLinksChange DEF ChangedByItsOwn
    <3>3. CASE UnlinkUser(u)
      <4>1. grants' = grants /\ TakesOut(u)
        BY <2>2, <3>3, ChangersMay DEF UnlinkUser, Does
      <4> QED BY <3>3, <4>1, HowLinksChange DEF ChangedByItsOwn
    <3>4. CASE ChangeGrants(u)
      <4>1. role' = role /\ HadRight(u, e, Record("enterpriseRoles", "write"))
        BY <2>2, <2>4, <3>4, ChangersMay DEF ChangeGrants, Does
      <4> QED BY <4>1 DEF ChangedByItsOwn, Joins, Leaves, Reassigned
    <3> QED BY <2>1, <3>1, <3>2, <3>3, <3>4
  <2> QED BY <2>3, <2>4
<1> QED BY <1>1, <1>2

\* What a role lets its holder change through a controller it lets him look at
\* there, for every catalogue and whatever the clients send: each controller
\* shows the resource it changes, and each stored role is consistent.
THEOREM ChangersAlwaysLook == AccessSpec => []ChangersMayLook
<1>1. AccessInv => ChangersMayLook
  <2> SUFFICES ASSUME AccessInv, NEW c \in Controllers, NEW e \in Enterprises, NEW r \in RoleNames,
                      NEW route \in RoutesOf(c), route.resource \in Resources,
                      route.action \in Mutations, Has(grants[e][r], route.resource, route.action)
               PROVE  \E x \in RoutesOf(c) :
                        /\ x.action = "read" /\ x.where # "open"
                        /\ \/ x.resource = "none"
                           \/ x.resource = route.resource /\ Has(grants[e][r], x.resource, "read")
    BY DEF ChangersMayLook
  <2>1. Has(grants[e][r], route.resource, "read")
    BY DEF AccessInv, GrantsConsist, Consistent
  <2> QED BY <2>1, ControllersShow DEF Shows
<1> QED BY <1>1, AccessInvHolds, PTL

\* For any number of users, enterprises and calls at once, only its own people
\* change what the roles of an enterprise grant, who holds them, and who comes in:
\* what the guards saw of the query's enterprise, and the service of the record's
\* or of the body's, is kept by the call until it takes effect.
THEOREM OwnPeopleAlwaysChange == AccessSpec => OwnPeopleChangeAnEnterprise
<1>1. AccessInv /\ [AccessNext]_accessVars =>
        [\A e \in Enterprises : ChangedByItsOwn(e)]_accessVars
  BY OwnPeopleStep
<1> QED BY <1>1, AccessInvHolds, PTL DEF AccessSpec, OwnPeopleChangeAnEnterprise
=============================================================================
