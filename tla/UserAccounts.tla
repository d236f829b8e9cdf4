----------------------------- MODULE UserAccounts -----------------------------
(***************************************************************************)
(* The users: their rows, their links with the enterprises and their       *)
(* logins in Firebase, as UserService changes them, await by await.  The   *)
(* tables and Firebase are two stores that nothing keeps together but the  *)
(* order of the calls and the rollback of create.                          *)
(*                                                                         *)
(* What may go wrong on the way is remembered in mishaps, so that each     *)
(* property says under which of them it holds.                             *)
(***************************************************************************)
EXTENDS Integers, FiniteSets

CONSTANTS
  UserIds, Emails, Enterprises, Workers,
  MaxCard,   \* bound on card_id
  None

ASSUME AccountsAssumption ==
  /\ MaxCard \in Nat
  /\ None \notin UserIds \cup Emails \cup Enterprises

VARIABLES
  users,     \* ids of the rows of users
  email,     \* users.email, None where there is no row
  card,      \* user_enterprise.card_id per user and enterprise, 0: no link
  logins,    \* e-mails with an account in Firebase
  mishaps,   \* history: what has gone wrong
  job        \* what each worker is doing

vars == <<users, email, card, logins, mishaps, job>>

-----------------------------------------------------------------------------
Stages == {"find", "linked", "card", "verify", "insert", "link", "register",
           "target", "count", "remove", "doomed", "lookup", "unregister",
           "delete_links", "delete_row", "password", "save"}

\* crash: a request died.  silence: Firebase did not answer, or did what it was
\* asked and the answer was lost.  rename: a PATCH changed an e-mail.
\* registrations, overlap: two requests were in flight, both of them
\* registrations or not.
Mishaps == {"crash", "silence", "rename", "registrations", "overlap"}

\* new: create made the row itself, and rolls it back.
Jobs == [at : Stages, user : UserIds \cup {None}, email : Emails \cup {None},
         enterprise : Enterprises \cup {None}, card : 0..MaxCard, new : BOOLEAN]

ASSUME NoneIsNoJob == None \notin Jobs

Busy(w) == job[w] # None
At(w, stage) == Busy(w) /\ job[w].at = stage
Ends(w) == job' = [job EXCEPT ![w] = None]
Goes(w, at) == job' = [job EXCEPT ![w].at = at]
Quiet == \A w \in Workers : ~Busy(w)

Links(u) == {e \in Enterprises : card[u][e] # 0}
Rows(m) == {u \in users : email[u] = m}
Reads == UNCHANGED <<users, email, card, logins, mishaps>>

Body(at, u, m, e) ==
  [at |-> at, user |-> u, email |-> m, enterprise |-> e, card |-> 0, new |-> FALSE]

\* POST users, DELETE users/:id/enterprise/:enterpriseId, and PATCH users/:id
\* with an e-mail, with or without a password.
Requests ==
  {Body("find", None, m, e) : m \in Emails, e \in Enterprises}
  \cup {Body("target", u, None, e) : u \in users, e \in Enterprises}
  \cup {Body(at, u, m, None) : at \in {"password", "save"}, u \in users, m \in Emails}

Registering(j) == j.new \/ j.at \in {"find", "linked", "card", "verify", "insert", "link"}

Overlap(body) ==
  IF Quiet THEN {}
  ELSE IF Registering(body) /\ \A v \in Workers : Busy(v) => Registering(job[v])
  THEN {"registrations"} ELSE {"overlap"}

Start(w) ==
  /\ ~Busy(w)
  /\ \E body \in Requests :
       /\ job' = [job EXCEPT ![w] = body]
       /\ mishaps' = mishaps \cup Overlap(body)
  /\ UNCHANGED <<users, email, card, logins>>

-----------------------------------------------------------------------------
(* create.                                                                  *)

\* findByEmail takes any row that has the e-mail.
FindByEmail(w) ==
  /\ At(w, "find")
  /\ \/ Rows(job[w].email) = {} /\ Goes(w, "verify")
     \/ \E u \in Rows(job[w].email) : job' = [job EXCEPT ![w].at = "linked", ![w].user = u]
  /\ Reads

\* A link that is there already is left alone: the request is idempotent.
FindLink(w) ==
  /\ At(w, "linked")
  /\ IF job[w].enterprise \in Links(job[w].user) THEN Ends(w) ELSE Goes(w, "card")
  /\ Reads

\* getNextCardIdForEnterprise: one more than the highest card of the enterprise.
NextCard(e, c) ==
  /\ \A u \in UserIds : card[u][e] < c
  /\ c = 1 \/ \E u \in UserIds : card[u][e] = c - 1

ReadNextCard(w) ==
  /\ At(w, "card")
  /\ \E c \in 1..MaxCard :
       /\ NextCard(job[w].enterprise, c)
       /\ job' = [job EXCEPT ![w].at = "link", ![w].card = c]
  /\ Reads

\* verifyUserExistsByEmail takes any failure for the absence of the account.
VerifyNoLogin(w) ==
  /\ At(w, "verify")
  /\ \/ /\ IF job[w].email \in logins THEN Ends(w) ELSE Goes(w, "insert")
        /\ Reads
     \/ /\ Goes(w, "insert")
        /\ mishaps' = mishaps \cup {"silence"}
        /\ UNCHANGED <<users, email, card, logins>>

\* An id that no row has and no request knows.
FreshIds == UserIds \ (users \cup {job[w].user : w \in {v \in Workers : Busy(v)}})

\* users.email is not unique: the row is inserted whoever has the e-mail.
InsertUser(w) ==
  /\ At(w, "insert")
  /\ \E u \in FreshIds :
       /\ users' = users \cup {u}
       /\ email' = [email EXCEPT ![u] = job[w].email]
       /\ job' = [job EXCEPT ![w].at = "card", ![w].user = u, ![w].new = TRUE]
  /\ UNCHANGED <<card, logins, mishaps>>

-----------------------------------------------------------------------------
\* Mutations: the account of a new user is forgotten; a user with one more link
\* is deleted; the account of a deleted user is forgotten.
ForgetsAccount(w) == Ends(w)
LastTwo(n) == n \in {1, 2}
ForgetsLogin(there) == "delete_links"

\* The unique key (enterprise_id, card_id).
CardFree(e, c) == \A u \in UserIds : card[u][e] # c

\* What create does of a new user after its link, and after a failure; one that
\* existed has its request ended.
Registers(w) == IF job[w].new THEN Goes(w, "register") ELSE Ends(w)
RollsBack(w) == IF job[w].new THEN Goes(w, "delete_links") ELSE Ends(w)

\* addUserToEnterprise; the other unique key is (enterprise_id, user_id), and
\* the row of the user must still be there.
InsertLink(w) ==
  LET u == job[w].user
      e == job[w].enterprise
      fits == u \in users /\ e \notin Links(u) /\ CardFree(e, job[w].card)
  IN
  /\ At(w, "link")
  /\ IF fits THEN Registers(w) ELSE RollsBack(w)
  /\ card' = IF fits THEN [card EXCEPT ![u][e] = job[w].card] ELSE card
  /\ UNCHANGED <<users, email, logins, mishaps>>

\* FirebaseService.createUser: done, refused because the account exists, or
\* failed without an answer, before or after the account was made.
Register(w) ==
  /\ At(w, "register")
  /\ \/ /\ job[w].email \notin logins
        /\ logins' = logins \cup {job[w].email}
        /\ Ends(w)
        /\ UNCHANGED mishaps
     \/ /\ job[w].email \in logins
        /\ RollsBack(w)
        /\ UNCHANGED <<logins, mishaps>>
     \/ /\ logins' \in {logins, logins \cup {job[w].email}}
        /\ RollsBack(w)
        /\ mishaps' = mishaps \cup {"silence"}
  /\ UNCHANGED <<users, email, card>>

-----------------------------------------------------------------------------
(* unlinkUserFromEnterprise and deleteUserCompletely.                       *)

\* The user and the link are looked for; both reads only refuse.
FindTarget(w) ==
  /\ At(w, "target")
  /\ IF job[w].user \in users /\ job[w].enterprise \in Links(job[w].user)
     THEN Goes(w, "count") ELSE Ends(w)
  /\ Reads

LastLink(n) == n = 1

CountLinks(w) ==
  /\ At(w, "count")
  /\ Goes(w, IF LastLink(Cardinality(Links(job[w].user))) THEN "doomed" ELSE "remove")
  /\ Reads

RemoveLink(w) ==
  /\ At(w, "remove")
  /\ Ends(w)
  /\ card' = [card EXCEPT ![job[w].user][job[w].enterprise] = 0]
  /\ UNCHANGED <<users, email, logins, mishaps>>

ReadDoomed(w) ==
  /\ At(w, "doomed")
  /\ IF job[w].user \in users
     THEN job' = [job EXCEPT ![w].at = "lookup", ![w].email = email[job[w].user]]
     ELSE Ends(w)
  /\ Reads

AfterLookup(there) == IF there THEN "unregister" ELSE "delete_links"

LookLoginUp(w) ==
  /\ At(w, "lookup")
  /\ \/ /\ Goes(w, AfterLookup(job[w].email \in logins))
        /\ Reads
     \/ /\ Goes(w, "delete_links")
        /\ mishaps' = mishaps \cup {"silence"}
        /\ UNCHANGED <<users, email, card, logins>>

\* FirebaseService.deleteUser throws when there is no account.
Unregister(w) ==
  /\ At(w, "unregister")
  /\ \/ /\ IF job[w].email \in logins THEN Goes(w, "delete_links") ELSE Ends(w)
        /\ logins' = logins \ {job[w].email}
        /\ UNCHANGED mishaps
     \/ /\ logins' \in {logins, logins \ {job[w].email}}
        /\ Ends(w)
        /\ mishaps' = mishaps \cup {"silence"}
  /\ UNCHANGED <<users, email, card>>

\* UserRepository.deleteById, of a deletion or of the rollback of create: the
\* links, then the row, which a link inserted in between keeps.
DeleteLinks(w) ==
  /\ At(w, "delete_links")
  /\ Goes(w, "delete_row")
  /\ card' = [card EXCEPT ![job[w].user] = [e \in Enterprises |-> 0]]
  /\ UNCHANGED <<users, email, logins, mishaps>>

DeleteRow(w) ==
  LET u == job[w].user IN
  /\ At(w, "delete_row")
  /\ Ends(w)
  /\ IF Links(u) = {}
     THEN users' = users \ {u} /\ email' = [email EXCEPT ![u] = None]
     ELSE UNCHANGED <<users, email>>
  /\ UNCHANGED <<card, logins, mishaps>>

-----------------------------------------------------------------------------
(* updateById.                                                              *)

\* The password goes to the account of the e-mail in the row, the PATCH fails
\* when there is none.
UpdatePassword(w) ==
  /\ At(w, "password")
  /\ IF job[w].user \in users /\ email[job[w].user] \in logins THEN Goes(w, "save") ELSE Ends(w)
  /\ Reads

\* Only the row gets the new e-mail: Firebase keeps the old one.
SaveUser(w) ==
  LET u == job[w].user IN
  /\ At(w, "save")
  /\ Ends(w)
  /\ IF u \in users /\ email[u] # job[w].email
     THEN email' = [email EXCEPT ![u] = job[w].email] /\ mishaps' = mishaps \cup {"rename"}
     ELSE UNCHANGED <<email, mishaps>>
  /\ UNCHANGED <<users, card, logins>>

\* The process dies, or the database does not answer.
Crash(w) ==
  /\ Busy(w)
  /\ Ends(w)
  /\ mishaps' = mishaps \cup {"crash"}
  /\ UNCHANGED <<users, email, card, logins>>

-----------------------------------------------------------------------------
Init ==
  /\ users = {} /\ logins = {} /\ mishaps = {}
  /\ email = [u \in UserIds |-> None]
  /\ card = [u \in UserIds |-> [e \in Enterprises |-> 0]]
  /\ job = [w \in Workers |-> None]

Next ==
  \E w \in Workers :
    \/ Start(w)
    \/ FindByEmail(w)
    \/ FindLink(w)
    \/ ReadNextCard(w)
    \/ VerifyNoLogin(w)
    \/ InsertUser(w)
    \/ InsertLink(w)
    \/ Register(w)
    \/ FindTarget(w)
    \/ CountLinks(w)
    \/ RemoveLink(w)
    \/ ReadDoomed(w)
    \/ LookLoginUp(w)
    \/ Unregister(w)
    \/ DeleteLinks(w)
    \/ DeleteRow(w)
    \/ UpdatePassword(w)
    \/ SaveUser(w)
    \/ Crash(w)

Spec == Init /\ [][Next]_vars

-----------------------------------------------------------------------------
(* Properties.                                                              *)

\* The last conjunct is the tables' own: links of rows, one card per link.
AccountsTypeOK ==
  /\ users \subseteq UserIds /\ logins \subseteq Emails /\ mishaps \subseteq Mishaps
  /\ email \in [UserIds -> Emails \cup {None}]
  /\ card \in [UserIds -> [Enterprises -> 0..MaxCard]]
  /\ job \in [Workers -> Jobs \cup {None}]
  /\ \A u \in UserIds : (u \in users <=> email[u] # None) /\ (Links(u) # {} => u \in users)
  /\ \A u, v \in UserIds, e \in Enterprises :
       u # v /\ card[u][e] = card[v][e] => card[u][e] = 0

\* Whoever can log in has a row, wherever requests die and however
\* registrations overlap: create makes the row before the account and rolls back
\* only the row whose account it did not make; deleteUserCompletely removes the
\* account first.
LoginsHaveUsers ==
  mishaps \subseteq {"crash", "registrations"} => logins \subseteq {email[u] : u \in users}

\* With nothing gone wrong, what the requests leave behind is whole: every row
\* can log in and is of some enterprise, and no two share an e-mail.
AccountsAreWhole ==
  mishaps = {} /\ Quiet =>
    /\ \A u \in users : email[u] \in logins /\ Links(u) # {}
    /\ \A u, v \in users : email[u] = email[v] => u = v

\* "Si tiene mas empresas, solo se elimina la relacion con la empresa indicada":
\* while requests come one at a time, no link goes but those with the enterprise
\* of the request, though deleteById removes every link of the user.
UnlinkKeepsOtherLinks ==
  [][ mishaps' \cap {"registrations", "overlap"} = {} =>
        \A u \in UserIds : \A e \in Links(u) :
          card'[u][e] = 0 => \E w \in Workers : Busy(w) /\ job[w].enterprise = e ]_vars
=============================================================================
