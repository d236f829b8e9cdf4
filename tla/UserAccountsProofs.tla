--------------------------- MODULE UserAccountsProofs ---------------------------
(***************************************************************************)
(* What UserAccounts guarantees for every number of users, e-mails,        *)
(* enterprises and concurrent requests.                                    *)
(*                                                                         *)
(* BasicInv holds whatever goes wrong.  MildInv holds as long as requests  *)
(* only die and registrations only overlap with each other; its heart is   *)
(* SettledLogins: the account of an e-mail has a row that no registration  *)
(* in flight would roll back.  SoleInv is about requests one at a time:    *)
(* what the one in flight knows of the links of its user, and that every   *)
(* row but the one it is working on is whole.                              *)
(***************************************************************************)
EXTENDS UserAccounts, FiniteSetTheorems, TLAPS

Knows(j) ==
  /\ Registering(j) \/ j.at \in {"password", "save"} => j.email # None
  /\ Registering(j) => j.enterprise # None
  /\ j.at = "register" => j.new
  /\ j.new => j.user # None /\ j.at \in {"card", "link", "register", "delete_links", "delete_row"}

RequestsKnow == \A w \in Workers : Busy(w) => Knows(job[w])

\* No two registrations made the same row.
OwnRows ==
  \A v, w \in Workers :
    v # w /\ Busy(v) /\ Busy(w) /\ job[v].new /\ job[w].new => job[v].user # job[w].user

BasicInv == AccountsTypeOK /\ RequestsKnow /\ OwnRows

Mild == {"crash", "registrations"}

\* Whatever is not a registration is in flight alone.
OthersAreAlone ==
  \A v, w \in Workers : v # w /\ Busy(v) /\ Busy(w) => Registering(job[v])

\* The row of a registration stands until it is rolled back.
NewRowsStand ==
  \A w \in Workers :
    Busy(w) /\ job[w].new /\ job[w].at \in {"card", "link", "register"} =>
      job[w].user \in users /\ email[job[w].user] = job[w].email

\* A deletion that looks at the account has the e-mail of the row; one that is
\* past it has removed the account.
DeletionsKnow ==
  \A w \in Workers :
    Busy(w) /\ ~job[w].new =>
      /\ job[w].at \in {"lookup", "unregister"} => email[job[w].user] = job[w].email
      /\ job[w].at \in {"delete_links", "delete_row"} => email[job[w].user] \notin logins

Settled(u) == \A w \in Workers : Busy(w) /\ job[w].new => job[w].user # u

SettledLogins == \A m \in logins : \E u \in users : email[u] = m /\ Settled(u)

MildInv ==
  mishaps \subseteq Mild => OthersAreAlone /\ NewRowsStand /\ DeletionsKnow /\ SettledLogins

AccountsInv == BasicInv /\ MildInv

-----------------------------------------------------------------------------
(* Steps in general.                                                        *)

LEMMA BasicMove ==
  ASSUME BasicInv, NEW w \in Workers, NEW j \in Jobs \cup {None},
         job' = [job EXCEPT ![w] = j],
         j # None => /\ Knows(j)
                     /\ j.new => \/ j.user \in FreshIds
                                 \/ Busy(w) /\ job[w].new /\ job[w].user = j.user
  PROVE  RequestsKnow' /\ OwnRows' /\ job' \in [Workers -> Jobs \cup {None}]
<1>1. job \in [Workers -> Jobs \cup {None}]
  BY DEF BasicInv, AccountsTypeOK
<1>2. job' \in [Workers -> Jobs \cup {None}]
  BY <1>1
<1>3. RequestsKnow'
  BY <1>1 DEF BasicInv, RequestsKnow, Busy
<1>4. OwnRows'
  <2> SUFFICES ASSUME NEW v \in Workers, NEW x \in Workers, v # x, job'[v] # None, job'[x] # None,
                      job'[v].new, job'[x].new
               PROVE  job'[v].user # job'[x].user
    BY DEF OwnRows, Busy
  <2>1. \A y \in Workers : y # w => job'[y] = job[y]
    BY <1>1
  <2>2. job'[w] = j
    BY <1>1
  <2>3. CASE v = w
    BY <2>1, <2>2, <2>3 DEF BasicInv, OwnRows, Busy, FreshIds
  <2>4. CASE x = w
    BY <2>1, <2>2, <2>4 DEF BasicInv, OwnRows, Busy, FreshIds
  <2>5. CASE v # w /\ x # w
    BY <2>1, <2>5 DEF BasicInv, OwnRows, Busy
  <2> QED BY <2>3, <2>4, <2>5
<1> QED BY <1>2, <1>3, <1>4

\* What j may be after the request of w, when the rows and the accounts stay.
Follows(w, j) ==
  j # None =>
    /\ Busy(w)
    /\ Registering(job[w]) => Registering(j)
    /\ j.new => /\ job[w].new /\ j.user = job[w].user
                /\ j.at \in {"card", "link", "register"} =>
                     job[w].at \in {"card", "link", "register"} /\ j.email = job[w].email
    /\ ~j.new => /\ j.at \in {"lookup", "unregister"} => email[j.user] = j.email
                 /\ j.at \in {"delete_links", "delete_row"} => email[j.user] \notin logins

LEMMA MildMove ==
  ASSUME BasicInv, MildInv, NEW w \in Workers, NEW j \in Jobs \cup {None},
         job' = [job EXCEPT ![w] = j],
         users' = users, email' = email, logins' = logins, mishaps \subseteq mishaps',
         mishaps' \subseteq Mild => Follows(w, j)
  PROVE  MildInv'
<1> SUFFICES ASSUME mishaps' \subseteq Mild
             PROVE  OthersAreAlone' /\ NewRowsStand' /\ DeletionsKnow' /\ SettledLogins'
  BY DEF MildInv
<1>1. job \in [Workers -> Jobs \cup {None}]
  BY DEF BasicInv, AccountsTypeOK
<1>2. Follows(w, j) /\ OthersAreAlone /\ NewRowsStand /\ DeletionsKnow /\ SettledLogins
  BY DEF MildInv
<1>3. job'[w] = j /\ \A v \in Workers : v # w => job'[v] = job[v]
  BY <1>1
<1>4. OthersAreAlone'
  BY <1>2, <1>3 DEF OthersAreAlone, Follows, Busy
<1>5. NewRowsStand'
  BY <1>2, <1>3 DEF NewRowsStand, Follows, Busy
<1>6. DeletionsKnow'
  BY <1>2, <1>3 DEF DeletionsKnow, Follows, Busy
<1>7. \A u : Settled(u) => Settled(u)'
  BY <1>2, <1>3 DEF Settled, Follows, Busy
<1>8. SettledLogins'
  BY <1>2, <1>7 DEF SettledLogins
<1> QED BY <1>4, <1>5, <1>6, <1>8

\* A step that touches no row, link or account.
LEMMA QuietMove ==
  ASSUME AccountsInv, NEW w \in Workers, NEW j \in Jobs \cup {None},
         job' = [job EXCEPT ![w] = j],
         users' = users, email' = email, card' = card, logins' = logins,
         mishaps \subseteq mishaps', mishaps' \subseteq Mishaps,
         j # None => Knows(j) /\ (j.new => Busy(w) /\ job[w].new /\ job[w].user = j.user),
         mishaps' \subseteq Mild => Follows(w, j)
  PROVE  AccountsInv'
<1>1. RequestsKnow' /\ OwnRows' /\ job' \in [Workers -> Jobs \cup {None}]
  BY BasicMove DEF AccountsInv
<1>2. AccountsTypeOK'
  BY <1>1 DEF AccountsInv, BasicInv, AccountsTypeOK, Links
<1>3. MildInv'
  BY MildMove DEF AccountsInv
<1> QED BY <1>1, <1>2, <1>3 DEF AccountsInv, BasicInv

\* A request at a stage.
LEMMA AtKnows ==
  ASSUME AccountsInv, NEW w \in Workers, NEW stage, At(w, stage)
  PROVE  /\ job[w] \in Jobs /\ job[w].at = stage /\ Busy(w) /\ Knows(job[w])
         /\ mishaps \subseteq Mishaps
BY DEF AccountsInv, BasicInv, AccountsTypeOK, RequestsKnow, At, Busy

\* The stage changes and the request does not.
LEMMA GoingOn ==
  ASSUME AccountsInv, NEW w \in Workers, NEW stage \in Stages, Busy(w), Goes(w, stage),
         Knows(job[w])
  PROVE  LET j == [job[w] EXCEPT !.at = stage] IN
         /\ j \in Jobs /\ job' = [job EXCEPT ![w] = j]
         /\ j.at = stage /\ j.user = job[w].user /\ j.email = job[w].email
         /\ j.enterprise = job[w].enterprise /\ j.new = job[w].new
BY DEF AccountsInv, BasicInv, AccountsTypeOK, Goes, Busy, Jobs

LEMMA EndsQuietly ==
  ASSUME AccountsInv, NEW w \in Workers, Ends(w), users' = users, email' = email,
         card' = card, logins' = logins, mishaps \subseteq mishaps', mishaps' \subseteq Mishaps
  PROVE  AccountsInv'
BY QuietMove DEF Ends, Follows

-----------------------------------------------------------------------------
(* One step per action.                                                     *)

LEMMA InitSatisfies == Init => AccountsInv
<1> SUFFICES ASSUME Init PROVE AccountsInv
  OBVIOUS
<1>1. AccountsTypeOK
  BY AccountsAssumption DEF Init, AccountsTypeOK, Links
<1>2. RequestsKnow /\ OwnRows /\ MildInv
  BY DEF Init, RequestsKnow, OwnRows, Busy, MildInv, OthersAreAlone, NewRowsStand, DeletionsKnow,
         SettledLogins
<1> QED BY <1>1, <1>2 DEF AccountsInv, BasicInv

\* A request that begins is a registration or is alone, or there is a mishap.
LEMMA StartKeeps ==
  ASSUME AccountsInv, NEW w \in Workers, Start(w)
  PROVE  AccountsInv'
<1>1. PICK j \in Requests :
        job' = [job EXCEPT ![w] = j] /\ mishaps' = mishaps \cup Overlap(j)
  BY DEF Start
<1>2. job \in [Workers -> Jobs \cup {None}] /\ users \subseteq UserIds /\ mishaps \subseteq Mishaps
      /\ None \notin Emails /\ None \notin Enterprises /\ 0 \in 0..MaxCard
  BY AccountsAssumption DEF AccountsInv, BasicInv, AccountsTypeOK
<1>3. j \in Jobs /\ ~j.new /\ Knows(j)
      /\ j.at \in {"find", "target", "password", "save"} /\ (Registering(j) <=> j.at = "find")
  <2>1. CASE \E m \in Emails, e \in Enterprises : j = Body("find", None, m, e)
    BY <1>2, <2>1 DEF Body, Jobs, Stages, Knows, Registering
  <2>2. CASE \E u \in users, e \in Enterprises : j = Body("target", u, None, e)
    BY <1>2, <2>2 DEF Body, Jobs, Stages, Knows, Registering
  <2>3. CASE \E at \in {"password", "save"}, u \in users, m \in Emails : j = Body(at, u, m, None)
    BY <1>2, <2>3 DEF Body, Jobs, Stages, Knows, Registering
  <2> QED BY <2>1, <2>2, <2>3 DEF Requests
<1>4. mishaps \subseteq mishaps' /\ mishaps' \subseteq Mishaps
  BY <1>1, <1>2 DEF Mishaps, Overlap
<1>5. RequestsKnow' /\ OwnRows' /\ job' \in [Workers -> Jobs \cup {None}]
  BY <1>1, <1>3, BasicMove DEF AccountsInv
<1>6. AccountsTypeOK'
  BY <1>4, <1>5 DEF Start, AccountsInv, BasicInv, AccountsTypeOK, Links
<1>7. MildInv'
  <2> SUFFICES ASSUME mishaps' \subseteq Mild
               PROVE  OthersAreAlone' /\ NewRowsStand' /\ DeletionsKnow' /\ SettledLogins'
    BY DEF MildInv
  <2>1. OthersAreAlone /\ NewRowsStand /\ DeletionsKnow /\ SettledLogins
    BY <1>4 DEF AccountsInv, MildInv
  <2>2. job'[w] = j /\ \A v \in Workers : v # w => job'[v] = job[v]
    BY <1>1, <1>2
  <2>3. "overlap" \notin mishaps'
    BY DEF Mild
  <2>4. \/ Quiet
        \/ Registering(j) /\ \A v \in Workers : Busy(v) => Registering(job[v])
    BY <1>1, <2>3 DEF Overlap
  <2>5. OthersAreAlone'
    BY <2>2, <2>4 DEF OthersAreAlone, Quiet, Busy
  <2>6. NewRowsStand' /\ DeletionsKnow'
    BY <1>3, <2>1, <2>2 DEF NewRowsStand, DeletionsKnow, Busy, Start
  <2>7. SettledLogins'
    BY <1>3, <2>1, <2>2 DEF SettledLogins, Settled, Busy, Start
  <2> QED BY <2>5, <2>6, <2>7
<1> QED BY <1>5, <1>6, <1>7 DEF AccountsInv, BasicInv

LEMMA FindByEmailKeeps ==
  ASSUME AccountsInv, NEW w \in Workers, FindByEmail(w)
  PROVE  AccountsInv'
<1>1. job[w] \in Jobs /\ job[w].at = "find" /\ Busy(w) /\ Knows(job[w]) /\ mishaps \subseteq Mishaps
      /\ ~job[w].new
  BY AtKnows DEF FindByEmail, Knows
<1>2. PICK k \in Jobs :
        /\ job' = [job EXCEPT ![w] = k]
        /\ k.at \in {"verify", "linked"} /\ k.email = job[w].email
        /\ k.enterprise = job[w].enterprise /\ ~k.new
  <2>1. CASE Goes(w, "verify")
    <3> DEFINE k == [job[w] EXCEPT !.at = "verify"]
    <3>1. k \in Jobs /\ job' = [job EXCEPT ![w] = k] /\ k.at = "verify" /\ k.email = job[w].email
          /\ k.enterprise = job[w].enterprise /\ k.new = job[w].new
      BY <1>1, <2>1, GoingOn DEF Stages
    <3> QED BY <1>1, <3>1
  <2>2. ASSUME NEW u \in Rows(job[w].email),
               job' = [job EXCEPT ![w].at = "linked", ![w].user = u]
        PROVE  \E k \in Jobs :
                 /\ job' = [job EXCEPT ![w] = k]
                 /\ k.at \in {"verify", "linked"} /\ k.email = job[w].email
                 /\ k.enterprise = job[w].enterprise /\ ~k.new
    <3> DEFINE k == [job[w] EXCEPT !.at = "linked", !.user = u]
    <3>1. u \in UserIds
      BY DEF Rows, AccountsInv, BasicInv, AccountsTypeOK
    <3>2. k \in Jobs /\ job' = [job EXCEPT ![w] = k] /\ k.at = "linked" /\ k.email = job[w].email
          /\ k.enterprise = job[w].enterprise /\ k.new = job[w].new
      BY <1>1, <2>2, <3>1 DEF Jobs, Stages, AccountsInv, BasicInv, AccountsTypeOK
    <3> QED BY <1>1, <3>2
  <2> QED BY <2>1, <2>2 DEF FindByEmail
<1>3. Knows(k) /\ Follows(w, k)
  BY <1>1, <1>2 DEF Knows, Follows, Registering
<1> QED BY <1>1, <1>2, <1>3, QuietMove DEF FindByEmail, Reads

LEMMA FindLinkKeeps ==
  ASSUME AccountsInv, NEW w \in Workers, FindLink(w)
  PROVE  AccountsInv'
<1>1. job[w] \in Jobs /\ job[w].at = "linked" /\ Busy(w) /\ Knows(job[w]) /\ mishaps \subseteq Mishaps
  BY AtKnows DEF FindLink
<1>2. CASE Ends(w)
  BY <1>1, <1>2, EndsQuietly DEF FindLink, Reads
<1>3. CASE Goes(w, "card")
  <2> DEFINE k == [job[w] EXCEPT !.at = "card"]
  <2>1. k \in Jobs /\ job' = [job EXCEPT ![w] = k] /\ k.at = "card" /\ k.user = job[w].user
        /\ k.email = job[w].email /\ k.enterprise = job[w].enterprise /\ k.new = job[w].new
    BY <1>1, <1>3, GoingOn DEF Stages
  <2>2. Knows(k) /\ Follows(w, k)
    BY <1>1, <2>1 DEF Knows, Follows, Registering
  <2> QED BY <1>1, <2>1, <2>2, QuietMove DEF FindLink, Reads
<1> QED BY <1>2, <1>3 DEF FindLink

LEMMA ReadNextCardKeeps ==
  ASSUME AccountsInv, NEW w \in Workers, ReadNextCard(w)
  PROVE  AccountsInv'
<1>1. job[w] \in Jobs /\ job[w].at = "card" /\ Busy(w) /\ Knows(job[w]) /\ mishaps \subseteq Mishaps
  BY AtKnows DEF ReadNextCard
<1>2. PICK c \in 1..MaxCard : job' = [job EXCEPT ![w].at = "link", ![w].card = c]
  BY DEF ReadNextCard
<1> DEFINE k == [job[w] EXCEPT !.at = "link", !.card = c]
<1>3. k \in Jobs /\ job' = [job EXCEPT ![w] = k] /\ k.at = "link" /\ k.user = job[w].user
      /\ k.email = job[w].email /\ k.enterprise = job[w].enterprise /\ k.new = job[w].new
  <2>1. c \in 0..MaxCard
    BY AccountsAssumption
  <2>2. k \in Jobs /\ k.at = "link" /\ k.user = job[w].user
        /\ k.email = job[w].email /\ k.enterprise = job[w].enterprise /\ k.new = job[w].new
    BY <1>1, <2>1 DEF Jobs, Stages
  <2>3. job' = [job EXCEPT ![w] = k]
    BY <1>2 DEF AccountsInv, BasicInv, AccountsTypeOK
  <2> QED BY <2>2, <2>3
<1>4. Knows(k) /\ Follows(w, k)
  BY <1>1, <1>3 DEF Knows, Follows, Registering
<1> HIDE DEF k
<1> QED BY <1>1, <1>3, <1>4, QuietMove DEF ReadNextCard, Reads

LEMMA VerifyNoLoginKeeps ==
  ASSUME AccountsInv, NEW w \in Workers, VerifyNoLogin(w)
  PROVE  AccountsInv'
<1>1. job[w] \in Jobs /\ job[w].at = "verify" /\ Busy(w) /\ Knows(job[w]) /\ mishaps \subseteq Mishaps
  BY AtKnows DEF VerifyNoLogin
<1>2. users' = users /\ email' = email /\ card' = card /\ logins' = logins
      /\ mishaps \subseteq mishaps' /\ mishaps' \subseteq Mishaps
  BY <1>1 DEF VerifyNoLogin, Reads, Mishaps
<1>3. CASE Ends(w)
  BY <1>2, <1>3, EndsQuietly
<1>4. CASE Goes(w, "insert")
  <2> DEFINE k == [job[w] EXCEPT !.at = "insert"]
  <2>1. k \in Jobs /\ job' = [job EXCEPT ![w] = k] /\ k.at = "insert" /\ k.user = job[w].user
        /\ k.email = job[w].email /\ k.enterprise = job[w].enterprise /\ k.new = job[w].new
    BY <1>1, <1>4, GoingOn DEF Stages
  <2>2. Knows(k) /\ Follows(w, k)
    BY <1>1, <2>1 DEF Knows, Follows, Registering
  <2> QED BY <1>2, <1>1, <2>1, <2>2, QuietMove
<1> QED BY <1>3, <1>4 DEF VerifyNoLogin

\* The fresh row is nobody's, so no settled row is lost by it.
LEMMA InsertUserKeeps ==
  ASSUME AccountsInv, NEW w \in Workers, InsertUser(w)
  PROVE  AccountsInv'
<1>1. job[w] \in Jobs /\ job[w].at = "insert" /\ Busy(w) /\ Knows(job[w]) /\ mishaps \subseteq Mishaps
  BY AtKnows DEF InsertUser
<1>2. PICK u \in FreshIds :
        /\ users' = users \cup {u}
        /\ email' = [email EXCEPT ![u] = job[w].email]
        /\ job' = [job EXCEPT ![w].at = "card", ![w].user = u, ![w].new = TRUE]
  BY DEF InsertUser
<1> DEFINE k == [job[w] EXCEPT !.at = "card", !.user = u, !.new = TRUE]
<1>3. u \in UserIds /\ u \notin users /\ u # None /\ Registering(job[w])
      /\ \A v \in Workers : Busy(v) => job[v].user # u
  BY <1>1, AccountsAssumption DEF FreshIds, Registering
<1>4. k \in Jobs /\ k.at = "card" /\ k.user = u /\ k.new
      /\ k.email = job[w].email /\ k.enterprise = job[w].enterprise
  BY <1>1, <1>3 DEF Jobs, Stages
<1>5. job' = [job EXCEPT ![w] = k]
  BY <1>2 DEF AccountsInv, BasicInv, AccountsTypeOK
<1>6. Knows(k) /\ Registering(k) /\ k.email \in Emails
  BY <1>1, <1>3, <1>4 DEF Knows, Registering, Jobs
<1> HIDE DEF k
<1>7. RequestsKnow' /\ OwnRows' /\ job' \in [Workers -> Jobs \cup {None}]
  BY <1>2, <1>4, <1>5, <1>6, BasicMove DEF AccountsInv
<1>8. AccountsTypeOK'
  <2>1. users' \subseteq UserIds /\ email' \in [UserIds -> Emails \cup {None}]
    BY <1>2, <1>3, <1>4, <1>6 DEF AccountsInv, BasicInv, AccountsTypeOK
  <2>2. \A v \in UserIds : v \in users' <=> email'[v] # None
    BY <1>2, <1>3, <1>4, <1>6, AccountsAssumption DEF AccountsInv, BasicInv, AccountsTypeOK
  <2> QED BY <1>2, <1>7, <2>1, <2>2 DEF InsertUser, AccountsInv, BasicInv, AccountsTypeOK, Links
<1>9. MildInv'
  <2> SUFFICES ASSUME mishaps \subseteq Mild
               PROVE  OthersAreAlone' /\ NewRowsStand' /\ DeletionsKnow' /\ SettledLogins'
    BY DEF MildInv, InsertUser
  <2>1. OthersAreAlone /\ NewRowsStand /\ DeletionsKnow /\ SettledLogins
    BY DEF AccountsInv, MildInv
  <2>2. job'[w] = k /\ \A v \in Workers : v # w => job'[v] = job[v]
    BY <1>5 DEF AccountsInv, BasicInv, AccountsTypeOK
  <2>3. email'[u] = job[w].email /\ u \in users' /\ \A x : x # u => email'[x] = email[x]
    BY <1>2, <1>3 DEF AccountsInv, BasicInv, AccountsTypeOK
  <2>4. OthersAreAlone'
    BY <1>1, <1>3, <1>6, <2>1, <2>2 DEF OthersAreAlone, Busy
  <2>5. NewRowsStand'
    <3> SUFFICES ASSUME NEW v \in Workers, job'[v] # None, job'[v].new,
                        job'[v].at \in {"card", "link", "register"}
                 PROVE  job'[v].user \in users' /\ email'[job'[v].user] = job'[v].email
      BY DEF NewRowsStand, Busy
    <3>1. CASE v = w
      BY <1>4, <2>2, <2>3, <3>1
    <3>2. CASE v # w
      <4>1. job'[v] = job[v] /\ Busy(v)
        BY <2>2, <3>2 DEF Busy
      <4>2. job[v].user \in users /\ email[job[v].user] = job[v].email /\ job[v].user # u
        BY <1>3, <2>1, <4>1 DEF NewRowsStand
      <4> QED BY <1>2, <2>3, <4>1, <4>2
    <3> QED BY <3>1, <3>2
  <2>6. DeletionsKnow'
    <3> SUFFICES ASSUME NEW v \in Workers, job'[v] # None, ~job'[v].new
                 PROVE  /\ job'[v].at \in {"lookup", "unregister"} =>
                             email'[job'[v].user] = job'[v].email
                        /\ job'[v].at \in {"delete_links", "delete_row"} =>
                             email'[job'[v].user] \notin logins
      BY DEF DeletionsKnow, Busy, InsertUser
    <3>1. v # w /\ job'[v] = job[v] /\ Busy(v)
      BY <1>4, <2>2 DEF Busy
    <3>2. email'[job[v].user] = email[job[v].user]
      BY <1>3, <2>3, <3>1
    <3> QED BY <2>1, <3>1, <3>2 DEF DeletionsKnow
  <2>7. \A x \in users : Settled(x) => Settled(x)'
    BY <1>3, <1>4, <2>2 DEF Settled, Busy
  <2>8. SettledLogins'
    BY <1>2, <1>3, <2>1, <2>3, <2>7 DEF SettledLogins, InsertUser
  <2> QED BY <2>4, <2>5, <2>6, <2>8
<1> QED BY <1>7, <1>8, <1>9 DEF AccountsInv, BasicInv

\* A step that changes links only.
LEMMA LinkMove ==
  ASSUME AccountsInv, NEW w \in Workers, NEW j \in Jobs \cup {None},
         job' = [job EXCEPT ![w] = j],
         users' = users, email' = email, logins' = logins, mishaps' = mishaps,
         card' \in [UserIds -> [Enterprises -> 0..MaxCard]],
         \A u \in UserIds \ users, e \in Enterprises : card'[u][e] = card[u][e],
         \A u, v \in UserIds, e \in Enterprises :
           u # v /\ card'[u][e] = card'[v][e] => card'[u][e] = 0,
         j # None => Knows(j) /\ (j.new => Busy(w) /\ job[w].new /\ job[w].user = j.user),
         mishaps \subseteq Mild => Follows(w, j)
  PROVE  AccountsInv'
<1>1. RequestsKnow' /\ OwnRows' /\ job' \in [Workers -> Jobs \cup {None}]
  BY BasicMove DEF AccountsInv
<1>2. \A u \in UserIds : Links(u)' # {} => u \in users
  <2> SUFFICES ASSUME NEW u \in UserIds, u \notin users PROVE Links(u)' = {}
    OBVIOUS
  <2>1. Links(u) = {}
    BY DEF AccountsInv, BasicInv, AccountsTypeOK
  <2> QED BY <2>1 DEF Links
<1>3. AccountsTypeOK'
  BY <1>1, <1>2 DEF AccountsInv, BasicInv, AccountsTypeOK
<1>4. MildInv'
  BY MildMove DEF AccountsInv
<1> QED BY <1>1, <1>3, <1>4 DEF AccountsInv, BasicInv

LEMMA InsertLinkKeeps ==
  ASSUME AccountsInv, NEW w \in Workers, InsertLink(w)
  PROVE  AccountsInv'
<1> DEFINE u == job[w].user
           e == job[w].enterprise
           fits == u \in users /\ e \notin Links(u) /\ CardFree(e, job[w].card)
<1>1. job[w] \in Jobs /\ job[w].at = "link" /\ Busy(w) /\ Knows(job[w]) /\ mishaps \subseteq Mishaps
  BY AtKnows DEF InsertLink
<1>2. card' = IF fits THEN [card EXCEPT ![u][e] = job[w].card] ELSE card
  BY DEF InsertLink
<1>3. e \in Enterprises /\ job[w].card \in 0..MaxCard /\ users \subseteq UserIds
  BY <1>1 DEF Knows, Registering, Jobs, AccountsInv, BasicInv, AccountsTypeOK
<1>4. card' \in [UserIds -> [Enterprises -> 0..MaxCard]]
  BY <1>2, <1>3 DEF AccountsInv, BasicInv, AccountsTypeOK
<1>5. \A v \in UserIds \ users, x \in Enterprises : card'[v][x] = card[v][x]
  BY <1>2, <1>3 DEF AccountsInv, BasicInv, AccountsTypeOK
<1>6. \A v, x \in UserIds, y \in Enterprises :
        v # x /\ card'[v][y] = card'[x][y] => card'[v][y] = 0
  <2>1. \A v, x \in UserIds, y \in Enterprises : v # x /\ card[v][y] = card[x][y] => card[v][y] = 0
    BY DEF AccountsInv, BasicInv, AccountsTypeOK
  <2>2. CASE fits
    <3>1. \A v \in UserIds, y \in Enterprises :
            card'[v][y] = IF v = u /\ y = e THEN job[w].card ELSE card[v][y]
      BY <1>2, <1>3, <2>2 DEF AccountsInv, BasicInv, AccountsTypeOK
    <3>2. \A v \in UserIds : card[v][e] # job[w].card
      BY <2>2 DEF CardFree
    <3> QED BY <2>1, <3>1, <3>2
  <2>3. CASE ~fits
    BY <1>2, <2>1, <2>3
  <2> QED BY <2>2, <2>3
<1>7. users' = users /\ email' = email /\ logins' = logins /\ mishaps' = mishaps
  BY DEF InsertLink
<1>8. CASE Ends(w)
  BY <1>4, <1>5, <1>6, <1>7, <1>8, LinkMove DEF Ends, Follows
<1>9. ASSUME NEW stage \in {"register", "delete_links"}, job[w].new, Goes(w, stage)
      PROVE  AccountsInv'
  <2> DEFINE k == [job[w] EXCEPT !.at = stage]
  <2>1. k \in Jobs /\ job' = [job EXCEPT ![w] = k] /\ k.at = stage /\ k.user = job[w].user
        /\ k.email = job[w].email /\ k.enterprise = job[w].enterprise /\ k.new = job[w].new
    <3>1. stage \in Stages
      BY DEF Stages
    <3> QED BY <1>1, <1>9, <3>1, GoingOn
  <2>2. Knows(k) /\ Follows(w, k)
    BY <1>1, <1>9, <2>1 DEF Knows, Follows, Registering
  <2> HIDE DEF k
  <2> QED BY <1>1, <1>4, <1>5, <1>6, <1>7, <2>1, <2>2, LinkMove
<1> QED BY <1>8, <1>9 DEF InsertLink, Registers, RollsBack

\* An account is made for a row that stands and that the request lets go of.
LEMMA RegisterKeeps ==
  ASSUME AccountsInv, NEW w \in Workers, Register(w)
  PROVE  AccountsInv'
<1>1. job[w] \in Jobs /\ job[w].at = "register" /\ Busy(w) /\ Knows(job[w]) /\ mishaps \subseteq Mishaps
  BY AtKnows DEF Register
<1> DEFINE k == [job[w] EXCEPT !.at = "delete_links"]
<1>2. \/ Ends(w)
      \/ Goes(w, "delete_links") /\ job[w].new
  BY DEF Register, RollsBack
<1>3. Goes(w, "delete_links") =>
        k \in Jobs /\ job' = [job EXCEPT ![w] = k] /\ k.at = "delete_links" /\ k.user = job[w].user
        /\ k.email = job[w].email /\ k.enterprise = job[w].enterprise /\ k.new = job[w].new
  BY <1>1, GoingOn DEF Stages
<1>4. Goes(w, "delete_links") /\ job[w].new => Knows(k) /\ Follows(w, k)
  BY <1>1, <1>3 DEF Knows, Follows, Registering
<1> HIDE DEF k
<1>5. PICK j \in {None, k} :
        j \in Jobs \cup {None} /\ job' = [job EXCEPT ![w] = j]
        /\ (j = None <=> Ends(w))
        /\ (j # None => Knows(j) /\ Follows(w, j) /\ j.new /\ job[w].new /\ job[w].user = j.user)
  <2>1. CASE Ends(w)
    BY <2>1 DEF Ends
  <2>2. CASE ~Ends(w)
    <3>1. k # None
      BY <1>2, <1>3, <2>2 DEF Ends
    <3> QED BY <1>2, <1>3, <1>4, <2>2, <3>1
  <2> QED BY <2>1, <2>2
<1>6. users' = users /\ email' = email /\ card' = card /\ logins' \subseteq logins \cup {job[w].email}
      /\ mishaps \subseteq mishaps' /\ mishaps' \subseteq Mishaps
  BY <1>1 DEF Register, Mishaps
<1>7. RequestsKnow' /\ OwnRows' /\ job' \in [Workers -> Jobs \cup {None}]
  BY <1>1, <1>5, BasicMove DEF AccountsInv
<1>8. AccountsTypeOK'
  <2>1. job[w].email \in Emails
    BY <1>1 DEF Knows, Registering, Jobs
  <2> QED BY <1>6, <1>7, <2>1 DEF AccountsInv, BasicInv, AccountsTypeOK, Links
<1>9. MildInv'
  <2> SUFFICES ASSUME mishaps' \subseteq Mild
               PROVE  MildInv'
    BY DEF MildInv
  <2>1. OthersAreAlone /\ NewRowsStand /\ DeletionsKnow /\ SettledLogins
    BY <1>6 DEF AccountsInv, MildInv
  <2>2. \/ logins' = logins
        \/ logins' = logins \cup {job[w].email} /\ Ends(w)
    BY DEF Register, Mild
  <2>3. CASE logins' = logins
    BY <1>5, <1>6, <2>3, MildMove DEF AccountsInv, Follows
  <2>4. CASE logins' = logins \cup {job[w].email} /\ Ends(w)
    <3>1. job'[w] = None /\ \A v \in Workers : v # w => job'[v] = job[v]
      BY <2>4 DEF Ends, AccountsInv, BasicInv, AccountsTypeOK
    <3>2. OthersAreAlone' /\ NewRowsStand'
      BY <1>6, <2>1, <3>1 DEF OthersAreAlone, NewRowsStand, Busy
    <3>3. DeletionsKnow'
      <4> SUFFICES ASSUME NEW v \in Workers, v # w, Busy(v), ~job[v].new
                   PROVE  job[v].at \notin {"lookup", "unregister", "delete_links", "delete_row"}
        BY <3>1 DEF DeletionsKnow, Busy
      <4>1. Registering(job[v])
        BY <1>1, <2>1 DEF OthersAreAlone
      <4> QED BY <4>1 DEF Registering
    <3>4. \A x : Settled(x) => Settled(x)'
      BY <3>1 DEF Settled, Busy
    <3>5. job[w].user \in users /\ email[job[w].user] = job[w].email /\ job[w].new
      BY <1>1, <2>1 DEF NewRowsStand, Knows
    <3>6. \A u : u = job[w].user => Settled(u)'
      <4>1. \A v \in Workers : v # w /\ Busy(v) /\ job[v].new => job[v].user # job[w].user
        BY <1>1, <3>5 DEF AccountsInv, BasicInv, OwnRows
      <4> QED BY <3>1, <4>1 DEF Settled, Busy
    <3>7. SettledLogins'
      BY <1>6, <2>1, <2>4, <3>4, <3>5, <3>6 DEF SettledLogins
    <3> QED BY <3>2, <3>3, <3>7 DEF MildInv
  <2> QED BY <2>2, <2>3, <2>4
<1> QED BY <1>7, <1>8, <1>9 DEF AccountsInv, BasicInv

LEMMA FindTargetKeeps ==
  ASSUME AccountsInv, NEW w \in Workers, FindTarget(w)
  PROVE  AccountsInv'
<1>1. job[w] \in Jobs /\ job[w].at = "target" /\ Busy(w) /\ Knows(job[w]) /\ mishaps \subseteq Mishaps
  BY AtKnows DEF FindTarget
<1>2. CASE Ends(w)
  BY <1>1, <1>2, EndsQuietly DEF FindTarget, Reads
<1>3. CASE Goes(w, "count")
  <2> DEFINE k == [job[w] EXCEPT !.at = "count"]
  <2>1. k \in Jobs /\ job' = [job EXCEPT ![w] = k] /\ k.at = "count" /\ k.user = job[w].user
        /\ k.email = job[w].email /\ k.enterprise = job[w].enterprise /\ k.new = job[w].new
    BY <1>1, <1>3, GoingOn DEF Stages
  <2>2. Knows(k) /\ Follows(w, k)
    BY <1>1, <2>1 DEF Knows, Follows, Registering
  <2> QED BY <1>1, <2>1, <2>2, QuietMove DEF FindTarget, Reads
<1> QED BY <1>2, <1>3 DEF FindTarget

LEMMA CountLinksKeeps ==
  ASSUME AccountsInv, NEW w \in Workers, CountLinks(w)
  PROVE  AccountsInv'
<1>1. job[w] \in Jobs /\ job[w].at = "count" /\ Busy(w) /\ Knows(job[w]) /\ mishaps \subseteq Mishaps
  BY AtKnows DEF CountLinks
<1>2. PICK stage \in {"doomed", "remove"} : Goes(w, stage)
  BY DEF CountLinks
<1> DEFINE k == [job[w] EXCEPT !.at = stage]
<1>3. k \in Jobs /\ job' = [job EXCEPT ![w] = k] /\ k.at = stage /\ k.user = job[w].user
      /\ k.email = job[w].email /\ k.enterprise = job[w].enterprise /\ k.new = job[w].new
  <2>1. stage \in Stages
    BY DEF Stages
  <2> QED BY <1>1, <1>2, <2>1, GoingOn
<1>4. Knows(k) /\ Follows(w, k)
  BY <1>1, <1>3 DEF Knows, Follows, Registering
<1> HIDE DEF k
<1> QED BY <1>1, <1>3, <1>4, QuietMove DEF CountLinks, Reads

LEMMA RemoveLinkKeeps ==
  ASSUME AccountsInv, NEW w \in Workers, RemoveLink(w)
  PROVE  AccountsInv'
<1> DEFINE u == job[w].user
           e == job[w].enterprise
<1>1. card' = [card EXCEPT ![u][e] = 0] /\ 0 \in 0..MaxCard
  BY AccountsAssumption DEF RemoveLink
<1>2. card' \in [UserIds -> [Enterprises -> 0..MaxCard]]
      /\ \A v \in UserIds, x \in Enterprises : card'[v][x] \in {0, card[v][x]}
  BY <1>1 DEF AccountsInv, BasicInv, AccountsTypeOK
<1>3. \A v \in UserIds \ users, x \in Enterprises : card[v][x] = 0
  BY DEF AccountsInv, BasicInv, AccountsTypeOK, Links
<1>4. \A v, x \in UserIds, y \in Enterprises : v # x /\ card[v][y] = card[x][y] => card[v][y] = 0
  BY DEF AccountsInv, BasicInv, AccountsTypeOK
<1>5. \A v, x \in UserIds, y \in Enterprises :
        v # x /\ card'[v][y] = card'[x][y] => card'[v][y] = 0
  BY <1>2, <1>4
<1>6. \A v \in UserIds \ users, x \in Enterprises : card'[v][x] = card[v][x]
  BY <1>2, <1>3
<1> QED BY <1>2, <1>5, <1>6, LinkMove DEF RemoveLink, Ends, Follows

LEMMA ReadDoomedKeeps ==
  ASSUME AccountsInv, NEW w \in Workers, ReadDoomed(w)
  PROVE  AccountsInv'
<1>1. job[w] \in Jobs /\ job[w].at = "doomed" /\ Busy(w) /\ Knows(job[w]) /\ mishaps \subseteq Mishaps
  BY AtKnows DEF ReadDoomed
<1>2. CASE Ends(w)
  BY <1>1, <1>2, EndsQuietly DEF ReadDoomed, Reads
<1>3. CASE /\ job[w].user \in users
           /\ job' = [job EXCEPT ![w].at = "lookup", ![w].email = email[job[w].user]]
  <2> DEFINE k == [job[w] EXCEPT !.at = "lookup", !.email = email[job[w].user]]
  <2>1. email[job[w].user] \in Emails \cup {None}
    BY <1>3 DEF AccountsInv, BasicInv, AccountsTypeOK
  <2>2. k \in Jobs /\ k.at = "lookup" /\ k.user = job[w].user
        /\ k.email = email[job[w].user] /\ k.enterprise = job[w].enterprise /\ k.new = job[w].new
    BY <1>1, <2>1 DEF Jobs, Stages
  <2>3. job' = [job EXCEPT ![w] = k]
    BY <1>3 DEF AccountsInv, BasicInv, AccountsTypeOK
  <2>4. Knows(k) /\ Follows(w, k)
    BY <1>1, <2>2 DEF Knows, Follows, Registering
  <2> HIDE DEF k
  <2> QED BY <1>1, <2>2, <2>3, <2>4, QuietMove DEF ReadDoomed, Reads
<1> QED BY <1>2, <1>3 DEF ReadDoomed

\* Firebase answered that there is no account, or there is a mishap.
LEMMA LookLoginUpKeeps ==
  ASSUME AccountsInv, NEW w \in Workers, LookLoginUp(w)
  PROVE  AccountsInv'
<1>1. job[w] \in Jobs /\ job[w].at = "lookup" /\ Busy(w) /\ Knows(job[w]) /\ mishaps \subseteq Mishaps
  BY AtKnows DEF LookLoginUp
<1>2. PICK stage \in {"unregister", "delete_links"} : Goes(w, stage)
  BY DEF LookLoginUp, AfterLookup
<1> DEFINE k == [job[w] EXCEPT !.at = stage]
<1>3. k \in Jobs /\ job' = [job EXCEPT ![w] = k] /\ k.at = stage /\ k.user = job[w].user
      /\ k.email = job[w].email /\ k.enterprise = job[w].enterprise /\ k.new = job[w].new
  <2>1. stage \in Stages
    BY DEF Stages
  <2> QED BY <1>1, <1>2, <2>1, GoingOn
<1>4. users' = users /\ email' = email /\ card' = card /\ logins' = logins
      /\ mishaps \subseteq mishaps' /\ mishaps' \subseteq Mishaps
  BY <1>1 DEF LookLoginUp, Reads, Mishaps
<1>5. Knows(k) /\ ~k.new
  BY <1>1, <1>3 DEF Knows, Registering
<1>6. ASSUME mishaps' \subseteq Mild PROVE Follows(w, k)
  <2>1. email[job[w].user] = job[w].email
    BY <1>1, <1>4, <1>5, <1>3, <1>6 DEF AccountsInv, MildInv, DeletionsKnow
  <2>2. Goes(w, AfterLookup(job[w].email \in logins))
    BY <1>6 DEF LookLoginUp, Mild
  <2>3. stage = AfterLookup(job[w].email \in logins)
    <3>1. job'[w].at = stage /\ job'[w].at = AfterLookup(job[w].email \in logins)
      BY <1>1, <1>2, <2>2 DEF Goes, Jobs, AccountsInv, BasicInv, AccountsTypeOK
    <3> QED BY <3>1
  <2>4. ~Registering(job[w])
    BY <1>1, <1>3, <1>5 DEF Registering
  <2> QED BY <1>1, <1>3, <1>5, <2>1, <2>3, <2>4 DEF Follows, AfterLookup
<1> HIDE DEF k
<1> QED BY <1>3, <1>4, <1>5, <1>6, QuietMove

\* The account goes while its row is still there.
LEMMA UnregisterKeeps ==
  ASSUME AccountsInv, NEW w \in Workers, Unregister(w)
  PROVE  AccountsInv'
<1>1. job[w] \in Jobs /\ job[w].at = "unregister" /\ Busy(w) /\ Knows(job[w]) /\ ~job[w].new
      /\ mishaps \subseteq Mishaps
  BY AtKnows DEF Unregister, Knows
<1> DEFINE k == [job[w] EXCEPT !.at = "delete_links"]
<1>2. Goes(w, "delete_links") =>
        k \in Jobs /\ job' = [job EXCEPT ![w] = k] /\ k.at = "delete_links" /\ k.user = job[w].user
        /\ k.email = job[w].email /\ k.enterprise = job[w].enterprise /\ k.new = job[w].new
  <2>1. "delete_links" \in Stages
    BY DEF Stages
  <2> QED BY <1>1, <2>1, GoingOn
<1>3. Goes(w, "delete_links") => Knows(k)
  BY <1>1, <1>2 DEF Knows, Registering
<1> HIDE DEF k
<1>4. PICK j \in {None, k} :
        /\ j \in Jobs \cup {None} /\ job' = [job EXCEPT ![w] = j]
        /\ j # None => /\ Knows(j) /\ ~j.new /\ j.user = job[w].user /\ j.at = "delete_links"
                       /\ logins' = logins \ {job[w].email}
  BY <1>1, <1>2, <1>3 DEF Unregister, Ends
<1>5. users' = users /\ email' = email /\ card' = card /\ logins' \subseteq logins
      /\ mishaps \subseteq mishaps' /\ mishaps' \subseteq Mishaps
  BY <1>1 DEF Unregister, Mishaps
<1>6. RequestsKnow' /\ OwnRows' /\ job' \in [Workers -> Jobs \cup {None}]
  BY <1>4, BasicMove DEF AccountsInv
<1>7. AccountsTypeOK'
  BY <1>5, <1>6 DEF AccountsInv, BasicInv, AccountsTypeOK, Links
<1>8. MildInv'
  <2> SUFFICES ASSUME mishaps' \subseteq Mild
               PROVE  OthersAreAlone' /\ NewRowsStand' /\ DeletionsKnow' /\ SettledLogins'
    BY DEF MildInv
  <2>1. OthersAreAlone /\ NewRowsStand /\ DeletionsKnow /\ SettledLogins
    BY <1>5 DEF AccountsInv, MildInv
  <2>2. \A v \in Workers : v # w => job[v] = None
    BY <1>1, <2>1 DEF OthersAreAlone, Busy, Registering
  <2>3. job'[w] = j /\ \A v \in Workers : v # w => job'[v] = None
    BY <1>4, <2>2 DEF AccountsInv, BasicInv, AccountsTypeOK
  <2>4. email[job[w].user] = job[w].email
    BY <1>1, <2>1 DEF DeletionsKnow
  <2>5. OthersAreAlone' /\ NewRowsStand'
    BY <1>4, <2>3 DEF OthersAreAlone, NewRowsStand, Busy
  <2>6. DeletionsKnow'
    BY <1>4, <1>5, <2>3, <2>4 DEF DeletionsKnow, Busy
  <2>7. \A x : Settled(x)'
    BY <1>4, <2>3 DEF Settled, Busy
  <2>8. SettledLogins'
    BY <1>5, <2>1, <2>7 DEF SettledLogins
  <2> QED BY <2>5, <2>6, <2>8
<1> QED BY <1>6, <1>7, <1>8 DEF AccountsInv, BasicInv

LEMMA DeleteLinksKeeps ==
  ASSUME AccountsInv, NEW w \in Workers, DeleteLinks(w)
  PROVE  AccountsInv'
<1>1. job[w] \in Jobs /\ job[w].at = "delete_links" /\ Busy(w) /\ Knows(job[w])
  BY AtKnows DEF DeleteLinks
<1> DEFINE u == job[w].user
           k == [job[w] EXCEPT !.at = "delete_row"]
<1>2. k \in Jobs /\ job' = [job EXCEPT ![w] = k] /\ k.at = "delete_row" /\ k.user = u
      /\ k.email = job[w].email /\ k.enterprise = job[w].enterprise /\ k.new = job[w].new
  <2>1. "delete_row" \in Stages
    BY DEF Stages
  <2> QED BY <1>1, <2>1, GoingOn DEF DeleteLinks
<1>3. card' = [card EXCEPT ![u] = [e \in Enterprises |-> 0]] /\ 0 \in 0..MaxCard
  BY AccountsAssumption DEF DeleteLinks
<1>4. card' \in [UserIds -> [Enterprises -> 0..MaxCard]]
      /\ \A v \in UserIds, x \in Enterprises : card'[v][x] \in {0, card[v][x]}
  BY <1>3 DEF AccountsInv, BasicInv, AccountsTypeOK
<1>5. \A v \in UserIds \ users, x \in Enterprises : card[v][x] = 0
  BY DEF AccountsInv, BasicInv, AccountsTypeOK, Links
<1>6. \A v, x \in UserIds, y \in Enterprises : v # x /\ card[v][y] = card[x][y] => card[v][y] = 0
  BY DEF AccountsInv, BasicInv, AccountsTypeOK
<1>7. \A v, x \in UserIds, y \in Enterprises :
        v # x /\ card'[v][y] = card'[x][y] => card'[v][y] = 0
  BY <1>4, <1>6
<1>8. \A v \in UserIds \ users, x \in Enterprises : card'[v][x] = card[v][x]
  BY <1>4, <1>5
<1>9. Knows(k) /\ (k.new => job[w].new)
  BY <1>1, <1>2 DEF Knows, Registering
<1>10. mishaps \subseteq Mild => Follows(w, k)
  <2> SUFFICES ASSUME mishaps \subseteq Mild PROVE Follows(w, k)
    OBVIOUS
  <2>1. ~job[w].new => email[u] \notin logins
    BY <1>1 DEF AccountsInv, MildInv, DeletionsKnow
  <2> QED BY <1>1, <1>2, <2>1 DEF Follows, Registering
<1> HIDE DEF k
<1> QED BY <1>1, <1>2, <1>4, <1>7, <1>8, <1>9, <1>10, LinkMove DEF DeleteLinks

\* The row that goes is not the settled one of any account: it is that of a
\* registration whose account was not made, or its account has gone before.
LEMMA DeleteRowKeeps ==
  ASSUME AccountsInv, NEW w \in Workers, DeleteRow(w)
  PROVE  AccountsInv'
<1> DEFINE u == job[w].user
<1>1. job[w] \in Jobs /\ job[w].at = "delete_row" /\ Busy(w)
  BY AtKnows DEF DeleteRow
<1>2. \/ users' = users /\ email' = email
      \/ users' = users \ {u} /\ email' = [email EXCEPT ![u] = None] /\ Links(u) = {}
  BY DEF DeleteRow
<1>3. card' = card /\ logins' = logins /\ mishaps' = mishaps /\ job' = [job EXCEPT ![w] = None]
  BY DEF DeleteRow, Ends
<1>4. RequestsKnow' /\ OwnRows' /\ job' \in [Workers -> Jobs \cup {None}]
  BY <1>3, BasicMove DEF AccountsInv
<1>5. AccountsTypeOK'
  <2>1. \A v \in UserIds : Links(v)' = Links(v)
    BY <1>3 DEF Links
  <2>2. ASSUME NEW v \in UserIds
        PROVE  (v \in users' <=> email'[v] # None) /\ (Links(v) # {} => v \in users')
    <3>1. (v \in users <=> email[v] # None) /\ (Links(v) # {} => v \in users)
      BY DEF AccountsInv, BasicInv, AccountsTypeOK
    <3>2. email \in [UserIds -> Emails \cup {None}]
      BY DEF AccountsInv, BasicInv, AccountsTypeOK
    <3>3. CASE v = u
      BY <1>2, <3>1, <3>2, <3>3
    <3>4. CASE v # u
      BY <1>2, <3>1, <3>2, <3>4
    <3> QED BY <3>3, <3>4
  <2>3. users' \subseteq UserIds /\ email' \in [UserIds -> Emails \cup {None}]
    <3>1. users \subseteq UserIds /\ email \in [UserIds -> Emails \cup {None}]
      BY DEF AccountsInv, BasicInv, AccountsTypeOK
    <3> QED BY <1>2, <3>1
  <2> QED BY <1>3, <1>4, <2>1, <2>2, <2>3 DEF AccountsInv, BasicInv, AccountsTypeOK
<1>6. MildInv'
  <2> SUFFICES ASSUME mishaps \subseteq Mild
               PROVE  OthersAreAlone' /\ NewRowsStand' /\ DeletionsKnow' /\ SettledLogins'
    BY <1>3 DEF MildInv
  <2>1. OthersAreAlone /\ NewRowsStand /\ DeletionsKnow /\ SettledLogins
    BY DEF AccountsInv, MildInv
  <2>2. job'[w] = None /\ \A v \in Workers : v # w => job'[v] = job[v]
    BY <1>3 DEF AccountsInv, BasicInv, AccountsTypeOK
  <2>3. \A v \in Workers : v # w /\ Busy(v) => Registering(job[v]) /\ job[w].new
    BY <1>1, <2>1 DEF OthersAreAlone, Registering
  <2>4. users \subseteq UserIds /\ \A x \in UserIds : x # u => email'[x] = email[x]
    <3>1. users \subseteq UserIds /\ email \in [UserIds -> Emails \cup {None}]
      BY DEF AccountsInv, BasicInv, AccountsTypeOK
    <3> QED BY <1>2, <3>1
  <2>5. OthersAreAlone'
    BY <2>1, <2>2 DEF OthersAreAlone, Busy
  <2>6. NewRowsStand'
    <3> SUFFICES ASSUME NEW v \in Workers, job'[v] # None, job'[v].new,
                        job'[v].at \in {"card", "link", "register"}
                 PROVE  job'[v].user \in users' /\ email'[job'[v].user] = job'[v].email
      BY DEF NewRowsStand, Busy
    <3>1. v # w /\ job'[v] = job[v] /\ Busy(v)
      BY <2>2 DEF Busy
    <3>2. job[v].user # u
      BY <1>1, <2>3, <3>1 DEF AccountsInv, BasicInv, OwnRows
    <3>3. job[v].user \in users /\ email[job[v].user] = job[v].email
      BY <2>1, <3>1 DEF NewRowsStand
    <3> QED BY <1>2, <2>4, <3>1, <3>2, <3>3
  <2>7. DeletionsKnow'
    <3> SUFFICES ASSUME NEW v \in Workers, v # w, Busy(v), ~job[v].new
                 PROVE  job[v].at \notin {"lookup", "unregister", "delete_links", "delete_row"}
      BY <2>2 DEF DeletionsKnow, Busy
    <3> QED BY <2>3 DEF Registering
  <2>8. SettledLogins'
    <3> SUFFICES ASSUME NEW m \in logins
                 PROVE  \E x \in users' : email'[x] = m /\ Settled(x)'
      BY <1>3 DEF SettledLogins
    <3>1. PICK x \in users : email[x] = m /\ Settled(x)
      BY <2>1 DEF SettledLogins
    <3>2. x # u
      BY <1>1, <2>1, <3>1 DEF Settled, DeletionsKnow
    <3>3. Settled(x)'
      BY <2>2, <3>1 DEF Settled, Busy
    <3> QED BY <1>2, <2>4, <3>1, <3>2, <3>3
  <2> QED BY <2>5, <2>6, <2>7, <2>8
<1> QED BY <1>4, <1>5, <1>6 DEF AccountsInv, BasicInv

LEMMA UpdatePasswordKeeps ==
  ASSUME AccountsInv, NEW w \in Workers, UpdatePassword(w)
  PROVE  AccountsInv'
<1>1. job[w] \in Jobs /\ job[w].at = "password" /\ Busy(w) /\ Knows(job[w])
      /\ mishaps \subseteq Mishaps
  BY AtKnows DEF UpdatePassword
<1>2. CASE Ends(w)
  BY <1>1, <1>2, EndsQuietly DEF UpdatePassword, Reads
<1>3. CASE Goes(w, "save")
  <2> DEFINE k == [job[w] EXCEPT !.at = "save"]
  <2>1. k \in Jobs /\ job' = [job EXCEPT ![w] = k] /\ k.at = "save" /\ k.user = job[w].user
        /\ k.email = job[w].email /\ k.enterprise = job[w].enterprise /\ k.new = job[w].new
    BY <1>1, <1>3, GoingOn DEF Stages
  <2>2. Knows(k) /\ Follows(w, k)
    BY <1>1, <2>1 DEF Knows, Follows, Registering
  <2> QED BY <1>1, <2>1, <2>2, QuietMove DEF UpdatePassword, Reads
<1> QED BY <1>2, <1>3 DEF UpdatePassword

LEMMA SaveUserKeeps ==
  ASSUME AccountsInv, NEW w \in Workers, SaveUser(w)
  PROVE  AccountsInv'
<1> DEFINE u == job[w].user
<1>1. job[w] \in Jobs /\ job[w].at = "save" /\ Busy(w) /\ Knows(job[w]) /\ mishaps \subseteq Mishaps
  BY AtKnows DEF SaveUser
<1>2. CASE email' = email /\ mishaps' = mishaps
  BY <1>1, <1>2, EndsQuietly DEF SaveUser
<1>3. CASE /\ u \in users /\ email' = [email EXCEPT ![u] = job[w].email]
           /\ mishaps' = mishaps \cup {"rename"}
  <2>1. RequestsKnow' /\ OwnRows' /\ job' \in [Workers -> Jobs \cup {None}]
    BY BasicMove DEF SaveUser, Ends, AccountsInv
  <2>2. job[w].email \in Emails /\ job[w].email # None
    BY <1>1 DEF Knows, Jobs
  <2>3. users' = users /\ logins' = logins /\ card' = card
    BY DEF SaveUser
  <2>4. AccountsTypeOK'
    BY <1>1, <1>3, <2>1, <2>2, <2>3 DEF AccountsInv, BasicInv, AccountsTypeOK, Links, Mishaps
  <2>5. MildInv'
    BY <1>3 DEF MildInv, Mild
  <2> QED BY <2>1, <2>4, <2>5 DEF AccountsInv, BasicInv
<1> QED BY <1>2, <1>3 DEF SaveUser

LEMMA CrashKeeps ==
  ASSUME AccountsInv, NEW w \in Workers, Crash(w)
  PROVE  AccountsInv'
<1>1. mishaps \subseteq mishaps' /\ mishaps' \subseteq Mishaps
  BY DEF Crash, Mishaps, AccountsInv, BasicInv, AccountsTypeOK
<1> QED BY <1>1, EndsQuietly DEF Crash

-----------------------------------------------------------------------------
LEMMA AccountsInvIsInductive == AccountsInv /\ [Next]_vars => AccountsInv'
<1> SUFFICES ASSUME AccountsInv, [Next]_vars PROVE AccountsInv'
  OBVIOUS
<1>1. CASE UNCHANGED vars
  BY <1>1 DEF vars, AccountsInv, BasicInv, MildInv, AccountsTypeOK, Links, RequestsKnow, OwnRows,
              OthersAreAlone, NewRowsStand, DeletionsKnow, SettledLogins, Settled, Busy
<1>2. ASSUME NEW w \in Workers,
             \/ Start(w) \/ FindByEmail(w) \/ FindLink(w) \/ ReadNextCard(w) \/ VerifyNoLogin(w)
             \/ InsertUser(w) \/ InsertLink(w) \/ Register(w)
      PROVE  AccountsInv'
  BY <1>2, StartKeeps, FindByEmailKeeps, FindLinkKeeps, ReadNextCardKeeps, VerifyNoLoginKeeps,
     InsertUserKeeps, InsertLinkKeeps, RegisterKeeps
<1>3. ASSUME NEW w \in Workers,
             \/ FindTarget(w) \/ CountLinks(w) \/ RemoveLink(w) \/ ReadDoomed(w) \/ LookLoginUp(w)
             \/ Unregister(w) \/ DeleteLinks(w) \/ DeleteRow(w)
      PROVE  AccountsInv'
  BY <1>3, FindTargetKeeps, CountLinksKeeps, RemoveLinkKeeps, ReadDoomedKeeps, LookLoginUpKeeps,
     UnregisterKeeps, DeleteLinksKeeps, DeleteRowKeeps
<1>4. ASSUME NEW w \in Workers, UpdatePassword(w) \/ SaveUser(w) \/ Crash(w)
      PROVE  AccountsInv'
  BY <1>4, UpdatePasswordKeeps, SaveUserKeeps, CrashKeeps
<1> QED BY <1>1, <1>2, <1>3, <1>4 DEF Next

LEMMA AccountsInvHolds == Spec => []AccountsInv
BY InitSatisfies, AccountsInvIsInductive, PTL DEF Spec

\* The tables, the accounts and the requests in flight stay of their types, with
\* one card per link of an enterprise, whatever goes wrong.
THEOREM AccountsTypeCorrect == Spec => []AccountsTypeOK
<1>1. AccountsInv => AccountsTypeOK
  BY DEF AccountsInv, BasicInv
<1> QED BY <1>1, AccountsInvHolds, PTL

\* As long as requests only die and registrations only overlap with each other,
\* no account is left without a row: the row is made before and removed after.
THEOREM LoginsAlwaysHaveUsers == Spec => []LoginsHaveUsers
<1>1. AccountsInv => LoginsHaveUsers
  BY DEF AccountsInv, MildInv, SettledLogins, LoginsHaveUsers, Mild
<1> QED BY <1>1, AccountsInvHolds, PTL

-----------------------------------------------------------------------------
(* Requests one at a time.                                                  *)

Lone == mishaps \cap {"registrations", "overlap"} = {}

\* A user has as many links as requests made, whatever the number of enterprises.
LinksAreFinite == \A u \in UserIds : IsFiniteSet(Links(u))

\* What a request on its own knows of the links of its user.
SoleJob(j) ==
  /\ j.at = "link" => j.card # 0
  /\ j.at \in {"count", "remove", "register"} => j.enterprise \in Links(j.user)
  /\ j.at \in {"doomed", "lookup", "unregister", "delete_links"} \/ j.new =>
       Links(j.user) \subseteq {j.enterprise}
  /\ j.at = "remove" => Links(j.user) # {j.enterprise}
  /\ j.at = "delete_row" => Links(j.user) = {}
  /\ j.at \in {"count", "doomed", "lookup", "unregister", "delete_links"} \/ j.new =>
       j.user \in users

LoneInv ==
  Lone => /\ \A v, w \in Workers : v # w => ~Busy(v) \/ ~Busy(w)
          /\ \A w \in Workers : Busy(w) => SoleJob(job[w])

\* The row of the user is being made or removed.
Tends(j) == j.new \/ j.at \in {"delete_links", "delete_row"}
Tended(u) == \E w \in Workers : Busy(w) /\ job[w].user = u /\ Tends(job[w])

WholeInv ==
  mishaps = {} =>
    /\ \A u \in users : Tended(u) \/ (email[u] \in logins /\ Links(u) # {})
    /\ \A u, v \in users : email[u] = email[v] => u = v
    /\ \A w \in Workers : Busy(w) /\ job[w].at \in {"verify", "insert"} => Rows(job[w].email) = {}

SoleInv == LinksAreFinite /\ LoneInv /\ WholeInv

\* A step of a request that is alone before and after it.
LEMMA SoleStep ==
  ASSUME AccountsInv, SoleInv, NEW w \in Workers, Busy(w), NEW j,
         job' = [job EXCEPT ![w] = j], mishaps \subseteq mishaps', Lone'
  PROVE  /\ Lone /\ SoleJob(job[w]) /\ job'[w] = j
         /\ \A v \in Workers : v # w => job[v] = None /\ job'[v] = None
<1>1. Lone
  BY DEF Lone
<1>2. job'[w] = j /\ \A v \in Workers : v # w => job'[v] = job[v]
  BY DEF AccountsInv, BasicInv, AccountsTypeOK
<1>3. SoleJob(job[w])
  BY <1>1 DEF SoleInv, LoneInv
<1>4. \A v \in Workers : v # w => job[v] = None
  BY <1>1 DEF SoleInv, LoneInv, Busy
<1> QED BY <1>1, <1>2, <1>3, <1>4

\* What such a step must show of its own request.
LEMMA LoneMove ==
  ASSUME AccountsInv, SoleInv, NEW w \in Workers, Busy(w), NEW j,
         job' = [job EXCEPT ![w] = j], mishaps \subseteq mishaps',
         Lone' /\ j # None => SoleJob(j)'
  PROVE  LoneInv'
<1> SUFFICES ASSUME Lone'
             PROVE  /\ \A v, x \in Workers : v # x => job'[v] = None \/ job'[x] = None
                    /\ \A x \in Workers : job'[x] # None => SoleJob(job[x])'
  BY DEF LoneInv, Busy
<1>1. job'[w] = j /\ \A v \in Workers : v # w => job'[v] = None
  BY SoleStep
<1>2. \A v, x \in Workers : v # x => job'[v] = None \/ job'[x] = None
  BY <1>1
<1>3. ASSUME NEW x \in Workers, job'[x] # None PROVE SoleJob(job[x])'
  <2>1. x = w /\ j # None
    BY <1>1, <1>3
  <2> QED BY <1>1, <2>1 DEF SoleJob, Links
<1> QED BY <1>2, <1>3

\* The rows a step may leave unfinished are those of its own request.
LEMMA TendedMove ==
  ASSUME AccountsInv, SoleInv, NEW w \in Workers, Busy(w), NEW j,
         job' = [job EXCEPT ![w] = j], mishaps \subseteq mishaps', mishaps' = {}
  PROVE  /\ mishaps = {}
         /\ \A u : Tended(u) => job[w].user = u /\ Tends(job[w])
         /\ \A u : j # None /\ Tends(j) /\ j.user = u => Tended(u)'
         /\ \A v \in Workers : job'[v] # None => v = w /\ job'[v] = j
<1>1. mishaps = {} /\ Lone'
  BY DEF Lone
<1>2. job'[w] = j /\ \A v \in Workers : v # w => job[v] = None /\ job'[v] = None
  BY <1>1, SoleStep
<1>3. \A u : Tended(u) => job[w].user = u /\ Tends(job[w])
  BY <1>2 DEF Tended, Busy
<1>4. ASSUME NEW u, j # None, Tends(j), j.user = u PROVE Tended(u)'
  <2>1. job'[w] # None /\ job'[w].user = u /\ Tends(job[w])'
    BY <1>2, <1>4 DEF Tends
  <2> QED BY <2>1 DEF Tended, Busy
<1> QED BY <1>1, <1>2, <1>3, <1>4

\* A step that touches no row, link or account.
LEMMA SoleRead ==
  ASSUME AccountsInv, SoleInv, NEW w \in Workers, Busy(w), NEW j,
         job' = [job EXCEPT ![w] = j],
         users' = users, email' = email, card' = card, logins' = logins,
         mishaps \subseteq mishaps',
         Lone /\ SoleJob(job[w]) /\ j # None => SoleJob(j),
         mishaps' = {} =>
           /\ Tends(job[w]) => j # None /\ Tends(j) /\ j.user = job[w].user
           /\ j # None /\ j.at \in {"verify", "insert"} => Rows(j.email) = {}
  PROVE  SoleInv'
<1>1. \A u : Links(u)' = Links(u)
  BY DEF Links
<1>2. LinksAreFinite'
  BY <1>1 DEF SoleInv, LinksAreFinite
<1>3. ASSUME Lone', j # None PROVE SoleJob(j)'
  <2>1. SoleJob(j)
    BY <1>3, SoleStep
  <2> QED BY <2>1 DEF SoleJob, Links
<1>4. LoneInv'
  BY <1>3, LoneMove
<1>5. WholeInv'
  <2> SUFFICES ASSUME mishaps' = {}
               PROVE  /\ \A u \in users : Tended(u)' \/ (email[u] \in logins /\ Links(u) # {})
                      /\ \A u, v \in users : email[u] = email[v] => u = v
                      /\ \A v \in Workers : job'[v] # None /\ job'[v].at \in {"verify", "insert"} =>
                           {u \in users : email[u] = job'[v].email} = {}
    BY <1>1 DEF WholeInv, Rows, Busy
  <2>1. /\ mishaps = {}
        /\ \A u : Tended(u) => job[w].user = u /\ Tends(job[w])
        /\ \A u : j # None /\ Tends(j) /\ j.user = u => Tended(u)'
        /\ \A v \in Workers : job'[v] # None => v = w /\ job'[v] = j
    BY TendedMove
  <2>2. /\ \A u \in users : Tended(u) \/ (email[u] \in logins /\ Links(u) # {})
        /\ \A u, v \in users : email[u] = email[v] => u = v
    BY <2>1 DEF SoleInv, WholeInv
  <2>3. \A u : Tended(u) => Tended(u)'
    BY <2>1
  <2>4. \A v \in Workers : job'[v] # None /\ job'[v].at \in {"verify", "insert"} =>
          {u \in users : email[u] = job'[v].email} = {}
    BY <2>1 DEF Rows
  <2> QED BY <2>2, <2>3, <2>4
<1> QED BY <1>2, <1>4, <1>5 DEF SoleInv

LEMMA SoleEnd ==
  ASSUME AccountsInv, SoleInv, NEW w \in Workers, Busy(w), Ends(w),
         users' = users, email' = email, card' = card, logins' = logins,
         mishaps \subseteq mishaps', mishaps' = {} => ~Tends(job[w])
  PROVE  SoleInv'
BY SoleRead DEF Ends

-----------------------------------------------------------------------------
(* One step per action, of requests one at a time.                          *)

LEMMA StartIsSole ==
  ASSUME AccountsInv, SoleInv, NEW w \in Workers, Start(w)
  PROVE  SoleInv'
<1>1. PICK j \in Requests :
        job' = [job EXCEPT ![w] = j] /\ mishaps' = mishaps \cup Overlap(j)
  BY DEF Start
<1>2. users' = users /\ email' = email /\ card' = card /\ logins' = logins
  BY DEF Start
<1>3. ~j.new /\ j.at \in {"find", "target", "password", "save"}
  BY <1>1 DEF Requests, Body
<1>4. job'[w] = j /\ \A v \in Workers : v # w => job'[v] = job[v]
  BY <1>1 DEF AccountsInv, BasicInv, AccountsTypeOK
<1>5. ASSUME Lone' PROVE Lone /\ Quiet /\ \A v \in Workers : v # w => job'[v] = None
  <2>1. Overlap(j) = {} /\ Lone
    BY <1>1, <1>5 DEF Lone, Overlap
  <2>2. Quiet
    BY <2>1 DEF Overlap
  <2> QED BY <1>4, <2>1, <2>2 DEF Quiet, Busy
<1>6. LinksAreFinite'
  BY <1>2 DEF SoleInv, LinksAreFinite, Links
<1>7. LoneInv'
  <2> SUFFICES ASSUME Lone'
               PROVE  /\ \A v, x \in Workers : v # x => job'[v] = None \/ job'[x] = None
                      /\ \A x \in Workers : job'[x] # None => SoleJob(job[x])'
    BY DEF LoneInv, Busy
  <2>1. \A v \in Workers : v # w => job'[v] = None
    BY <1>5
  <2>2. ASSUME NEW x \in Workers, job'[x] # None PROVE SoleJob(job[x])'
    <3>1. job'[x] = j
      BY <1>4, <2>1, <2>2
    <3> QED BY <1>3, <3>1 DEF SoleJob
  <2> QED BY <2>1, <2>2
<1>8. WholeInv'
  <2> SUFFICES ASSUME mishaps' = {} PROVE WholeInv'
    BY DEF WholeInv
  <2>1. mishaps = {} /\ Quiet /\ \A v \in Workers : v # w => job'[v] = None
    BY <1>1, <1>5 DEF Lone
  <2>2. /\ \A u \in users : email[u] \in logins /\ Links(u) # {}
        /\ \A u, v \in users : email[u] = email[v] => u = v
    BY <2>1 DEF SoleInv, WholeInv, Tended, Quiet
  <2>3. \A v \in Workers : Busy(v)' => job'[v].at \notin {"verify", "insert"}
    BY <1>3, <1>4, <2>1 DEF Busy
  <2> QED BY <1>2, <2>2, <2>3 DEF WholeInv, Links
<1> QED BY <1>6, <1>7, <1>8 DEF SoleInv

LEMMA FindByEmailIsSole ==
  ASSUME AccountsInv, SoleInv, NEW w \in Workers, FindByEmail(w)
  PROVE  SoleInv'
<1>1. job[w] \in Jobs /\ job[w].at = "find" /\ Busy(w) /\ Knows(job[w]) /\ ~job[w].new
  BY AtKnows DEF FindByEmail, Knows
<1>2. ~Tends(job[w]) /\ users' = users /\ email' = email /\ card' = card /\ logins' = logins
      /\ mishaps' = mishaps
  BY <1>1 DEF Tends, FindByEmail, Reads
<1>3. CASE Rows(job[w].email) = {} /\ Goes(w, "verify")
  <2> DEFINE k == [job[w] EXCEPT !.at = "verify"]
  <2>1. job' = [job EXCEPT ![w] = k] /\ k.at = "verify" /\ k.email = job[w].email /\ ~k.new
    BY <1>1, <1>3, GoingOn DEF Stages
  <2>2. SoleJob(k)
    BY <2>1 DEF SoleJob
  <2> HIDE DEF k
  <2> QED BY <1>1, <1>2, <1>3, <2>1, <2>2, SoleRead
<1>4. CASE \E u \in Rows(job[w].email) : job' = [job EXCEPT ![w].at = "linked", ![w].user = u]
  <2>1. PICK u : job' = [job EXCEPT ![w].at = "linked", ![w].user = u]
    BY <1>4
  <2> DEFINE k == [job[w] EXCEPT !.at = "linked", !.user = u]
  <2>2. job' = [job EXCEPT ![w] = k] /\ k.at = "linked" /\ ~k.new
    BY <1>1, <2>1 DEF Jobs, AccountsInv, BasicInv, AccountsTypeOK
  <2>3. SoleJob(k)
    BY <2>2 DEF SoleJob
  <2> HIDE DEF k
  <2> QED BY <1>1, <1>2, <2>2, <2>3, SoleRead
<1> QED BY <1>3, <1>4 DEF FindByEmail

LEMMA FindLinkIsSole ==
  ASSUME AccountsInv, SoleInv, NEW w \in Workers, FindLink(w)
  PROVE  SoleInv'
<1>1. job[w] \in Jobs /\ job[w].at = "linked" /\ Busy(w) /\ Knows(job[w]) /\ ~job[w].new
  BY AtKnows DEF FindLink, Knows
<1>2. ~Tends(job[w]) /\ users' = users /\ email' = email /\ card' = card /\ logins' = logins
      /\ mishaps' = mishaps
  BY <1>1 DEF Tends, FindLink, Reads
<1>3. CASE Ends(w)
  BY <1>1, <1>2, <1>3, SoleEnd
<1>4. CASE Goes(w, "card")
  <2> DEFINE k == [job[w] EXCEPT !.at = "card"]
  <2>1. job' = [job EXCEPT ![w] = k] /\ k.at = "card" /\ ~k.new
    BY <1>1, <1>4, GoingOn DEF Stages
  <2>2. SoleJob(k)
    BY <2>1 DEF SoleJob
  <2> HIDE DEF k
  <2> QED BY <1>1, <1>2, <2>1, <2>2, SoleRead
<1> QED BY <1>3, <1>4 DEF FindLink

LEMMA ReadNextCardIsSole ==
  ASSUME AccountsInv, SoleInv, NEW w \in Workers, ReadNextCard(w)
  PROVE  SoleInv'
<1>1. job[w] \in Jobs /\ job[w].at = "card" /\ Busy(w)
  BY AtKnows DEF ReadNextCard
<1>2. users' = users /\ email' = email /\ card' = card /\ logins' = logins /\ mishaps' = mishaps
  BY DEF ReadNextCard, Reads
<1>3. PICK c \in 1..MaxCard : job' = [job EXCEPT ![w].at = "link", ![w].card = c]
  BY DEF ReadNextCard
<1> DEFINE k == [job[w] EXCEPT !.at = "link", !.card = c]
<1>4. k \in Jobs /\ k.at = "link" /\ k.card = c /\ k.user = job[w].user
      /\ k.enterprise = job[w].enterprise /\ k.new = job[w].new
  <2>1. c \in 0..MaxCard
    BY AccountsAssumption
  <2> QED BY <1>1, <2>1 DEF Jobs, Stages
<1>5. job' = [job EXCEPT ![w] = k]
  BY <1>3 DEF AccountsInv, BasicInv, AccountsTypeOK
<1>6. c # 0
  BY AccountsAssumption
<1> HIDE DEF k
<1>7. SoleJob(job[w]) => SoleJob(k)
  BY <1>4, <1>6 DEF SoleJob
<1>8. Tends(job[w]) => k # None /\ Tends(k) /\ k.user = job[w].user
  <2>1. k # None
    BY <1>4, NoneIsNoJob
  <2> QED BY <1>1, <1>4, <2>1 DEF Tends
<1> QED BY <1>1, <1>2, <1>4, <1>5, <1>7, <1>8, SoleRead

LEMMA VerifyNoLoginIsSole ==
  ASSUME AccountsInv, SoleInv, NEW w \in Workers, VerifyNoLogin(w)
  PROVE  SoleInv'
<1>1. job[w] \in Jobs /\ job[w].at = "verify" /\ Busy(w) /\ Knows(job[w]) /\ ~job[w].new
  BY AtKnows DEF VerifyNoLogin, Knows
<1>2. ~Tends(job[w]) /\ users' = users /\ email' = email /\ card' = card /\ logins' = logins
      /\ mishaps \subseteq mishaps'
  BY <1>1 DEF Tends, VerifyNoLogin, Reads
<1>3. CASE Ends(w)
  BY <1>1, <1>2, <1>3, SoleEnd
<1>4. CASE Goes(w, "insert")
  <2> DEFINE k == [job[w] EXCEPT !.at = "insert"]
  <2>1. job' = [job EXCEPT ![w] = k] /\ k.at = "insert" /\ k.email = job[w].email /\ ~k.new
    BY <1>1, <1>4, GoingOn DEF Stages
  <2>2. SoleJob(k)
    BY <2>1 DEF SoleJob
  <2>3. mishaps' = {} => Rows(job[w].email) = {}
    BY <1>1, <1>2 DEF SoleInv, WholeInv
  <2> HIDE DEF k
  <2> QED BY <1>1, <1>2, <2>1, <2>2, <2>3, SoleRead
<1> QED BY <1>3, <1>4 DEF VerifyNoLogin

LEMMA FindTargetIsSole ==
  ASSUME AccountsInv, SoleInv, NEW w \in Workers, FindTarget(w)
  PROVE  SoleInv'
<1>1. job[w] \in Jobs /\ job[w].at = "target" /\ Busy(w) /\ Knows(job[w]) /\ ~job[w].new
  BY AtKnows DEF FindTarget, Knows
<1>2. ~Tends(job[w]) /\ users' = users /\ email' = email /\ card' = card /\ logins' = logins
      /\ mishaps' = mishaps
  BY <1>1 DEF Tends, FindTarget, Reads
<1>3. CASE Ends(w)
  BY <1>1, <1>2, <1>3, SoleEnd
<1>4. CASE /\ job[w].user \in users /\ job[w].enterprise \in Links(job[w].user)
           /\ Goes(w, "count")
  <2> DEFINE k == [job[w] EXCEPT !.at = "count"]
  <2>1. job' = [job EXCEPT ![w] = k] /\ k.at = "count" /\ ~k.new /\ k.user = job[w].user
        /\ k.enterprise = job[w].enterprise
    BY <1>1, <1>4, GoingOn DEF Stages
  <2>2. SoleJob(k)
    BY <1>4, <2>1 DEF SoleJob
  <2> HIDE DEF k
  <2> QED BY <1>1, <1>2, <2>1, <2>2, SoleRead
<1> QED BY <1>3, <1>4 DEF FindTarget

LEMMA OneLink ==
  ASSUME NEW S, IsFiniteSet(S), NEW e \in S
  PROVE  Cardinality(S) = 1 <=> S = {e}
<1>1. Cardinality({e}) = 1
  BY FS_Singleton
<1>2. ASSUME Cardinality(S) = 1 PROVE S = {e}
  BY <1>2, FS_Singleton
<1> QED BY <1>1, <1>2

\* The link of the request is the only one exactly when one was counted.
LEMMA CountLinksIsSole ==
  ASSUME AccountsInv, SoleInv, NEW w \in Workers, CountLinks(w)
  PROVE  SoleInv'
<1>1. job[w] \in Jobs /\ job[w].at = "count" /\ Busy(w) /\ Knows(job[w]) /\ ~job[w].new
  BY AtKnows DEF CountLinks, Knows
<1>2. ~Tends(job[w]) /\ users' = users /\ email' = email /\ card' = card /\ logins' = logins
      /\ mishaps' = mishaps
  BY <1>1 DEF Tends, CountLinks, Reads
<1>3. PICK stage \in {"doomed", "remove"} :
        /\ Goes(w, stage)
        /\ stage = "doomed" <=> Cardinality(Links(job[w].user)) = 1
  BY DEF CountLinks, LastLink
<1> DEFINE k == [job[w] EXCEPT !.at = stage]
<1>4. job' = [job EXCEPT ![w] = k] /\ k.at = stage /\ ~k.new /\ k.user = job[w].user
      /\ k.enterprise = job[w].enterprise
  <2>1. stage \in Stages
    BY <1>3 DEF Stages
  <2> QED BY <1>1, <1>3, <2>1, GoingOn
<1>5. SoleJob(job[w]) => SoleJob(k)
  <2> SUFFICES ASSUME SoleJob(job[w]) PROVE SoleJob(k)
    OBVIOUS
  <2>1. job[w].user \in users /\ job[w].enterprise \in Links(job[w].user)
    BY <1>1 DEF SoleJob
  <2>2. IsFiniteSet(Links(job[w].user))
    <3>1. job[w].user \in UserIds
      BY <1>1 DEF SoleJob, AccountsInv, BasicInv, AccountsTypeOK
    <3> QED BY <3>1 DEF SoleInv, LinksAreFinite
  <2>3. stage = "doomed" <=> Links(job[w].user) = {job[w].enterprise}
    BY <1>3, <2>1, <2>2, OneLink
  <2> QED BY <1>3, <1>4, <2>1, <2>3 DEF SoleJob
<1> HIDE DEF k
<1> QED BY <1>1, <1>2, <1>3, <1>4, <1>5, SoleRead

LEMMA ReadDoomedIsSole ==
  ASSUME AccountsInv, SoleInv, NEW w \in Workers, ReadDoomed(w)
  PROVE  SoleInv'
<1>1. job[w] \in Jobs /\ job[w].at = "doomed" /\ Busy(w) /\ Knows(job[w]) /\ ~job[w].new
  BY AtKnows DEF ReadDoomed, Knows
<1>2. ~Tends(job[w]) /\ users' = users /\ email' = email /\ card' = card /\ logins' = logins
      /\ mishaps' = mishaps
  BY <1>1 DEF Tends, ReadDoomed, Reads
<1>3. CASE Ends(w)
  BY <1>1, <1>2, <1>3, SoleEnd
<1>4. CASE /\ job[w].user \in users
           /\ job' = [job EXCEPT ![w].at = "lookup", ![w].email = email[job[w].user]]
  <2> DEFINE k == [job[w] EXCEPT !.at = "lookup", !.email = email[job[w].user]]
  <2>1. job' = [job EXCEPT ![w] = k] /\ k.at = "lookup" /\ ~k.new /\ k.user = job[w].user
        /\ k.enterprise = job[w].enterprise
    BY <1>1, <1>4 DEF Jobs, AccountsInv, BasicInv, AccountsTypeOK
  <2>2. SoleJob(job[w]) => SoleJob(k)
    BY <1>1, <1>4, <2>1 DEF SoleJob
  <2> HIDE DEF k
  <2> QED BY <1>1, <1>2, <2>1, <2>2, SoleRead
<1> QED BY <1>3, <1>4 DEF ReadDoomed

LEMMA LookLoginUpIsSole ==
  ASSUME AccountsInv, SoleInv, NEW w \in Workers, LookLoginUp(w)
  PROVE  SoleInv'
<1>1. job[w] \in Jobs /\ job[w].at = "lookup" /\ Busy(w) /\ Knows(job[w]) /\ ~job[w].new
  BY AtKnows DEF LookLoginUp, Knows
<1>2. ~Tends(job[w]) /\ users' = users /\ email' = email /\ card' = card /\ logins' = logins
      /\ mishaps \subseteq mishaps'
  BY <1>1 DEF Tends, LookLoginUp, Reads
<1>3. PICK stage \in {"unregister", "delete_links"} : Goes(w, stage)
  BY DEF LookLoginUp, AfterLookup
<1> DEFINE k == [job[w] EXCEPT !.at = stage]
<1>4. job' = [job EXCEPT ![w] = k] /\ k.at = stage /\ ~k.new /\ k.user = job[w].user
      /\ k.enterprise = job[w].enterprise
  <2>1. stage \in Stages
    BY <1>3 DEF Stages
  <2> QED BY <1>1, <1>3, <2>1, GoingOn
<1>5. SoleJob(job[w]) => SoleJob(k)
  BY <1>1, <1>3, <1>4 DEF SoleJob
<1> HIDE DEF k
<1> QED BY <1>1, <1>2, <1>3, <1>4, <1>5, SoleRead

LEMMA UpdatePasswordIsSole ==
  ASSUME AccountsInv, SoleInv, NEW w \in Workers, UpdatePassword(w)
  PROVE  SoleInv'
<1>1. job[w] \in Jobs /\ job[w].at = "password" /\ Busy(w) /\ Knows(job[w]) /\ ~job[w].new
  BY AtKnows DEF UpdatePassword, Knows
<1>2. ~Tends(job[w]) /\ users' = users /\ email' = email /\ card' = card /\ logins' = logins
      /\ mishaps' = mishaps
  BY <1>1 DEF Tends, UpdatePassword, Reads
<1>3. CASE Ends(w)
  BY <1>1, <1>2, <1>3, SoleEnd
<1>4. CASE Goes(w, "save")
  <2> DEFINE k == [job[w] EXCEPT !.at = "save"]
  <2>1. job' = [job EXCEPT ![w] = k] /\ k.at = "save" /\ ~k.new
    BY <1>1, <1>4, GoingOn DEF Stages
  <2>2. SoleJob(k)
    BY <2>1 DEF SoleJob
  <2> HIDE DEF k
  <2> QED BY <1>1, <1>2, <2>1, <2>2, SoleRead
<1> QED BY <1>3, <1>4 DEF UpdatePassword

\* What is whole before a step, and what a step must show to keep it so.
LEMMA WholeNow ==
  ASSUME AccountsInv, SoleInv, NEW w \in Workers, Busy(w), mishaps = {}
  PROVE  /\ \A u \in users : (Tends(job[w]) /\ job[w].user = u)
                             \/ (email[u] \in logins /\ Links(u) # {})
         /\ \A u, v \in users : email[u] = email[v] => u = v
<1>1. \A v \in Workers : v # w => job[v] = None
  BY DEF SoleInv, LoneInv, Lone, Busy
<1>2. \A u : Tended(u) => Tends(job[w]) /\ job[w].user = u
  BY <1>1 DEF Tended, Busy
<1> QED BY <1>2 DEF SoleInv, WholeInv

LEMMA WholeMove ==
  ASSUME AccountsInv, SoleInv, NEW w \in Workers, Busy(w), NEW j,
         job' = [job EXCEPT ![w] = j], mishaps \subseteq mishaps',
         mishaps' = {} =>
           /\ \A u \in users' : (j # None /\ Tends(j) /\ j.user = u)
                                \/ (email'[u] \in logins' /\ Links(u)' # {})
           /\ \A u, v \in users' : email'[u] = email'[v] => u = v
           /\ j # None => j.at \notin {"verify", "insert"}
  PROVE  WholeInv'
<1> SUFFICES ASSUME mishaps' = {} PROVE WholeInv'
  BY DEF WholeInv
<1>1. /\ \A u : j # None /\ Tends(j) /\ j.user = u => Tended(u)'
      /\ \A v \in Workers : job'[v] # None => v = w /\ job'[v] = j
  BY TendedMove
<1>2. \A u \in users' : Tended(u)' \/ (email'[u] \in logins' /\ Links(u)' # {})
  BY <1>1
<1>3. \A v \in Workers : Busy(v)' => job'[v].at \notin {"verify", "insert"}
  BY <1>1 DEF Busy
<1> QED BY <1>2, <1>3 DEF WholeInv

\* The row is made where no row has the e-mail.
LEMMA InsertUserIsSole ==
  ASSUME AccountsInv, SoleInv, NEW w \in Workers, InsertUser(w)
  PROVE  SoleInv'
<1>1. job[w] \in Jobs /\ job[w].at = "insert" /\ Busy(w) /\ Knows(job[w]) /\ ~job[w].new
  BY AtKnows DEF InsertUser, Knows
<1>2. PICK u \in FreshIds :
        /\ users' = users \cup {u}
        /\ email' = [email EXCEPT ![u] = job[w].email]
        /\ job' = [job EXCEPT ![w].at = "card", ![w].user = u, ![w].new = TRUE]
  BY DEF InsertUser
<1>3. card' = card /\ logins' = logins /\ mishaps' = mishaps
  BY DEF InsertUser
<1>4. u \in UserIds /\ u \notin users /\ Links(u) = {}
  BY DEF FreshIds, AccountsInv, BasicInv, AccountsTypeOK
<1>5. PICK j \in Jobs : /\ job' = [job EXCEPT ![w] = j]
                        /\ j.at = "card" /\ j.user = u /\ j.new
  <2> DEFINE k == [job[w] EXCEPT !.at = "card", !.user = u, !.new = TRUE]
  <2>1. k \in Jobs /\ k.at = "card" /\ k.user = u /\ k.new
    BY <1>1, <1>4 DEF Jobs, Stages
  <2>2. job' = [job EXCEPT ![w] = k]
    BY <1>2 DEF AccountsInv, BasicInv, AccountsTypeOK
  <2> HIDE DEF k
  <2> QED BY <2>1, <2>2
<1>6. \A v : Links(v)' = Links(v)
  BY <1>3 DEF Links
<1>7. LinksAreFinite'
  BY <1>6 DEF SoleInv, LinksAreFinite
<1>8. SoleJob(j)'
  BY <1>2, <1>3, <1>4, <1>5 DEF SoleJob, Links
<1>9. LoneInv'
  BY <1>1, <1>3, <1>5, <1>8, LoneMove
<1>10. WholeInv'
  <2> SUFFICES ASSUME mishaps' = {} PROVE WholeInv'
    BY DEF WholeInv
  <2>1. email'[u] = job[w].email /\ \A v : v # u => email'[v] = email[v]
    BY <1>2, <1>4 DEF AccountsInv, BasicInv, AccountsTypeOK
  <2>2. Rows(job[w].email) = {}
    BY <1>1, <1>3 DEF SoleInv, WholeInv
  <2>3. /\ \A v \in users : email[v] \in logins /\ Links(v) # {}
        /\ \A v, x \in users : email[v] = email[x] => v = x
    BY <1>1, <1>3, WholeNow DEF Tends
  <2>4. \A v \in users' : v = u \/ (email'[v] \in logins' /\ Links(v)' # {})
    BY <1>2, <1>3, <1>6, <2>1, <2>3
  <2>5. \A v, x \in users' : email'[v] = email'[x] => v = x
    BY <1>2, <1>4, <2>1, <2>2, <2>3 DEF Rows
  <2>6. j # None /\ Tends(j)
    BY <1>5, NoneIsNoJob DEF Tends
  <2> QED BY <1>1, <1>3, <1>5, <2>4, <2>5, <2>6, WholeMove
<1> QED BY <1>7, <1>9, <1>10 DEF SoleInv

LEMMA InsertLinkIsSole ==
  ASSUME AccountsInv, SoleInv, NEW w \in Workers, InsertLink(w)
  PROVE  SoleInv'
<1> PICK u, e : u = job[w].user /\ e = job[w].enterprise
  OBVIOUS
<1> DEFINE fits == u \in users /\ e \notin Links(u) /\ CardFree(e, job[w].card)
<1>1. job[w] \in Jobs /\ job[w].at = "link" /\ Busy(w) /\ Knows(job[w])
  BY AtKnows DEF InsertLink
<1>2. users' = users /\ email' = email /\ logins' = logins /\ mishaps' = mishaps
  BY DEF InsertLink
<1>3. CASE ~fits
  <2>1. card' = card /\ RollsBack(w)
    BY <1>3 DEF InsertLink
  <2>2. CASE ~job[w].new
    BY <1>1, <1>2, <2>1, <2>2, SoleEnd DEF RollsBack, Tends
  <2>3. CASE job[w].new
    <3> DEFINE k == [job[w] EXCEPT !.at = "delete_links"]
    <3>1. k \in Jobs /\ job' = [job EXCEPT ![w] = k] /\ k.at = "delete_links" /\ k.user = u
          /\ k.enterprise = e /\ k.new
      <4>1. Goes(w, "delete_links") /\ "delete_links" \in Stages
        BY <2>1, <2>3 DEF RollsBack, Stages
      <4>2. k.new = job[w].new
        BY <1>1, <4>1, GoingOn
      <4> QED BY <1>1, <2>3, <4>1, <4>2, GoingOn
    <3>2. SoleJob(job[w]) => SoleJob(k)
      BY <2>3, <3>1 DEF SoleJob
    <3> HIDE DEF k
    <3>3. k # None /\ Tends(k) /\ k.user = job[w].user
      BY <3>1, NoneIsNoJob DEF Tends
    <3> QED BY <1>1, <1>2, <2>1, <3>1, <3>2, <3>3, SoleRead
  <2> QED BY <2>2, <2>3
<1>4. CASE fits
  <2> SUFFICES ASSUME fits PROVE SoleInv'
    BY <1>4
  <2>1. e \in Enterprises /\ u \in UserIds
    BY <1>1 DEF Knows, Registering, Jobs, AccountsInv, BasicInv, AccountsTypeOK
  <2>2. Registers(w) /\ card' = [card EXCEPT ![u][e] = job[w].card]
    BY DEF InsertLink
  <2>3. \A v \in UserIds : v # u => card'[v] = card[v]
    BY <2>2 DEF AccountsInv, BasicInv, AccountsTypeOK
  <2>4. card'[u][e] = job[w].card /\ \A x \in Enterprises : x # e => card'[u][x] = card[u][x]
    BY <2>1, <2>2 DEF AccountsInv, BasicInv, AccountsTypeOK
  <2>5. \A v \in UserIds : v # u => Links(v)' = Links(v)
    BY <2>3 DEF Links
  <2>6. Links(u)' \subseteq Links(u) \cup {e} /\ Links(u) \subseteq Links(u)'
    BY <2>4 DEF Links
  <2>7. LinksAreFinite'
    <3>1. IsFiniteSet(Links(u) \cup {e})
      BY <2>1, FS_AddElement DEF SoleInv, LinksAreFinite
    <3>2. IsFiniteSet(Links(u)')
      BY <2>6, <3>1, FS_Subset
    <3> QED BY <2>5, <3>2 DEF SoleInv, LinksAreFinite
  <2>8. PICK j \in Jobs \cup {None} :
          /\ job' = [job EXCEPT ![w] = j]
          /\ job[w].new => j # None
          /\ j # None => j.at = "register" /\ j.user = u /\ j.enterprise = e /\ j.new
    <3>1. CASE ~job[w].new
      BY <2>2, <3>1 DEF Registers, Ends
    <3>2. CASE job[w].new
      <4> DEFINE k == [job[w] EXCEPT !.at = "register"]
      <4>1. k \in Jobs /\ job' = [job EXCEPT ![w] = k] /\ k.at = "register" /\ k.user = u
            /\ k.enterprise = e /\ k.new
        <5>1. Goes(w, "register") /\ "register" \in Stages
          BY <2>2, <3>2 DEF Registers, Stages
        <5>2. k.new = job[w].new
          BY <1>1, <5>1, GoingOn
        <5> QED BY <1>1, <3>2, <5>1, <5>2, GoingOn
      <4> HIDE DEF k
      <4> QED BY <4>1, NoneIsNoJob
    <3> QED BY <3>1, <3>2
  <2>9. ASSUME Lone', j # None PROVE SoleJob(j)'
    <3>1. SoleJob(job[w]) /\ job'[w] = j /\ Lone
      BY <1>1, <1>2, <2>8, <2>9, SoleStep
    <3>2. e \in Links(u)'
      BY <1>1, <2>1, <2>4, <3>1 DEF SoleJob, Links
    <3>3. job[w].new
      BY <2>2, <2>8, <2>9, <3>1 DEF Registers, Ends, AccountsInv, BasicInv, AccountsTypeOK
    <3>4. Links(u)' \subseteq {e}
      BY <2>6, <3>1, <3>3 DEF SoleJob
    <3> QED BY <1>2, <2>8, <2>9, <3>2, <3>4 DEF SoleJob, Links
  <2>10. LoneInv'
    BY <1>1, <1>2, <2>8, <2>9, LoneMove
  <2>11. WholeInv'
    <3> SUFFICES ASSUME mishaps' = {} PROVE WholeInv'
      BY DEF WholeInv
    <3>1. /\ \A v \in users : (Tends(job[w]) /\ u = v) \/ (email[v] \in logins /\ Links(v) # {})
          /\ \A v, x \in users : email[v] = email[x] => v = x
      BY <1>1, <1>2, WholeNow
    <3>2. Tends(job[w]) => job[w].new
      BY <1>1 DEF Tends
    <3>3. job[w].new => j # None /\ Tends(j) /\ j.user = u
      BY <2>8 DEF Tends
    <3>4. \A v \in users : v \in UserIds /\ (Links(v) # {} => Links(v)' # {})
      BY <2>5, <2>6 DEF AccountsInv, BasicInv, AccountsTypeOK
    <3>5. \A v \in users' : (j # None /\ Tends(j) /\ j.user = v)
                            \/ (email'[v] \in logins' /\ Links(v)' # {})
      BY <1>2, <3>1, <3>2, <3>3, <3>4
    <3> QED BY <1>1, <1>2, <2>8, <3>1, <3>5, WholeMove
  <2> QED BY <2>7, <2>10, <2>11 DEF SoleInv
<1> QED BY <1>3, <1>4

LEMMA RegisterIsSole ==
  ASSUME AccountsInv, SoleInv, NEW w \in Workers, Register(w)
  PROVE  SoleInv'
<1>1. job[w] \in Jobs /\ job[w].at = "register" /\ Busy(w) /\ Knows(job[w]) /\ job[w].new
  BY AtKnows DEF Register, Knows
<1>2. users' = users /\ email' = email /\ card' = card /\ mishaps \subseteq mishaps'
      /\ logins \subseteq logins'
  BY DEF Register
<1> DEFINE k == [job[w] EXCEPT !.at = "delete_links"]
<1>3. Goes(w, "delete_links") =>
        job' = [job EXCEPT ![w] = k] /\ k.at = "delete_links" /\ k.user = job[w].user
        /\ k.enterprise = job[w].enterprise /\ k.new = job[w].new /\ k \in Jobs
  BY <1>1, GoingOn DEF Stages
<1> HIDE DEF k
<1>4. PICK j \in {None, k} :
        /\ job' = [job EXCEPT ![w] = j]
        /\ j # None => /\ j.at = "delete_links" /\ j.user = job[w].user
                       /\ j.enterprise = job[w].enterprise /\ j.new
        /\ mishaps' = {} => j # None \/ job[w].email \in logins'
  <2>1. CASE Ends(w) /\ logins' = logins \cup {job[w].email}
    BY <2>1 DEF Ends
  <2>2. CASE RollsBack(w)
    <3>1. Goes(w, "delete_links")
      BY <1>1, <2>2 DEF RollsBack
    <3>2. k # None
      BY <1>3, <3>1, NoneIsNoJob
    <3> QED BY <1>1, <1>3, <3>1, <3>2
  <2> QED BY <2>1, <2>2 DEF Register
<1>5. \A v : Links(v)' = Links(v)
  BY <1>2 DEF Links
<1>6. LinksAreFinite'
  BY <1>5 DEF SoleInv, LinksAreFinite
<1>7. ASSUME Lone', j # None PROVE SoleJob(j)'
  <2>1. SoleJob(job[w])
    BY <1>1, <1>2, <1>4, <1>7, SoleStep
  <2> QED BY <1>1, <1>2, <1>4, <1>7, <2>1 DEF SoleJob, Links
<1>8. LoneInv'
  BY <1>1, <1>2, <1>4, <1>7, LoneMove
<1>9. WholeInv'
  <2> SUFFICES ASSUME mishaps' = {} PROVE WholeInv'
    BY DEF WholeInv
  <2>1. mishaps = {}
    BY <1>2
  <2>2. /\ \A v \in users : job[w].user = v \/ (email[v] \in logins /\ Links(v) # {})
        /\ \A v, x \in users : email[v] = email[x] => v = x
    BY <1>1, <2>1, WholeNow
  <2>3. email[job[w].user] = job[w].email
    BY <1>1, <2>1 DEF AccountsInv, MildInv, NewRowsStand
  <2>4. Links(job[w].user) # {}
    <3>1. SoleJob(job[w])
      BY <1>1, <2>1 DEF SoleInv, LoneInv, Lone
    <3> QED BY <1>1, <3>1 DEF SoleJob
  <2>5. j # None => Tends(j) /\ j.user = job[w].user
    BY <1>4 DEF Tends
  <2>6. \A v \in users' : (j # None /\ Tends(j) /\ j.user = v)
                          \/ (email'[v] \in logins' /\ Links(v)' # {})
    BY <1>2, <1>4, <1>5, <2>2, <2>3, <2>4, <2>5
  <2> QED BY <1>1, <1>2, <1>4, <2>2, <2>6, WholeMove
<1> QED BY <1>6, <1>8, <1>9 DEF SoleInv

\* A request that removes one link leaves the user another.
LEMMA RemoveLinkIsSole ==
  ASSUME AccountsInv, SoleInv, NEW w \in Workers, RemoveLink(w)
  PROVE  SoleInv'
<1> PICK u, e : u = job[w].user /\ e = job[w].enterprise
  OBVIOUS
<1>1. job[w] \in Jobs /\ job[w].at = "remove" /\ Busy(w) /\ Knows(job[w]) /\ ~job[w].new
  BY AtKnows DEF RemoveLink, Knows
<1>2. users' = users /\ email' = email /\ logins' = logins /\ mishaps' = mishaps
      /\ job' = [job EXCEPT ![w] = None] /\ card' = [card EXCEPT ![u][e] = 0]
  BY DEF RemoveLink, Ends
<1>3. \A v \in UserIds, x \in Enterprises :
        card'[v][x] = IF v = u /\ x = e THEN 0 ELSE card[v][x]
  BY <1>2 DEF AccountsInv, BasicInv, AccountsTypeOK
<1>4. \A v \in UserIds : Links(v)' = IF v = u THEN Links(v) \ {e} ELSE Links(v)
  BY <1>3 DEF Links
<1>5. LinksAreFinite'
  <2>1. \A v \in UserIds : Links(v)' \subseteq Links(v)
    BY <1>4
  <2> QED BY <2>1, FS_Subset DEF SoleInv, LinksAreFinite
<1>6. LoneInv'
  BY <1>1, <1>2, LoneMove
<1>7. WholeInv'
  <2> SUFFICES ASSUME mishaps' = {} PROVE WholeInv'
    BY DEF WholeInv
  <2>1. SoleJob(job[w])
    BY <1>1, <1>2 DEF SoleInv, LoneInv, Lone
  <2>2. e \in Links(u) /\ Links(u) # {e}
    BY <1>1, <2>1 DEF SoleJob
  <2>3. /\ \A v \in users : email[v] \in logins /\ Links(v) # {}
        /\ \A v, x \in users : email[v] = email[x] => v = x
    BY <1>1, <1>2, WholeNow DEF Tends
  <2>4. \A v \in users : v \in UserIds
    BY DEF AccountsInv, BasicInv, AccountsTypeOK
  <2>5. \A v \in users : Links(v)' # {}
    BY <1>4, <2>2, <2>3, <2>4
  <2> QED BY <1>1, <1>2, <2>3, <2>5, WholeMove
<1> QED BY <1>5, <1>6, <1>7 DEF SoleInv

\* No other row has the e-mail of the account that goes.
LEMMA UnregisterIsSole ==
  ASSUME AccountsInv, SoleInv, NEW w \in Workers, Unregister(w)
  PROVE  SoleInv'
<1>1. job[w] \in Jobs /\ job[w].at = "unregister" /\ Busy(w) /\ Knows(job[w]) /\ ~job[w].new
  BY AtKnows DEF Unregister, Knows
<1>2. users' = users /\ email' = email /\ card' = card /\ mishaps \subseteq mishaps'
  BY DEF Unregister
<1> DEFINE k == [job[w] EXCEPT !.at = "delete_links"]
<1>3. Goes(w, "delete_links") =>
        job' = [job EXCEPT ![w] = k] /\ k.at = "delete_links" /\ k.user = job[w].user
        /\ k.enterprise = job[w].enterprise /\ k.new = job[w].new /\ k \in Jobs
  BY <1>1, GoingOn DEF Stages
<1> HIDE DEF k
<1>4. PICK j \in {None, k} :
        /\ job' = [job EXCEPT ![w] = j]
        /\ j # None => /\ j.at = "delete_links" /\ j.user = job[w].user
                       /\ j.enterprise = job[w].enterprise /\ ~j.new
        /\ mishaps' = {} => \/ j # None /\ logins' = logins \ {job[w].email}
                            \/ logins' = logins
  <2>1. CASE Ends(w) /\ (mishaps' = mishaps \cup {"silence"} \/ logins' = logins)
    BY <2>1 DEF Ends
  <2>2. CASE Goes(w, "delete_links") /\ logins' = logins \ {job[w].email}
    <3>1. k # None
      BY <1>3, <2>2, NoneIsNoJob
    <3> QED BY <1>1, <1>3, <2>2, <3>1
  <2> QED BY <2>1, <2>2 DEF Unregister
<1>5. \A v : Links(v)' = Links(v)
  BY <1>2 DEF Links
<1>6. LinksAreFinite'
  BY <1>5 DEF SoleInv, LinksAreFinite
<1>7. ASSUME Lone', j # None PROVE SoleJob(j)'
  <2>1. SoleJob(job[w])
    BY <1>1, <1>2, <1>4, <1>7, SoleStep
  <2> QED BY <1>1, <1>2, <1>4, <1>7, <2>1 DEF SoleJob, Links
<1>8. LoneInv'
  BY <1>1, <1>2, <1>4, <1>7, LoneMove
<1>9. WholeInv'
  <2> SUFFICES ASSUME mishaps' = {} PROVE WholeInv'
    BY DEF WholeInv
  <2>1. mishaps = {}
    BY <1>2
  <2>2. /\ \A v \in users : email[v] \in logins /\ Links(v) # {}
        /\ \A v, x \in users : email[v] = email[x] => v = x
    BY <1>1, <2>1, WholeNow DEF Tends
  <2>3. email[job[w].user] = job[w].email
    BY <1>1, <2>1 DEF AccountsInv, MildInv, DeletionsKnow
  <2>4. job[w].user \in users
    <3>1. SoleJob(job[w])
      BY <1>1, <2>1 DEF SoleInv, LoneInv, Lone
    <3> QED BY <1>1, <3>1 DEF SoleJob
  <2>5. j # None => Tends(j) /\ j.user = job[w].user
    BY <1>4 DEF Tends
  <2>6. ASSUME NEW v \in users
        PROVE  (j # None /\ Tends(j) /\ j.user = v) \/ (email[v] \in logins' /\ Links(v)' # {})
    <3>1. CASE logins' = logins
      BY <1>5, <2>2, <3>1
    <3>2. CASE j # None /\ logins' = logins \ {job[w].email} /\ v # job[w].user
      BY <1>5, <2>2, <2>3, <2>4, <3>2
    <3>3. CASE j # None /\ v = job[w].user
      BY <2>5, <3>3
    <3> QED BY <1>4, <3>1, <3>2, <3>3
  <2> QED BY <1>1, <1>2, <1>4, <2>2, <2>6, WholeMove
<1> QED BY <1>6, <1>8, <1>9 DEF SoleInv

LEMMA DeleteLinksIsSole ==
  ASSUME AccountsInv, SoleInv, NEW w \in Workers, DeleteLinks(w)
  PROVE  SoleInv'
<1> PICK u : u = job[w].user
  OBVIOUS
<1>1. job[w] \in Jobs /\ job[w].at = "delete_links" /\ Busy(w) /\ Knows(job[w])
  BY AtKnows DEF DeleteLinks
<1>2. users' = users /\ email' = email /\ logins' = logins /\ mishaps' = mishaps
      /\ Goes(w, "delete_row") /\ card' = [card EXCEPT ![u] = [e \in Enterprises |-> 0]]
  BY DEF DeleteLinks
<1>3. PICK j \in Jobs : job' = [job EXCEPT ![w] = j] /\ j.at = "delete_row" /\ j.user = u
                        /\ (j.new <=> job[w].new)
  <2> DEFINE k == [job[w] EXCEPT !.at = "delete_row"]
  <2>1. k \in Jobs /\ job' = [job EXCEPT ![w] = k] /\ k.at = "delete_row" /\ k.user = u
        /\ k.new = job[w].new
    BY <1>1, <1>2, GoingOn DEF Stages
  <2> HIDE DEF k
  <2> QED BY <2>1
<1>4. \A v \in UserIds, x \in Enterprises : card'[v][x] = IF v = u THEN 0 ELSE card[v][x]
  BY <1>2 DEF AccountsInv, BasicInv, AccountsTypeOK
<1>5. \A v \in UserIds : Links(v)' = IF v = u THEN {} ELSE Links(v)
  BY <1>4 DEF Links
<1>6. LinksAreFinite'
  <2>1. \A v \in UserIds : Links(v)' \subseteq Links(v)
    BY <1>5
  <2> QED BY <2>1, FS_Subset DEF SoleInv, LinksAreFinite
<1>7. ASSUME Lone' PROVE SoleJob(j)'
  <2>1. u \in users
    BY <1>1, <1>2, <1>7 DEF SoleInv, LoneInv, Lone, SoleJob
  <2>2. Links(u)' = {}
    BY <1>5, <2>1 DEF AccountsInv, BasicInv, AccountsTypeOK
  <2> QED BY <1>2, <1>3, <2>1, <2>2 DEF SoleJob
<1>8. LoneInv'
  BY <1>1, <1>2, <1>3, <1>7, LoneMove
<1>9. WholeInv'
  <2> SUFFICES ASSUME mishaps' = {} PROVE WholeInv'
    BY DEF WholeInv
  <2>1. /\ \A v \in users : u = v \/ (email[v] \in logins /\ Links(v) # {})
        /\ \A v, x \in users : email[v] = email[x] => v = x
    BY <1>1, <1>2, WholeNow
  <2>2. j # None /\ Tends(j)
    BY <1>3, NoneIsNoJob DEF Tends
  <2>3. \A v \in users : v \in UserIds
    BY DEF AccountsInv, BasicInv, AccountsTypeOK
  <2>4. \A v \in users' : (j # None /\ Tends(j) /\ j.user = v)
                          \/ (email'[v] \in logins' /\ Links(v)' # {})
    BY <1>2, <1>3, <1>5, <2>1, <2>2, <2>3
  <2> QED BY <1>1, <1>2, <1>3, <2>1, <2>4, WholeMove
<1> QED BY <1>6, <1>8, <1>9 DEF SoleInv

\* With no link left the row goes for certain.
LEMMA DeleteRowIsSole ==
  ASSUME AccountsInv, SoleInv, NEW w \in Workers, DeleteRow(w)
  PROVE  SoleInv'
<1> PICK u : u = job[w].user
  OBVIOUS
<1>1. job[w] \in Jobs /\ job[w].at = "delete_row" /\ Busy(w)
  BY AtKnows DEF DeleteRow
<1>2. card' = card /\ logins' = logins /\ mishaps' = mishaps /\ job' = [job EXCEPT ![w] = None]
  BY DEF DeleteRow, Ends
<1>3. \A v : Links(v)' = Links(v)
  BY <1>2 DEF Links
<1>4. LinksAreFinite'
  BY <1>3 DEF SoleInv, LinksAreFinite
<1>5. LoneInv'
  BY <1>1, <1>2, LoneMove
<1>6. WholeInv'
  <2> SUFFICES ASSUME mishaps' = {} PROVE WholeInv'
    BY DEF WholeInv
  <2>1. SoleJob(job[w])
    BY <1>1, <1>2 DEF SoleInv, LoneInv, Lone
  <2>2. users' = users \ {u} /\ email' = [email EXCEPT ![u] = None]
    BY <1>1, <2>1 DEF SoleJob, DeleteRow
  <2>3. \A v \in users' : v \in users /\ v # u /\ email'[v] = email[v]
    BY <2>2 DEF AccountsInv, BasicInv, AccountsTypeOK
  <2>4. /\ \A v \in users : u = v \/ (email[v] \in logins /\ Links(v) # {})
        /\ \A v, x \in users : email[v] = email[x] => v = x
    BY <1>1, <1>2, WholeNow
  <2>5. \A v \in users' : email'[v] \in logins' /\ Links(v)' # {}
    BY <1>2, <1>3, <2>3, <2>4
  <2>6. \A v, x \in users' : email'[v] = email'[x] => v = x
    BY <2>3, <2>4
  <2> QED BY <1>1, <1>2, <2>5, <2>6, WholeMove
<1> QED BY <1>4, <1>5, <1>6 DEF SoleInv

LEMMA SaveUserIsSole ==
  ASSUME AccountsInv, SoleInv, NEW w \in Workers, SaveUser(w)
  PROVE  SoleInv'
<1>1. job[w] \in Jobs /\ job[w].at = "save" /\ Busy(w) /\ Knows(job[w]) /\ ~job[w].new
  BY AtKnows DEF SaveUser, Knows
<1>2. users' = users /\ card' = card /\ logins' = logins /\ Ends(w)
  BY DEF SaveUser
<1>3. CASE email' = email /\ mishaps' = mishaps
  BY <1>1, <1>2, <1>3, SoleEnd DEF Tends
<1>4. CASE mishaps' = mishaps \cup {"rename"}
  <2>1. LinksAreFinite'
    BY <1>2 DEF SoleInv, LinksAreFinite, Links
  <2>2. LoneInv'
    BY <1>1, <1>2, <1>4, LoneMove DEF Ends
  <2>3. WholeInv'
    BY <1>4 DEF WholeInv
  <2> QED BY <2>1, <2>2, <2>3 DEF SoleInv
<1> QED BY <1>3, <1>4 DEF SaveUser

LEMMA CrashIsSole ==
  ASSUME AccountsInv, SoleInv, NEW w \in Workers, Crash(w)
  PROVE  SoleInv'
<1>1. mishaps \subseteq mishaps' /\ mishaps' # {}
  BY DEF Crash
<1> QED BY <1>1, SoleEnd DEF Crash

-----------------------------------------------------------------------------
LEMMA SoleInvIsInductive == AccountsInv /\ SoleInv /\ [Next]_vars => SoleInv'
<1> SUFFICES ASSUME AccountsInv, SoleInv, [Next]_vars PROVE SoleInv'
  OBVIOUS
<1>1. CASE UNCHANGED vars
  <2>1. LinksAreFinite'
    BY <1>1 DEF vars, SoleInv, LinksAreFinite, Links
  <2>2. LoneInv'
    BY <1>1 DEF vars, SoleInv, LoneInv, Lone, SoleJob, Links, Busy
  <2>3. WholeInv'
    BY <1>1 DEF vars, SoleInv, WholeInv, Tended, Tends, Rows, Links, Busy
  <2> QED BY <2>1, <2>2, <2>3 DEF SoleInv
<1>2. ASSUME NEW w \in Workers,
             \/ Start(w) \/ FindByEmail(w) \/ FindLink(w) \/ ReadNextCard(w) \/ VerifyNoLogin(w)
             \/ InsertUser(w) \/ InsertLink(w) \/ Register(w)
      PROVE  SoleInv'
  BY <1>2, StartIsSole, FindByEmailIsSole, FindLinkIsSole, ReadNextCardIsSole, VerifyNoLoginIsSole,
     InsertUserIsSole, InsertLinkIsSole, RegisterIsSole
<1>3. ASSUME NEW w \in Workers,
             \/ FindTarget(w) \/ CountLinks(w) \/ RemoveLink(w) \/ ReadDoomed(w) \/ LookLoginUp(w)
             \/ Unregister(w) \/ DeleteLinks(w) \/ DeleteRow(w)
      PROVE  SoleInv'
  BY <1>3, FindTargetIsSole, CountLinksIsSole, RemoveLinkIsSole, ReadDoomedIsSole,
     LookLoginUpIsSole, UnregisterIsSole, DeleteLinksIsSole, DeleteRowIsSole
<1>4. ASSUME NEW w \in Workers, UpdatePassword(w) \/ SaveUser(w) \/ Crash(w)
      PROVE  SoleInv'
  BY <1>4, UpdatePasswordIsSole, SaveUserIsSole, CrashIsSole
<1> QED BY <1>1, <1>2, <1>3, <1>4 DEF Next

LEMMA InitIsSole == Init => SoleInv
<1> SUFFICES ASSUME Init PROVE SoleInv
  OBVIOUS
<1>1. \A u \in UserIds : Links(u) = {}
  BY DEF Init, Links
<1>2. LinksAreFinite
  BY <1>1, FS_EmptySet DEF LinksAreFinite
<1>3. LoneInv /\ WholeInv
  BY DEF Init, LoneInv, WholeInv, Busy
<1> QED BY <1>2, <1>3 DEF SoleInv

LEMMA SoleInvHolds == Spec => [](AccountsInv /\ SoleInv)
BY InitSatisfies, InitIsSole, AccountsInvIsInductive, SoleInvIsInductive, PTL DEF Spec

\* With nothing gone wrong, every row that the requests leave behind can log in
\* and is of some enterprise, and no two rows share an e-mail: the registration
\* or the deletion that is not through yet is the only exception.
THEOREM AccountsStayWhole == Spec => []AccountsAreWhole
<1>1. SoleInv => AccountsAreWhole
  BY DEF SoleInv, WholeInv, AccountsAreWhole, Tended, Quiet
<1> QED BY <1>1, SoleInvHolds, PTL

\* A step that takes a link away is that of a request about its enterprise.
LEMMA OnlyOwnLinksGo ==
  ASSUME AccountsInv, SoleInv, Next, Lone', NEW u \in UserIds, NEW e \in Links(u),
         card'[u][e] = 0
  PROVE  \E w \in Workers : Busy(w) /\ job[w].enterprise = e
<1>1. card[u][e] # 0 /\ e \in Enterprises
  BY DEF Links
<1>2. PICK w \in Workers : RemoveLink(w) \/ InsertLink(w) \/ DeleteLinks(w)
  BY <1>1 DEF Next, Start, FindByEmail, FindLink, ReadNextCard, VerifyNoLogin, InsertUser, Register,
              FindTarget, CountLinks, ReadDoomed, LookLoginUp, Unregister, DeleteRow,
              UpdatePassword, SaveUser, Crash, Reads
<1>3. CASE RemoveLink(w)
  <2>1. e = job[w].enterprise
    BY <1>1, <1>3 DEF RemoveLink, AccountsInv, BasicInv, AccountsTypeOK
  <2> QED BY <1>3, <2>1 DEF RemoveLink, At
<1>4. CASE InsertLink(w)
  <2>1. card'[u][e] \in {card[u][e], job[w].card}
    BY <1>4 DEF InsertLink, AccountsInv, BasicInv, AccountsTypeOK
  <2>2. At(w, "link") /\ mishaps' = mishaps
    BY <1>4 DEF InsertLink
  <2>3. SoleJob(job[w])
    BY <2>2 DEF SoleInv, LoneInv, Lone, At
  <2> QED BY <1>1, <2>1, <2>2, <2>3 DEF SoleJob, At
<1>5. CASE DeleteLinks(w)
  <2>1. At(w, "delete_links") /\ mishaps' = mishaps
    BY <1>5 DEF DeleteLinks
  <2>2. u = job[w].user
    BY <1>1, <1>5 DEF DeleteLinks, AccountsInv, BasicInv, AccountsTypeOK
  <2>3. Links(u) \subseteq {job[w].enterprise}
    BY <2>1, <2>2 DEF SoleInv, LoneInv, Lone, At, SoleJob
  <2> QED BY <2>1, <2>3 DEF At
<1> QED BY <1>2, <1>3, <1>4, <1>5

\* While requests come one at a time, no link goes but those with the enterprise
\* of the request, though deleteById removes every link of the user.
THEOREM OtherLinksAreKept == Spec => UnlinkKeepsOtherLinks
<1> DEFINE Kept == mishaps' \cap {"registrations", "overlap"} = {} =>
             \A u \in UserIds : \A e \in Links(u) :
               card'[u][e] = 0 => \E w \in Workers : Busy(w) /\ job[w].enterprise = e
<1>1. AccountsInv /\ SoleInv /\ [Next]_vars => [Kept]_vars
  BY OnlyOwnLinksGo DEF Lone
<1> QED BY <1>1, SoleInvHolds, PTL DEF Spec, UnlinkKeepsOtherLinks
=============================================================================
