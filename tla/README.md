# TLA+ models of the WebPi backend

The repository is a NestJS backend (TypeScript, TypeORM over PostgreSQL) for small enterprises:
invoices and spents with their stock, quotes and orders, employees with their shifts and clock-ins,
roles and permissions, and the subscription that pays for it all. Three outside stores take part in
its state: Firebase (the logins), Stripe (the subscription) and Dropbox (documents).

This directory holds TLA+ modules of the parts whose correctness depends on the order of things,
the configurations with which TLC checks them on small instances, and proofs checked by TLAPS.

* `tlc -config <run>.cfg MC<Module>.tla` checks a run; `PROJECT.json` lists them under "runs".
* `tlapm <Module>Proofs.tla` checks the proofs of a module.
* `PROJECT.json` also says which lines each definition stands for ("map"), which small changes of a
  definition break each property ("mutants"), and what is hard to test in the code ("hazards").

## 1. The system

### How a request runs

`FirebaseMiddleware` verifies the token and loads the user; the guards build the access context of
the request and check the tenant (`enterpriseId`) and the permission (`@RequirePermission`); the
controller calls one service; the service calls repositories, one SQL statement per `await`.

Three facts shape everything below:

* **Almost nothing runs in a transaction.** The exceptions are the save of a whole spent
  (`SpentGraphPersistenceService`) and the correction of a signing. Any other handler that fails or
  dies half-way leaves what it has written, and any two handlers may interleave at every `await`.
* **Repositories update by reading and saving.** `updateById` is `findOne` followed by
  `save({...existing, ...changes})`, and several services pass a whole entity they read earlier.
  A column may be written back with a value that is no longer the current one.
* **Most bodies are saved as they come.** No pipe validates those of clients, suppliers, series,
  earnings, quotes, orders, invoices, items, categories, spents and enterprises, and a handler looks
  at some of their columns only. What else they carry is saved with them: an id, which decides the
  row that is written; relation objects, which count more than the columns beside them; collections,
  whose members come to name the row.

What holds the data together is therefore the order of the statements, the unique keys and the
foreign keys, and these are what the modules model.

### Inventory

| Component | State | Operations | What is hard about it | Correct means |
|---|---|---|---|---|
| Inventory ledger, invoices, invoice lines and their serials, spents, spent lines and their serials | `item_serials.status`, `invoices.status`, lines, quantities, rows that name units, `stock_movements` | reserve, swap, release, issue, cancel, reopen, patch, delete; buy, void, purge | two sides write the same units and the same kardex; handlers fail half-way; the status of a unit is all that release and return look at; routes that change an invoice without its stock | one invoice per unit; the status of a unit, the documents that show it and the kardex agree |
| Spent graph | the same tables | save a whole spent in one transaction | reads before the transaction; deletion order against foreign keys | all or nothing; no unit of a sold line disappears |
| Enterprise roles and permissions | `enterprise_roles`, `user_enterprise.enterprise_role_id` | seed, create, update, delete, assign | checks some statements before the write; a default role that must not change | the founding Administrador is fixed; who may change may see; a link holds a role of its own enterprise |
| Users and Firebase | `users`, `user_enterprise`, accounts in Firebase | register, link, unlink, delete, change e-mail or password | two stores without a common transaction; a lookup that takes any failure for absence; a count read before a delete | no login without a user; no user without a login; an unlink removes one link |
| Work schedules | `schedules` | book, edit, delete | check of clashes before the write, no constraint in the table; an edit of one end judged with the other as read | shifts run forward and do not overlap |
| Signings | `signings`, `signings_updates` | clock in, clock out, correct, cancel | `create` never checks the order that `updateById` insists on; durations derived in a second step, which reads the start and saves its whole row, and whose failure is swallowed; the day is read outside the transaction | the history is a chain; each end closes one start; durations match the day |
| Billing and Stripe | the subscription, its schedule, `cancel_at_period_end` | change price and quota, cancel, revoke | a reduction waits in a schedule; the schedule goes before the new plan is charged; periods end on their own | the plan in force is paid; a quota falls only at the end of a period; the last change wins |
| Enterprises, settings | `enterprises`, `enterprise_settings`, roles, a folder in Dropbox | create, update, logo, delete; upsert of a setting | tables seeded one after the other; a change of a setting that inserts the row it misses; a folder that goes after the row | one row per setting; nothing of one enterprise in another |
| Invoices, quotes and orders as documents; series, recurrent earnings, clients | `seriesNumber`, parties copied at the issue, statuses, the references between them | create, update, change of status, delete | number = highest of the series + 1 without a unique key; many routes lead to an issued invoice, the id in another one's body among them; the relation objects of an earning are saved unread | numbers run on; what is issued stays; both ends of a reference are of one enterprise |
| Lines of quotes, orders and invoices; items, item categories | rows that hang from documents and items | create, update, delete | the status of the document is read before the line is written; foreign keys null or delete a line from elsewhere | settled lines stay; a line sells what its enterprise has |
| Suppliers, spents and their categories | headers of spents, tax numbers | create, update, delete | checks before the insert; whole rows saved as read | one row per tax number |
| Client documents, files of spents, logo | a row and a file in Dropbox | upload, replace, delete | two stores, rollback by hand, answers that are lost | no row without its file and no file without its row |
| Default schedules, holidays, vacations | one table each, links that work to a schedule | create, update, delete | a schedule is checked against the enterprise of the link, then saved | schedules of one's own enterprise |
| Middleware, guards, access context | the context of a request | build, check | frozen when the request begins; the guards judge the enterprise of the query, or else of the body, of the link or of the path, and the handler may act on another one | only its own people change an enterprise and let people in; a right taken away stops being used |
| Items counted by quantity | movements of their lines, flags `serialNumber` and `stock` | issue, cancel, purchase, edit, purge | two ways to write the lines of a spent; the movement is what the flags and the quantity say when it is written; a movement of nothing is refused half-way | the kardex has what the live documents bill, and nothing of the cancelled ones |
| AI log, metrics, query builder, OCR, OpenAI, PDF, shell | none that is read again | conversions and queries | pure I/O | – |

How they interact: invoices and spents meet in the units and the kardex; roles and users meet in the
links (`user_enterprise`); work schedules, signings, vacations and roles hang from a link; documents
hang from clients and suppliers, and these from enterprises, with foreign keys that delete, null or
refuse; the foundation of an enterprise seeds roles and settings; the context that judges a request
is what links and roles were when it began; billing shows the number of active users of an
enterprise next to its quota, but nothing refuses a user beyond it. All communication is through the
tables and by direct calls: there are no queues, timers or webhooks.

## 2. The modules

| Module | What it is |
|---|---|
| `UnitAllocation` | What the serial inventory promises, with the tables hidden: units are held by one invoice at a time |
| `InventoryLedger` | The inventory, one action per HTTP handler, with the outcomes of handlers that fail half-way |
| `InventoryRefinement` | The mapping by which the ledger implements `UnitAllocation` |
| `InventoryRequests` | The same handlers, one action per statement, for any number of requests in flight and with crashes |
| `QuantityStock` | The stock of items without serial numbers: the movements of their lines, one action per handler |
| `SerialRequests` | Requests one after the other, with the history variable by which they implement `InventoryLedger` |
| `Permissions` | The permissions of a role: validation, normalisation, evaluation |
| `EnterpriseRoles` | Roles and the links that hold them, await by await; EXTENDS `Permissions` |
| `UserAccounts` | Users, links and Firebase accounts, call by call |
| `WorkSchedules` | Shifts of one link, await by await |
| `TimeClock` | Signings of one link with their durations and history, await by await |
| `Billing` | The subscription in Stripe, call by call |
| `Routes` | Every endpoint of the controllers: where it takes its enterprise from, and the permission it requires |
| `Access` | Calls through middleware, guards and services, judged by the context frozen when they began; EXTENDS `Routes`, `Permissions` |
| `BackOfficeTables` | The tables of the back office and what the database does with a statement: keys, cascades, refusals, saves of whole rows |
| `StoredFiles` | Documents of clients and files of spents: rows and Dropbox |
| `Workplace` | Enterprises, settings, default schedules, holidays, links, vacations; EXTENDS `StoredFiles` |
| `SalesDocuments` | Clients, series, earnings, quotes, orders, invoices as numbered documents |
| `Catalogue` | Items, categories, lines of documents, suppliers, spents |
| `BackOffice` | Composes the five: requests in flight together over one database and one Dropbox, with crashes |
| `InventoryRequestsInvariants` | What the proofs about `InventoryRequests` carry from step to step: its inductive invariants and their parts |
| `MC...` | Instances for TLC: values of the constants, symmetry, and the constraint of one run |
| `...Proofs` | Theorems and proofs, checked by TLAPS; `AccessProofs` holds those of roles as well |

### How state and actions correspond to the code

**InventoryLedger.** Variables are columns: `status` is `item_serials.status` (`"absent"`: no row),
`invoice` and `spent` the statuses of the documents, `lines` and `spentLines` the rows of
`invoice_concepts` and `spent_concepts`, `rows` and `purchaseRows` the tables of serials as pairs of
a line and a unit. The kardex is kept as what the properties ask of it: per unit the balance of each
side (`saleNet`, `purchaseNet`), and the pairs some movement refers to (`saleMoves`,
`purchaseMoves`), because foreign keys from movements decide which deletions succeed. An action has
the name of the handler (`CreateInvoiceConceptSerial` is `InvoiceConceptSerialService.create`) or of
what it does to the status (`updateStatusById` is `IssueInvoice`, `CancelDraftInvoice`,
`CancelIssuedInvoice` and `ReopenInvoice`). A handler that may stop half-way has a second action for
that outcome: `RefuseIssue`, `RejectSpentCancel`, `FailDeleteSpent`, `FailDeleteSpentConcept`.
Four irregular routes are accepted by the API and bypass the stock; the constant `Routes` says which
of them the clients of an instance take.

**InventoryRequests.** A worker holds a request; each query is an action that goes on, ends the
request or writes down the list of statements that remain (`todo`), and `Execute` runs them one by
one, each refused by a missing row, a foreign key or a unique key as the database would. What the
plan contains is decided by what was read, which is where races come from. `Crash` ends a request
anywhere. `LoadGraph` and `CheckGraphUnits` are the reads of `updateSpentGraph` before its
transaction, which is then one statement. A behaviour keeps to one `load` of the constant `Loads`:
the handlers each worker serves, the units, lines and spent lines they are about, how large the
quantities and how many the crashes may be. `SerialRequests` adds the history variable `shown`: with
one worker and no crashes it is what the tables were when no request was under way.

**QuantityStock.** `line` is the item and the quantity of each row of `invoice_concepts` and
`spent_concepts`, `kind` the two flags of an item (`"counted"`: `stock` without `serialNumber`), and
`ins` and `outs` the sums of the movements of a line by item and direction: no handler reads more of
a movement than that. Handlers run to their end or to the statement that stops them, which is
`createMovement` when a quantity is 0; `Before` says which lines had their turn by then. `mishaps`
remembers the ways in which kardex and documents part: flags switched (`switched`), an invoice
issued or cancelled by its PATCH (`patched`), reopened, stopped half-way (`sale_halfway`), a spent
line that leaves its counted item (`relinked`), a spent cancelled or purged half-way
(`purchase_halfway`).

**EnterpriseRoles.** A request is a record: the stage it is at, its body and what it has read. Each
action is one statement, for example `ReadRole` (the `findById` that opens an update, a deletion and
an assignment, with the checks that follow it), `FindCollision`, `SaveRole`. `Leave` is the end of a
link; the deletion of an enterprise and of a user are elsewhere. `seeded` remembers the role that a
foundation inserted as its Administrador.

**UserAccounts.** `logins` is what Firebase holds; `Register`, `Unregister`, `LookLoginUp` and
`VerifyNoLogin` are calls to it and may be answered, be refused, or fail with or without effect.
The variable `mishaps` remembers what has gone wrong (a crash, a call without an answer, a change of
e-mail, registrations in flight together, other requests in flight together), so that every property
says under which of them it holds. Properties fail for the others; the code has no repair for them.

**WorkSchedules.** `met` remembers which requests were in flight together. **TimeClock.** `habits`
remembers what the client did to the day (created out of order, typed a duration, cancelled) and
`mishaps` what went wrong; `entangled` the signings of which two edits were in flight together, or
an edit with a clock-out that had loaded its row; `first` what a signing was created with. A
clock-out finds the open start, loads its row and saves it whole with the duration, in three steps
(`FindOpenStart`, `LoadStart`, `AssignDuration`): what was corrected or cancelled after it was loaded
is written back as it was. **Billing.** Stripe is external: `Renew` and `Lapse` are
the end of a period; `paid` is the plan last invoiced and `asked` the plan of the last change that
was answered.

**Access.** A call of a user goes through three actions. `Authenticate` is the middleware with the
two global guards: it freezes the context (`may`: the permissions per enterprise the user is linked
with) and lets the call in. `Judge` is what the service checks once it has loaded the record that
the call addresses, still by the frozen context. Then the call takes effect in one of `LinkUser`,
`ChangeRole`, `UnlinkUser`, `ChangeGrants`, the four that change what calls are judged by, or
`Serve`, which stands for every other endpoint. `Routes` holds one record per kind of endpoint,
`[where, resource, action]`, and the routes of every controller; `where` says how the enterprise is
found: asked for in the query or the body (`asked`), in the path (`within`), a link is enough
(`linked`), from the record (`record`), from the users concerned (`person`), by a global
administrator (`admin`), or not at all. A call carries two enterprises: `judged`, the one that the
guards find first (that of the query, or else that of the body), and `enterprise`, the one that the
handler acts on. `JudgedFor` says which pairs a route allows. They are one where the handler takes
the enterprise from the query or the path that the guards read. `POST /users` (`sent`) links with
the enterprise of the body, of which the service asks only that the caller is linked with it;
`DELETE /users/:id/enterprise/:enterpriseId` (`person`) acts on that of the path and asks for the
permission in any enterprise that caller and user share; a record is judged again by the service, in
its own enterprise. Where the guards find no enterprise (`judged` is `None`), they let the call
pass.

**BackOffice and its tables.** The handlers of these services have one shape: they read, check, and
send a few statements. So an operator with the name of a handler (`CreateQuote`, `DeleteInvoice`,
`AddFileToSpent`) is the set of statements, or sequences of statements, that it may send, given what
it reads now, its checks being the conditions of the set. `Begin` gives a worker one of them, and
`Execute` sends its statements one by one, with anything in between: what was read may be stale by
then. `Effect` of `BackOfficeTables` is what the database does with a statement: it merges the
columns given into the row as it is (`Update`: `updateById` of a repository), writes a row back as it
was read, which inserts it again if it is gone (`Save`), and follows the foreign keys; `Accepted`
says whether keys refuse it, and a refused statement ends the handler. Calls to Dropbox are steps of
the same sequences: `StoreAnswers`, `StoreRefuses` (what follows is the step's `undo`, as for the
upload of a document, whose row is deleted) and `AnswerIsLost` (it was done, the handler thinks
not). `Crash` ends all the requests of the process. Three history variables make the promises exact:
`overlapped` (two requests have been in progress at once), `lapses` (requests that died and answers
that were lost), and `excused` (documents moved to another enterprise, flags written by hand,
documents that went with their client). A fourth, `unchecked`, holds the rows that a body wrote past
what its handler checked, in one of three ways. `Overwrite` is the save of a body with an id of its
own: a creation, or a PATCH of another row, writes the row of that id, all its columns, or inserts
it. `UncheckedEarnings` saves relation objects of any enterprise beside columns that pass. `Relink`
is what becomes of a row that is a member of a collection in the body of another one. The properties
say what holds of the rows that were checked, whatever is written so elsewhere; `AsJudged` of some
rows says that none of them was. A behaviour keeps to one `scope`: the tables it writes, the rows it
begins with, how many lapses it may have and how many rows may be written unchecked.

### Conventions

* The rows of a line are processed in one fixed order; the order of the query is not part of any
  property.
* `findOne` and `save` inside one repository call are two steps in `TimeClock`, where another request
  writes columns of the row in between. Elsewhere they are one statement: either the columns written
  are all that the model has of the row, or the handler passes the whole row as it read it, earlier
  still, so that the later read changes nothing; where it passes some columns (a series, a spent, an
  item, a line) the others are taken as they are at the save, though the code may put back what they
  were an `await` before. What is claimed of requests that overlap rests on none of them: they are
  not the columns that say whose a row is, and what an item or a line may put back was as good when
  it was read. That a row deleted between the two would be inserted again by the save is not
  modelled.
* A unit is a pair of an item and a serial number; renaming a serial is not modelled. In
  `InventoryLedger` and `InventoryRequests` all lines refer to an item with `serialNumber` and
  `stock` set, and the two flags do not change; in `QuantityStock` no line has serials.
* Issued, paid and partially paid invoices are one status in the ledger, and so are they in the
  instance of `BackOffice`: no modelled handler tells them apart.
* A row of the back office has the columns that some guard or property reads. A tax number stands
  for all that an issued document copies from its client; one price for all that a line says; one
  key for all the settings.
* In the inventory an id is reused once no request in flight knows it; a reused id stands for a new
  row. `InventoryRequests` voids the plans of other requests for the id of a row that is replaced.
  In the back office an id is used once (`Unborn`, a row, `Gone`).
* A permission that is absent and one that is `false` both deny and are the same here.
* `WorkSchedules` and `TimeClock` model one link: no query of theirs crosses links.
* The instants of the signings all lie in the past; the refusal of a moment in the future is not
  modelled. The transaction of a correction is one step (its rows are locked by its first update).
* `MaxDrift` bounds how often a unit is reversed out without an entry (`rejected_cancel` repeats
  without end); the other bounds are `MaxQuantity`, `MaxCard`, `MaxTime`, `MaxChanges`, `MaxNumber`
  (of an invoice), `MaxMoves` (what a line moves of an item), `Loads`, `Scopes` with their crashes and lapses, `Surface` and `Addressed` (the
  routes called, and the enterprises they are about) and, in the run `time_clock`, the constraint
  `FewTrials`.
* Operators under a comment "Mutation" or "mutant" are variants of the definition that follows them, used to see
  that a property notices a plausible mistake. No specification uses them.

## 3. What the runs check

| Run | Instance | Checks | Shows |
|---|---|---|---|
| `ledger_regular` | 2 units, 2 invoices with 3 lines, 1 spent with 2 lines, quantities up to 2, no irregular route | `SoldMatchesIssuedRows`, `ReservedMatchesDraftRows`, `LinesNameTheirUnits`, `NoUnitOnTwoInvoices`, `SaleKardexMatchesStatus`, `ImplementsAllocation` | With clients that keep to the regular routes, units and documents agree exactly and invoices never disturb each other's units |
| `ledger_all_routes` | the same with 1 spent line, all four irregular routes, quantities up to 1 | `KardexNeverOverstates`, `CancelledSpentUnitsAreVoided`, `SoldLeavesByCancellation` | What no client can break |
| `requests` | 2 units, 1 invoice, 1 spent with 2 lines; one of five loads: every handler alone, on 2 invoice lines; every handler alone on 1 line, with one crash; two purchase requests at a time; two edits of a spent, or an edit and the end of a purchase; an edit and a sale | `CrashCostsOneUnit`, `RacesNeverOverstate`, `EditsSpareClaimedUnits`, `ImplementsLedger` | Handlers run statement by statement do what the atomic actions say, failures included: the ledger is the code's. A crash leaves at most one unit whose sale kardex contradicts its status; purchases that race never count a unit twice or a voided one; a stale edit of a spent never takes a unit that an invoice holds (units being registered one by one aside) |
| `race_patch` | 1 unit, 1 invoice, 2 workers that patch and change the status | `IssuedNeverDraftAgain`: violated | See below |
| `quantity_stock` | 2 items, 1 invoice and 1 spent of 2 lines each, quantities 0 and 1, at most 2 moved of an item by a line; one of five loads: two lines of a document with one item, a line of each with one item, one line with two items | `SalesAreCounted`, `PurchasesAreCounted` | What the kardex says of a line is what its document says, through every order of edits, cancellations and deletions that avoids the mishaps named; a cancellation never brings back more than what left |
| `roles` | 2 enterprises, 3 role ids, 3 names, 1 link, 2 workers, 2 resources, 2 bodies | `AdministratorIsFixed`, `MutationImpliesRead`, `AssignedRolesAreLocal` | Checks made statements before the write hold all the same: the unique and foreign keys and the fixed columns close the gap |
| `accounts` | 2 users, 2 e-mails, 2 enterprises, cards up to 2, 2 workers, crashes and silent calls | `LoginsHaveUsers`, `AccountsAreWhole`, `UnlinkKeepsOtherLinks` | Which mishaps the order of the calls and the rollback survive |
| `schedules` | 2 shifts, instants 0 to 3, 2 workers | `ShiftsRunForward`, `ShiftsKeepApart` | Only requests that were in flight together make shifts overlap or run backwards |
| `time_clock` | 3 signings, 2 instants, 2 workers, at most 3 corrections, habits and mishaps in all | `HistoryIsAChain`, `EachEndClosesOneStart`, `OrderlyDayStaysExact`, `MovesRepairTheDay` | What of a day, its durations and its history survives which client and which race |
| `billing` | 2 prices, quotas up to 3, 2 schedule ids, 2 workers | `PlanIsPaid`, `LastChangeWins`, `ReductionsWait` | What clients may rely on while changes, failures, cancellations and renewals follow one another |
| `access` | 2 users, 2 enterprises, 2 roles, every resource; one user assigns and changes roles, the other invites, takes out and looks; calls judged in and about the first enterprise, judged in it and about the second, and judged in none | `ChangersMayLook`, `OwnPeopleChangeAnEnterprise`, `RevocationTakesHold` (liveness) | Only the people of an enterprise change its roles and let people in, whatever changed since the call began and whichever enterprise the guards judged; a right that is taken away for good stops being used |
| `sales` | 2 enterprises, at most 2 rows of a table, 2 workers; 22 scopes of one to three tables, and 8 with a row that may be written unchecked | `TypeOK`, `TenantsNeverMix`, `NumbersRunOn`, `OneRowOfEach`, `IssuedInvoicesStay`, `SettledLinesStay`, `EachLapseCostsOneFile` | Which promises about documents, parties, lines and files survive races, deaths, lost answers and rows written unchecked, and which hold only while requests come one at a time |

`CHECK_DEADLOCK FALSE` is set where a system may stop: `billing` (a lapsed subscription is final),
`time_clock` (all the signings are made, corrected as often as allowed, and cancelled) and `sales`
(every id of a table has been used and its row deleted). Symmetry is used over units, requests, and
ids that no definition tells apart; the run that checks liveness, `access`, has none.

**The violation.** `race_patch` shows that `updateById` of an invoice reads the draft and later saves
the whole row it read, status included: an invoice issued in between is a draft again, its units
sold. The code's own message says that an invoice that was issued cannot become a draft.

**Races that were found and are not runs.** The code promises nothing about requests that overlap,
so these are exceptions that the properties name, not violations of what it says.

* Two sale requests in flight: two drafts reserve the same unit, a line shows more serials than its
  quantity, one draft is issued twice with two sale movements per unit. Every invariant of the sale
  side fails at once, so those are checked for serial requests and crashes only.
* Two issues take the same number; two creations leave two clients, two suppliers or two rows of a
  setting with one key (`NumbersRunOn`, `OneRowOfEach`: only while requests come one at a time).
* A PATCH of an invoice or of an order that read the draft, or a line added after the status was
  read, changes what was issued or received meanwhile (`IssuedInvoicesStay`, `SettledLinesStay`).
* An edit of a spent with lines saves the header it read: a spent cancelled meanwhile is open again,
  one deleted meanwhile is inserted again.
* Two bookings of overlapping shifts and two edits of one shift break the shifts; a login is left
  behind when Firebase does not answer; a user is deleted while a link is added; the plan in force
  is taken back when two changes of a subscription overlap.

**What holds less than one might expect, with one request at a time.** The lines of a document stay
with the items of the old enterprise when the document moves to a client of another one. The category
of a spent may be of any enterprise. The tax number of an enterprise is compared at its creation
only. A client may write the flag that says a spent has a file. A document whose file is gone cannot
be deleted. An issue that stops at its second line leaves the units of the first sold; deleting that
draft is refused by the kardex, but releases its other units first, so that a unit may come to stand
on two of its lines and be sold twice by the next issue. A counted line of quantity 0 stops an issue
or a cancellation as well, and the lines before it move twice when that is tried again; a spent that
is cancelled with a body of lines that is refused has given its stock back and is not cancelled. A
reopened invoice that is cancelled again returns its stock twice. A spent line unlinked from its
item goes on counting there. Nothing looks at how much stock there is before it leaves. The creation
of an AI request requires a permission (`aiRequests`, write) that no role
can hold.

Bodies that are saved with more than was checked do the following, each with one request at a time. A
`POST` of an invoice, or the PATCH of a draft, whose body has the id of an issued invoice writes over
that one; the same holds of clients, suppliers, series, earnings, quotes, orders, items and
categories. A recurrent earning joins the enterprises that its relation objects name, and an update
moves it to another one. The invoices, quotes, orders and documents in a collection of a client, a
series or a quote come to name it. So what `IssuedInvoicesStay`, `TenantsNeverMix`, `NumbersRunOn`
and `OneRowOfEach` promise is of the rows that were checked, and that nothing written so spreads to
them.

**Are the bounds enough?** Sharing needs two units, two invoices and, for an issue that fails
half-way, an invoice of two lines: `ledger_regular` and `ledger_all_routes` have them. The purchase
side needs a spent that keeps one line and loses another. Two requests in flight show a race of two;
the proofs of `EnterpriseRoles`, `UserAccounts`, `WorkSchedules`, `TimeClock`, `Billing` and
`QuantityStock` are for any number. A quantity of 1 is all that differs from the 0 that stops a
handler, and 2 moved is the least that shows a movement written twice. A shift needs four instants
for two disjoint shifts and every way of overlapping. Three signings are the least for a correction
that moves one past two others; with `MaxTime = 1` the instants are few, but ties, the hard part of
the order, are many. A quota of three has an enlargement and a reduction that leave it different
from where it began. Two users are one whose rights are taken away and one who takes them, and the
second enterprise is one that must not be touched. In the back office a gap or a pair of numbers
needs two invoices, a mixture two enterprises and the tables that meet in it, a loss of two files
for one lapse two spents or two documents, and one row written unchecked is enough to spoil another
that was checked; a scope holds two or three tables that refer to one
another, with the rows of the others they need. The deletion of an enterprise with all that hangs
from it is in the scopes of enterprises only: a behaviour over every table at once is out of TLC's
reach.

**Fairness and liveness.** `Access` assumes weak fairness of `Answer` for each user: a request that
was let in is judged and answered, because every `await` in it returns. Nothing is assumed of
clients: none need ever call, nor stop calling. Under it `RevocationTakesHold` says that no request
holds on to a right for ever in the enterprise where it was judged, nor to a link with the one it
lets somebody into. It cannot say that nothing is done any more to that enterprise: a user taken out
of it may still take others out by a right he has elsewhere. The other modules assume no fairness and state no liveness: nothing
else in this code retries, waits or runs on a timer; what a dead request leaves undone nobody
completes, so that "eventually" is either trivial or false there, and what is false shows up as the
exceptions (`crash`, `silence`, `failure`, `lapses`) of the safety properties.

## 4. What is proved

All theorems hold for every value of the constants under the named assumptions of each module
(`ConstantsAssumption`: finite sets of units, of lines and of spent lines, lines have invoices; `CatalogueAssumption`:
every resource can be read; `RolesAssumption`, `AccessAssumption`, `AccountsAssumption`, `ShiftsAssumption`,
`ClockAssumption`, `BillingAssumption`, `StockAssumption`, `TablesAssumption`: types and distinctness
of constants; `RequestsAssumption`: types, and finitely many requests at a time; `AbsenceAssumption`, `NobodyAssumption`, `NoneIsNoJob`: a value that says "nothing" is
none of the things; `BackOfficeAssumption`: an enterprise is never written without its settings;
`IdsAssumption`: identifiers are UUIDs, so that one names a row of one table, and a path in Dropbox
one document or one spent; `FirstRowsAssumption`, `FirstOrderAssumption`: the rows a behaviour of the back office starts from are
themselves rows the code could have left). TLC evaluates each of them on the instance of a run.

| Theorem | Says | Inductive invariant, and why the property alone is not inductive |
|---|---|---|
| `TypeCorrect` | `[]TypeOK` | itself |
| `SoldUnitsLeaveByCancellation` | `SoldLeavesByCancellation` | `TypeOK`: every other handler refuses SOLD units or touches absent ones |
| `UnitsAreHeldForOneInvoice`, `SaleKardexIsExact` | `NoUnitOnTwoInvoices`, `SaleKardexMatchesStatus`, while no invoice is reopened and no issue fails half-way | `AllocationInv` adds that lines have invoices, that a draft has no sale movement, and `ClaimedUnitsAreHeld`: a release looks only at the status of the unit, so exclusiveness must be known of the rows before it |
| `SoldMatchesInvoices`, `ReservedMatchesDrafts` | `SoldMatchesIssuedRows`, `ReservedMatchesDraftRows`, on the regular routes | `StatusInv` is the two with `AllocationInv`: a unit that leaves its status must not be shown by a second invoice |
| `LinesNameWhatTheyBill` | `LinesNameTheirUnits`, though an issue fails half-way | `LinesInv` adds that lines have invoices; the lemmas count the rows of a line before and after a handler that adds or drops some |
| `LedgerImplementsAllocation` | `ImplementsAllocation`: the ledger implements `UnitAllocation` | `AllocationInv` with `HoldersAreClaims`: a row that counts determines the holder of its unit, so a handler is read as what it does to the holders. One lemma says when a holder stays, one per abstract action what makes a step that action, one per handler which it is |
| `KardexIsNeverOverstated`, `CancelledSpentsStayVoided` | `KardexNeverOverstates`, `CancelledSpentUnitsAreVoided`, on every route | `PurchaseInv` adds that a unit is bought once, that rows name existing units, that movements refer to rows there are or to no unit, and that an entry counted has a movement: a purge erases by line, and must not leave the entry of a unit that another line keeps |
| `ClaimedUnitsAreSpared` | `EditsSpareClaimedUnits` of `InventoryRequests`: for any number of requests, statement by statement, with crashes | `SparedInv` adds `UnitsAreBought` (every unit that exists was bought once and is counted once) and `JobsKnow`: the plan of a sale is a sequence of statements that leave the purchases alone, and the plan of the one edit names rows and lines that are still there, since nobody else takes any away. What an invoice claims meanwhile is judged by the foreign keys when the graph is saved |
| `RacesOverstateNothing` | `RacesNeverOverstate` of `InventoryRequests`: for any number of requests of all kinds, with crashes | `RaceInv` relates the tables to what every plan in flight has still to write: an existing unit has one spent line, which its row, its movements and all plans agree on (`OneLineEach`); a unit that was created and not counted yet is known to its own request only (`NewbornsAreNew`), so it is counted once; in every plan the statement that voids a unit is followed by the one that takes it out of the kardex (`Paired`), and that one is not refused while the unit is counted, since its line is then there. `FewUntended` counts the units that are voided, counted and tended by no request: a crash adds one at most, no other step any |
| `CrashesCostOneUnitEach` | `CrashCostsOneUnit` of `InventoryRequests`: requests one at a time on one line, of any kind, with crashes and requests that fail half-way | `LoneInv`, on top of `RaceInv`. The plan of a sale is `Coupled`: every statement that turns a unit over is followed by the movement that books it, on a line that is there, no movement stands anywhere else, and no unit is marked twice; or `Halfway`: the first statement is that movement, and the unit already has the status it books. The plans of the purchase side are `Harmless`: they neither sell nor touch a unit that is sold. So the units whose status and sale movements disagree (`AtOdds`, the one whose movement comes next left out) gain one by a crash half-way and by no other step: a movement in its place is never refused, and what fails elsewhere fails between two pairs. The lemmas put the plans together of blocks that mark different units, which on one line the rows of that line give |
| `RolesTypeCorrect`, `FoundingAdministratorIsFixed`, `WhoMutatesReads`, `LinksHoldLocalRoles` | the properties of `EnterpriseRoles` | `RolesInv` adds what a request in flight knows: a deletion past its check is not of a founding Administrador, an update past its check writes what is consistent and keeps the founding role, a link past its check has a role of its enterprise |
| `AccessTypeCorrect`, `ChangersAlwaysLook`, `OwnPeopleAlwaysChange` | the type, `ChangersMayLook` and `OwnPeopleChangeAnEnterprise` of `Access`, however rights change while a call is under way | `AccessInv` adds `GrantsConsist` (a stored role that changes a resource reads it) and what a call knows: the enterprise judged and the one acted on are a pair that its route allows (`JudgedFor`), its guards let the context it carries pass in the one, and past the look at the record, the link or the person the service found in that context what it asks for in the other. `ActsOnItsEnterprise` and `HowLinksChange` are what each of the four changing actions may do to whom. Then each controller shows what it changes (`Shows`): one lemma for each kind of controller finds, beside the routes that change a resource, one that reads it |
| `AccountsTypeCorrect`, `LoginsAlwaysHaveUsers` | the type, and `LoginsHaveUsers` under crashes and overlapping registrations | `AccountsInv` adds that a new row belongs to one request and stands until its rollback, that a deletion past Firebase has removed the account, and that each login has a row no rollback is about to take |
| `AccountsStayWhole`, `OtherLinksAreKept` | `AccountsAreWhole`, `UnlinkKeepsOtherLinks` | `SoleInv` adds what a request on its own knows of the links of its user at each await (`SoleJob`: a link past its count is the last one), and that between requests every row is whole, but the one that is being made or removed |
| `SchedulesTypeCorrect`, `ShiftsAlwaysRunForward`, `ShiftsAlwaysKeepApart` | the properties of `WorkSchedules` | `SchedulesInv` adds that requests in flight together have met, that what an edit read of its row is still so unless another edit met it, and that a request past its query keeps apart of all the shifts it has not met |
| `ClockTypeCorrect`, `HistoryAlwaysChains` | the type, and `HistoryIsAChain` | `ClockInv` adds that an edit in flight, and a clock-out that has loaded its start, hold the point their signing has, and no edit meets another or such a clock-out, unless the signing is entangled |
| `MovesAlwaysRepair` | `MovesRepairTheDay`, for days of any length | `FlightInv` adds that the day a correction checked is the day it moves the signing in (`MovesKnow`) |
| `OrderlyDaysStayExact` | `OrderlyDayStaysExact` | `TidyDay`: the day alternates and every start has its duration; `OrderlyInv` says what the day lacks while a clock-out is in flight: the duration of exactly one start, the one it finds. That this start is unique, that a signing appended at the end keeps the order, and what a duration becomes, are lemmas about days of any length; the earliest end after a start is taken by the least-number principle (`NatLessThanWellFounded`, `WFMin`) |
| `EndsCloseOneStart` | `EachEndClosesOneStart`, however clock-outs race | `ClaimsInv`: a start that has a duration, a start that a clock-out has found and a clock-out that still looks for one have an end each |
| `BillingTypeCorrect`, `PlanAlwaysPaid` | the type, and `PlanIsPaid` | `BillingInv` adds that a change in flight is alone, and that what it read is the plan in force |
| `LastAnswerHolds`, `ReductionsAlwaysWait` | `LastChangeWins`, `ReductionsWait` | `AnsweredInv` adds that a reduction that waits is less than the plan, what a change at each await has seen of both, and that what the next period brings is what was last answered until a change starts to act |
| `StockTypeCorrect`, `SalesAlwaysCounted`, `PurchasesAlwaysCounted` | the type, and the properties of `QuantityStock`, for any items, lines and quantities | `StockInv` adds that a line without a row has no movements left, that a row has its document and an item that exists, and `MovedOnce`: a draft has moved nothing, and an issued line at most its quantity, once, which `SalesAreCounted` only says while no flag of an item was switched |
| `RowsStayWhole`, `TenantsStayApart` | `TypeOK` and `TenantsNeverMix` of `BackOffice`, however requests meet | `BackInv` adds, for each statement that waits, what its handler read and what cannot change until it is executed (`Known`): the enterprise of a row, of an item, of a document that is not excused, none of them written unchecked (`Plain`), and that a row that went does not come back. Every step is `Steady` in that sense; executing a statement over steady facts joins no two enterprises. A statement that is itself unchecked waits with its row in `unchecked` already, so that it promises nothing of it |
| `NumbersAlwaysRunOn`, `OneRowStays`, `IssuedInvoicesAreKept`, `SettledLinesAreKept` | `NumbersRunOn`, `OneRowOfEach`, `IssuedInvoicesStay`, `SettledLinesStay` while requests come one at a time | `OrderInv` adds that drafts alone have no number, and that what the handler judged of the rows it read (`Judged`: the next number, no other holder of a tax number, a document still open, nothing that names what goes) is true until its statement is executed, since nobody else writes. An unchecked statement changes its own row and no other, so each of the four goes on holding of the rows it does not name. A new enterprise is two statements, and a file is a row and an answer of Dropbox: `Paired` says that the first leaves what was judged for the second |
| `LapsesCostOneFileEach` | `EachLapseCostsOneFile`, for any number of requests, documents, spents and lapses | `FilesInv`, `SpentInv` and `LossInv`, on top of the two above. A document is lost when its files are not what its row calls for and no request is about to upload the missing one or to delete the row. All three suppose `Sound`, that no enterprise, client or document was written unchecked; a spent may be. `FilesInv` gives every request on a document one of five plans and says what the plan has seen to: whoever is about to upload is the only one to handle the document and finds no file of it, whoever deletes it removes its file first, and a rollback takes the row that has none. So only a lost answer and a crash add to what is lost, one file for each request. `SpentInv` says the same of spents, whose flag two overlapping requests may set either way: hence "one at a time". `LossInv` counts both: the images of a crash are no more than its requests, by the cardinality of a surjection |

Each proof has the same shape: the initial state satisfies the invariant; one lemma per action shows
that it is kept, from lemmas about what a request in flight knows and about what other requests keep;
the last lemma goes through the disjuncts of the next-state relation, and the theorems follow by
temporal reasoning.

The type invariants of the ledger, of roles, accounts, shifts, signings, billing and the counted
stock are proved and no run repeats them.

The plans of requests are built with sequence operators that are defined by recursion (`FlattenSeq`,
`SetToSeq`). What a plan contains is proved without induction: of the places where the concatenation
would be wrong, or could not be continued, there is a least one (`LeastNumber`), and it is not.

The proofs corrected the models in five places. Two guards of the CASE that says what a statement
does to the database overlapped (a refused save was also a save): it is now one IF on `Accepted`.
The first rows of a behaviour were nowhere required to be possible ones: they are now, and TLC
evaluates that. A new enterprise was allowed where its settings were not, and stopped half-way.
A behaviour of the back office started with an empty Dropbox, which is possible only while no first
row has a file: it now starts with the files its rows call for. And `EditsSpareClaimedUnits` claimed
its conclusion beside a registration of single units too: between the statement that creates a unit
and the ones that write its movement and its row it can be sold, and shown without either. No load
of the run had that, and the invariant could not be kept; the property now leaves such registrations
out.

**Only model-checked.**

* `ImplementsLedger`: that the statements of a plan, executed one by one, add up to the action of the
  ledger is an induction over the plan.
* `RevocationTakesHold` of `Access`, which is a liveness property.

`ClaimedUnitsAreHeld` is the other way round: a part of the proof of `UnitsAreHeldForOneInvoice`, it
has no run of its own.

Liveness under fairness, ENABLED and induction over data are out of the prover's reach; no theorem
needs them.

## 5. What is not modelled

* Prices, taxes and totals.
* The flags of an item switched under its units, a line that goes from an item with serials to
  another, the renaming of a serial: the ledger fixes the item of a line and the name of a unit, and
  in `QuantityStock` no line has serials. Planned.
* Rows that a body's collections reach beyond those of `Collections`: the units and the movements of
  an item, which are the ledger's. Of two clients of one enterprise that the column and the object of
  one body name, which one is copied. A row that is deleted between the `findOne` and the `save` of
  one repository call. Planned.
* The preview of a spent: OCR and OpenAI read a PDF, and the names found are added to a supplier. No
  state of the models depends on it.
* Metered prices, the checkout session and the presentation of Stripe's products and invoices.
* Moves, listings and downloads in Dropbox: none is reached by an endpoint that changes a row (the
  folder of a spent that changes its supplier is moved by a method nobody calls).
* The AI log, which is only appended to; queries, metrics and the query builder, which write nothing;
  conversions (OCR, OpenAI, PDF): nothing a model checker would find that a unit test would not.
* The verification of a token by Firebase, and the diagnostics of unknown permission keys.

## 6. Plan

Done, in this order: the inventory, atomic and abstract; its requests, statement by statement, with
the reads of a spent before its transaction; the stock counted by quantity; roles; users; schedules;
signings; billing; endpoints and access; documents, catalogue, files and the workplace, composed in
the back office. Next:

1. The flags of an item and the change of the item of a line under units with serials, which joins
   `InventoryLedger` and `QuantityStock`.
2. Metered prices of the subscription, and the preview of a spent as far as it writes.

Disagreements between code and documentation met on the way and not yet runs: the role Empleado may
be renamed and then deleted, while `docs/enterprise-permissions.md` calls it undeletable; asking for
the plan in force answers that the subscription was changed while a scheduled reduction stays; the
deletion of a spent says it goes on when Dropbox refuses, and throws;
`docs/enterprise-access.md:164` says that the enterprise of a series, a client or a supplier stays
as it is on a PATCH, "como en ingresos recurrentes", while the relation objects in the body of a
recurrent earning move it (`recurrent-earning.service.ts:182`); its line 3 says that a user without
a link with an enterprise cannot change its data, while an unlink asks for the permission in any
enterprise that the two users share and acts on the one of the path (`user.service.ts:718`); the
message of `invoice.service.ts:155` says that an issued invoice cannot be updated, which is asked of
the row that the route addresses and not of the one that the body's id writes.
