-------------------------------- MODULE Billing --------------------------------
(***************************************************************************)
(* The subscription an enterprise holds in Stripe, with a licensed price,  *)
(* and the requests of BillingService that change its plan or cancel it,   *)
(* call by call.  A larger or an equal quota is charged and holds at once; *)
(* a smaller one waits, in a subscription schedule, for the period to end. *)
(*                                                                         *)
(* Stripe is external: its part is what StripeService asks of it and what  *)
(* the names and options of the calls promise.  A call on a schedule that  *)
(* is not attached is refused, as any call may be.                         *)
(***************************************************************************)
EXTENDS Integers

CONSTANTS
  Prices,
  MaxQuantity,  \* bound on the quota
  Schedules,    \* ids of subscription schedules, reused when no request knows them
  Workers

ASSUME BillingAssumption == MaxQuantity \in Nat \ {0}

VARIABLES
  plan,         \* price and quantity of the primary item
  schedule,     \* the schedule attached to the subscription, or None
  ending,       \* cancel_at_period_end
  ended,        \* the subscription is over
  paid,         \* history: the plan last invoiced
  asked,        \* history: the plan of the last change that was answered
  habits, mishaps,   \* history: see below
  job           \* what each worker is doing

stripeVars == <<plan, schedule, ending, ended>>
vars == <<stripeVars, paid, asked, habits, mishaps, job>>

-----------------------------------------------------------------------------
Null == 0       \* no quantity in the body
Quantities == 1..MaxQuantity
Plans == [price : Prices, quantity : Quantities]
NoPlan == [price |-> "none", quantity |-> 0]

\* The second phase of a schedule, if it has one, begins when the period ends.
Attached == [id : Schedules, second : Plans \cup {NoPlan}, phase : 1..2]
None == [id |-> "none", second |-> NoPlan, phase |-> 1]

\* kept: a change asked for the plan in force with a reduction scheduled.
Habits == {"kept"}
\* overlap: two changes were in flight.  renewal: a period ended with one in
\* flight.  failure: a request died, or Stripe refused a call of its.
Mishaps == {"overlap", "renewal", "failure"}

Jobs == [stage : {"load"}, price : Prices, quantity : Quantities \cup {Null}]
        \cup [stage : {"lookup", "create", "charge"}, current : Plans, target : Plans]
        \cup [stage : {"program", "release"}, current : Plans, target : Plans, id : Schedules]
Idle == [stage |-> "idle"]

Busy(w) == job[w] # Idle
Quiet == \A w \in Workers : ~Busy(w)
Goes(w, j) == job' = [job EXCEPT ![w] = j]

Pending == schedule.phase = 1 /\ schedule.second # NoPlan
Upcoming == IF Pending THEN schedule.second ELSE plan

-----------------------------------------------------------------------------
\* The subscription is among those of the customer of the enterprise.
Ask(w, p, q) ==
  /\ ~Busy(w) /\ ~ended
  /\ Goes(w, [stage |-> "load", price |-> p, quantity |-> q])
  /\ mishaps' = mishaps \cup (IF Quiet THEN {} ELSE {"overlap"})
  /\ UNCHANGED <<stripeVars, paid, asked, habits>>

Target(j) == [price |-> j.price, quantity |-> IF j.quantity = Null THEN plan.quantity ELSE j.quantity]

\* Mutation: nothing waits for the period to end.
NeverReduces(current, target) == FALSE

Reduces(current, target) == target.quantity < current.quantity

\* Mutation: the schedule stays when the plan changes at once.
KeepsSchedule(target) == [stage |-> "charge", current |-> plan, target |-> target]

ChangesNow(target) ==
  IF schedule = None THEN [stage |-> "charge", current |-> plan, target |-> target]
  ELSE [stage |-> "release", current |-> plan, target |-> target, id |-> schedule.id]

\* updateSubscriptionPrimaryItemPrice reads the plan in force and compares.
Load(w) ==
  LET target == Target(job[w])
  IN /\ job[w].stage = "load" /\ ~ended
     /\ \/ /\ target = plan
           /\ Goes(w, Idle)
           /\ asked' = target
           /\ habits' = habits \cup (IF Pending THEN {"kept"} ELSE {})
        \/ /\ target # plan
           /\ Goes(w, IF Reduces(plan, target)
                        THEN [stage |-> "lookup", current |-> plan, target |-> target]
                        ELSE ChangesNow(target))
           /\ UNCHANGED <<asked, habits>>
     /\ UNCHANGED <<stripeVars, paid, mishaps>>

\* A reduction uses the schedule attached, or creates one with the current
\* phase only.
Programs(w, id) ==
  Goes(w, [stage |-> "program", current |-> job[w].current, target |-> job[w].target, id |-> id])

LookUpSchedule(w) ==
  /\ job[w].stage = "lookup" /\ ~ended
  /\ \/ schedule # None /\ Programs(w, schedule.id)
     \/ schedule = None /\ Goes(w, [job[w] EXCEPT !.stage = "create"])
  /\ UNCHANGED <<stripeVars, paid, asked, habits, mishaps>>

Known(id) == \E w \in Workers : job[w].stage \in {"program", "release"} /\ job[w].id = id

CreateSchedule(w) ==
  /\ job[w].stage = "create" /\ ~ended /\ schedule = None
  /\ \E id \in Schedules :
       /\ ~Known(id)
       /\ schedule' = [id |-> id, second |-> NoPlan, phase |-> 1]
       /\ Programs(w, id)
  /\ UNCHANGED <<plan, ending, ended, paid, asked, habits, mishaps>>

\* Mutation: the new plan is in the first phase too.
TargetPlan(j) == j.target

\* The plan of the first phase: the one that was read, which holds from now on.
FirstPhase(j) == j.current

HasSchedule(w) == schedule # None /\ schedule.id = job[w].id /\ ~ended

\* The period end is read just before: had the period ended since, the first
\* phase would end in the past, and Stripe refuse it.
ProgramReduction(w) ==
  /\ job[w].stage = "program" /\ HasSchedule(w)
  /\ plan' = FirstPhase(job[w])
  /\ schedule' = [id |-> job[w].id, second |-> job[w].target, phase |-> 1]
  /\ asked' = job[w].target
  /\ Goes(w, Idle)
  /\ UNCHANGED <<ending, ended, paid, habits, mishaps>>

ReleaseSchedule(w) ==
  /\ job[w].stage = "release" /\ HasSchedule(w)
  /\ schedule' = None
  /\ Goes(w, [stage |-> "charge", current |-> job[w].current, target |-> job[w].target])
  /\ UNCHANGED <<plan, ending, ended, paid, asked, habits, mishaps>>

\* always_invoice: the difference is charged at once.
Charge(w) ==
  /\ job[w].stage = "charge" /\ ~ended
  /\ plan' = job[w].target /\ paid' = job[w].target /\ asked' = job[w].target
  /\ Goes(w, Idle)
  /\ UNCHANGED <<schedule, ending, ended, habits, mishaps>>

Fail(w) ==
  /\ Busy(w)
  /\ Goes(w, Idle)
  /\ mishaps' = mishaps \cup {"failure"}
  /\ UNCHANGED <<stripeVars, paid, asked, habits>>

\* cancel_at_period_end: one write each, once the subscription is found active.
CancelAtPeriodEnd ==
  /\ ~ended
  /\ ending' = TRUE
  /\ UNCHANGED <<plan, schedule, ended, paid, asked, habits, mishaps, job>>

RevokeCancellation ==
  /\ ~ended
  /\ ending' = FALSE
  /\ UNCHANGED <<plan, schedule, ended, paid, asked, habits, mishaps, job>>

-----------------------------------------------------------------------------
\* Stripe: a period ends.  A schedule is released with its last phase.
Renew ==
  /\ ~ended /\ ~ending
  /\ plan' = Upcoming /\ paid' = Upcoming
  /\ schedule' = IF Pending THEN [schedule EXCEPT !.phase = 2] ELSE None
  /\ mishaps' = mishaps \cup (IF Quiet THEN {} ELSE {"renewal"})
  /\ UNCHANGED <<ending, ended, asked, habits, job>>

Lapse ==
  /\ ~ended /\ ending
  /\ ended' = TRUE
  /\ UNCHANGED <<plan, schedule, ending, paid, asked, habits, mishaps, job>>

Init ==
  /\ plan \in Plans /\ paid = plan /\ asked = plan
  /\ schedule = None /\ ending = FALSE /\ ended = FALSE
  /\ habits = {} /\ mishaps = {}
  /\ job = [w \in Workers |-> Idle]

Next ==
  \/ \E w \in Workers, p \in Prices, q \in Quantities \cup {Null} : Ask(w, p, q)
  \/ \E w \in Workers :
       \/ Load(w) \/ LookUpSchedule(w) \/ CreateSchedule(w) \/ ProgramReduction(w)
       \/ ReleaseSchedule(w) \/ Charge(w) \/ Fail(w)
  \/ CancelAtPeriodEnd \/ RevokeCancellation
  \/ Renew \/ Lapse

Spec == Init /\ [][Next]_vars

-----------------------------------------------------------------------------
BillingTypeOK ==
  /\ plan \in Plans /\ paid \in Plans /\ asked \in Plans
  /\ schedule \in Attached \cup {None}
  /\ ending \in BOOLEAN /\ ended \in BOOLEAN
  /\ habits \subseteq Habits /\ mishaps \subseteq Mishaps
  /\ job \in [Workers -> Jobs \cup {Idle}]

\* The plan in force is the one last invoiced: no quota is used unpaid, and none
\* paid for is withdrawn, at any point of a change and wherever it dies.  A
\* reduction writes back the plan it read, so this needs that no other change and
\* no renewal came in between.
PlanIsPaid == mishaps \subseteq {"failure"} => plan = paid

\* The quota falls only when a period ends, however the changes that reduce it and
\* those that enlarge it follow one another, die or cross a renewal.
ReductionsWait ==
  [][plan'.quantity < plan.quantity /\ "overlap" \notin mishaps => Renew]_vars

\* Once every change is answered, the next period brings what the last one asked
\* for, whatever was scheduled before or in flight when a period ended; but a client
\* that asks for the plan in force, to undo a reduction, is told it is done, and the
\* reduction stays.
LastChangeWins ==
  Quiet /\ mishaps \subseteq {"renewal"} /\ habits = {} => Upcoming = asked
=============================================================================
