----------------------------- MODULE BillingProofs -----------------------------
(***************************************************************************)
(* The plan in force is the one invoiced, for any number of prices, of     *)
(* quotas and of requests.  PlanIsPaid is not inductive: a reduction writes *)
(* back the plan it read, so while nothing but failures has happened that  *)
(* must be the plan in force, and the request the only one in flight.      *)
(* That reductions wait and that the last answer holds follows in the same  *)
(* way, from what a change has seen of the plan and of the schedule.        *)
(***************************************************************************)
EXTENDS Billing, TLAPS

-----------------------------------------------------------------------------
Changing(w) == job[w].stage \in {"lookup", "create", "charge", "program", "release"}

AloneInv ==
  "overlap" \notin mishaps => \A w \in Workers : Busy(w) => \A v \in Workers \ {w} : ~Busy(v)

ReadInv == mishaps \subseteq {"failure"} => \A w \in Workers : Changing(w) => job[w].current = plan

BillingInv == BillingTypeOK /\ AloneInv /\ ReadInv /\ PlanIsPaid

-----------------------------------------------------------------------------
LEMMA InitEstablishes == Init => BillingInv
<1> SUFFICES ASSUME Init
             PROVE  BillingInv
  OBVIOUS
<1>1. job \in [Workers -> Jobs \cup {Idle}] /\ \A w \in Workers : job[w] = Idle
  BY DEF Init
<1>2. BillingTypeOK
  BY <1>1 DEF Init, BillingTypeOK
<1>3. AloneInv /\ ReadInv /\ PlanIsPaid
  BY <1>1 DEF Init, AloneInv, ReadInv, PlanIsPaid, Busy, Changing, Idle
<1> QED
  BY <1>2, <1>3 DEF BillingInv

\* A request in flight, with the fields its stage has.
LEMMA ChangeInFlight ==
  ASSUME BillingInv, NEW w \in Workers, Changing(w)
  PROVE  /\ Busy(w)
         /\ job[w].current \in Plans /\ job[w].target \in Plans
         /\ job[w].stage \in {"program", "release"} => job[w].id \in Schedules
<1>1. job[w] \in Jobs \cup {Idle}
  BY DEF BillingInv, BillingTypeOK
<1> QED
  BY <1>1 DEF Changing, Busy, Jobs, Idle

\* What a step of worker w leaves to the others.
LEMMA OthersKeepTheirJob ==
  ASSUME BillingTypeOK, NEW w \in Workers, NEW j \in Jobs \cup {Idle}, Goes(w, j)
  PROVE  /\ job'[w] = j
         /\ \A v \in Workers \ {w} : job'[v] = job[v]
         /\ job' \in [Workers -> Jobs \cup {Idle}]
BY DEF BillingTypeOK, Goes

\* A step of a request that was in flight keeps it alone.
LEMMA StaysAlone ==
  ASSUME BillingInv, NEW w \in Workers, NEW j \in Jobs \cup {Idle}, Goes(w, j),
         Busy(w), "overlap" \in mishaps => "overlap" \in mishaps'
  PROVE  AloneInv'
<1>1. BillingTypeOK /\ AloneInv
  BY DEF BillingInv
<1>2. job'[w] = j /\ \A v \in Workers \ {w} : job'[v] = job[v]
  BY <1>1, OthersKeepTheirJob
<1> QED
  BY <1>1, <1>2 DEF AloneInv, Busy

\* A step of worker w that changes neither plan nor mishaps, and carries on with
\* the plan it read.
LEMMA ChangeGoesOn ==
  ASSUME BillingInv, NEW w \in Workers, NEW j \in Jobs \cup {Idle}, Goes(w, j), Busy(w),
         \/ j = Idle
         \/ Changing(w) /\ j.current = job[w].current
         \/ j.current = plan,
         UNCHANGED <<plan, paid, mishaps>>
  PROVE  AloneInv' /\ ReadInv' /\ PlanIsPaid'
<1>1. BillingTypeOK /\ ReadInv /\ PlanIsPaid
  BY DEF BillingInv
<1>2. job'[w] = j /\ \A v \in Workers \ {w} : job'[v] = job[v]
  BY <1>1, OthersKeepTheirJob
<1>3. AloneInv'
  BY StaysAlone
<1>4. ReadInv'
  BY <1>1, <1>2 DEF ReadInv, Changing, Idle
<1> QED
  BY <1>1, <1>3, <1>4 DEF PlanIsPaid

LEMMA AskPreserves ==
  ASSUME BillingInv, NEW w \in Workers, NEW p \in Prices, NEW q \in Quantities \cup {Null},
         Ask(w, p, q)
  PROVE  BillingInv'
<1> DEFINE j == [stage |-> "load", price |-> p, quantity |-> q]
<1>1. BillingTypeOK /\ AloneInv /\ ReadInv /\ PlanIsPaid
  BY DEF BillingInv
<1>2. j \in Jobs \cup {Idle} /\ j.stage = "load"
  BY DEF Jobs
<1>3. Goes(w, j) /\ UNCHANGED <<stripeVars, paid, asked, habits>>
      /\ mishaps' = mishaps \cup (IF Quiet THEN {} ELSE {"overlap"})
  BY DEF Ask
<1> HIDE DEF j
<1>4. job'[w] = j /\ (\A v \in Workers \ {w} : job'[v] = job[v])
      /\ job' \in [Workers -> Jobs \cup {Idle}]
  BY <1>1, <1>2, <1>3, OthersKeepTheirJob
<1>5. BillingTypeOK'
  BY <1>1, <1>3, <1>4 DEF BillingTypeOK, stripeVars, Mishaps
<1>6. AloneInv'
  <2>1. CASE Quiet
    BY <1>4, <2>1 DEF AloneInv, Busy, Quiet
  <2>2. CASE ~Quiet
    BY <1>3, <2>2 DEF AloneInv
  <2> QED
    BY <2>1, <2>2
<1>7. ReadInv' /\ PlanIsPaid'
  BY <1>1, <1>2, <1>3, <1>4 DEF ReadInv, PlanIsPaid, Changing, stripeVars
<1> QED
  BY <1>5, <1>6, <1>7 DEF BillingInv

LEMMA LoadPreserves ==
  ASSUME BillingInv, NEW w \in Workers, Load(w)
  PROVE  BillingInv'
<1> DEFINE target == Target(job[w])
<1>1. BillingTypeOK /\ job[w] \in Jobs \cup {Idle} /\ job[w].stage = "load"
  BY DEF BillingInv, BillingTypeOK, Load
<1>2. Busy(w) /\ job[w].price \in Prices /\ job[w].quantity \in Quantities \cup {Null}
  BY <1>1 DEF Busy, Idle, Jobs
<1>3. target \in Plans
  BY <1>1, <1>2 DEF Target, Plans, BillingTypeOK
<1>4. UNCHANGED <<stripeVars, paid, mishaps>>
  BY DEF Load
<1>5. asked' \in Plans /\ habits' \subseteq Habits
  BY <1>1, <1>3 DEF Load, BillingTypeOK, Habits
<1> HIDE DEF target
<1>6. PICK j \in Jobs \cup {Idle} : Goes(w, j) /\ (j = Idle \/ j.current = plan)
  <2>1. CASE target = plan
    BY <2>1 DEF Load, target
  <2>2. CASE target # plan /\ Reduces(plan, target)
    <3> DEFINE j == [stage |-> "lookup", current |-> plan, target |-> target]
    <3>1. Goes(w, j)
      BY <2>2 DEF Load, target
    <3>2. j \in Jobs /\ j.current = plan
      BY <1>1, <1>3 DEF Jobs, BillingTypeOK
    <3> QED
      BY <3>1, <3>2
  <2>3. CASE target # plan /\ ~Reduces(plan, target)
    <3>1. Goes(w, ChangesNow(target))
      BY <2>3 DEF Load, target
    <3>2. schedule # None => schedule.id \in Schedules
      BY <1>1 DEF BillingTypeOK, Attached
    <3>3. ChangesNow(target) \in Jobs /\ ChangesNow(target).current = plan
      BY <1>1, <1>3, <3>2 DEF ChangesNow, Jobs, BillingTypeOK
    <3> QED
      BY <3>1, <3>3
  <2> QED
    BY <2>1, <2>2, <2>3
<1>7. job' \in [Workers -> Jobs \cup {Idle}]
  BY <1>1, <1>6, OthersKeepTheirJob
<1>8. BillingTypeOK'
  BY <1>1, <1>4, <1>5, <1>7 DEF BillingTypeOK, stripeVars
<1>9. UNCHANGED <<plan, paid, mishaps>>
  BY <1>4 DEF stripeVars
<1> QED
  BY <1>2, <1>6, <1>8, <1>9, ChangeGoesOn DEF BillingInv

-----------------------------------------------------------------------------
\* A reduction goes on, with its schedule or with none.
LEMMA ProgramsAChange ==
  ASSUME BillingInv, NEW w \in Workers, Changing(w), NEW id \in Schedules, Programs(w, id)
  PROVE  \E j \in Jobs \cup {Idle} : Goes(w, j) /\ j.current = job[w].current
<1> DEFINE j == [stage |-> "program", current |-> job[w].current, target |-> job[w].target, id |-> id]
<1>1. j \in Jobs /\ j.current = job[w].current
  BY ChangeInFlight DEF Jobs
<1> QED
  BY <1>1 DEF Programs

LEMMA LookUpSchedulePreserves ==
  ASSUME BillingInv, NEW w \in Workers, LookUpSchedule(w)
  PROVE  BillingInv'
<1>1. BillingTypeOK /\ Changing(w) /\ UNCHANGED <<stripeVars, paid, asked, habits, mishaps>>
  BY DEF BillingInv, LookUpSchedule, Changing
<1>2. PICK j \in Jobs \cup {Idle} : Goes(w, j) /\ j.current = job[w].current
  <2>1. CASE schedule # None
    <3>1. schedule.id \in Schedules
      BY <1>1, <2>1 DEF BillingTypeOK, Attached
    <3>2. Programs(w, schedule.id)
      BY <2>1 DEF LookUpSchedule
    <3> QED
      BY <1>1, <3>1, <3>2, ProgramsAChange
  <2>2. CASE schedule = None
    <3> DEFINE j == [job[w] EXCEPT !.stage = "create"]
    <3>1. job[w] \in Jobs \cup {Idle} /\ job[w].stage = "lookup"
      BY <1>1 DEF BillingTypeOK, LookUpSchedule
    <3>2. job[w] \in [stage : {"lookup", "create", "charge"}, current : Plans, target : Plans]
      BY <3>1 DEF Jobs, Idle
    <3>3. j \in Jobs /\ j.current = job[w].current
      BY <3>2 DEF Jobs
    <3>4. Goes(w, j)
      BY <2>2 DEF LookUpSchedule
    <3> QED
      BY <3>3, <3>4
  <2> QED
    BY <2>1, <2>2
<1>3. job' \in [Workers -> Jobs \cup {Idle}]
  BY <1>1, <1>2, OthersKeepTheirJob
<1>4. BillingTypeOK' /\ UNCHANGED <<plan, paid, mishaps>>
  BY <1>1, <1>3 DEF BillingTypeOK, stripeVars
<1> QED
  BY <1>1, <1>2, <1>4, ChangeInFlight, ChangeGoesOn DEF BillingInv

LEMMA CreateSchedulePreserves ==
  ASSUME BillingInv, NEW w \in Workers, CreateSchedule(w)
  PROVE  BillingInv'
<1>1. BillingTypeOK /\ Changing(w) /\ UNCHANGED <<plan, ending, ended, paid, asked, habits, mishaps>>
  BY DEF BillingInv, CreateSchedule, Changing
<1>2. PICK id \in Schedules : Programs(w, id) /\ schedule' = [id |-> id, second |-> NoPlan, phase |-> 1]
  BY DEF CreateSchedule
<1>3. PICK j \in Jobs \cup {Idle} : Goes(w, j) /\ j.current = job[w].current
  BY <1>1, <1>2, ProgramsAChange
<1>4. job' \in [Workers -> Jobs \cup {Idle}]
  BY <1>1, <1>3, OthersKeepTheirJob
<1>5. schedule' \in Attached \cup {None}
  BY <1>2 DEF Attached
<1>6. BillingTypeOK'
  BY <1>1, <1>4, <1>5 DEF BillingTypeOK
<1> QED
  BY <1>1, <1>3, <1>6, ChangeInFlight, ChangeGoesOn DEF BillingInv

LEMMA ReleaseSchedulePreserves ==
  ASSUME BillingInv, NEW w \in Workers, ReleaseSchedule(w)
  PROVE  BillingInv'
<1> DEFINE j == [stage |-> "charge", current |-> job[w].current, target |-> job[w].target]
<1>1. BillingTypeOK /\ Changing(w) /\ UNCHANGED <<plan, ending, ended, paid, asked, habits, mishaps>>
  BY DEF BillingInv, ReleaseSchedule, Changing
<1>2. Goes(w, j) /\ schedule' = None
  BY DEF ReleaseSchedule
<1>3. j \in Jobs /\ j.current = job[w].current
  BY <1>1, ChangeInFlight DEF Jobs
<1> HIDE DEF j
<1>4. job' \in [Workers -> Jobs \cup {Idle}]
  BY <1>1, <1>2, <1>3, OthersKeepTheirJob
<1>5. BillingTypeOK'
  BY <1>1, <1>2, <1>4 DEF BillingTypeOK
<1> QED
  BY <1>1, <1>2, <1>3, <1>5, ChangeInFlight, ChangeGoesOn DEF BillingInv

-----------------------------------------------------------------------------
\* The two steps that write the plan end their request: had another been in
\* flight, it would have met this one.
LEMMA LastStepLeavesNoChange ==
  ASSUME BillingInv, NEW w \in Workers, Changing(w), Goes(w, Idle), mishaps' = mishaps,
         mishaps \subseteq {"failure"}
  PROVE  \A v \in Workers : ~Changing(v)'
<1>1. BillingTypeOK /\ AloneInv
  BY DEF BillingInv
<1>2. job'[w] = Idle /\ \A v \in Workers \ {w} : job'[v] = job[v]
  BY <1>1, OthersKeepTheirJob
<1>3. Busy(w)
  BY ChangeInFlight
<1>4. \A v \in Workers \ {w} : job'[v] = Idle
  BY <1>1, <1>2, <1>3 DEF AloneInv, Busy
<1> QED
  BY <1>2, <1>4 DEF Changing, Idle

LEMMA ProgramReductionPreserves ==
  ASSUME BillingInv, NEW w \in Workers, ProgramReduction(w)
  PROVE  BillingInv'
<1>1. BillingTypeOK /\ Changing(w) /\ job[w].stage = "program" /\ ReadInv /\ PlanIsPaid
  BY DEF BillingInv, ProgramReduction, Changing
<1>2. /\ Goes(w, Idle) /\ UNCHANGED <<ending, ended, paid, habits, mishaps>>
      /\ plan' = job[w].current /\ asked' = job[w].target
      /\ schedule' = [id |-> job[w].id, second |-> job[w].target, phase |-> 1]
  BY DEF ProgramReduction, FirstPhase
<1>3. job[w].current \in Plans /\ job[w].target \in Plans /\ job[w].id \in Schedules /\ Busy(w)
  BY <1>1, ChangeInFlight
<1>4. job' \in [Workers -> Jobs \cup {Idle}]
  BY <1>1, <1>2, OthersKeepTheirJob
<1>5. schedule' \in Attached
  BY <1>2, <1>3 DEF Attached
<1>6. BillingTypeOK'
  BY <1>1, <1>2, <1>3, <1>4, <1>5 DEF BillingTypeOK
<1>7. AloneInv'
  BY <1>2, <1>3, StaysAlone
<1>8. ReadInv'
  BY <1>1, <1>2, LastStepLeavesNoChange DEF ReadInv
<1>9. PlanIsPaid'
  BY <1>1, <1>2 DEF ReadInv, PlanIsPaid
<1> QED
  BY <1>6, <1>7, <1>8, <1>9 DEF BillingInv

LEMMA ChargePreserves ==
  ASSUME BillingInv, NEW w \in Workers, Charge(w)
  PROVE  BillingInv'
<1>1. BillingTypeOK /\ Changing(w) /\ job[w].stage = "charge"
  BY DEF BillingInv, Charge, Changing
<1>2. /\ Goes(w, Idle) /\ UNCHANGED <<schedule, ending, ended, habits, mishaps>>
      /\ plan' = job[w].target /\ paid' = job[w].target /\ asked' = job[w].target
  BY DEF Charge
<1>3. job[w].target \in Plans /\ Busy(w)
  BY <1>1, ChangeInFlight
<1>4. job' \in [Workers -> Jobs \cup {Idle}]
  BY <1>1, <1>2, OthersKeepTheirJob
<1>5. BillingTypeOK'
  BY <1>1, <1>2, <1>3, <1>4 DEF BillingTypeOK
<1>6. AloneInv'
  BY <1>2, <1>3, StaysAlone
<1>7. ReadInv'
  BY <1>1, <1>2, LastStepLeavesNoChange DEF ReadInv
<1>8. PlanIsPaid'
  BY <1>2 DEF PlanIsPaid
<1> QED
  BY <1>5, <1>6, <1>7, <1>8 DEF BillingInv

LEMMA FailPreserves ==
  ASSUME BillingInv, NEW w \in Workers, Fail(w)
  PROVE  BillingInv'
<1>1. BillingTypeOK /\ Busy(w) /\ ReadInv /\ PlanIsPaid
  BY DEF BillingInv, Fail
<1>2. /\ Goes(w, Idle) /\ UNCHANGED <<stripeVars, paid, asked, habits>>
      /\ mishaps' = mishaps \cup {"failure"}
  BY DEF Fail
<1>3. job'[w] = Idle /\ (\A v \in Workers \ {w} : job'[v] = job[v])
      /\ job' \in [Workers -> Jobs \cup {Idle}]
  BY <1>1, <1>2, OthersKeepTheirJob
<1>4. BillingTypeOK'
  BY <1>1, <1>2, <1>3 DEF BillingTypeOK, stripeVars, Mishaps
<1>5. AloneInv'
  BY <1>1, <1>2, StaysAlone
<1>6. ReadInv' /\ PlanIsPaid'
  BY <1>1, <1>2, <1>3 DEF ReadInv, PlanIsPaid, Changing, Idle, stripeVars
<1> QED
  BY <1>4, <1>5, <1>6 DEF BillingInv

-----------------------------------------------------------------------------
\* A period that ends with nobody in flight finds no plan read.
LEMMA RenewPreserves == BillingInv /\ Renew => BillingInv'
<1> SUFFICES ASSUME BillingInv, Renew
             PROVE  BillingInv'
  OBVIOUS
<1>1. BillingTypeOK /\ AloneInv
  BY DEF BillingInv
<1>2. /\ plan' = Upcoming /\ paid' = Upcoming /\ UNCHANGED <<ending, ended, asked, habits, job>>
      /\ schedule' = IF Pending THEN [schedule EXCEPT !.phase = 2] ELSE None
      /\ mishaps' = mishaps \cup (IF Quiet THEN {} ELSE {"renewal"})
  BY DEF Renew
<1>3. Upcoming \in Plans /\ schedule' \in Attached \cup {None}
  <2>1. CASE Pending
    <3>1. schedule \in Attached
      BY <1>1, <2>1 DEF Pending, None, BillingTypeOK
    <3> QED
      BY <1>2, <2>1, <3>1 DEF Pending, Upcoming, Attached
  <2>2. CASE ~Pending
    BY <1>1, <1>2, <2>2 DEF Upcoming, BillingTypeOK
  <2> QED
    BY <2>1, <2>2
<1>4. BillingTypeOK'
  BY <1>1, <1>2, <1>3 DEF BillingTypeOK, Mishaps
<1>5. AloneInv' /\ PlanIsPaid'
  BY <1>1, <1>2 DEF AloneInv, PlanIsPaid, Busy
<1>6. ReadInv'
  <2>1. CASE Quiet
    BY <1>2, <2>1 DEF ReadInv, Changing, Quiet, Busy, Idle
  <2>2. CASE ~Quiet
    BY <1>2, <2>2 DEF ReadInv
  <2> QED
    BY <2>1, <2>2
<1> QED
  BY <1>4, <1>5, <1>6 DEF BillingInv

LEMMA EndingsPreserve ==
  BillingInv /\ (CancelAtPeriodEnd \/ RevokeCancellation \/ Lapse \/ UNCHANGED vars) => BillingInv'
BY DEF CancelAtPeriodEnd, RevokeCancellation, Lapse, vars, stripeVars, BillingInv, BillingTypeOK,
   AloneInv, ReadInv, PlanIsPaid, Busy, Changing

-----------------------------------------------------------------------------
LEMMA BillingInvInductive == Spec => []BillingInv
<1>1. BillingInv /\ [Next]_vars => BillingInv'
  <2> SUFFICES ASSUME BillingInv, [Next]_vars
               PROVE  BillingInv'
    OBVIOUS
  <2>1. ASSUME NEW w \in Workers, NEW p \in Prices, NEW q \in Quantities \cup {Null}, Ask(w, p, q)
        PROVE  BillingInv'
    BY <2>1, AskPreserves
  <2>2. ASSUME NEW w \in Workers, Load(w) \/ LookUpSchedule(w) \/ CreateSchedule(w) \/ ReleaseSchedule(w)
        PROVE  BillingInv'
    BY <2>2, LoadPreserves, LookUpSchedulePreserves, CreateSchedulePreserves, ReleaseSchedulePreserves
  <2>3. ASSUME NEW w \in Workers, ProgramReduction(w) \/ Charge(w) \/ Fail(w)
        PROVE  BillingInv'
    BY <2>3, ProgramReductionPreserves, ChargePreserves, FailPreserves
  <2> QED
    BY <2>1, <2>2, <2>3, RenewPreserves, EndingsPreserve DEF Next
<1> QED
  BY InitEstablishes, <1>1, PTL DEF Spec

\* Types: the subscription, its schedule and every request keep their shape.
THEOREM BillingTypeCorrect == Spec => []BillingTypeOK
BY BillingInvInductive, PTL DEF BillingInv

\* No quota is used unpaid and none paid for is withdrawn, wherever a change
\* dies, unless changes overlap or a period ends in the middle of one.
THEOREM PlanAlwaysPaid == Spec => []PlanIsPaid
BY BillingInvInductive, PTL DEF BillingInv
-----------------------------------------------------------------------------
(***************************************************************************)
(* Reductions and answers.  Two more facts are needed, both only while     *)
(* changes do not overlap.  The plans a change carries are ordered the way *)
(* it was judged when it was loaded: renewals may lower the plan in force  *)
(* below the one that was read, never raise it, and a change that is about *)
(* to be charged has no schedule to leave behind.  And what the next       *)
(* period brings is what was last answered until a change starts to act.   *)
(***************************************************************************)
ReductionIsLess == Pending => schedule.second.quantity < plan.quantity

JobIsOrdered(w) ==
  /\ job[w].stage \in {"charge", "release"} => plan.quantity <= job[w].target.quantity
  /\ job[w].stage = "charge" => schedule = None
  /\ job[w].stage \in {"lookup", "create", "program"} =>
       /\ job[w].target.quantity < job[w].current.quantity
       /\ plan.quantity <= job[w].current.quantity

OrderInv ==
  "overlap" \notin mishaps => ReductionIsLess /\ \A w \in Workers : JobIsOrdered(w)

AnswerInv ==
  mishaps \subseteq {"renewal"} /\ habits = {} /\ (\A w \in Workers : ~Changing(w))
    => Upcoming = asked

AnsweredInv == BillingInv /\ OrderInv /\ AnswerInv

-----------------------------------------------------------------------------
\* The quotas that are compared are numbers.
LEMMA QuotasAreNumbers ==
  ASSUME BillingTypeOK
  PROVE  /\ plan.quantity \in Int
         /\ schedule.second.quantity \in Int
         /\ \A w \in Workers : Changing(w) => /\ job[w].current.quantity \in Int
                                              /\ job[w].target.quantity \in Int
<1>1. \A p \in Plans : p.quantity \in Int
  BY BillingAssumption DEF Plans, Quantities
<1>2. schedule.second \in Plans \cup {NoPlan}
  BY DEF BillingTypeOK, Attached, None
<1>3. ASSUME NEW w \in Workers, Changing(w)
      PROVE  job[w].current \in Plans /\ job[w].target \in Plans
  <2>1. job[w] \in Jobs \cup {Idle}
    BY DEF BillingTypeOK
  <2> QED
    BY <1>3, <2>1 DEF Changing, Jobs, Idle
<1> QED
  BY <1>1, <1>2, <1>3 DEF BillingTypeOK, NoPlan

\* Without an overlap the request that acts is the only one.
LEMMA ActsAlone ==
  ASSUME BillingInv, NEW w \in Workers, NEW j \in Jobs \cup {Idle}, Goes(w, j), Busy(w),
         "overlap" \notin mishaps
  PROVE  job'[w] = j /\ \A v \in Workers \ {w} : job[v] = Idle /\ job'[v] = Idle
<1>1. BillingTypeOK /\ AloneInv
  BY DEF BillingInv
<1>2. job'[w] = j /\ \A v \in Workers \ {w} : job'[v] = job[v]
  BY <1>1, OthersKeepTheirJob
<1>3. \A v \in Workers \ {w} : job[v] = Idle
  BY <1>1 DEF AloneInv, Busy
<1> QED
  BY <1>2, <1>3

\* A step of the only request is judged by what it does to that request.
LEMMA OrderFollows ==
  ASSUME BillingInv, NEW w \in Workers, NEW j \in Jobs \cup {Idle}, Goes(w, j), Busy(w),
         mishaps' = mishaps,
         "overlap" \notin mishaps => ReductionIsLess' /\ (job'[w] = j => JobIsOrdered(w)')
  PROVE  OrderInv'
<1> SUFFICES ASSUME "overlap" \notin mishaps
             PROVE  ReductionIsLess' /\ \A v \in Workers : JobIsOrdered(v)'
  BY DEF OrderInv
<1>1. job'[w] = j /\ \A v \in Workers \ {w} : job'[v] = Idle
  BY ActsAlone
<1>2. \A v \in Workers \ {w} : JobIsOrdered(v)'
  BY <1>1 DEF JobIsOrdered, Idle
<1> QED
  BY <1>1, <1>2

LEMMA AskOrders ==
  ASSUME AnsweredInv, NEW w \in Workers, NEW p \in Prices, NEW q \in Quantities \cup {Null},
         Ask(w, p, q)
  PROVE  OrderInv' /\ AnswerInv'
<1> DEFINE j == [stage |-> "load", price |-> p, quantity |-> q]
<1>1. BillingTypeOK /\ OrderInv /\ AnswerInv
  BY DEF AnsweredInv, BillingInv
<1>2. j \in Jobs \cup {Idle} /\ j.stage = "load"
  BY DEF Jobs
<1>3. /\ Goes(w, j) /\ ~Busy(w)
      /\ UNCHANGED <<plan, schedule, ending, ended, paid, asked, habits>>
      /\ mishaps' = mishaps \cup (IF Quiet THEN {} ELSE {"overlap"})
  BY DEF Ask, stripeVars
<1> HIDE DEF j
<1>4. job'[w] = j /\ \A v \in Workers \ {w} : job'[v] = job[v]
  BY <1>1, <1>2, <1>3, OthersKeepTheirJob
<1>5. OrderInv'
  BY <1>1, <1>2, <1>3, <1>4 DEF OrderInv, ReductionIsLess, JobIsOrdered, Pending
<1>6. \A v \in Workers : Changing(v) => Changing(v)'
  BY <1>3, <1>4 DEF Changing, Busy, Idle
<1>7. AnswerInv'
  BY <1>1, <1>3, <1>6 DEF AnswerInv, Upcoming, Pending
<1> QED
  BY <1>5, <1>7

LEMMA LoadOrders ==
  ASSUME AnsweredInv, NEW w \in Workers, Load(w)
  PROVE  OrderInv' /\ AnswerInv'
<1> DEFINE target == Target(job[w])
<1>1. BillingInv /\ BillingTypeOK /\ OrderInv /\ AnswerInv
  BY DEF AnsweredInv, BillingInv
<1>2. Busy(w) /\ job[w].stage = "load" /\ job[w] \in Jobs \cup {Idle}
  BY <1>1 DEF Load, Busy, Idle, BillingTypeOK
<1>3. UNCHANGED <<plan, schedule, ending, ended, paid, mishaps>>
  BY DEF Load, stripeVars
<1>4. target \in Plans
  <2>1. job[w].price \in Prices /\ job[w].quantity \in Quantities \cup {Null}
    BY <1>2 DEF Jobs, Idle
  <2> QED
    BY <1>1, <2>1 DEF Target, Plans, BillingTypeOK
<1>5. plan.quantity \in Int /\ target.quantity \in Int
  BY <1>1, <1>4, BillingAssumption, QuotasAreNumbers DEF Plans, Quantities
<1>6. CASE target = plan
  <2>1. /\ Goes(w, Idle) /\ asked' = plan
        /\ habits' = habits \cup (IF Pending THEN {"kept"} ELSE {})
    BY <1>6 DEF Load
  <2>2. OrderInv'
    BY <1>1, <1>2, <1>3, <2>1, OrderFollows
       DEF OrderInv, ReductionIsLess, JobIsOrdered, Pending, Idle
  <2>3. AnswerInv'
    BY <1>3, <2>1 DEF AnswerInv, Upcoming, Pending
  <2> QED
    BY <2>2, <2>3
<1>7. CASE target # plan
  <2> DEFINE j == IF Reduces(plan, target)
                    THEN [stage |-> "lookup", current |-> plan, target |-> target]
                    ELSE ChangesNow(target)
  <2>1. Goes(w, j)
    BY <1>7 DEF Load
  <2>2. /\ j.stage \in {"lookup", "charge", "release"} /\ j.target = target
        /\ j.stage = "lookup" => j.current = plan /\ Reduces(plan, target)
        /\ j.stage \in {"charge", "release"} => ~Reduces(plan, target)
        /\ j.stage = "charge" => schedule = None
    BY DEF ChangesNow
  <2>3. j \in Jobs
    <3>1. schedule # None => schedule.id \in Schedules
      BY <1>1 DEF BillingTypeOK, Attached
    <3> QED
      BY <1>1, <1>4, <3>1 DEF ChangesNow, Jobs, BillingTypeOK
  <2> HIDE DEF j, target
  <2>4. job'[w] = j
    BY <1>1, <2>1, <2>3, OthersKeepTheirJob
  <2>5. JobIsOrdered(w)'
    BY <1>3, <1>5, <2>2, <2>4 DEF JobIsOrdered, Reduces
  <2>6. OrderInv'
    BY <1>1, <1>2, <1>3, <2>1, <2>3, <2>5, OrderFollows DEF OrderInv, ReductionIsLess, Pending
  <2>7. AnswerInv'
    BY <2>2, <2>4 DEF AnswerInv, Changing
  <2> QED
    BY <2>6, <2>7
<1> QED
  BY <1>6, <1>7

\* Between its judgement and its writes a change carries its plans unchanged.
LEMMA CarriesOn ==
  ASSUME AnsweredInv, NEW w \in Workers, Changing(w), NEW j \in Jobs, Goes(w, j),
         UNCHANGED <<plan, mishaps>>,
         schedule' = schedule \/ ~Pending',
         j.current = job[w].current, j.target = job[w].target,
         \/ job[w].stage \in {"lookup", "create"} /\ j.stage \in {"create", "program"}
         \/ job[w].stage = "release" /\ j.stage = "charge" /\ schedule' = None
  PROVE  OrderInv' /\ AnswerInv'
<1>1. BillingInv /\ BillingTypeOK /\ OrderInv /\ Busy(w)
  BY ChangeInFlight DEF AnsweredInv, BillingInv
<1>2. job'[w] = j
  BY <1>1, OthersKeepTheirJob
<1>3. "overlap" \notin mishaps => JobIsOrdered(w)'
  BY <1>1, <1>2 DEF OrderInv, JobIsOrdered
<1>4. OrderInv'
  BY <1>1, <1>3, OrderFollows DEF OrderInv, ReductionIsLess, Pending
<1>5. AnswerInv'
  BY <1>2 DEF AnswerInv, Changing
<1> QED
  BY <1>4, <1>5

LEMMA SchedulesOrder ==
  ASSUME AnsweredInv, NEW w \in Workers,
         LookUpSchedule(w) \/ CreateSchedule(w) \/ ReleaseSchedule(w)
  PROVE  OrderInv' /\ AnswerInv'
<1>1. BillingInv /\ BillingTypeOK
  BY DEF AnsweredInv, BillingInv
<1>2. ASSUME NEW id \in Schedules, Programs(w, id), job[w].stage \in {"lookup", "create"},
             UNCHANGED <<plan, mishaps>>, schedule' = schedule \/ ~Pending'
      PROVE  OrderInv' /\ AnswerInv'
  <2> DEFINE j == [stage |-> "program", current |-> job[w].current,
                   target |-> job[w].target, id |-> id]
  <2>1. Changing(w)
    BY <1>2 DEF Changing
  <2>2. j \in Jobs
    BY <1>1, <2>1, ChangeInFlight DEF Jobs
  <2>3. Goes(w, j)
    BY <1>2 DEF Programs
  <2>4. j.stage = "program" /\ j.current = job[w].current /\ j.target = job[w].target
    OBVIOUS
  <2> HIDE DEF j
  <2> QED
    BY <1>2, <2>1, <2>2, <2>3, <2>4, CarriesOn
<1>3. CASE LookUpSchedule(w) /\ schedule # None
  <2>1. schedule.id \in Schedules
    BY <1>1, <1>3 DEF BillingTypeOK, Attached
  <2> QED
    BY <1>2, <1>3, <2>1 DEF LookUpSchedule, stripeVars
<1>4. CASE LookUpSchedule(w) /\ schedule = None
  <2> DEFINE j == [job[w] EXCEPT !.stage = "create"]
  <2>1. /\ job[w].stage = "lookup" /\ Changing(w) /\ Goes(w, j)
        /\ UNCHANGED <<plan, schedule, mishaps>>
    BY <1>4 DEF LookUpSchedule, Changing, stripeVars
  <2>2. job[w] \in Jobs \cup {Idle}
    BY <1>1 DEF BillingTypeOK
  <2>3. job[w] \in [stage : {"lookup", "create", "charge"}, current : Plans, target : Plans]
    BY <2>1, <2>2 DEF Jobs, Idle
  <2>4. /\ j \in Jobs /\ j.stage = "create"
        /\ j.current = job[w].current /\ j.target = job[w].target
    BY <2>3 DEF Jobs
  <2> HIDE DEF j
  <2> QED
    BY <2>1, <2>4, CarriesOn
<1>5. CASE CreateSchedule(w)
  <2>1. PICK id \in Schedules :
          /\ Programs(w, id) /\ schedule' = [id |-> id, second |-> NoPlan, phase |-> 1]
    BY <1>5 DEF CreateSchedule
  <2>2. ~Pending'
    BY <2>1 DEF Pending
  <2> QED
    BY <1>2, <1>5, <2>1, <2>2 DEF CreateSchedule
<1>6. CASE ReleaseSchedule(w)
  <2> DEFINE j == [stage |-> "charge", current |-> job[w].current, target |-> job[w].target]
  <2>1. /\ job[w].stage = "release" /\ Changing(w) /\ Goes(w, j)
        /\ UNCHANGED <<plan, mishaps>> /\ schedule' = None
    BY <1>6 DEF ReleaseSchedule, Changing
  <2>2. /\ j \in Jobs /\ j.stage = "charge"
        /\ j.current = job[w].current /\ j.target = job[w].target
    BY <1>1, <2>1, ChangeInFlight DEF Jobs
  <2>3. ~Pending'
    BY <2>1 DEF Pending, None
  <2> HIDE DEF j
  <2> QED
    BY <2>1, <2>2, <2>3, CarriesOn
<1> QED
  BY <1>3, <1>4, <1>5, <1>6

\* The two writes of the plan leave what they answered, and nobody in flight.
LEMMA WritesOrder ==
  ASSUME AnsweredInv, NEW w \in Workers, ProgramReduction(w) \/ Charge(w)
  PROVE  OrderInv' /\ AnswerInv'
<1>1. BillingInv /\ BillingTypeOK /\ OrderInv /\ Changing(w)
  BY DEF AnsweredInv, BillingInv, ProgramReduction, Charge, Changing
<1>2. /\ Busy(w) /\ job[w].target \in Plans
      /\ job[w].stage \in {"program", "release"} => job[w].id \in Schedules
  BY <1>1, ChangeInFlight
<1>3. Goes(w, Idle) /\ mishaps' = mishaps /\ habits' = habits /\ asked' = job[w].target
  BY DEF ProgramReduction, Charge
<1>4. NoPlan \notin Plans
  BY BillingAssumption DEF NoPlan, Plans, Quantities
<1>5. "overlap" \notin mishaps => ReductionIsLess' /\ Upcoming' = asked'
  <2>1. CASE ProgramReduction(w)
    <3>1. /\ plan' = job[w].current /\ job[w].stage = "program"
          /\ schedule' = [id |-> job[w].id, second |-> job[w].target, phase |-> 1]
      BY <2>1 DEF ProgramReduction, FirstPhase
    <3>2. Upcoming' = asked'
      BY <1>2, <1>3, <1>4, <3>1 DEF Upcoming, Pending
    <3>3. "overlap" \notin mishaps => ReductionIsLess'
      BY <1>1, <3>1 DEF OrderInv, JobIsOrdered, ReductionIsLess
    <3> QED
      BY <3>2, <3>3
  <2>2. CASE Charge(w)
    <3>1. plan' = job[w].target /\ schedule' = schedule /\ job[w].stage = "charge"
      BY <2>2 DEF Charge
    <3>2. "overlap" \notin mishaps => ~Pending'
      BY <1>1, <3>1 DEF OrderInv, JobIsOrdered, Pending, None
    <3> QED
      BY <1>3, <3>1, <3>2 DEF Upcoming, ReductionIsLess
  <2> QED
    BY <2>1, <2>2
<1>6. OrderInv'
  BY <1>1, <1>2, <1>3, <1>5, OrderFollows DEF JobIsOrdered, Idle
<1>7. AnswerInv'
  BY <1>3, <1>5 DEF AnswerInv
<1> QED
  BY <1>6, <1>7

LEMMA FailOrders ==
  ASSUME AnsweredInv, NEW w \in Workers, Fail(w)
  PROVE  OrderInv' /\ AnswerInv'
<1>1. BillingTypeOK /\ OrderInv
  BY DEF AnsweredInv, BillingInv
<1>2. Goes(w, Idle) /\ UNCHANGED <<plan, schedule>> /\ mishaps' = mishaps \cup {"failure"}
  BY DEF Fail, stripeVars
<1>3. job'[w] = Idle /\ \A v \in Workers \ {w} : job'[v] = job[v]
  BY <1>1, <1>2, OthersKeepTheirJob
<1>4. OrderInv'
  BY <1>1, <1>2, <1>3 DEF OrderInv, ReductionIsLess, JobIsOrdered, Pending, Idle
<1>5. AnswerInv'
  BY <1>2 DEF AnswerInv
<1> QED
  BY <1>4, <1>5

\* A period that ends can only lower the plan a change in flight has read.
LEMMA RenewOrders == AnsweredInv /\ Renew => OrderInv' /\ AnswerInv'
<1> SUFFICES ASSUME AnsweredInv, Renew
             PROVE  OrderInv' /\ AnswerInv'
  OBVIOUS
<1>1. BillingTypeOK /\ OrderInv /\ AnswerInv
  BY DEF AnsweredInv, BillingInv
<1>2. /\ plan' = Upcoming /\ UNCHANGED <<asked, habits, job>>
      /\ schedule' = IF Pending THEN [schedule EXCEPT !.phase = 2] ELSE None
      /\ "overlap" \in mishaps' => "overlap" \in mishaps
      /\ mishaps \subseteq mishaps'
  BY <1>1 DEF Renew
<1>3. ~Pending' /\ (schedule = None => schedule' = None)
  <2>1. CASE Pending
    <3>1. schedule \in Attached
      BY <1>1, <2>1 DEF Pending, None, BillingTypeOK
    <3> QED
      BY <1>2, <2>1, <3>1 DEF Pending, Attached, None
  <2>2. CASE ~Pending
    BY <1>2, <2>2 DEF Pending, None
  <2> QED
    BY <2>1, <2>2
<1>4. plan'.quantity \in Int /\ ("overlap" \notin mishaps => plan'.quantity <= plan.quantity)
  <2>1. plan.quantity \in Int /\ schedule.second.quantity \in Int
    BY <1>1, QuotasAreNumbers
  <2>2. CASE Pending
    BY <1>1, <1>2, <2>1, <2>2 DEF Upcoming, OrderInv, ReductionIsLess
  <2>3. CASE ~Pending
    BY <1>2, <2>1, <2>3 DEF Upcoming
  <2> QED
    BY <2>2, <2>3
<1>5. ASSUME NEW w \in Workers, "overlap" \notin mishaps
      PROVE  JobIsOrdered(w)'
  <2>1. JobIsOrdered(w) /\ job'[w] = job[w]
    BY <1>1, <1>2, <1>5 DEF OrderInv
  <2>2. /\ plan.quantity \in Int /\ plan'.quantity \in Int /\ plan'.quantity <= plan.quantity
        /\ Changing(w) => /\ job[w].current.quantity \in Int
                          /\ job[w].target.quantity \in Int
    BY <1>1, <1>4, <1>5, QuotasAreNumbers
  <2>3. job[w].stage \in {"charge", "release"} => plan'.quantity <= job[w].target.quantity
    BY <2>1, <2>2 DEF JobIsOrdered, Changing
  <2>4. job[w].stage \in {"lookup", "create", "program"} =>
          plan'.quantity <= job[w].current.quantity
    BY <2>1, <2>2 DEF JobIsOrdered, Changing
  <2> QED
    BY <1>3, <2>1, <2>3, <2>4 DEF JobIsOrdered
<1>6. OrderInv'
  BY <1>2, <1>3, <1>5 DEF OrderInv, ReductionIsLess
<1>7. AnswerInv'
  BY <1>1, <1>2, <1>3 DEF AnswerInv, Upcoming, Changing
<1> QED
  BY <1>6, <1>7

LEMMA EndingsOrder ==
  AnsweredInv /\ (CancelAtPeriodEnd \/ RevokeCancellation \/ Lapse \/ UNCHANGED vars)
    => OrderInv' /\ AnswerInv'
BY DEF CancelAtPeriodEnd, RevokeCancellation, Lapse, vars, stripeVars, AnsweredInv, OrderInv,
   AnswerInv, ReductionIsLess, JobIsOrdered, Pending, Upcoming, Changing

LEMMA AnsweredInvInductive == Spec => []AnsweredInv
<1>1. Init => OrderInv /\ AnswerInv
  <2> SUFFICES ASSUME Init
               PROVE  OrderInv /\ AnswerInv
    OBVIOUS
  <2>1. (\A w \in Workers : job[w] = Idle) /\ ~Pending /\ asked = plan
    BY DEF Init, Pending, None
  <2> QED
    BY <2>1 DEF OrderInv, AnswerInv, ReductionIsLess, JobIsOrdered, Upcoming, Idle
<1>2. AnsweredInv /\ [Next]_vars => OrderInv' /\ AnswerInv'
  <2> SUFFICES ASSUME AnsweredInv, [Next]_vars
               PROVE  OrderInv' /\ AnswerInv'
    OBVIOUS
  <2>1. ASSUME NEW w \in Workers, NEW p \in Prices, NEW q \in Quantities \cup {Null}, Ask(w, p, q)
        PROVE  OrderInv' /\ AnswerInv'
    BY <2>1, AskOrders
  <2>2. ASSUME NEW w \in Workers,
               Load(w) \/ LookUpSchedule(w) \/ CreateSchedule(w) \/ ReleaseSchedule(w)
        PROVE  OrderInv' /\ AnswerInv'
    BY <2>2, LoadOrders, SchedulesOrder
  <2>3. ASSUME NEW w \in Workers, ProgramReduction(w) \/ Charge(w) \/ Fail(w)
        PROVE  OrderInv' /\ AnswerInv'
    BY <2>3, WritesOrder, FailOrders
  <2> QED
    BY <2>1, <2>2, <2>3, RenewOrders, EndingsOrder DEF Next
<1> QED
  BY <1>1, <1>2, BillingInvInductive, PTL DEF Spec, AnsweredInv

\* Once every change is answered, what the next period brings is what the last one
\* asked for, whatever was scheduled before and however many periods ended between,
\* unless changes overlapped, one died, or one asked for the plan in force to undo a
\* reduction.
THEOREM LastAnswerHolds == Spec => []LastChangeWins
<1>1. AnsweredInv => LastChangeWins
  BY DEF AnsweredInv, AnswerInv, LastChangeWins, Quiet, Busy, Changing, Idle
<1> QED
  BY <1>1, AnsweredInvInductive, PTL

\* No step of a change lowers the quota in force: a reduction waits for a period to
\* end, deaths and renewals in the middle included, unless changes overlap.
THEOREM ReductionsAlwaysWait == Spec => ReductionsWait
<1>1. AnsweredInv /\ [Next]_vars =>
        [plan'.quantity < plan.quantity /\ "overlap" \notin mishaps => Renew]_vars
  <2> SUFFICES ASSUME AnsweredInv, Next, plan'.quantity < plan.quantity,
                      "overlap" \notin mishaps
               PROVE  Renew
    BY DEF vars
  <2>1. BillingTypeOK /\ OrderInv /\ plan.quantity \in Int
    BY QuotasAreNumbers DEF AnsweredInv, BillingInv
  <2>2. plan' # plan
    BY <2>1
  <2>3. ASSUME NEW w \in Workers, ProgramReduction(w) \/ Charge(w)
        PROVE  FALSE
    <3>1. /\ Changing(w) /\ JobIsOrdered(w)
          /\ \/ job[w].stage = "program" /\ plan' = job[w].current
             \/ job[w].stage = "charge" /\ plan' = job[w].target
      BY <2>1, <2>3 DEF ProgramReduction, Charge, FirstPhase, Changing, OrderInv
    <3>2. plan.quantity <= plan'.quantity
      BY <3>1 DEF JobIsOrdered
    <3>3. plan'.quantity \in Int
      BY <2>1, <3>1, QuotasAreNumbers
    <3> QED
      BY <2>1, <3>2, <3>3
  <2> QED
    BY <2>2, <2>3 DEF Next, Ask, Load, LookUpSchedule, CreateSchedule, ReleaseSchedule, Fail,
       CancelAtPeriodEnd, RevokeCancellation, Lapse, stripeVars
<1> QED
  BY <1>1, AnsweredInvInductive, PTL DEF Spec, ReductionsWait
=============================================================================
