------------------------------- MODULE TimeClock -------------------------------
(***************************************************************************)
(* The signings of one employee in one enterprise: the clock-ins (start)   *)
(* and clock-outs (end) that SigningService records, corrects and cancels, *)
(* await by await, the durations it derives from them and the history it   *)
(* keeps of the corrections.                                               *)
(*                                                                         *)
(* create never looks at the order of the signings, while updateById       *)
(* refuses a correction that breaks it; so what the clients may do to the  *)
(* day is remembered in habits, and what may go wrong in mishaps.          *)
(***************************************************************************)
EXTENDS Integers, Sequences, FiniteSets

CONSTANTS
  Signings,    \* ids of the rows of signings
  Workers,
  MaxTime,     \* bound on the instants; now is past all of them
  Typed,       \* the durations clients type
  MaxChanges   \* bound on the corrections of a signing

ASSUME ClockAssumption == MaxTime \in Nat /\ MaxChanges \in Nat /\ Typed \subseteq 0..MaxTime

VARIABLES
  made,        \* the signings that have a row; a row is never deleted
  cancelled,   \* those cancelled
  at,          \* action and moment of each signing
  duration,    \* duration_in_seconds, Null where it has none
  first,       \* history: action and moment each signing was created with
  changes,     \* the rows of signings_updates of each signing, oldest first
  habits, mishaps, entangled,   \* history: see below
  job          \* what each worker is doing

clockVars == <<made, cancelled, at, duration>>
ghostVars == <<first, habits, mishaps, entangled>>
vars == <<clockVars, ghostVars, changes, job>>

-----------------------------------------------------------------------------
Times == 0..MaxTime
Null == -1
Durations == {Null} \cup Times
Points == [action : {"start", "end"}, moment : Times]
Statuses == {"active", "cancelled"}
Changes == [previous : Points, updated : Points]

\* unordered: a signing was created out of order.  typed: a client sent a
\* duration.  cancelled: a signing was cancelled.
Habits == {"unordered", "typed", "cancelled"}
\* clockouts, overlap: two requests were in flight, both of them creations or
\* not.  crash: a request died.
Mishaps == {"clockouts", "overlap", "crash"}

\* A clock-out looks for the start it closes, loads its row and saves it whole.
Closings == [stage : {"find"}, moment : Times]
            \cup [stage : {"load"}, signing : Signings, duration : Times]
            \cup [stage : {"assign"}, signing : Signings, duration : Times,
                  row : Points, status : Statuses]
\* A correction checks the day and moves the signing, or loads its row again,
\* saves it whole with a duration and logs it; a cancellation saves the signing
\* as it was loaded.
Plans == UNION {[S -> Durations] : S \in SUBSET Signings}
Edits == [stage : {"sequence"}, signing : Signings, was : Points, point : Points]
         \cup [stage : {"move"}, signing : Signings, was : Points, point : Points, plan : Plans]
         \cup [stage : {"save", "cancel"}, signing : Signings, was : Points, duration : Durations]
         \cup [stage : {"write"}, signing : Signings, was : Points, duration : Durations,
               row : Points, status : Statuses]
         \cup [stage : {"log"}, signing : Signings, was : Points]
EditStages == {"sequence", "move", "save", "write", "log", "cancel"}
Idle == [stage |-> "idle"]

Busy(w) == job[w] # Idle
Quiet == \A w \in Workers : ~Busy(w)
Edited(s) == \E w \in Workers : job[w].stage \in EditStages /\ job[w].signing = s
Held(s) == \E w \in Workers : job[w].stage = "assign" /\ job[w].signing = s

Status(s) == IF s \in cancelled THEN "cancelled" ELSE "active"

-----------------------------------------------------------------------------
\* A day is a function from signings to their points.  It is read in the order
\* of sortSigningsChronologically: by moment, a start before an end.
Precedes(p, q) ==
  p.moment < q.moment \/ (p.moment = q.moment /\ p.action = "start" /\ q.action = "end")

Follows(day, s, t) ==   \* t comes right after s
  /\ Precedes(day[s], day[t])
  /\ \A u \in DOMAIN day : ~(Precedes(day[s], day[u]) /\ Precedes(day[u], day[t]))

\* assertValidSigningSequence: starts and ends alternate, and an end is never
\* the first.
Alternates(day) ==
  /\ \A s, t \in DOMAIN day : s # t => day[s] # day[t]
  /\ \A s, t \in DOMAIN day : Follows(day, s, t) => day[s].action # day[t].action
  /\ \A t \in DOMAIN day : day[t].action = "end" => \E s \in DOMAIN day : Follows(day, s, t)

Starts(day) == {s \in DOMAIN day : day[s].action = "start"}

EndsOf(day, s) == {t \in DOMAIN day : Follows(day, s, t) /\ day[t].action = "end"}
Span(day, s) == CHOOSE d \in Times : \E t \in EndsOf(day, s) : d = day[t].moment - day[s].moment

\* Mutations: an open start lasts 0 seconds; a start left open keeps its duration.
ZeroWhenOpen(day, s) == IF EndsOf(day, s) = {} THEN 0 ELSE Span(day, s)
OnlyClosed(day) == [s \in {t \in Starts(day) : EndsOf(day, t) # {}} |-> Span(day, s)]

\* buildDurationUpdatesForStartSignings: from a start to the end right after it.
DurationIn(day, s) == IF EndsOf(day, s) = {} THEN Null ELSE Span(day, s)
DurationsOf(day) == [s \in Starts(day) |-> DurationIn(day, s)]

\* What the repository reads of the link: the signings that are not cancelled.
Active == made \ cancelled
Today == [s \in Active |-> at[s]]
With(day, s, p) == [t \in DOMAIN day \cup {s} |-> IF t = s THEN p ELSE day[t]]

-----------------------------------------------------------------------------
Begins(w, j) ==
  /\ ~Busy(w)
  /\ job' = [job EXCEPT ![w] = j]
  /\ mishaps' = mishaps \cup
       (IF Quiet THEN {}
        ELSE IF \E v \in Workers : {job[v].stage, j.stage} \cap EditStages # {}
               THEN {"overlap"} ELSE {"clockouts"})
Goes(w, j) == job' = [job EXCEPT ![w] = j]

\* create inserts the row and, for an end, goes on to close a start.
Create(w, s, p, d) ==
  /\ s \notin made
  /\ Begins(w, IF p.action = "end" THEN [stage |-> "find", moment |-> p.moment] ELSE Idle)
  /\ made' = made \cup {s}
  /\ at' = [at EXCEPT ![s] = p]
  /\ duration' = [duration EXCEPT ![s] = d]
  /\ first' = [first EXCEPT ![s] = p]
  /\ habits' = habits \cup (IF d # Null THEN {"typed"} ELSE {})
                      \cup (IF Alternates(With(Today, s, p)) THEN {} ELSE {"unordered"})
  /\ UNCHANGED <<cancelled, changes, entangled>>

Open(s) == at[s].action = "start" /\ duration[s] = Null

\* Mutation: the moment of the end is excluded.
StrictlyOpenStarts(t) == {s \in Active : Open(s) /\ at[s].moment < t}

\* findLatestOpenStartSigningForUser: any of the latest, should two be tied.
OpenStarts(t) == {s \in Active : Open(s) /\ at[s].moment <= t}
LatestOpenStarts(t) ==
  {s \in OpenStarts(t) : \A u \in OpenStarts(t) : at[u].moment <= at[s].moment}

FindOpenStart(w) ==
  /\ job[w].stage = "find"
  /\ \/ OpenStarts(job[w].moment) = {} /\ Goes(w, Idle)
     \/ \E s \in LatestOpenStarts(job[w].moment) :
          Goes(w, [stage |-> "load", signing |-> s, duration |-> job[w].moment - at[s].moment])
  /\ UNCHANGED <<clockVars, ghostVars, changes>>

\* The repository's updateById reads the row and then saves all of it, with the
\* duration: what happened to the signing in between is written back.
SaveRow(s, p, status, d) ==
  /\ at' = [at EXCEPT ![s] = p]
  /\ cancelled' = IF status = "cancelled" THEN cancelled \cup {s} ELSE cancelled \ {s}
  /\ duration' = [duration EXCEPT ![s] = d]

LoadStart(w) ==
  LET j == job[w]
  IN /\ j.stage = "load"
     /\ Goes(w, [stage |-> "assign", signing |-> j.signing, duration |-> j.duration,
                 row |-> at[j.signing], status |-> Status(j.signing)])
     /\ entangled' = IF Edited(j.signing) THEN entangled \cup {j.signing} ELSE entangled
     /\ UNCHANGED <<clockVars, first, habits, mishaps, changes>>

AssignDuration(w) ==
  LET j == job[w]
  IN /\ j.stage = "assign"
     /\ SaveRow(j.signing, j.row, j.status, j.duration)
     /\ Goes(w, Idle)
     /\ UNCHANGED <<made, ghostVars, changes>>

-----------------------------------------------------------------------------
\* Two edits of a signing that are in flight together entangle it, and so does
\* an edit with a clock-out that holds its row.
Entangles(s) == entangled' = IF Edited(s) \/ Held(s) THEN entangled \cup {s} ELSE entangled

\* updateById loads the signing: another point goes to the sequence of the day
\* (the duration of the body is then ignored), the same one to a plain save.
BeginMove(w, s, p) ==
  /\ s \in Active /\ p # at[s] /\ Len(changes[s]) < MaxChanges
  /\ Begins(w, [stage |-> "sequence", signing |-> s, was |-> at[s], point |-> p])
  /\ Entangles(s)
  /\ UNCHANGED <<clockVars, first, habits, changes>>

BeginSave(w, s, d) ==
  /\ s \in Active /\ Len(changes[s]) < MaxChanges
  /\ Begins(w, [stage |-> "save", signing |-> s, was |-> at[s], duration |-> d])
  /\ Entangles(s)
  /\ habits' = habits \cup {"typed"}
  /\ UNCHANGED <<clockVars, first, changes>>

CheckSequence(w) ==
  LET j == job[w]
      day == With(Today, j.signing, j.point)
  IN /\ j.stage = "sequence"
     /\ Goes(w, IF Alternates(day)
                  THEN [stage |-> "move", signing |-> j.signing, was |-> j.was,
                        point |-> j.point, plan |-> DurationsOf(day)]
                  ELSE Idle)
     /\ UNCHANGED <<clockVars, ghostVars, changes>>

\* Mutation: before and after are swapped.
Swapped(p, q) == [previous |-> q, updated |-> p]

Change(p, q) == [previous |-> p, updated |-> q]
Logged(s, p, q) == changes' = [changes EXCEPT ![s] = Append(@, Change(p, q))]

\* The transaction: the signing, its history and the durations of the starts.
ApplyMove(w) ==
  LET j == job[w]
  IN /\ j.stage = "move"
     /\ at' = [at EXCEPT ![j.signing] = j.point]
     /\ duration' = [s \in Signings |-> IF s \in DOMAIN j.plan THEN j.plan[s] ELSE duration[s]]
     /\ Logged(j.signing, j.was, j.point)
     /\ Goes(w, Idle)
     /\ UNCHANGED <<made, cancelled, ghostVars>>

LoadSaved(w) ==
  LET j == job[w]
  IN /\ j.stage = "save"
     /\ Goes(w, [stage |-> "write", signing |-> j.signing, was |-> j.was, duration |-> j.duration,
                 row |-> at[j.signing], status |-> Status(j.signing)])
     /\ UNCHANGED <<clockVars, ghostVars, changes>>

SaveDuration(w) ==
  LET j == job[w]
  IN /\ j.stage = "write"
     /\ SaveRow(j.signing, j.row, j.status, j.duration)
     /\ Goes(w, [stage |-> "log", signing |-> j.signing, was |-> j.was])
     /\ UNCHANGED <<made, ghostVars, changes>>

LogChange(w) ==
  LET j == job[w]
  IN /\ j.stage = "log"
     /\ Logged(j.signing, j.was, j.was)
     /\ Goes(w, Idle)
     /\ UNCHANGED <<clockVars, ghostVars>>

\* deleteById loads the signing and saves it whole, marked as cancelled.
BeginCancel(w, s) ==
  /\ s \in Active
  /\ Begins(w, [stage |-> "cancel", signing |-> s, was |-> at[s], duration |-> duration[s]])
  /\ Entangles(s)
  /\ habits' = habits \cup {"cancelled"}
  /\ UNCHANGED <<clockVars, first, changes>>

Cancel(w) ==
  LET j == job[w]
  IN /\ j.stage = "cancel"
     /\ SaveRow(j.signing, j.was, "cancelled", j.duration)
     /\ Goes(w, Idle)
     /\ UNCHANGED <<made, ghostVars, changes>>

Crash(w) ==
  /\ Busy(w)
  /\ Goes(w, Idle)
  /\ mishaps' = mishaps \cup {"crash"}
  /\ UNCHANGED <<clockVars, first, habits, entangled, changes>>

-----------------------------------------------------------------------------
Nowhere == [action |-> "start", moment |-> 0]   \* the point of a signing not yet made

Init ==
  /\ made = {} /\ cancelled = {} /\ entangled = {} /\ habits = {} /\ mishaps = {}
  /\ at = [s \in Signings |-> Nowhere] /\ first = at
  /\ duration = [s \in Signings |-> Null]
  /\ changes = [s \in Signings |-> <<>>]
  /\ job = [w \in Workers |-> Idle]

Next ==
  \/ \E w \in Workers, s \in Signings, p \in Points, d \in Typed \cup {Null} : Create(w, s, p, d)
  \/ \E w \in Workers, s \in Signings :
       \/ \E p \in Points : BeginMove(w, s, p)
       \/ \E d \in Typed \cup {Null} : BeginSave(w, s, d)
       \/ BeginCancel(w, s)
  \/ \E w \in Workers :
       \/ FindOpenStart(w) \/ LoadStart(w) \/ AssignDuration(w)
       \/ CheckSequence(w) \/ ApplyMove(w)
       \/ LoadSaved(w) \/ SaveDuration(w) \/ LogChange(w)
       \/ Cancel(w) \/ Crash(w)

Spec == Init /\ [][Next]_vars

-----------------------------------------------------------------------------
ClockTypeOK ==
  /\ made \subseteq Signings /\ cancelled \subseteq made /\ entangled \subseteq made
  /\ at \in [Signings -> Points] /\ first \in [Signings -> Points]
  /\ duration \in [Signings -> Durations]
  /\ changes \in [Signings -> Seq(Changes)]
  /\ habits \subseteq Habits /\ mishaps \subseteq Mishaps
  /\ job \in [Workers -> Closings \cup Edits \cup {Idle}]

\* The history of a signing reads as one chain from what it was created with to
\* what it is, whatever else is in flight and whoever dies, unless two edits of
\* that very signing met, or an edit met a clock-out that had loaded its row and
\* was to save it.
Updated(s, n) == IF n = 0 THEN first[s] ELSE changes[s][n].updated

HistoryIsAChain ==
  \A s \in made \ entangled :
    /\ \A n \in 1..Len(changes[s]) : changes[s][n].previous = Updated(s, n - 1)
    /\ at[s] = Updated(s, Len(changes[s]))

\* Signings of the day up to t, t included.
UpTo(t, action) == {s \in Active : at[s].action = action /\ (s = t \/ Precedes(at[s], at[t]))}

\* Between a start and the end that follows, the employee is in, and at no other
\* time: counted, the starts up to a signing are one ahead of the ends if it is a
\* start, and level with them if it is an end.
DayIsOrdered ==
  \A t \in Active :
    Cardinality(UpTo(t, "start")) - Cardinality(UpTo(t, "end")) =
      (IF at[t].action = "start" THEN 1 ELSE 0)

\* A start lasts until the first end not before it; the last may be open.
DurationsAreExact ==
  \A s \in Active :
    LET ends == {at[t].moment : t \in {t \in Active : at[t].action = "end" /\ at[t].moment >= at[s].moment}}
    IN at[s].action = "start" =>
         IF ends = {} THEN duration[s] = Null
         ELSE \E m \in ends : (\A n \in ends : m <= n) /\ duration[s] = m - at[s].moment

\* A correction of the point of a signing never leaves a day out of order nor a
\* start with a wrong duration, however the clients had left it: it repairs what
\* create, a typed duration or a cancellation had broken.  Requests that overlap
\* may correct a day the check did not see.
MovesRepairTheDay ==
  [][\A w \in Workers :
       job[w].stage = "move" /\ job'[w] = Idle /\ at' # at /\ mishaps \subseteq {"crash"}
         => DayIsOrdered' /\ DurationsAreExact']_vars

\* A client that signs in order, types no duration and cancels nothing keeps the
\* day ordered and its durations exact through clock-outs and corrections alike,
\* as long as requests neither overlap nor die.
OrderlyDayStaysExact ==
  habits = {} /\ mishaps = {} /\ Quiet => DayIsOrdered /\ DurationsAreExact

\* An end closes at most one start: no more starts have a duration than there are
\* ends, in whatever order the clients sign and however many clock-outs race,
\* as long as no duration is typed, nothing is cancelled and corrections run alone.
EachEndClosesOneStart ==
  habits \subseteq {"unordered"} /\ "overlap" \notin mishaps =>
    Cardinality({s \in made : at[s].action = "start" /\ duration[s] # Null})
      <= Cardinality({s \in made : at[s].action = "end"})
=============================================================================
