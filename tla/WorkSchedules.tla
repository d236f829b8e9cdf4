----------------------------- MODULE WorkSchedules -----------------------------
(***************************************************************************)
(* The planned shifts of one employee in one enterprise (table schedules), *)
(* as WorkScheduleService books, edits and deletes them.  No constraint of *)
(* the table keeps them apart: a request asks for a clash, and writes      *)
(* after the answer.  Shifts of two links never meet in a query, so one    *)
(* link is enough.                                                         *)
(***************************************************************************)
EXTENDS Integers

CONSTANTS
  Shifts,    \* ids of the rows of schedules
  Workers,
  MaxTime    \* bound on starts_at and ends_at

ASSUME ShiftsAssumption == MaxTime \in Nat

VARIABLES
  booked,    \* the shifts that have a row
  start,     \* starts_at, 0 where there is no row
  end,       \* ends_at, 0 where there is no row
  met,       \* history: {s, t} once two requests were in flight for s and t
  job        \* what each worker is doing

vars == <<booked, start, end, met, job>>

-----------------------------------------------------------------------------
Times == 0..MaxTime
Columns == {"start", "end"}

\* The shift a request is about, the columns its body sets, and both ends as it
\* believes they will be.  An edit loads the row, asks for a clash and saves.
Creations == [stage : {"check", "insert"}, fresh : {TRUE}, shift : Shifts,
              sets : {Columns}, start : Times, end : Times]
Edits == [stage : {"load", "check", "save"}, fresh : {FALSE}, shift : Shifts,
          sets : SUBSET Columns, start : Times, end : Times]
Requests == Creations \cup Edits
Idle == [stage |-> "idle"]

Busy(w) == job[w] # Idle
InFlight == {job[w].shift : w \in {v \in Workers : Busy(v)}}

\* Mutation: a shift that contains the interval is missed.
ClashesInside(s, from, to) ==
  {t \in booked \ {s} : start[t] \in from..to - 1 \/ end[t] \in from + 1..to}

\* Rows of the same link that the interval [from, to) would overlap.
Clashes(s, from, to) ==
  {t \in booked \ {s} : start[t] < to /\ end[t] > from}

-----------------------------------------------------------------------------
\* The new request meets every request in flight; an id that is drawn anew has
\* met nobody else.
Meets(s, pairs) == pairs \cup {{s, t} : t \in InFlight}

BeginCreate(w, s, from, to) ==
  /\ ~Busy(w) /\ s \notin booked \cup InFlight
  /\ from < to
  /\ job' = [job EXCEPT ![w] = [stage |-> "check", fresh |-> TRUE, shift |-> s,
                                sets |-> Columns, start |-> from, end |-> to]]
  /\ met' = Meets(s, {p \in met : s \notin p})
  /\ UNCHANGED <<booked, start, end>>

BeginEdit(w, s, sets, from, to) ==
  /\ ~Busy(w) /\ s \in booked /\ sets # {}
  /\ "start" \notin sets => from = 0
  /\ "end" \notin sets => to = 0
  /\ job' = [job EXCEPT ![w] = [stage |-> "load", fresh |-> FALSE, shift |-> s,
                                sets |-> sets, start |-> from, end |-> to]]
  /\ met' = Meets(s, met)
  /\ UNCHANGED <<booked, start, end>>

\* updateById completes the body with the row it has read.
ResolvedStart(j) == IF "start" \in j.sets THEN j.start ELSE start[j.shift]
ResolvedEnd(j) == IF "end" \in j.sets THEN j.end ELSE end[j.shift]

\* Mutation: the body is validated alone.
BodyRunsForward(j) == j.sets = Columns => j.start < j.end

RunsForward(j) == ResolvedStart(j) < ResolvedEnd(j)

LoadShift(w) ==
  LET j == job[w]
      resolved == [j EXCEPT !.stage = "check", !.start = ResolvedStart(j), !.end = ResolvedEnd(j)]
      accepted == j.shift \in booked /\ RunsForward(j)
  IN /\ Busy(w) /\ j.stage = "load"
     /\ job' = [job EXCEPT ![w] = IF accepted THEN resolved ELSE Idle]
     /\ UNCHANGED <<booked, start, end, met>>

WriteStage(j) == IF j.fresh THEN "insert" ELSE "save"

CheckOverlap(w) ==
  LET j == job[w]
      accepted == [j EXCEPT !.stage = WriteStage(j)]
  IN /\ Busy(w) /\ j.stage = "check"
     /\ job' = [job EXCEPT ![w] = IF Clashes(j.shift, j.start, j.end) = {}
                                    THEN accepted ELSE Idle]
     /\ UNCHANGED <<booked, start, end, met>>

InsertShift(w) ==
  LET j == job[w]
  IN /\ Busy(w) /\ j.stage = "insert"
     /\ booked' = booked \cup {j.shift}
     /\ start' = [start EXCEPT ![j.shift] = j.start]
     /\ end' = [end EXCEPT ![j.shift] = j.end]
     /\ job' = [job EXCEPT ![w] = Idle]
     /\ UNCHANGED met

\* The repository reads the row again and saves it with the body's columns only.
SaveShift(w) ==
  LET j == job[w]
  IN /\ Busy(w) /\ j.stage = "save"
     /\ start' = IF j.shift \in booked /\ "start" \in j.sets
                    THEN [start EXCEPT ![j.shift] = j.start] ELSE start
     /\ end' = IF j.shift \in booked /\ "end" \in j.sets
                  THEN [end EXCEPT ![j.shift] = j.end] ELSE end
     /\ job' = [job EXCEPT ![w] = Idle]
     /\ UNCHANGED <<booked, met>>

\* deleteById loads the row only to answer 404: its DELETE decides.
DeleteShift(s) ==
  /\ s \in booked
  /\ booked' = booked \ {s}
  /\ start' = [start EXCEPT ![s] = 0]
  /\ end' = [end EXCEPT ![s] = 0]
  /\ UNCHANGED <<met, job>>

-----------------------------------------------------------------------------
Init ==
  /\ booked = {} /\ met = {}
  /\ start = [s \in Shifts |-> 0]
  /\ end = [s \in Shifts |-> 0]
  /\ job = [w \in Workers |-> Idle]

Next ==
  \/ \E w \in Workers, s \in Shifts, from, to \in Times :
       \/ BeginCreate(w, s, from, to)
       \/ \E sets \in SUBSET Columns : BeginEdit(w, s, sets, from, to)
  \/ \E w \in Workers :
       LoadShift(w) \/ CheckOverlap(w) \/ InsertShift(w) \/ SaveShift(w)
  \/ \E s \in Shifts : DeleteShift(s)

Spec == Init /\ [][Next]_vars

-----------------------------------------------------------------------------
SchedulesTypeOK ==
  /\ booked \subseteq Shifts
  /\ start \in [Shifts -> Times] /\ end \in [Shifts -> Times]
  /\ met \subseteq SUBSET Shifts
  /\ job \in [Workers -> Requests \cup {Idle}]

\* Two edits of the shift were once in flight together.
TwiceEdited(s) == {s} \in met

\* A shift ends after it starts, whatever else is in flight, unless two edits
\* of that very shift overlapped: one may move its start and the other its end,
\* each judged against the row as it was.
ShiftsRunForward ==
  \A s \in booked : TwiceEdited(s) \/ start[s] < end[s]

\* Two shifts overlap only if their requests did: what a request has seen stays
\* true of every shift that nobody was writing at the time, so a clash needs
\* two requests in flight at once, and deletions never make one.
ShiftsKeepApart ==
  \A s, t \in booked :
    s # t => \/ {s, t} \in met \/ TwiceEdited(s) \/ TwiceEdited(t)
             \/ end[s] <= start[t] \/ end[t] <= start[s]
=============================================================================
