-------------------------- MODULE WorkSchedulesProofs --------------------------
(***************************************************************************)
(* Shifts run forward and keep apart for any number of shifts, of requests *)
(* in flight and of instants.                                              *)
(***************************************************************************)
EXTENDS WorkSchedules, TLAPS

-----------------------------------------------------------------------------
\* What a request believes of the shift [a, b) it is about to write.
Apart(a, b, t) == b <= start[t] \/ end[t] <= a

\* A shift being created has no row and no other request; an edit never inserts.
FreshInv ==
  \A w \in Workers : Busy(w) =>
    /\ job[w].fresh => /\ job[w].shift \notin booked
                       /\ job[w].stage \in {"check", "insert"}
                       /\ \A v \in Workers \ {w} : Busy(v) => job[v].shift # job[w].shift
    /\ ~job[w].fresh => job[w].stage \in {"load", "check", "save"}

\* Requests in flight together have met.
MetInv ==
  \A w, v \in Workers :
    w # v /\ Busy(w) /\ Busy(v) => {job[w].shift, job[v].shift} \in met

\* A request past its validation will write a shift that ends after it starts,
\* and what it has read of its own row is still true unless another edit met it.
ResolvedInv ==
  \A w \in Workers : Busy(w) /\ job[w].stage # "load" =>
    /\ job[w].start < job[w].end
    /\ ~job[w].fresh /\ job[w].shift \in booked /\ ~TwiceEdited(job[w].shift) =>
         /\ "start" \notin job[w].sets => job[w].start = start[job[w].shift]
         /\ "end" \notin job[w].sets => job[w].end = end[job[w].shift]

\* A request past the query for clashes keeps apart of every shift it has not met.
ClearInv ==
  \A w \in Workers : Busy(w) /\ job[w].stage \in {"insert", "save"} =>
    \A t \in booked \ {job[w].shift} :
      {job[w].shift, t} \in met \/ Apart(job[w].start, job[w].end, t)

SchedulesInv ==
  /\ SchedulesTypeOK /\ FreshInv /\ MetInv /\ ResolvedInv /\ ClearInv
  /\ ShiftsRunForward /\ ShiftsKeepApart

-----------------------------------------------------------------------------
\* What the type invariant says of a request in flight.
LEMMA BusyRequest ==
  ASSUME SchedulesTypeOK, NEW w \in Workers, Busy(w)
  PROVE  job[w] \in Requests
BY DEF SchedulesTypeOK, Busy

LEMMA IdleIsNoRequest == Idle \notin Requests
BY DEF Idle, Requests, Creations, Edits

\* Clashes is the negation of Apart.
LEMMA NoClashMeansApart ==
  ASSUME SchedulesTypeOK, NEW s \in Shifts, NEW a \in Times, NEW b \in Times,
         Clashes(s, a, b) = {}, NEW t \in booked \ {s}
  PROVE  Apart(a, b, t)
<1>1. ~(start[t] < b /\ end[t] > a)
  BY DEF Clashes
<1>2. start[t] \in Int /\ end[t] \in Int /\ a \in Int /\ b \in Int
  BY ShiftsAssumption DEF SchedulesTypeOK, Times
<1> QED
  BY <1>1, <1>2 DEF Apart

LEMMA InitEstablishes == Init => SchedulesInv
BY ShiftsAssumption DEF Init, SchedulesInv, SchedulesTypeOK, FreshInv, MetInv, ResolvedInv,
   ClearInv, ShiftsRunForward, ShiftsKeepApart, Times, Busy

\* A step of one worker leaves the others as they were.
LEMMA OthersKeepTheirRequest ==
  ASSUME SchedulesTypeOK, NEW w \in Workers, NEW r \in Requests \cup {Idle},
         job' = [job EXCEPT ![w] = r]
  PROVE  /\ job'[w] = r
         /\ \A v \in Workers \ {w} : job'[v] = job[v]
         /\ job' \in [Workers -> Requests \cup {Idle}]
BY DEF SchedulesTypeOK

-----------------------------------------------------------------------------
LEMMA BeginCreatePreserves ==
  ASSUME SchedulesInv, NEW w \in Workers, NEW s \in Shifts, NEW from \in Times, NEW to \in Times,
         BeginCreate(w, s, from, to)
  PROVE  SchedulesInv'
<1> DEFINE r == [stage |-> "check", fresh |-> TRUE, shift |-> s,
                 sets |-> Columns, start |-> from, end |-> to]
<1>a. SchedulesTypeOK /\ FreshInv /\ MetInv /\ ResolvedInv /\ ClearInv
  BY DEF SchedulesInv
<1>1. r \in Requests
  BY DEF Requests, Creations, Edits
<1>2. /\ job'[w] = r
      /\ \A v \in Workers \ {w} : job'[v] = job[v]
      /\ job' \in [Workers -> Requests \cup {Idle}]
  BY <1>a, <1>1, OthersKeepTheirRequest DEF BeginCreate
<1>3. booked' = booked /\ start' = start /\ end' = end
  BY DEF BeginCreate
<1>4. \A v \in Workers : Busy(v) => job[v].shift \in Shifts /\ job[v].shift # s
  BY <1>a, BusyRequest DEF BeginCreate, InFlight, Requests, Creations, Edits
<1>5. /\ met' \subseteq SUBSET Shifts
      /\ \A p \in met : s \notin p => p \in met'
      /\ \A v \in Workers : Busy(v) => {s, job[v].shift} \in met'
  BY <1>a, <1>4 DEF BeginCreate, Meets, InFlight, SchedulesTypeOK
<1>6. s \notin booked
  BY DEF BeginCreate
<1>7. \A v \in Workers \ {w} : Busy(v)' => Busy(v)
  BY <1>2 DEF Busy
<1>8. SchedulesTypeOK'
  BY <1>a, <1>2, <1>3, <1>5 DEF SchedulesTypeOK
<1>9. FreshInv'
  BY <1>a, <1>2, <1>3, <1>4, <1>6, <1>7 DEF FreshInv, Busy
<1>10. MetInv'
  <2>1. ASSUME NEW v \in Workers \ {w}, Busy(v)'
        PROVE  {job'[w].shift, job'[v].shift} \in met'
    BY <1>2, <1>5, <1>7, <2>1
  <2>2. ASSUME NEW u \in Workers \ {w}, NEW v \in Workers \ {w}, u # v, Busy(u)', Busy(v)'
        PROVE  {job'[u].shift, job'[v].shift} \in met'
    <3>1. {job[u].shift, job[v].shift} \in met /\ s \notin {job[u].shift, job[v].shift}
      BY <1>a, <1>4, <1>7, <2>2 DEF MetInv
    <3> QED
      BY <1>2, <1>5, <3>1
  <2>3. ASSUME NEW u \in Workers, NEW v \in Workers, u # v, Busy(u)', Busy(v)'
        PROVE  {job'[u].shift, job'[v].shift} \in met'
    <3>1. {job'[u].shift, job'[v].shift} = {job'[v].shift, job'[u].shift}
      OBVIOUS
    <3>2. CASE u = w
      BY <2>1, <2>3, <3>2
    <3>3. CASE v = w
      <4>1. {job'[w].shift, job'[u].shift} \in met'
        BY <2>1, <2>3, <3>3
      <4> QED
        BY <3>1, <3>3, <4>1
    <3>4. CASE u # w /\ v # w
      BY <2>2, <2>3, <3>4
    <3> QED
      BY <3>2, <3>3, <3>4
  <2> QED
    BY <2>3 DEF MetInv
<1>11. \A x \in booked : TwiceEdited(x) => TwiceEdited(x)'
  BY <1>5, <1>6 DEF TwiceEdited
<1>11a. \A v \in Workers \ {w} : Busy(v) /\ {job[v].shift} \in met => {job[v].shift} \in met'
  BY <1>4, <1>5
<1>12. ResolvedInv'
  <2>1. from < to
    BY DEF BeginCreate
  <2>2. ASSUME NEW v \in Workers \ {w}, Busy(v)', job'[v].stage # "load"
        PROVE  /\ job'[v].start < job'[v].end
               /\ ~job'[v].fresh /\ job'[v].shift \in booked' /\ {job'[v].shift} \notin met' =>
                    /\ "start" \notin job'[v].sets => job'[v].start = start'[job'[v].shift]
                    /\ "end" \notin job'[v].sets => job'[v].end = end'[job'[v].shift]
    <3>1. Busy(v) /\ job'[v] = job[v]
      BY <1>2, <1>7, <2>2
    <3> QED
      BY <1>a, <1>3, <1>11a, <2>2, <3>1 DEF ResolvedInv, TwiceEdited
  <2>3. job'[w].fresh /\ job'[w].start < job'[w].end
    BY <1>2, <2>1
  <2> QED
    BY <1>2, <2>2, <2>3 DEF ResolvedInv, TwiceEdited
<1>13. ClearInv'
  <2> SUFFICES ASSUME NEW v \in Workers, Busy(v)', job'[v].stage \in {"insert", "save"},
                      NEW t \in booked' \ {job'[v].shift}
               PROVE  {job'[v].shift, t} \in met' \/ job'[v].end <= start'[t] \/ end'[t] <= job'[v].start
    BY DEF ClearInv, Apart
  <2>1. v # w /\ job'[v] = job[v] /\ Busy(v)
    BY <1>2, <1>7
  <2>2. {job[v].shift, t} \in met \/ Apart(job[v].start, job[v].end, t)
    BY <1>a, <1>3, <2>1 DEF ClearInv
  <2>3. s \notin {job[v].shift, t}
    BY <1>3, <1>4, <1>6, <2>1
  <2> QED
    BY <1>3, <1>5, <2>1, <2>2, <2>3 DEF Apart
<1>14. ShiftsRunForward'
  BY <1>3, <1>11 DEF SchedulesInv, ShiftsRunForward
<1>15. ShiftsKeepApart'
  <2> SUFFICES ASSUME NEW x \in booked, NEW t \in booked, x # t,
                      ~({x, t} \in met'), ~TwiceEdited(x)', ~TwiceEdited(t)'
               PROVE  end[x] <= start[t] \/ end[t] <= start[x]
    BY <1>3 DEF ShiftsKeepApart
  <2>1. {x, t} \notin met
    BY <1>5, <1>6
  <2> QED
    BY <1>11, <2>1 DEF SchedulesInv, ShiftsKeepApart
<1> QED
  BY <1>8, <1>9, <1>10, <1>12, <1>13, <1>14, <1>15 DEF SchedulesInv

LEMMA BeginEditPreserves ==
  ASSUME SchedulesInv, NEW w \in Workers, NEW s \in Shifts, NEW sets \in SUBSET Columns,
         NEW from \in Times, NEW to \in Times, BeginEdit(w, s, sets, from, to)
  PROVE  SchedulesInv'
<1> DEFINE r == [stage |-> "load", fresh |-> FALSE, shift |-> s,
                 sets |-> sets, start |-> from, end |-> to]
<1>a. SchedulesTypeOK /\ FreshInv /\ MetInv /\ ResolvedInv /\ ClearInv
  BY DEF SchedulesInv
<1>1. r \in Requests
  BY DEF Requests, Creations, Edits
<1>2. /\ job'[w] = r
      /\ \A v \in Workers \ {w} : job'[v] = job[v]
      /\ job' \in [Workers -> Requests \cup {Idle}]
  BY <1>a, <1>1, OthersKeepTheirRequest DEF BeginEdit
<1>3. booked' = booked /\ start' = start /\ end' = end /\ s \in booked
  BY DEF BeginEdit
<1>4. \A v \in Workers : Busy(v) => job[v].shift \in Shifts
  BY <1>a, BusyRequest DEF Requests, Creations, Edits
<1>5. /\ met \subseteq met' /\ met' \subseteq SUBSET Shifts
      /\ \A v \in Workers : Busy(v) => {s, job[v].shift} \in met'
  BY <1>a, <1>4 DEF BeginEdit, Meets, InFlight, SchedulesTypeOK
<1>7. \A v \in Workers \ {w} : Busy(v)' => Busy(v)
  BY <1>2 DEF Busy
<1>8. SchedulesTypeOK'
  BY <1>a, <1>2, <1>3, <1>5 DEF SchedulesTypeOK
<1>9. FreshInv'
  <2>1. \A v \in Workers \ {w} : Busy(v) /\ job[v].fresh => job[v].shift # s
    BY <1>a, <1>3 DEF FreshInv
  <2> QED
    BY <1>a, <1>2, <1>3, <1>7, <2>1 DEF FreshInv, Busy
<1>10. MetInv'
  <2>3. ASSUME NEW u \in Workers, NEW v \in Workers, u # v, Busy(u)', Busy(v)'
        PROVE  {job'[u].shift, job'[v].shift} \in met'
    <3>1. {job'[u].shift, job'[v].shift} = {job'[v].shift, job'[u].shift}
      OBVIOUS
    <3>2. CASE u = w
      BY <1>2, <1>5, <1>7, <2>3, <3>2
    <3>3. CASE v = w
      <4>1. {job'[w].shift, job'[u].shift} \in met'
        BY <1>2, <1>5, <1>7, <2>3, <3>3
      <4> QED
        BY <3>1, <3>3, <4>1
    <3>4. CASE u # w /\ v # w
      BY <1>a, <1>2, <1>5, <1>7, <2>3, <3>4 DEF MetInv
    <3> QED
      BY <3>2, <3>3, <3>4
  <2> QED
    BY <2>3 DEF MetInv
<1>12. ResolvedInv'
  <2>2. ASSUME NEW v \in Workers, Busy(v)', job'[v].stage # "load"
        PROVE  /\ job'[v].start < job'[v].end
               /\ ~job'[v].fresh /\ job'[v].shift \in booked' /\ {job'[v].shift} \notin met' =>
                    /\ "start" \notin job'[v].sets => job'[v].start = start'[job'[v].shift]
                    /\ "end" \notin job'[v].sets => job'[v].end = end'[job'[v].shift]
    <3>1. Busy(v) /\ job'[v] = job[v]
      BY <1>2, <1>7, <2>2
    <3> QED
      BY <1>a, <1>3, <1>5, <2>2, <3>1 DEF ResolvedInv, TwiceEdited
  <2> QED
    BY <2>2 DEF ResolvedInv, TwiceEdited
<1>13. ClearInv'
  <2> SUFFICES ASSUME NEW v \in Workers, Busy(v)', job'[v].stage \in {"insert", "save"},
                      NEW t \in booked' \ {job'[v].shift}
               PROVE  {job'[v].shift, t} \in met' \/ job'[v].end <= start'[t] \/ end'[t] <= job'[v].start
    BY DEF ClearInv, Apart
  <2>1. v # w /\ job'[v] = job[v] /\ Busy(v)
    BY <1>2, <1>7
  <2> QED
    BY <1>a, <1>3, <1>5, <2>1 DEF ClearInv, Apart
<1>14. ShiftsRunForward'
  BY <1>3, <1>5 DEF SchedulesInv, ShiftsRunForward, TwiceEdited
<1>15. ShiftsKeepApart'
  BY <1>3, <1>5 DEF SchedulesInv, ShiftsKeepApart, TwiceEdited
<1> QED
  BY <1>8, <1>9, <1>10, <1>12, <1>13, <1>14, <1>15 DEF SchedulesInv

\* A step that only moves a request on, or drops it.
LEMMA RequestMoves ==
  ASSUME SchedulesInv, NEW w \in Workers, Busy(w), NEW r \in Requests \cup {Idle},
         job' = [job EXCEPT ![w] = r], UNCHANGED <<booked, start, end, met>>,
         r # Idle => /\ r.shift = job[w].shift /\ r.fresh = job[w].fresh /\ r.sets = job[w].sets
                     /\ r.fresh => r.stage \in {"check", "insert"}
                     /\ ~r.fresh => r.stage \in {"load", "check", "save"}
                     /\ r.stage # "load" =>
                          /\ r.start < r.end
                          /\ ~r.fresh /\ r.shift \in booked /\ ~TwiceEdited(r.shift) =>
                               /\ "start" \notin r.sets => r.start = start[r.shift]
                               /\ "end" \notin r.sets => r.end = end[r.shift]
                     /\ r.stage \in {"insert", "save"} =>
                          \A t \in booked \ {r.shift} : {r.shift, t} \in met \/ Apart(r.start, r.end, t)
  PROVE  SchedulesInv'
<1>a. SchedulesTypeOK /\ FreshInv /\ MetInv /\ ResolvedInv /\ ClearInv
  BY DEF SchedulesInv
<1>2. /\ job'[w] = r
      /\ \A v \in Workers \ {w} : job'[v] = job[v]
      /\ job' \in [Workers -> Requests \cup {Idle}]
  BY <1>a, OthersKeepTheirRequest
<1>3. \A v \in Workers : Busy(v)' => Busy(v) /\ job'[v].shift = job[v].shift
  BY <1>2 DEF Busy
<1>4. SchedulesTypeOK'
  BY <1>a, <1>2 DEF SchedulesTypeOK
<1>5. FreshInv'
  <2> SUFFICES ASSUME NEW v \in Workers, Busy(v)'
               PROVE  /\ job'[v].fresh => /\ job'[v].shift \notin booked
                                          /\ job'[v].stage \in {"check", "insert"}
                                          /\ \A u \in Workers \ {v} : Busy(u)' => job'[u].shift # job'[v].shift
                      /\ ~job'[v].fresh => job'[v].stage \in {"load", "check", "save"}
    BY DEF FreshInv
  <2>1. job'[v].fresh = job[v].fresh /\ Busy(v)
    BY <1>2, <1>3 DEF Busy
  <2>2. job'[v].fresh => /\ job'[v].shift \notin booked
                         /\ \A u \in Workers \ {v} : Busy(u)' => job'[u].shift # job'[v].shift
    BY <1>a, <1>3, <2>1 DEF FreshInv
  <2>3. /\ job'[v].fresh => job'[v].stage \in {"check", "insert"}
        /\ ~job'[v].fresh => job'[v].stage \in {"load", "check", "save"}
    <3>1. CASE v = w
      BY <1>2, <3>1 DEF Busy
    <3>2. CASE v # w
      BY <1>a, <1>2, <2>1, <3>2 DEF FreshInv
    <3> QED
      BY <3>1, <3>2
  <2> QED
    BY <2>2, <2>3
<1>6. MetInv'
  BY <1>a, <1>3 DEF MetInv
<1>7. ResolvedInv'
  <2>2. ASSUME NEW v \in Workers, Busy(v)', job'[v].stage # "load"
        PROVE  /\ job'[v].start < job'[v].end
               /\ ~job'[v].fresh /\ job'[v].shift \in booked /\ {job'[v].shift} \notin met =>
                    /\ "start" \notin job'[v].sets => job'[v].start = start[job'[v].shift]
                    /\ "end" \notin job'[v].sets => job'[v].end = end[job'[v].shift]
    <3>1. CASE v = w
      BY <1>2, <2>2, <3>1 DEF Busy, TwiceEdited
    <3>2. CASE v # w
      BY <1>a, <1>2, <1>3, <2>2, <3>2 DEF ResolvedInv, TwiceEdited
    <3> QED
      BY <3>1, <3>2
  <2> QED
    BY <2>2 DEF ResolvedInv, TwiceEdited
<1>8. ClearInv'
  <2> SUFFICES ASSUME NEW v \in Workers, Busy(v)', job'[v].stage \in {"insert", "save"},
                      NEW t \in booked \ {job'[v].shift}
               PROVE  {job'[v].shift, t} \in met \/ job'[v].end <= start[t] \/ end[t] <= job'[v].start
    BY DEF ClearInv, Apart
  <2>1. CASE v = w
    BY <1>2, <2>1 DEF Busy, Apart
  <2>2. CASE v # w
    BY <1>a, <1>2, <1>3, <2>2 DEF ClearInv, Apart
  <2> QED
    BY <2>1, <2>2
<1>9. ShiftsRunForward' /\ ShiftsKeepApart'
  BY DEF SchedulesInv, ShiftsRunForward, ShiftsKeepApart, TwiceEdited
<1> QED
  BY <1>4, <1>5, <1>6, <1>7, <1>8, <1>9 DEF SchedulesInv

LEMMA LoadShiftPreserves ==
  ASSUME SchedulesInv, NEW w \in Workers, LoadShift(w)
  PROVE  SchedulesInv'
<1> DEFINE j == job[w]
           from == ResolvedStart(j)
           to == ResolvedEnd(j)
           r == [j EXCEPT !.stage = "check", !.start = from, !.end = to]
<1>1. Busy(w) /\ j \in Requests /\ SchedulesTypeOK /\ ~j.fresh
  <2>1. Busy(w) /\ SchedulesTypeOK
    BY DEF LoadShift, SchedulesInv
  <2> QED
    BY <2>1, BusyRequest DEF LoadShift, SchedulesInv, FreshInv
<1>2. from \in Times /\ to \in Times
  BY <1>1 DEF ResolvedStart, ResolvedEnd, SchedulesTypeOK, Requests, Creations, Edits
<1>3. r \in Requests
  BY <1>1, <1>2 DEF Requests, Creations, Edits
<1>4. /\ r.shift = j.shift /\ r.fresh = j.fresh /\ r.sets = j.sets /\ r.stage = "check"
      /\ r.start = from /\ r.end = to
  BY <1>1 DEF Requests, Creations, Edits
<1>5. UNCHANGED <<booked, start, end, met>>
  BY DEF LoadShift
<1>6. CASE j.shift \in booked /\ from < to
  <2>1. job' = [job EXCEPT ![w] = r]
    BY <1>6 DEF LoadShift, RunsForward
  <2>2. /\ "start" \notin r.sets => r.start = start[r.shift]
        /\ "end" \notin r.sets => r.end = end[r.shift]
    BY <1>4 DEF ResolvedStart, ResolvedEnd
  <2> HIDE DEF r, from, to
  <2> QED
    BY <1>1, <1>3, <1>4, <1>5, <1>6, <2>1, <2>2, RequestMoves
<1>7. CASE ~(j.shift \in booked /\ from < to)
  <2>1. job' = [job EXCEPT ![w] = Idle]
    BY <1>7 DEF LoadShift, RunsForward
  <2> QED
    BY <1>1, <1>5, <2>1, RequestMoves
<1> QED
  BY <1>6, <1>7

LEMMA CheckOverlapPreserves ==
  ASSUME SchedulesInv, NEW w \in Workers, CheckOverlap(w)
  PROVE  SchedulesInv'
<1> DEFINE j == job[w]
           r == [j EXCEPT !.stage = WriteStage(j)]
<1>1. Busy(w) /\ j \in Requests /\ SchedulesTypeOK /\ j.stage = "check"
  <2>1. Busy(w) /\ SchedulesTypeOK /\ j.stage = "check"
    BY DEF CheckOverlap, SchedulesInv
  <2> QED
    BY <2>1, BusyRequest
<1>3. r \in Requests
  BY <1>1 DEF Requests, Creations, Edits, WriteStage
<1>4. /\ r.shift = j.shift /\ r.fresh = j.fresh /\ r.sets = j.sets
      /\ r.stage = WriteStage(j)
      /\ r.start = j.start /\ r.end = j.end
  BY <1>1 DEF Requests, Creations, Edits, WriteStage
<1>5. UNCHANGED <<booked, start, end, met>>
  BY DEF CheckOverlap
<1>6. CASE Clashes(j.shift, j.start, j.end) = {}
  <2>1. job' = [job EXCEPT ![w] = r]
    BY <1>6 DEF CheckOverlap
  <2>2. \A t \in booked \ {j.shift} : Apart(j.start, j.end, t)
    BY <1>1, <1>6, NoClashMeansApart DEF Requests, Creations, Edits
  <2>3. /\ j.start < j.end
        /\ ~j.fresh /\ j.shift \in booked /\ ~TwiceEdited(j.shift) =>
             /\ "start" \notin j.sets => j.start = start[j.shift]
             /\ "end" \notin j.sets => j.end = end[j.shift]
    BY <1>1 DEF SchedulesInv, ResolvedInv
  <2> HIDE DEF r
  <2> QED
    BY <1>1, <1>3, <1>4, <1>5, <2>1, <2>2, <2>3, RequestMoves DEF WriteStage
<1>7. CASE Clashes(j.shift, j.start, j.end) # {}
  <2>1. job' = [job EXCEPT ![w] = Idle]
    BY <1>7 DEF CheckOverlap
  <2> QED
    BY <1>1, <1>5, <2>1, RequestMoves
<1> QED
  BY <1>6, <1>7

\* A step that ends a request and writes its shift x, which now ends after it
\* starts and keeps apart of the shifts x has not met, unless edits of x met.
LEMMA WritePreserves ==
  ASSUME SchedulesInv, NEW w \in Workers, Busy(w), NEW x \in Shifts, x = job[w].shift,
         booked' \in {booked, booked \cup {x}},
         start' \in [Shifts -> Times], end' \in [Shifts -> Times],
         \A t \in Shifts \ {x} : start'[t] = start[t] /\ end'[t] = end[t],
         job' = [job EXCEPT ![w] = Idle], met' = met,
         \/ TwiceEdited(x)
         \/ x \notin booked'
         \/ /\ start'[x] < end'[x]
            /\ \A t \in booked \ {x} : {x, t} \in met \/ Apart(start'[x], end'[x], t)
  PROVE  SchedulesInv'
<1>a. SchedulesTypeOK /\ FreshInv /\ MetInv /\ ResolvedInv /\ ClearInv
  BY DEF SchedulesInv
<1>1. /\ job'[w] = Idle
      /\ \A v \in Workers \ {w} : job'[v] = job[v]
      /\ job' \in [Workers -> Requests \cup {Idle}]
  BY <1>a, OthersKeepTheirRequest
<1>2. \A v \in Workers : Busy(v)' => Busy(v) /\ v # w /\ job'[v] = job[v]
  BY <1>1 DEF Busy
<1>3. SchedulesTypeOK'
  BY <1>a, <1>1 DEF SchedulesTypeOK
<1>4. \A v \in Workers \ {w} : Busy(v) => {job[v].shift, x} \in met
  BY <1>a DEF MetInv
<1>5. \A v \in Workers \ {w} : Busy(v) /\ job[v].fresh => job[v].shift # x
  BY <1>a DEF FreshInv
<1>6. FreshInv'
  BY <1>a, <1>2, <1>5 DEF FreshInv
<1>7. MetInv'
  BY <1>a, <1>2 DEF MetInv
<1>8. \A v \in Workers : Busy(v) => job[v].shift \in Shifts
  BY <1>a, BusyRequest DEF Requests, Creations, Edits
<1>9. ResolvedInv'
  <2> SUFFICES ASSUME NEW v \in Workers \ {w}, Busy(v), job[v].stage # "load"
               PROVE  /\ job[v].start < job[v].end
                      /\ ~job[v].fresh /\ job[v].shift \in booked' /\ {job[v].shift} \notin met =>
                           /\ "start" \notin job[v].sets => job[v].start = start'[job[v].shift]
                           /\ "end" \notin job[v].sets => job[v].end = end'[job[v].shift]
    BY <1>2 DEF ResolvedInv, TwiceEdited
  <2>1. CASE job[v].shift = x
    BY <1>a, <1>4, <2>1 DEF ResolvedInv
  <2>2. CASE job[v].shift # x
    BY <1>a, <1>8, <2>2 DEF ResolvedInv, TwiceEdited
  <2> QED
    BY <2>1, <2>2
<1>10. ClearInv'
  <2> SUFFICES ASSUME NEW v \in Workers \ {w}, Busy(v), job[v].stage \in {"insert", "save"},
                      NEW t \in booked' \ {job[v].shift}
               PROVE  {job[v].shift, t} \in met \/ job[v].end <= start'[t] \/ end'[t] <= job[v].start
    BY <1>2 DEF ClearInv, Apart
  <2>1. CASE t = x
    BY <1>4, <2>1
  <2>2. CASE t # x
    BY <1>a, <2>2 DEF ClearInv, Apart, SchedulesTypeOK
  <2> QED
    BY <2>1, <2>2
<1>11. ShiftsRunForward'
  BY <1>a DEF SchedulesInv, ShiftsRunForward, TwiceEdited, SchedulesTypeOK
<1>12. ShiftsKeepApart'
  <2> SUFFICES ASSUME NEW y \in booked', NEW t \in booked', y # t,
                      {y, t} \notin met, ~TwiceEdited(y), ~TwiceEdited(t)
               PROVE  end'[y] <= start'[t] \/ end'[t] <= start'[y]
    BY DEF ShiftsKeepApart, TwiceEdited
  <2>1. {t, y} \notin met /\ y \in Shifts /\ t \in Shifts
    <3>1. {t, y} = {y, t}
      OBVIOUS
    <3> QED
      BY <1>a, <3>1 DEF SchedulesTypeOK
  <2>2. CASE y = x
    BY <2>1, <2>2 DEF Apart
  <2>3. CASE t = x
    BY <2>1, <2>3 DEF Apart
  <2>4. CASE y # x /\ t # x
    BY <2>1, <2>4 DEF SchedulesInv, ShiftsKeepApart
  <2> QED
    BY <2>2, <2>3, <2>4
<1> QED
  BY <1>3, <1>6, <1>7, <1>9, <1>10, <1>11, <1>12 DEF SchedulesInv

LEMMA InsertShiftPreserves ==
  ASSUME SchedulesInv, NEW w \in Workers, InsertShift(w)
  PROVE  SchedulesInv'
<1> DEFINE j == job[w]
           x == j.shift
<1>1. Busy(w) /\ SchedulesTypeOK /\ ResolvedInv /\ ClearInv /\ j.stage = "insert"
  BY DEF InsertShift, SchedulesInv
<1>2. j \in Requests
  BY <1>1, BusyRequest
<1>3. x \in Shifts /\ j.start \in Times /\ j.end \in Times
  BY <1>2 DEF Requests, Creations, Edits
<1>4. start' \in [Shifts -> Times] /\ end' \in [Shifts -> Times] /\ start'[x] = j.start /\ end'[x] = j.end
  BY <1>1, <1>3 DEF InsertShift, SchedulesTypeOK
<1>5. \A t \in Shifts \ {x} : start'[t] = start[t] /\ end'[t] = end[t]
  BY <1>1, <1>3 DEF InsertShift, SchedulesTypeOK
<1>6. j.start < j.end
  BY <1>1 DEF ResolvedInv
<1>7. \A t \in booked \ {x} : {x, t} \in met \/ Apart(j.start, j.end, t)
  BY <1>1 DEF ClearInv
<1>8. job' = [job EXCEPT ![w] = Idle] /\ met' = met /\ booked' = booked \cup {x}
  BY DEF InsertShift
<1> HIDE DEF x, j
<1> QED
  BY <1>1, <1>3, <1>4, <1>5, <1>6, <1>7, <1>8, WritePreserves DEF x, j

LEMMA SaveShiftPreserves ==
  ASSUME SchedulesInv, NEW w \in Workers, SaveShift(w)
  PROVE  SchedulesInv'
<1> DEFINE j == job[w]
           x == j.shift
<1>1. Busy(w) /\ SchedulesTypeOK /\ FreshInv /\ ResolvedInv /\ ClearInv /\ j.stage = "save"
  BY DEF SaveShift, SchedulesInv
<1>2. j \in Requests
  BY <1>1, BusyRequest
<1>3. x \in Shifts /\ j.start \in Times /\ j.end \in Times /\ ~j.fresh
  BY <1>1, <1>2 DEF Requests, Creations, Edits, FreshInv
<1>4. start' \in [Shifts -> Times] /\ end' \in [Shifts -> Times]
  BY <1>1, <1>3 DEF SaveShift, SchedulesTypeOK
<1>5. \A t \in Shifts \ {x} : start'[t] = start[t] /\ end'[t] = end[t]
  BY <1>1, <1>3 DEF SaveShift, SchedulesTypeOK
<1>6. x \in booked /\ ~TwiceEdited(x) => start'[x] = j.start /\ end'[x] = j.end
  BY <1>1, <1>3 DEF SaveShift, ResolvedInv, SchedulesTypeOK
<1>7. j.start < j.end
  BY <1>1 DEF ResolvedInv
<1>8. \A t \in booked \ {x} : {x, t} \in met \/ Apart(j.start, j.end, t)
  BY <1>1 DEF ClearInv
<1>9. job' = [job EXCEPT ![w] = Idle] /\ met' = met /\ booked' = booked
  BY DEF SaveShift
<1>10. \/ TwiceEdited(x)
       \/ x \notin booked'
       \/ /\ start'[x] < end'[x]
          /\ \A t \in booked \ {x} : {x, t} \in met \/ Apart(start'[x], end'[x], t)
  BY <1>6, <1>7, <1>8, <1>9
<1> HIDE DEF x, j
<1> QED
  BY <1>1, <1>3, <1>4, <1>5, <1>9, <1>10, WritePreserves DEF x, j

LEMMA DeleteShiftPreserves ==
  ASSUME SchedulesInv, NEW s \in Shifts, DeleteShift(s)
  PROVE  SchedulesInv'
<1>a. SchedulesTypeOK /\ FreshInv /\ MetInv /\ ResolvedInv /\ ClearInv
  BY DEF SchedulesInv
<1>1. booked' = booked \ {s} /\ job' = job /\ met' = met
  BY DEF DeleteShift
<1>2. \A t \in Shifts \ {s} : start'[t] = start[t] /\ end'[t] = end[t]
  BY <1>a DEF DeleteShift, SchedulesTypeOK
<1>3. SchedulesTypeOK'
  BY <1>a, ShiftsAssumption DEF DeleteShift, SchedulesTypeOK, Times
<1>4. booked \subseteq Shifts
  BY <1>a DEF SchedulesTypeOK
<1>5. FreshInv' /\ MetInv'
  BY <1>a, <1>1 DEF FreshInv, MetInv, Busy
<1>6. ResolvedInv'
  BY <1>a, <1>1, <1>2, <1>4 DEF ResolvedInv, Busy, TwiceEdited
<1>7. ClearInv'
  BY <1>a, <1>1, <1>2, <1>4 DEF ClearInv, Busy, Apart
<1>8. ShiftsRunForward' /\ ShiftsKeepApart'
  BY <1>1, <1>2, <1>4 DEF SchedulesInv, ShiftsRunForward, ShiftsKeepApart, TwiceEdited
<1> QED
  BY <1>3, <1>5, <1>6, <1>7, <1>8 DEF SchedulesInv

LEMMA StutterPreserves == SchedulesInv /\ UNCHANGED vars => SchedulesInv'
BY DEF vars, SchedulesInv, SchedulesTypeOK, FreshInv, MetInv, ResolvedInv, ClearInv,
   ShiftsRunForward, ShiftsKeepApart, Busy, TwiceEdited, Apart

-----------------------------------------------------------------------------
LEMMA SchedulesInvInductive == Spec => []SchedulesInv
<1>1. SchedulesInv /\ [Next]_vars => SchedulesInv'
  <2> SUFFICES ASSUME SchedulesInv, [Next]_vars
               PROVE  SchedulesInv'
    OBVIOUS
  <2>1. ASSUME NEW w \in Workers, NEW s \in Shifts, NEW from \in Times, NEW to \in Times,
               BeginCreate(w, s, from, to)
        PROVE  SchedulesInv'
    BY <2>1, BeginCreatePreserves
  <2>2. ASSUME NEW w \in Workers, NEW s \in Shifts, NEW from \in Times, NEW to \in Times,
               NEW sets \in SUBSET Columns, BeginEdit(w, s, sets, from, to)
        PROVE  SchedulesInv'
    BY <2>2, BeginEditPreserves
  <2>3. ASSUME NEW w \in Workers, LoadShift(w) \/ CheckOverlap(w) \/ InsertShift(w) \/ SaveShift(w)
        PROVE  SchedulesInv'
    BY <2>3, LoadShiftPreserves, CheckOverlapPreserves, InsertShiftPreserves, SaveShiftPreserves
  <2>4. ASSUME NEW s \in Shifts, DeleteShift(s)
        PROVE  SchedulesInv'
    BY <2>4, DeleteShiftPreserves
  <2> QED
    BY <2>1, <2>2, <2>3, <2>4, StutterPreserves DEF Next
<1> QED
  BY InitEstablishes, <1>1, PTL DEF Spec

\* Types: every row and every request of WorkScheduleService keeps its shape.
THEOREM SchedulesTypeCorrect == Spec => []SchedulesTypeOK
BY SchedulesInvInductive, PTL DEF SchedulesInv

\* The validation of updateById and of create is enough for a shift to end after
\* it starts, but for two edits of the same shift in flight together.
THEOREM ShiftsAlwaysRunForward == Spec => []ShiftsRunForward
BY SchedulesInvInductive, PTL DEF SchedulesInv

\* existsOverlapForUserEnterprise is enough to keep shifts apart whose requests
\* never met, for any number of requests in flight.
THEOREM ShiftsAlwaysKeepApart == Spec => []ShiftsKeepApart
BY SchedulesInvInductive, PTL DEF SchedulesInv
=============================================================================
