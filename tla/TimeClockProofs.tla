---------------------------- MODULE TimeClockProofs ----------------------------
(***************************************************************************)
(* The signings of an employee, for any number of signings, of requests in *)
(* flight and of corrections: the history of a signing is a chain, whoever *)
(* dies; corrections repair the day; a day signed in order stays exact;    *)
(* and an end closes at most one start, however many clock-outs race.      *)
(***************************************************************************)
EXTENDS TimeClock, FiniteSetTheorems, WellFoundedInduction, TLAPS

-----------------------------------------------------------------------------
Editing(w) == job[w].stage \in EditStages
Holding(w) == job[w].stage \in {"assign", "write"}   \* it is to save a row it loaded
Choosing(w) == job[w].stage \in {"idle", "find"}

\* A request in flight is of a signing with a row.  What an edit or a clock-out
\* loaded of it is still true, and no other edit has it, unless the signing is
\* entangled.
EditInv ==
  \A w \in Workers :
    /\ ~Choosing(w) => job[w].signing \in made
    /\ (Editing(w) \/ Holding(w)) /\ job[w].signing \notin entangled =>
         /\ Editing(w) => job[w].was = at[job[w].signing]
         /\ Holding(w) => /\ job[w].row = at[job[w].signing]
                          /\ job[w].status = Status(job[w].signing)
         /\ \A v \in Workers \ {w} : Editing(v) => job[v].signing # job[w].signing

UnmadeInv == \A s \in Signings \ made : changes[s] = <<>>

ClockInv == ClockTypeOK /\ EditInv /\ UnmadeInv /\ HistoryIsAChain

Jobs == Closings \cup Edits \cup {Idle}

-----------------------------------------------------------------------------
LEMMA EditsAreRecognized ==
  ASSUME NEW j \in Jobs
  PROVE  /\ j.stage \in EditStages <=> j \in Edits
         /\ j.stage \notin {"idle", "find"} => j.signing \in Signings
         /\ j.stage \in {"load", "assign"} => j.duration \in Times
         /\ j.stage \in {"assign", "write"} => j.row \in Points /\ j.status \in Statuses
BY DEF Jobs, Closings, Edits, Idle, EditStages

LEMMA EditFields ==
  ASSUME NEW j \in Edits
  PROVE  j.signing \in Signings /\ j.was \in Points
BY DEF Edits

\* The plan of a correction gives each start a duration.
LEMMA PlansOfDays ==
  ASSUME NEW D \in SUBSET Signings, NEW day \in [D -> Points]
  PROVE  DurationsOf(day) \in Plans
<1>1. ASSUME NEW s \in D
      PROVE  DurationIn(day, s) \in Durations
  <2>1. CASE EndsOf(day, s) = {}
    BY <2>1 DEF DurationIn, Durations
  <2>2. CASE EndsOf(day, s) # {}
    <3>1. PICK t \in EndsOf(day, s) : TRUE
      BY <2>2
    <3>2. t \in D /\ Precedes(day[s], day[t])
      BY <3>1 DEF EndsOf, Follows
    <3>3. day[s].moment \in Times /\ day[t].moment \in Times
      BY <1>1, <3>2 DEF Points
    <3>4. day[t].moment - day[s].moment \in Times
      BY <3>2, <3>3, ClockAssumption DEF Precedes, Times
    <3>5. Span(day, s) \in Times
      BY <3>1, <3>4 DEF Span
    <3> QED
      BY <2>2, <3>5 DEF DurationIn, Durations
  <2> QED
    BY <2>1, <2>2
<1>2. Starts(day) \subseteq D
  BY DEF Starts
<1>3. DurationsOf(day) \in [Starts(day) -> Durations]
  BY <1>1, <1>2 DEF DurationsOf
<1>4. Starts(day) \in SUBSET Signings
  BY <1>2
<1> QED
  BY <1>3, <1>4 DEF Plans

LEMMA InitEstablishes == Init => ClockInv
<1> SUFFICES ASSUME Init PROVE ClockInv
  OBVIOUS
<1>1. Nowhere \in Points
  BY ClockAssumption DEF Nowhere, Points, Times
<1>2. ClockTypeOK
  BY <1>1 DEF Init, ClockTypeOK, Durations
<1>3. EditInv
  BY DEF Init, EditInv, Editing, Holding, Choosing, Idle, EditStages
<1> QED
  BY <1>2, <1>3 DEF Init, ClockInv, UnmadeInv, HistoryIsAChain

\* What a step of worker w leaves to the others.
LEMMA OthersKeepTheirJob ==
  ASSUME ClockTypeOK, NEW w \in Workers, NEW j \in Jobs, Goes(w, j)
  PROVE  /\ job'[w] = j
         /\ \A v \in Workers \ {w} : job'[v] = job[v]
         /\ job' \in [Workers -> Jobs]
BY DEF ClockTypeOK, Goes, Jobs

\* A step that moves no signing but an entangled one and logs nothing: it goes on
\* with an edit, or with a row that nobody edits.
LEMMA RequestGoesOn ==
  ASSUME ClockInv, NEW w \in Workers, NEW j \in Jobs, Goes(w, j),
         j.stage \notin {"idle", "find"} => j.signing \in made,
         j.stage \in EditStages => /\ Editing(w)
                                   /\ j.signing = job[w].signing /\ j.was = job[w].was,
         j.stage \in {"assign", "write"} /\ j.signing \notin entangled' =>
           /\ j.row = at[j.signing] /\ j.status = Status(j.signing)
           /\ \A v \in Workers \ {w} : Editing(v) => job[v].signing # j.signing,
         entangled \subseteq entangled',
         \A t \in made \ entangled : at'[t] = at[t] /\ Status(t)' = Status(t),
         UNCHANGED <<made, changes, first>>
  PROVE  EditInv' /\ UnmadeInv' /\ HistoryIsAChain'
<1>1. ClockTypeOK /\ EditInv /\ UnmadeInv /\ HistoryIsAChain
  BY DEF ClockInv
<1>2. job'[w] = j /\ \A v \in Workers \ {w} : job'[v] = job[v]
  BY <1>1, OthersKeepTheirJob
<1>3. \A v \in Workers : Editing(v)' => /\ Editing(v)
                                       /\ job'[v].signing = job[v].signing
                                       /\ job'[v].was = job[v].was
  BY <1>2 DEF Editing
<1>4. EditInv'
  <2> SUFFICES ASSUME NEW v \in Workers
               PROVE  /\ ~Choosing(v)' => job'[v].signing \in made
                      /\ (Editing(v) \/ Holding(v))' /\ job'[v].signing \notin entangled' =>
                           /\ Editing(v)' => job'[v].was = at'[job'[v].signing]
                           /\ Holding(v)' => /\ job'[v].row = at'[job'[v].signing]
                                             /\ job'[v].status = Status(job[v].signing)'
                           /\ \A u \in Workers \ {v} : Editing(u)' => job'[u].signing # job'[v].signing
    BY DEF EditInv
  <2>0. Editing(v)' \/ Holding(v)' => ~Choosing(v)'
    BY DEF Editing, Holding, Choosing, EditStages
  <2>1. CASE v = w
    <3>1. ~Choosing(v)' => job'[v].signing \in made
      BY <1>2, <2>1 DEF Choosing
    <3>2. ASSUME Editing(v)', job'[v].signing \notin entangled'
          PROVE  /\ job'[v].was = at'[job'[v].signing]
                 /\ \A u \in Workers \ {v} : Editing(u)' => job'[u].signing # job'[v].signing
      <4>1. Editing(v) /\ job'[v].signing = job[v].signing /\ job'[v].was = job[v].was
        BY <1>3, <3>2
      <4>2. job[v].signing \in made /\ job[v].signing \notin entangled
        BY <2>0, <3>1, <3>2, <4>1
      <4> QED
        BY <1>1, <1>3, <4>1, <4>2 DEF EditInv
    <3>3. ASSUME Holding(v)', job'[v].signing \notin entangled'
          PROVE  /\ job'[v].row = at'[job'[v].signing]
                 /\ job'[v].status = Status(job[v].signing)'
                 /\ \A u \in Workers \ {v} : Editing(u)' => job'[u].signing # job'[v].signing
      <4>1. j.signing \in made \ entangled
        BY <1>2, <2>0, <2>1, <3>1, <3>3
      <4>2. /\ j.row = at[j.signing] /\ j.status = Status(j.signing)
            /\ \A u \in Workers \ {w} : Editing(u) => job[u].signing # j.signing
        BY <1>2, <2>1, <3>3 DEF Holding
      <4> QED
        BY <1>2, <1>3, <2>1, <4>1, <4>2
    <3> QED
      BY <3>1, <3>2, <3>3
  <2>2. CASE v # w
    <3>1. job'[v] = job[v] /\ (Editing(v)' <=> Editing(v)) /\ (Holding(v)' <=> Holding(v))
          /\ (Choosing(v)' <=> Choosing(v))
      BY <1>2, <2>2 DEF Editing, Holding, Choosing
    <3> QED
      BY <1>1, <1>3, <2>0, <3>1 DEF EditInv
  <2> QED
    BY <2>1, <2>2
<1>5. UnmadeInv' /\ HistoryIsAChain'
  BY <1>1 DEF UnmadeInv, HistoryIsAChain, Updated
<1> QED
  BY <1>4, <1>5

\* A request that begins an edit of s, as it has just loaded it.
LEMMA EditBegins ==
  ASSUME ClockInv, NEW w \in Workers, NEW s \in made, NEW j \in Edits, ~Busy(w),
         Goes(w, j), Entangles(s), j.signing = s, j.was = at[s], j.stage # "write",
         UNCHANGED <<made, cancelled, at, changes, first>>
  PROVE  EditInv' /\ UnmadeInv' /\ HistoryIsAChain' /\ entangled' \subseteq made
<1>1. ClockTypeOK /\ EditInv /\ UnmadeInv /\ HistoryIsAChain /\ j \in Jobs
  BY DEF ClockInv, Jobs
<1>2. job'[w] = j /\ (\A v \in Workers \ {w} : job'[v] = job[v]) /\ j.stage # "assign"
  BY <1>1, OthersKeepTheirJob DEF Edits
<1>3. \A v \in Workers \ {w} : Editing(v)' <=> Editing(v)
  BY <1>2 DEF Editing
<1>4. entangled \subseteq entangled' /\ entangled' \subseteq made
      /\ \A v \in Workers : (Editing(v) \/ Holding(v)) /\ job[v].signing = s => s \in entangled'
  BY <1>1 DEF Entangles, Edited, Held, Editing, Holding, EditStages, ClockTypeOK
<1>5. EditInv'
  <2> SUFFICES ASSUME NEW v \in Workers
               PROVE  /\ ~Choosing(v)' => job'[v].signing \in made
                      /\ (Editing(v) \/ Holding(v))' /\ job'[v].signing \notin entangled' =>
                           /\ Editing(v)' => job'[v].was = at[job'[v].signing]
                           /\ Holding(v)' => /\ job'[v].row = at[job'[v].signing]
                                             /\ job'[v].status = Status(job'[v].signing)
                           /\ \A u \in Workers \ {v} : Editing(u)' => job'[u].signing # job'[v].signing
    BY DEF EditInv, Status
  <2>1. CASE v = w
    <3>1. ~Holding(v)'
      BY <1>2, <2>1 DEF Holding
    <3> QED
      BY <1>2, <1>3, <1>4, <2>1, <3>1
  <2>2. CASE v # w
    <3>1. job'[v] = job[v] /\ (Editing(v)' <=> Editing(v)) /\ (Holding(v)' <=> Holding(v))
          /\ (Choosing(v)' <=> Choosing(v))
      BY <1>2, <2>2 DEF Editing, Holding, Choosing
    <3>2. /\ ~Choosing(v) => job[v].signing \in made
          /\ (Editing(v) \/ Holding(v)) /\ job[v].signing \notin entangled' =>
               /\ Editing(v) => job[v].was = at[job[v].signing]
               /\ Holding(v) => /\ job[v].row = at[job[v].signing]
                                 /\ job[v].status = Status(job[v].signing)
      BY <1>1, <1>4 DEF EditInv
    <3>3. ASSUME Editing(v) \/ Holding(v), NEW u \in Workers \ {v}, Editing(u)',
                 job[v].signing \notin entangled'
          PROVE  job'[u].signing # job[v].signing
      <4>1. CASE u = w
        BY <1>2, <1>4, <3>3, <4>1
      <4>2. CASE u # w
        BY <1>1, <1>2, <1>3, <1>4, <3>3, <4>2 DEF EditInv
      <4> QED
        BY <4>1, <4>2
    <3> QED
      BY <3>1, <3>2, <3>3
  <2> QED
    BY <2>1, <2>2
<1>6. UnmadeInv' /\ HistoryIsAChain'
  BY <1>1, <1>4 DEF UnmadeInv, HistoryIsAChain, Updated
<1> QED
  BY <1>4, <1>5, <1>6

\* A step that ends the edit of s by worker w: alone on s, it leaves s at the
\* point q and, if it logs, says so.
LEMMA EditEnds ==
  ASSUME ClockInv, NEW w \in Workers, Editing(w), NEW s \in made, s = job[w].signing,
         Goes(w, Idle), NEW q \in Points, at' \in [Signings -> Points],
         \A t \in Signings \ {s} : at'[t] = at[t],
         s \notin entangled => at'[s] = q,
         \A t \in made \ {s} : Status(t)' = Status(t),
         UNCHANGED <<made, first, entangled>>,
         \/ Logged(s, job[w].was, q)
         \/ UNCHANGED changes /\ q = job[w].was
  PROVE  EditInv' /\ UnmadeInv' /\ HistoryIsAChain' /\ changes' \in [Signings -> Seq(Changes)]
<1>1. ClockTypeOK /\ EditInv /\ UnmadeInv /\ HistoryIsAChain /\ Idle \in Jobs
  BY DEF ClockInv, Jobs
<1>2. job'[w] = Idle /\ \A v \in Workers \ {w} : job'[v] = job[v]
  BY <1>1, OthersKeepTheirJob
<1>3. \A v \in Workers : ~Choosing(v)' =>
        /\ v # w /\ job'[v] = job[v] /\ ~Choosing(v)
        /\ (Editing(v)' <=> Editing(v)) /\ (Holding(v)' <=> Holding(v))
  BY <1>2 DEF Editing, Holding, Choosing, Idle, EditStages
<1>4. made \subseteq Signings /\ changes \in [Signings -> Seq(Changes)]
  BY <1>1 DEF ClockTypeOK
<1>5. job[w] \in Edits /\ job[w].was \in Points
  BY <1>1, EditsAreRecognized, EditFields DEF ClockTypeOK, Editing, Jobs
<1>6. s \notin entangled => job[w].was = at[s]
  BY <1>1 DEF EditInv
<1>7. EditInv'
  <2>0. \A v \in Workers : (Editing(v) \/ Holding(v))' => ~Choosing(v)'
    BY DEF Editing, Holding, Choosing, EditStages
  <2> SUFFICES ASSUME NEW v \in Workers, v # w, job'[v] = job[v], ~Choosing(v)
               PROVE  /\ job[v].signing \in made
                      /\ (Editing(v) \/ Holding(v)) /\ job[v].signing \notin entangled =>
                           /\ Editing(v) => job[v].was = at'[job[v].signing]
                           /\ Holding(v) => /\ job[v].row = at'[job[v].signing]
                                             /\ job[v].status = Status(job[v].signing)'
                           /\ \A u \in Workers \ {v} : Editing(u)' => job'[u].signing # job[v].signing
    BY <1>3, <2>0 DEF EditInv
  <2>1. job[v].signing \in made
    BY <1>1 DEF EditInv
  <2>2. (Editing(v) \/ Holding(v)) /\ job[v].signing = s => s \in entangled
    BY <1>1 DEF EditInv
  <2>3. (Editing(v) \/ Holding(v)) /\ job[v].signing \notin entangled =>
          /\ Editing(v) => job[v].was = at'[job[v].signing]
          /\ Holding(v) => /\ job[v].row = at'[job[v].signing]
                           /\ job[v].status = Status(job[v].signing)'
    BY <1>1, <1>4, <2>1, <2>2 DEF EditInv
  <2> QED
    BY <1>1, <1>3, <2>0, <2>1, <2>3 DEF EditInv
<1>8. CASE UNCHANGED changes /\ q = job[w].was
  BY <1>1, <1>4, <1>6, <1>7, <1>8 DEF UnmadeInv, HistoryIsAChain, Updated
<1>9. CASE Logged(s, job[w].was, q)
  <2> DEFINE c == Change(job[w].was, q)
             h == changes[s]
  <2>1. c \in Changes /\ c.previous = job[w].was /\ c.updated = q
    BY <1>5 DEF Change, Changes
  <2>2. h \in Seq(Changes) /\ s \in Signings
    BY <1>4
  <2>3. changes' = [changes EXCEPT ![s] = Append(h, c)]
    BY <1>9 DEF Logged
  <2>4. /\ Append(h, c) \in Seq(Changes) /\ Len(Append(h, c)) = Len(h) + 1
        /\ \A n \in 1..Len(h) : Append(h, c)[n] = h[n]
        /\ Append(h, c)[Len(h) + 1] = c
        /\ Len(h) \in Nat
    BY <2>1, <2>2
  <2>5. changes' \in [Signings -> Seq(Changes)] /\ changes'[s] = Append(h, c)
        /\ \A t \in Signings \ {s} : changes'[t] = changes[t]
    BY <1>4, <2>2, <2>3, <2>4
  <2>6. UnmadeInv'
    BY <1>1, <2>5 DEF UnmadeInv
  <2>7. ASSUME NEW t \in made \ entangled, t # s
        PROVE  /\ \A n \in 1..Len(changes'[t]) : changes'[t][n].previous = Updated(t, n - 1)'
               /\ at'[t] = Updated(t, Len(changes[t]))'
    BY <1>1, <1>4, <2>5, <2>7 DEF HistoryIsAChain, Updated
  <2>8. ASSUME s \notin entangled
        PROVE  /\ \A n \in 1..Len(changes'[s]) : changes'[s][n].previous = Updated(s, n - 1)'
               /\ at'[s] = Updated(s, Len(changes[s]))'
    <3>1. \A n \in 0..Len(h) : Updated(s, n)' = Updated(s, n)
      BY <2>4, <2>5 DEF Updated
    <3>2. /\ \A n \in 1..Len(h) : h[n].previous = Updated(s, n - 1)
          /\ at[s] = Updated(s, Len(h))
      BY <1>1, <2>8 DEF HistoryIsAChain
    <3>3. ASSUME NEW n \in 1..Len(h) + 1
          PROVE  changes'[s][n].previous = Updated(s, n - 1)'
      <4>1. CASE n \in 1..Len(h)
        BY <2>4, <2>5, <3>1, <3>2, <4>1
      <4>2. CASE n = Len(h) + 1
        <5>1. changes'[s][n] = c /\ n - 1 = Len(h) /\ Len(h) \in 0..Len(h)
          BY <2>4, <2>5, <4>2
        <5>2. c.previous = Updated(s, Len(h))
          BY <1>6, <2>1, <2>8, <3>2
        <5>3. Updated(s, n - 1)' = Updated(s, Len(h))
          BY <3>1, <5>1
        <5> QED
          BY <5>1, <5>2, <5>3
      <4> QED
        BY <2>4, <3>3, <4>1, <4>2
    <3>4. at'[s] = changes'[s][Len(h) + 1].updated
      BY <2>1, <2>4, <2>5, <2>8
    <3>5. Len(changes'[s]) = Len(h) + 1 /\ Len(h) + 1 # 0
      BY <2>4, <2>5
    <3>6. at'[s] = Updated(s, Len(changes[s]))'
      BY <3>4, <3>5 DEF Updated
    <3> HIDE DEF h
    <3> QED
      BY <3>3, <3>5, <3>6
  <2>9. HistoryIsAChain'
    BY <2>7, <2>8 DEF HistoryIsAChain
  <2> QED
    BY <1>7, <2>5, <2>6, <2>9
<1> QED
  BY <1>8, <1>9

-----------------------------------------------------------------------------
LEMMA BeginsIsGoes ==
  ASSUME ClockTypeOK, NEW w \in Workers, NEW j \in Jobs, Begins(w, j)
  PROVE  ~Busy(w) /\ Goes(w, j) /\ mishaps' \subseteq Mishaps
BY DEF Begins, Goes, ClockTypeOK, Mishaps

LEMMA CreatePreserves ==
  ASSUME ClockInv, NEW w \in Workers, NEW s \in Signings, NEW p \in Points, NEW d \in Durations,
         Create(w, s, p, d)
  PROVE  ClockInv'
<1> DEFINE j == IF p.action = "end" THEN [stage |-> "find", moment |-> p.moment] ELSE Idle
<1>1. ClockTypeOK /\ EditInv /\ UnmadeInv /\ HistoryIsAChain
  BY DEF ClockInv
<1>2. j \in Jobs /\ j.stage \in {"idle", "find"}
  BY DEF Jobs, Closings, Points, Idle
<1>3. ~Busy(w) /\ Goes(w, j) /\ mishaps' \subseteq Mishaps
  <2>1. Begins(w, j)
    BY DEF Create
  <2> HIDE DEF j
  <2> QED
    BY <1>1, <1>2, <2>1, BeginsIsGoes
<1> HIDE DEF j
<1>4. job'[w] = j /\ (\A v \in Workers \ {w} : job'[v] = job[v]) /\ job' \in [Workers -> Jobs]
  BY <1>1, <1>2, <1>3, OthersKeepTheirJob
<1>5. /\ s \notin made /\ made' = made \cup {s} /\ changes' = changes /\ entangled' = entangled
      /\ at' = [at EXCEPT ![s] = p] /\ first' = [first EXCEPT ![s] = p]
      /\ duration' = [duration EXCEPT ![s] = d] /\ cancelled' = cancelled
  BY DEF Create
<1>6. habits' \subseteq Habits
  BY <1>1 DEF Create, ClockTypeOK, Habits
<1>7. ClockTypeOK'
  BY <1>1, <1>3, <1>4, <1>5, <1>6 DEF ClockTypeOK, Jobs
<1>8. \A t \in made : at'[t] = at[t] /\ first'[t] = first[t]
  BY <1>1, <1>5 DEF ClockTypeOK
<1>9. \A v \in Workers : ~Choosing(v)' =>
        /\ job'[v] = job[v] /\ ~Choosing(v)
        /\ (Editing(v)' <=> Editing(v)) /\ (Holding(v)' <=> Holding(v))
  BY <1>2, <1>4 DEF Editing, Holding, Choosing
<1>10. EditInv'
  <2>1. \A v \in Workers : Editing(v)' \/ Holding(v)' => ~Choosing(v)'
    BY DEF Editing, Holding, Choosing, EditStages
  <2> QED
    BY <1>1, <1>5, <1>8, <1>9, <2>1 DEF EditInv, Status
<1>11. UnmadeInv' /\ changes[s] = <<>> /\ at'[s] = p /\ first'[s] = p
  BY <1>1, <1>5 DEF UnmadeInv, ClockTypeOK
<1>12. HistoryIsAChain'
  <2>1. ASSUME NEW t \in made \ entangled
        PROVE  /\ \A n \in 1..Len(changes'[t]) : changes'[t][n].previous = Updated(t, n - 1)'
               /\ at'[t] = Updated(t, Len(changes[t]))'
    BY <1>1, <1>5, <1>8, <2>1 DEF HistoryIsAChain, Updated
  <2>2. /\ \A n \in 1..Len(changes'[s]) : changes'[s][n].previous = Updated(s, n - 1)'
        /\ at'[s] = Updated(s, Len(changes[s]))'
    BY <1>5, <1>11 DEF Updated
  <2> QED
    BY <1>5, <2>1, <2>2 DEF HistoryIsAChain
<1> QED
  BY <1>7, <1>10, <1>11, <1>12 DEF ClockInv

LEMMA FindOpenStartPreserves ==
  ASSUME ClockInv, NEW w \in Workers, FindOpenStart(w)
  PROVE  ClockInv'
<1>1. ClockTypeOK /\ Idle \in Jobs /\ Idle.stage = "idle"
  BY DEF ClockInv, Jobs, Idle
<1>2. PICK j \in Jobs : /\ Goes(w, j) /\ j.stage \in {"idle", "load"}
                        /\ j.stage # "idle" => j.signing \in made
  <2>1. CASE OpenStarts(job[w].moment) = {} /\ Goes(w, Idle)
    BY <1>1, <2>1
  <2>2. ASSUME NEW s \in LatestOpenStarts(job[w].moment),
               Goes(w, [stage |-> "load", signing |-> s, duration |-> job[w].moment - at[s].moment])
        PROVE  \E j \in Jobs : /\ Goes(w, j) /\ j.stage \in {"idle", "load"}
                               /\ j.stage # "idle" => j.signing \in made
    <3>1. s \in made /\ s \in Signings /\ at[s].moment <= job[w].moment
      BY <1>1, <2>2 DEF LatestOpenStarts, OpenStarts, Active, ClockTypeOK
    <3>2. at[s].moment \in Times /\ job[w].moment \in Times
      <4>1. job[w] \in Jobs /\ job[w].stage = "find"
        BY <1>1 DEF FindOpenStart, ClockTypeOK, Jobs
      <4> QED
        BY <1>1, <3>1, <4>1 DEF ClockTypeOK, Points, Jobs, Closings, Edits, Idle
    <3>3. job[w].moment - at[s].moment \in Times
      BY <3>1, <3>2, ClockAssumption DEF Times
    <3>4. [stage |-> "load", signing |-> s, duration |-> job[w].moment - at[s].moment] \in Jobs
      BY <3>1, <3>3 DEF Jobs, Closings
    <3> QED
      BY <2>2, <3>1, <3>4
  <2> QED
    BY <2>1, <2>2 DEF FindOpenStart
<1>3. UNCHANGED <<clockVars, ghostVars, changes>>
  BY DEF FindOpenStart
<1>4. job' \in [Workers -> Jobs]
  BY <1>1, <1>2, OthersKeepTheirJob
<1>5. ClockTypeOK'
  BY <1>1, <1>3, <1>4 DEF ClockTypeOK, Jobs, clockVars, ghostVars
<1>6. UNCHANGED <<made, cancelled, at, changes, first, entangled>> /\ j.stage \notin EditStages
  BY <1>2, <1>3 DEF clockVars, ghostVars, EditStages
<1> QED
  BY <1>2, <1>5, <1>6, RequestGoesOn DEF ClockInv, Status

\* A clock-out that loads its start: nobody else edits it, unless it is entangled.
LEMMA LoadStartPreserves ==
  ASSUME ClockInv, NEW w \in Workers, LoadStart(w)
  PROVE  ClockInv'
<1> DEFINE s == job[w].signing
           j == [stage |-> "assign", signing |-> s, duration |-> job[w].duration,
                 row |-> at[s], status |-> Status(s)]
<1>1. ClockTypeOK /\ EditInv /\ job[w] \in Jobs /\ job[w].stage = "load"
  BY DEF ClockInv, LoadStart, ClockTypeOK, Jobs
<1>2. s \in made /\ s \in Signings /\ job[w].duration \in Times /\ at[s] \in Points
  BY <1>1, EditsAreRecognized DEF EditInv, Choosing, ClockTypeOK
<1>3. /\ Goes(w, j) /\ UNCHANGED <<clockVars, first, habits, mishaps, changes>>
      /\ entangled' = IF Edited(s) THEN entangled \cup {s} ELSE entangled
  BY DEF LoadStart
<1>4. /\ j \in Jobs /\ j.stage = "assign" /\ j.stage \notin EditStages
      /\ j.signing = s /\ j.row = at[s] /\ j.status = Status(s)
  BY <1>2 DEF Jobs, Closings, EditStages, Status, Statuses
<1>5. entangled \subseteq entangled' /\ entangled' \subseteq made
      /\ (s \notin entangled' => \A v \in Workers : Editing(v) => job[v].signing # s)
  BY <1>1, <1>2, <1>3 DEF ClockTypeOK, Edited, Editing
<1> HIDE DEF j, s
<1>6. job' \in [Workers -> Jobs]
  BY <1>1, <1>3, <1>4, OthersKeepTheirJob
<1>7. ClockTypeOK'
  BY <1>1, <1>3, <1>5, <1>6 DEF ClockTypeOK, Jobs, clockVars
<1>8. UNCHANGED <<made, cancelled, at, changes, first>>
  BY <1>3 DEF clockVars
<1> QED
  BY <1>2, <1>3, <1>4, <1>5, <1>7, <1>8, RequestGoesOn DEF ClockInv, Status

\* What a whole-row save leaves, from whatever was loaded.
LEMMA RowSaves ==
  ASSUME ClockTypeOK, NEW s \in made, NEW p \in Points, NEW x \in Statuses, NEW d \in Durations,
         SaveRow(s, p, x, d)
  PROVE  /\ at' \in [Signings -> Points] /\ at'[s] = p /\ \A t \in Signings \ {s} : at'[t] = at[t]
         /\ duration' \in [Signings -> Durations] /\ duration'[s] = d
         /\ \A t \in Signings \ {s} : duration'[t] = duration[t]
         /\ cancelled' \subseteq made
         /\ Status(s)' = x /\ \A t \in Signings \ {s} : Status(t)' = Status(t)
BY DEF SaveRow, Status, Statuses, ClockTypeOK

\* A worker with the row of a signing saves it: the signing stays where it was,
\* unless it is entangled.
LEMMA HolderSaves ==
  ASSUME ClockInv, NEW w \in Workers, Holding(w), job[w].duration \in Durations,
         SaveRow(job[w].signing, job[w].row, job[w].status, job[w].duration)
  PROVE  /\ job[w].signing \in made /\ at' \in [Signings -> Points]
         /\ duration' \in [Signings -> Durations] /\ cancelled' \subseteq made
         /\ \A t \in made \ entangled : at'[t] = at[t] /\ Status(t)' = Status(t)
<1>1. ClockTypeOK /\ EditInv /\ job[w] \in Jobs
  BY DEF ClockInv, ClockTypeOK, Jobs
<1>2. job[w].row \in Points /\ job[w].status \in Statuses
  BY <1>1, EditsAreRecognized DEF Holding
<1> PICK s : s = job[w].signing
  OBVIOUS
<1>3. /\ s \in made /\ made \subseteq Signings
      /\ s \notin entangled => job[w].row = at[s] /\ job[w].status = Status(s)
  BY <1>1 DEF EditInv, Holding, Choosing, ClockTypeOK
<1>4. /\ at' \in [Signings -> Points] /\ at'[s] = job[w].row
      /\ \A t \in Signings \ {s} : at'[t] = at[t]
      /\ duration' \in [Signings -> Durations] /\ cancelled' \subseteq made
      /\ Status(s)' = job[w].status
      /\ \A t \in Signings \ {s} : Status(t)' = Status(t)
  BY <1>1, <1>2, <1>3, RowSaves
<1> QED
  BY <1>3, <1>4

LEMMA AssignDurationPreserves ==
  ASSUME ClockInv, NEW w \in Workers, AssignDuration(w)
  PROVE  ClockInv'
<1>1. ClockTypeOK /\ Idle \in Jobs /\ Idle.stage = "idle" /\ Idle.stage \notin EditStages
  BY DEF ClockInv, Jobs, Idle, EditStages
<1>2. Holding(w) /\ job[w].duration \in Durations
  <2>1. job[w] \in Jobs /\ job[w].stage = "assign"
    BY <1>1 DEF AssignDuration, ClockTypeOK, Jobs
  <2> QED
    BY <2>1, EditsAreRecognized DEF Holding, Durations
<1>3. Goes(w, Idle) /\ UNCHANGED <<made, ghostVars, changes>>
      /\ SaveRow(job[w].signing, job[w].row, job[w].status, job[w].duration)
  BY DEF AssignDuration
<1>4. /\ at' \in [Signings -> Points] /\ duration' \in [Signings -> Durations]
      /\ cancelled' \subseteq made
      /\ \A t \in made \ entangled : at'[t] = at[t] /\ Status(t)' = Status(t)
  BY <1>2, <1>3, HolderSaves
<1>5. job' \in [Workers -> Jobs]
  BY <1>1, <1>3, OthersKeepTheirJob
<1>6. ClockTypeOK'
  BY <1>1, <1>3, <1>4, <1>5 DEF ClockTypeOK, Jobs, ghostVars
<1>7. UNCHANGED <<made, changes, first, entangled>>
  BY <1>3 DEF ghostVars
<1> QED
  BY <1>1, <1>3, <1>4, <1>6, <1>7, RequestGoesOn DEF ClockInv

LEMMA CrashPreserves ==
  ASSUME ClockInv, NEW w \in Workers, Crash(w)
  PROVE  ClockInv'
<1>1. ClockTypeOK /\ Idle \in Jobs /\ Idle.stage = "idle" /\ Idle.stage \notin EditStages
  BY DEF ClockInv, Jobs, Idle, EditStages
<1>2. Goes(w, Idle) /\ mishaps' = mishaps \cup {"crash"}
      /\ UNCHANGED <<clockVars, first, habits, entangled, changes>>
  BY DEF Crash
<1>3. job' \in [Workers -> Jobs]
  BY <1>1, <1>2, OthersKeepTheirJob
<1>4. ClockTypeOK'
  BY <1>1, <1>2, <1>3 DEF ClockTypeOK, Jobs, clockVars, Mishaps
<1>5. UNCHANGED <<made, cancelled, at, changes, first, entangled>>
  BY <1>2 DEF clockVars
<1> QED
  BY <1>1, <1>2, <1>4, <1>5, RequestGoesOn DEF ClockInv, Status

-----------------------------------------------------------------------------
\* The three requests that load a signing to edit it.
LEMMA EditBeginsPreserves ==
  ASSUME ClockInv, NEW w \in Workers, NEW s \in Active, NEW j \in Edits, Begins(w, j),
         Entangles(s), j.signing = s, j.was = at[s], j.stage # "write", habits' \subseteq Habits,
         UNCHANGED <<clockVars, first, changes>>
  PROVE  ClockInv'
<1>1. ClockTypeOK /\ j \in Jobs /\ s \in made
  BY DEF ClockInv, Jobs, Active
<1>2. ~Busy(w) /\ Goes(w, j) /\ mishaps' \subseteq Mishaps
  BY <1>1, BeginsIsGoes
<1>3. UNCHANGED <<made, cancelled, at, changes, first>>
  BY DEF clockVars
<1>4. EditInv' /\ UnmadeInv' /\ HistoryIsAChain' /\ entangled' \subseteq made
  BY <1>1, <1>2, <1>3, EditBegins
<1>5. job' \in [Workers -> Jobs]
  BY <1>1, <1>2, OthersKeepTheirJob
<1>6. ClockTypeOK'
  BY <1>1, <1>2, <1>4, <1>5 DEF ClockTypeOK, Jobs, clockVars
<1> QED
  BY <1>4, <1>6 DEF ClockInv

LEMMA BeginMovePreserves ==
  ASSUME ClockInv, NEW w \in Workers, NEW s \in Signings, NEW p \in Points, BeginMove(w, s, p)
  PROVE  ClockInv'
<1> DEFINE j == [stage |-> "sequence", signing |-> s, was |-> at[s], point |-> p]
<1>1. ClockTypeOK /\ s \in Active
  BY DEF ClockInv, BeginMove
<1>2. j \in Edits /\ j.signing = s /\ j.was = at[s] /\ j.stage # "write"
  BY <1>1 DEF ClockTypeOK, Edits
<1>3. Begins(w, j) /\ Entangles(s) /\ habits' \subseteq Habits /\ UNCHANGED <<clockVars, first, changes>>
  BY <1>1 DEF BeginMove, ClockTypeOK
<1> HIDE DEF j
<1> QED
  BY <1>1, <1>2, <1>3, EditBeginsPreserves

LEMMA BeginSavePreserves ==
  ASSUME ClockInv, NEW w \in Workers, NEW s \in Signings, NEW d \in Durations, BeginSave(w, s, d)
  PROVE  ClockInv'
<1> DEFINE j == [stage |-> "save", signing |-> s, was |-> at[s], duration |-> d]
<1>1. ClockTypeOK /\ s \in Active
  BY DEF ClockInv, BeginSave
<1>2. j \in Edits /\ j.signing = s /\ j.was = at[s] /\ j.stage # "write"
  BY <1>1 DEF ClockTypeOK, Edits
<1>3. Begins(w, j) /\ Entangles(s) /\ habits' \subseteq Habits /\ UNCHANGED <<clockVars, first, changes>>
  BY <1>1 DEF BeginSave, ClockTypeOK, Habits
<1> HIDE DEF j
<1> QED
  BY <1>1, <1>2, <1>3, EditBeginsPreserves

LEMMA BeginCancelPreserves ==
  ASSUME ClockInv, NEW w \in Workers, NEW s \in Signings, BeginCancel(w, s)
  PROVE  ClockInv'
<1> DEFINE j == [stage |-> "cancel", signing |-> s, was |-> at[s], duration |-> duration[s]]
<1>1. ClockTypeOK /\ s \in Active
  BY DEF ClockInv, BeginCancel
<1>2. j \in Edits /\ j.signing = s /\ j.was = at[s] /\ j.stage # "write"
  BY <1>1 DEF ClockTypeOK, Edits
<1>3. Begins(w, j) /\ Entangles(s) /\ habits' \subseteq Habits /\ UNCHANGED <<clockVars, first, changes>>
  BY <1>1 DEF BeginCancel, ClockTypeOK, Habits
<1> HIDE DEF j
<1> QED
  BY <1>1, <1>2, <1>3, EditBeginsPreserves

\* An edit that is in flight, with the fields its stage has.
LEMMA EditInFlight ==
  ASSUME ClockInv, NEW w \in Workers, Editing(w)
  PROVE  /\ job[w] \in Edits /\ job[w].signing \in made /\ job[w].signing \in Signings
         /\ job[w].was \in Points
         /\ job[w].stage \in {"sequence", "move"} => job[w].point \in Points
         /\ job[w].stage = "move" => job[w].plan \in Plans
         /\ job[w].stage \in {"save", "write", "cancel"} => job[w].duration \in Durations
<1>1. job[w] \in Jobs
  BY DEF ClockInv, ClockTypeOK, Jobs
<1>2. job[w] \in Edits
  BY <1>1, EditsAreRecognized DEF Editing
<1>3. job[w].signing \in made /\ made \subseteq Signings
  BY DEF ClockInv, EditInv, Editing, Choosing, EditStages, ClockTypeOK
<1> QED
  BY <1>2, <1>3 DEF Edits

LEMMA CheckSequencePreserves ==
  ASSUME ClockInv, NEW w \in Workers, CheckSequence(w)
  PROVE  ClockInv'
<1> DEFINE s == job[w].signing
           day == With(Today, s, job[w].point)
           j == [stage |-> "move", signing |-> s, was |-> job[w].was,
                 point |-> job[w].point, plan |-> DurationsOf(day)]
<1>1. ClockTypeOK /\ Idle \in Jobs /\ Idle.stage = "idle"
  BY DEF ClockInv, Jobs, Idle
<1>2. Editing(w) /\ job[w].stage = "sequence"
  BY DEF CheckSequence, Editing, EditStages
<1>3. s \in Signings /\ job[w].point \in Points /\ job[w].was \in Points
  BY <1>2, EditInFlight
<1>4. Active \subseteq Signings /\ Today \in [Active -> Points]
  BY <1>1 DEF ClockTypeOK, Active, Today
<1>5. Active \cup {s} \in SUBSET Signings /\ day \in [Active \cup {s} -> Points]
  BY <1>3, <1>4 DEF With
<1>6. DurationsOf(day) \in Plans
  <2> HIDE DEF day, s
  <2> QED
    BY <1>5, PlansOfDays
<1>7. j \in Jobs
  BY <1>3, <1>6 DEF Jobs, Edits
<1>8. UNCHANGED <<clockVars, ghostVars, changes>>
  BY DEF CheckSequence
<1>9. PICK k \in Jobs : /\ Goes(w, k)
                        /\ k.stage \in {"idle", "move"}
                        /\ k.stage = "move" => k.signing = s /\ k.was = job[w].was
  <2>1. CASE Alternates(day)
    <3>1. Goes(w, j)
      BY <2>1 DEF CheckSequence
    <3> QED
      BY <1>7, <3>1
  <2>2. CASE ~Alternates(day)
    <3>1. Goes(w, Idle)
      BY <2>2 DEF CheckSequence
    <3> QED
      BY <1>1, <3>1
  <2> QED
    BY <2>1, <2>2
<1>10. job' \in [Workers -> Jobs]
  BY <1>1, <1>9, OthersKeepTheirJob
<1>11. ClockTypeOK'
  BY <1>1, <1>8, <1>10 DEF ClockTypeOK, Jobs, clockVars, ghostVars
<1>12. UNCHANGED <<made, cancelled, at, changes, first, entangled>> /\ s \in made
  BY <1>2, <1>8, EditInFlight DEF clockVars, ghostVars
<1>13. k.stage \in EditStages => k.signing = job[w].signing /\ k.was = job[w].was
  BY <1>9 DEF EditStages
<1> QED
  BY <1>2, <1>9, <1>11, <1>12, <1>13, RequestGoesOn DEF ClockInv, Status

LEMMA LoadSavedPreserves ==
  ASSUME ClockInv, NEW w \in Workers, LoadSaved(w)
  PROVE  ClockInv'
<1> DEFINE s == job[w].signing
           j == [stage |-> "write", signing |-> s, was |-> job[w].was, duration |-> job[w].duration,
                 row |-> at[s], status |-> Status(s)]
<1>1. ClockTypeOK /\ EditInv /\ Editing(w) /\ job[w].stage = "save"
  BY DEF ClockInv, LoadSaved, Editing, EditStages
<1>2. /\ s \in Signings /\ s \in made /\ job[w].was \in Points /\ job[w].duration \in Durations
      /\ at[s] \in Points
  BY <1>1, EditInFlight DEF ClockTypeOK
<1>3. Goes(w, j) /\ UNCHANGED <<clockVars, ghostVars, changes>>
  BY DEF LoadSaved
<1>4. /\ j \in Jobs /\ j.signing = s /\ j.was = job[w].was /\ j.row = at[s]
      /\ j.status = Status(s)
  BY <1>2 DEF Jobs, Edits, Status, Statuses
<1>5. s \notin entangled => \A v \in Workers \ {w} : Editing(v) => job[v].signing # s
  BY <1>1 DEF EditInv
<1> HIDE DEF j, s
<1>6. job' \in [Workers -> Jobs]
  BY <1>1, <1>3, <1>4, OthersKeepTheirJob
<1>7. ClockTypeOK'
  BY <1>1, <1>3, <1>6 DEF ClockTypeOK, Jobs, clockVars, ghostVars
<1>8. UNCHANGED <<made, cancelled, at, changes, first, entangled>>
  BY <1>3 DEF clockVars, ghostVars
<1> QED
  BY <1>1, <1>2, <1>3, <1>4, <1>5, <1>7, <1>8, RequestGoesOn DEF ClockInv, s, Status

LEMMA SaveDurationPreserves ==
  ASSUME ClockInv, NEW w \in Workers, SaveDuration(w)
  PROVE  ClockInv'
<1> DEFINE j == [stage |-> "log", signing |-> job[w].signing, was |-> job[w].was]
<1>1. ClockTypeOK /\ Editing(w) /\ Holding(w) /\ job[w].stage = "write"
  BY DEF ClockInv, SaveDuration, Editing, Holding, EditStages
<1>2. /\ job[w].signing \in Signings /\ job[w].was \in Points /\ job[w].duration \in Durations
      /\ job[w].signing \in made
  BY <1>1, EditInFlight
<1>3. j \in Jobs /\ j.stage = "log" /\ j.signing = job[w].signing /\ j.was = job[w].was
  BY <1>2 DEF Jobs, Edits
<1>4. /\ Goes(w, j) /\ UNCHANGED <<made, ghostVars, changes>>
      /\ SaveRow(job[w].signing, job[w].row, job[w].status, job[w].duration)
  BY DEF SaveDuration
<1>5. /\ at' \in [Signings -> Points] /\ duration' \in [Signings -> Durations]
      /\ cancelled' \subseteq made
      /\ \A t \in made \ entangled : at'[t] = at[t] /\ Status(t)' = Status(t)
  BY <1>1, <1>2, <1>4, HolderSaves
<1> HIDE DEF j
<1>6. job' \in [Workers -> Jobs]
  BY <1>1, <1>3, <1>4, OthersKeepTheirJob
<1>7. ClockTypeOK'
  BY <1>1, <1>4, <1>5, <1>6 DEF ClockTypeOK, Jobs, ghostVars
<1>8. UNCHANGED <<made, changes, first, entangled>>
  BY <1>4 DEF ghostVars
<1> QED
  BY <1>1, <1>2, <1>3, <1>4, <1>5, <1>7, <1>8, RequestGoesOn DEF ClockInv

LEMMA ApplyMovePreserves ==
  ASSUME ClockInv, NEW w \in Workers, ApplyMove(w)
  PROVE  ClockInv'
<1> DEFINE s == job[w].signing
           q == job[w].point
           plan == job[w].plan
<1>1. ClockTypeOK /\ Editing(w) /\ job[w].stage = "move"
  BY DEF ClockInv, ApplyMove, Editing, EditStages
<1>2. s \in made /\ s \in Signings /\ q \in Points /\ plan \in Plans
  BY <1>1, EditInFlight
<1>3. /\ at' = [at EXCEPT ![s] = q]
      /\ duration' = [t \in Signings |-> IF t \in DOMAIN plan THEN plan[t] ELSE duration[t]]
      /\ Logged(s, job[w].was, q) /\ Goes(w, Idle)
      /\ UNCHANGED <<made, cancelled, ghostVars>>
  BY DEF ApplyMove
<1>4. at' \in [Signings -> Points] /\ at'[s] = q /\ \A t \in Signings \ {s} : at'[t] = at[t]
  BY <1>1, <1>2, <1>3 DEF ClockTypeOK
<1>5. \A t \in DOMAIN plan : plan[t] \in Durations
  BY <1>2 DEF Plans
<1>6. duration' \in [Signings -> Durations]
  BY <1>1, <1>3, <1>5 DEF ClockTypeOK
<1> HIDE DEF s, q, plan
<1>7. EditInv' /\ UnmadeInv' /\ HistoryIsAChain' /\ changes' \in [Signings -> Seq(Changes)]
  BY <1>1, <1>2, <1>3, <1>4, EditEnds DEF s, ghostVars, Status
<1>8. job' \in [Workers -> Jobs]
  BY <1>1, <1>3, OthersKeepTheirJob DEF Jobs
<1>9. ClockTypeOK'
  BY <1>1, <1>3, <1>4, <1>6, <1>7, <1>8 DEF ClockTypeOK, Jobs, ghostVars
<1> QED
  BY <1>7, <1>9 DEF ClockInv

LEMMA LogChangePreserves ==
  ASSUME ClockInv, NEW w \in Workers, LogChange(w)
  PROVE  ClockInv'
<1> DEFINE s == job[w].signing
           q == job[w].was
<1>1. ClockTypeOK /\ EditInv /\ Editing(w)
  BY DEF ClockInv, LogChange, Editing, EditStages
<1>2. s \in made /\ s \in Signings /\ q \in Points
  BY <1>1, EditInFlight
<1>3. Logged(s, q, q) /\ Goes(w, Idle) /\ UNCHANGED <<clockVars, ghostVars>>
  BY DEF LogChange
<1>4. at' \in [Signings -> Points] /\ (\A t \in Signings \ {s} : at'[t] = at[t])
      /\ (s \notin entangled => at'[s] = q)
  BY <1>1, <1>3 DEF ClockTypeOK, clockVars, EditInv
<1> HIDE DEF s
<1>5. EditInv' /\ UnmadeInv' /\ HistoryIsAChain' /\ changes' \in [Signings -> Seq(Changes)]
  BY <1>1, <1>2, <1>3, <1>4, EditEnds DEF s, ghostVars, clockVars, Status
<1>6. job' \in [Workers -> Jobs]
  BY <1>1, <1>3, OthersKeepTheirJob DEF Jobs
<1>7. ClockTypeOK'
  BY <1>1, <1>3, <1>5, <1>6 DEF ClockTypeOK, Jobs, ghostVars, clockVars
<1> QED
  BY <1>5, <1>7 DEF ClockInv

LEMMA CancelPreserves ==
  ASSUME ClockInv, NEW w \in Workers, Cancel(w)
  PROVE  ClockInv'
<1> DEFINE s == job[w].signing
           q == job[w].was
<1>1. ClockTypeOK /\ Editing(w) /\ job[w].stage = "cancel"
  BY DEF ClockInv, Cancel, Editing, EditStages
<1>2. s \in made /\ s \in Signings /\ q \in Points /\ job[w].duration \in Durations
  BY <1>1, EditInFlight
<1>3. /\ SaveRow(s, q, "cancelled", job[w].duration)
      /\ Goes(w, Idle) /\ UNCHANGED <<made, ghostVars, changes>>
  BY DEF Cancel
<1> HIDE DEF s, q
<1>4. /\ at' \in [Signings -> Points] /\ at'[s] = q /\ (\A t \in Signings \ {s} : at'[t] = at[t])
      /\ duration' \in [Signings -> Durations] /\ cancelled' \subseteq made
      /\ \A t \in Signings \ {s} : Status(t)' = Status(t)
  <2>1. "cancelled" \in Statuses
    BY DEF Statuses
  <2> QED
    BY <1>1, <1>2, <1>3, <2>1, RowSaves
<1>5. \A t \in made \ {s} : Status(t)' = Status(t)
  BY <1>1, <1>4 DEF ClockTypeOK
<1>6. EditInv' /\ UnmadeInv' /\ HistoryIsAChain' /\ changes' \in [Signings -> Seq(Changes)]
  BY <1>1, <1>2, <1>3, <1>4, <1>5, EditEnds DEF s, q, ghostVars
<1>7. job' \in [Workers -> Jobs]
  BY <1>1, <1>3, OthersKeepTheirJob DEF Jobs
<1>8. ClockTypeOK'
  BY <1>1, <1>3, <1>4, <1>6, <1>7 DEF ClockTypeOK, Jobs, ghostVars
<1> QED
  BY <1>6, <1>8 DEF ClockInv

LEMMA StutterPreserves == ClockInv /\ UNCHANGED vars => ClockInv'
BY DEF vars, clockVars, ghostVars, ClockInv, ClockTypeOK, EditInv, Editing, Holding, Choosing,
   UnmadeInv, HistoryIsAChain, Updated, Status

-----------------------------------------------------------------------------
LEMMA ClockInvInductive == Spec => []ClockInv
<1>1. ClockInv /\ [Next]_vars => ClockInv'
  <2> SUFFICES ASSUME ClockInv, [Next]_vars
               PROVE  ClockInv'
    OBVIOUS
  <2>0. Typed \cup {Null} \subseteq Durations
    BY ClockAssumption DEF Durations, Times
  <2>1. ASSUME NEW w \in Workers, NEW s \in Signings, NEW p \in Points, NEW d \in Typed \cup {Null},
               Create(w, s, p, d)
        PROVE  ClockInv'
    BY <2>0, <2>1, CreatePreserves
  <2>2. ASSUME NEW w \in Workers, NEW s \in Signings,
               \/ \E p \in Points : BeginMove(w, s, p)
               \/ \E d \in Typed \cup {Null} : BeginSave(w, s, d)
               \/ BeginCancel(w, s)
        PROVE  ClockInv'
    BY <2>0, <2>2, BeginMovePreserves, BeginSavePreserves, BeginCancelPreserves
  <2>3. ASSUME NEW w \in Workers,
               \/ FindOpenStart(w) \/ LoadStart(w) \/ AssignDuration(w)
               \/ Cancel(w) \/ Crash(w)
        PROVE  ClockInv'
    BY <2>3, FindOpenStartPreserves, LoadStartPreserves, AssignDurationPreserves, CancelPreserves,
       CrashPreserves
  <2>4. ASSUME NEW w \in Workers,
               \/ CheckSequence(w) \/ ApplyMove(w)
               \/ LoadSaved(w) \/ SaveDuration(w) \/ LogChange(w)
        PROVE  ClockInv'
    BY <2>4, CheckSequencePreserves, ApplyMovePreserves, LoadSavedPreserves, SaveDurationPreserves,
       LogChangePreserves
  <2> QED
    BY <2>1, <2>2, <2>3, <2>4, StutterPreserves DEF Next
<1> QED
  BY InitEstablishes, <1>1, PTL DEF Spec

\* Types: every row and every request of SigningService keeps its shape; above
\* all, no clock-out and no correction derives a negative duration.
THEOREM ClockTypeCorrect == Spec => []ClockTypeOK
BY ClockInvInductive, PTL DEF ClockInv

\* signings_updates tells the whole story of a signing, from what create stored
\* to what it is, unless two edits of that very signing met, or an edit met a
\* clock-out that had loaded its row and was to save it.
THEOREM HistoryAlwaysChains == Spec => []HistoryIsAChain
BY ClockInvInductive, PTL DEF ClockInv

-----------------------------------------------------------------------------
(* Days, as functions from signings to points.                              *)

\* The place of a point in the order of a day.
Rank(p) == 2 * p.moment + (IF p.action = "end" THEN 1 ELSE 0)

LEMMA RanksOfPoints ==
  ASSUME NEW p \in Points, NEW q \in Points
  PROVE  /\ Rank(p) \in Nat /\ Rank(p) <= 2 * MaxTime + 1
         /\ Precedes(p, q) <=> Rank(p) < Rank(q)
         /\ Rank(p) = Rank(q) => p = q
<1>1. /\ p.moment \in 0..MaxTime /\ p.action \in {"start", "end"}
      /\ q.moment \in 0..MaxTime /\ q.action \in {"start", "end"}
      /\ p = [action |-> p.action, moment |-> p.moment]
      /\ q = [action |-> q.action, moment |-> q.moment]
  BY DEF Points, Times
<1>2. Rank(p) \in Nat /\ Rank(p) <= 2 * MaxTime + 1
  BY <1>1, ClockAssumption DEF Rank
<1>3. Precedes(p, q) <=> Rank(p) < Rank(q)
  <2>1. CASE p.action = "end" /\ q.action = "end"
    BY <1>1, <2>1 DEF Rank, Precedes
  <2>2. CASE p.action = "end" /\ q.action = "start"
    BY <1>1, <2>2 DEF Rank, Precedes
  <2>3. CASE p.action = "start" /\ q.action = "end"
    BY <1>1, <2>3 DEF Rank, Precedes
  <2>4. CASE p.action = "start" /\ q.action = "start"
    BY <1>1, <2>4 DEF Rank, Precedes
  <2> QED BY <1>1, <2>1, <2>2, <2>3, <2>4
<1>4. Rank(p) = Rank(q) => p.action = q.action /\ p.moment = q.moment
  BY <1>1 DEF Rank
<1>5. Rank(p) = Rank(q) => p = q
  BY <1>1, <1>4
<1> QED BY <1>2, <1>3, <1>5

LEMMA LeastNatural ==
  ASSUME NEW T, T \subseteq Nat, T # {}
  PROVE  \E x \in T : \A y \in T : x <= y
<1>1. PICK x \in T : \A y \in T : <<y, x>> \notin OpToRel(<, Nat)
  BY NatLessThanWellFounded, WFMin
<1>2. \A y \in T : ~(y < x)
  BY <1>1 DEF OpToRel
<1> QED BY <1>2

\* Points are totally ordered.
LEMMA OrderOfPoints ==
  /\ \A p \in Points : ~Precedes(p, p)
  /\ \A p, q \in Points : p = q \/ Precedes(p, q) \/ Precedes(q, p)
  /\ \A p, q, r \in Points : Precedes(p, q) /\ Precedes(q, r) => Precedes(p, r)
  /\ \A p, q \in Points : ~(Precedes(p, q) /\ Precedes(q, p))
<1>1. \A p \in Points : ~Precedes(p, p)
  BY RanksOfPoints
<1>2. \A p, q \in Points : p = q \/ Precedes(p, q) \/ Precedes(q, p)
  BY RanksOfPoints
<1>3. \A p, q, r \in Points : Precedes(p, q) /\ Precedes(q, r) => Precedes(p, r)
  BY RanksOfPoints
<1>4. \A p, q \in Points : ~(Precedes(p, q) /\ Precedes(q, p))
  BY RanksOfPoints
<1> QED BY <1>1, <1>2, <1>3, <1>4

\* Some signings of a day come first among those one asks about, and some last.
LEMMA EarliestAndLatest ==
  ASSUME NEW D, NEW day \in [D -> Points], NEW T \in SUBSET D, T # {}
  PROVE  /\ \E x \in T : \A y \in T : ~Precedes(day[y], day[x])
         /\ \E x \in T : \A y \in T : ~Precedes(day[x], day[y])
<1>1. \E x \in T : \A y \in T : ~Precedes(day[y], day[x])
  <2> DEFINE R == {Rank(day[x]) : x \in T}
  <2>1. R \subseteq Nat /\ R # {}
    BY RanksOfPoints
  <2> HIDE DEF R
  <2>2. PICK r \in R : \A n \in R : r <= n
    BY <2>1, LeastNatural
  <2>3. PICK x \in T : r = Rank(day[x])
    BY DEF R
  <2>4. \A y \in T : Rank(day[x]) <= Rank(day[y])
    BY <2>2, <2>3 DEF R
  <2> QED BY <2>4, RanksOfPoints
<1>2. \E x \in T : \A y \in T : ~Precedes(day[x], day[y])
  <2> DEFINE R == {(2 * MaxTime + 1) - Rank(day[x]) : x \in T}
  <2>1. R \subseteq Nat /\ R # {}
    <3>1. \A x \in T : (2 * MaxTime + 1) - Rank(day[x]) \in Nat
      BY RanksOfPoints, ClockAssumption
    <3> QED BY <3>1
  <2> HIDE DEF R
  <2>2. PICK r \in R : \A n \in R : r <= n
    BY <2>1, LeastNatural
  <2>3. PICK x \in T : r = (2 * MaxTime + 1) - Rank(day[x])
    BY DEF R
  <2>4. \A y \in T : r <= (2 * MaxTime + 1) - Rank(day[y])
    BY <2>2 DEF R
  <2>5. \A y \in T : Rank(day[y]) <= Rank(day[x])
    BY <2>3, <2>4, RanksOfPoints, ClockAssumption
  <2> QED BY <2>5, RanksOfPoints
<1> QED BY <1>1, <1>2

LEMMA SomethingFollows ==
  ASSUME NEW D, NEW day \in [D -> Points], NEW s \in D, NEW u \in D, Precedes(day[s], day[u])
  PROVE  \E t \in D : Follows(day, s, t)
<1> DEFINE T == {x \in D : Precedes(day[s], day[x])}
<1>1. T \in SUBSET D /\ T # {}
  OBVIOUS
<1>2. PICK t \in T : \A y \in T : ~Precedes(day[y], day[t])
  BY <1>1, EarliestAndLatest
<1> QED BY <1>2 DEF Follows

LEMMA SomethingIsFollowed ==
  ASSUME NEW D, NEW day \in [D -> Points], NEW t \in D, NEW u \in D, Precedes(day[u], day[t])
  PROVE  \E s \in D : Follows(day, s, t)
<1> DEFINE T == {x \in D : Precedes(day[x], day[t])}
<1>1. T \in SUBSET D /\ T # {}
  OBVIOUS
<1>2. PICK s \in T : \A y \in T : ~Precedes(day[s], day[y])
  BY <1>1, EarliestAndLatest
<1> QED BY <1>2 DEF Follows

\* In a day without ties at most one signing follows another, and follows at most one.
LEMMA FollowsIsOneToOne ==
  ASSUME NEW D, NEW day \in [D -> Points], \A s, t \in D : s # t => day[s] # day[t],
         NEW s \in D, NEW t \in D, NEW u \in D
  PROVE  /\ Follows(day, s, t) /\ Follows(day, s, u) => t = u
         /\ Follows(day, t, s) /\ Follows(day, u, s) => t = u
<1>1. t = u \/ Precedes(day[t], day[u]) \/ Precedes(day[u], day[t])
  BY OrderOfPoints
<1>2. Follows(day, s, t) /\ Follows(day, s, u) => t = u
  BY <1>1 DEF Follows
<1>3. Follows(day, t, s) /\ Follows(day, u, s) => t = u
  BY <1>1 DEF Follows
<1> QED BY <1>2, <1>3

\* The end that closes a start in a day in order.
LEMMA ClosedStart ==
  ASSUME NEW D, NEW day \in [D -> Points], Alternates(day), NEW s \in Starts(day), NEW t \in D,
         Follows(day, s, t)
  PROVE  /\ day[t].action = "end" /\ EndsOf(day, s) = {t}
         /\ DurationIn(day, s) = day[t].moment - day[s].moment
         /\ DurationIn(day, s) \in Times /\ DurationIn(day, s) # Null
<1>1. s \in D /\ day[s].action = "start"
  BY DEF Starts
<1>2. day[t].action = "end"
  BY <1>1 DEF Alternates, Points
<1>3. \A u \in D : Follows(day, s, u) => u = t
  BY <1>1, FollowsIsOneToOne DEF Alternates
<1>4. EndsOf(day, s) = {t}
  BY <1>2, <1>3 DEF EndsOf
<1>5. day[t].moment - day[s].moment \in Times
  <2>1. day[s].moment \in Times /\ day[t].moment \in Times /\ Precedes(day[s], day[t])
    BY <1>1 DEF Points, Follows
  <2> QED BY <2>1, ClockAssumption DEF Precedes, Times
<1>6. Span(day, s) = day[t].moment - day[s].moment
  BY <1>4, <1>5 DEF Span
<1>7. Null \notin Times
  BY ClockAssumption DEF Null, Times
<1> QED BY <1>2, <1>4, <1>5, <1>6, <1>7 DEF DurationIn

\* A start left open in a day in order is the last signing of it.
LEMMA OpenStart ==
  ASSUME NEW D, NEW day \in [D -> Points], Alternates(day), NEW s \in Starts(day), NEW u \in D,
         Precedes(day[s], day[u])
  PROVE  \E t \in D : Follows(day, s, t) /\ DurationIn(day, s) = day[t].moment - day[s].moment
                      /\ DurationIn(day, s) # Null
<1>1. s \in D
  BY DEF Starts
<1>2. PICK t \in D : Follows(day, s, t)
  BY <1>1, SomethingFollows
<1> QED BY <1>2, ClosedStart

UpToIn(day, t, action) ==
  {s \in DOMAIN day : day[s].action = action /\ (s = t \/ Precedes(day[s], day[t]))}

Level(day, t) ==
  Cardinality(UpToIn(day, t, "start")) - Cardinality(UpToIn(day, t, "end")) =
    (IF day[t].action = "start" THEN 1 ELSE 0)

LEMMA OneMore ==
  ASSUME NEW S, IsFiniteSet(S), NEW x, x \notin S
  PROVE  Cardinality(S) \in Nat /\ Cardinality(S \cup {x}) = Cardinality(S) + 1
BY FS_AddElement, FS_CardinalityType

\* Counted from the first signing on, the starts of a day in order are one ahead
\* of the ends at a start and level with them at an end.  By the least signing at
\* which they would not be.
LEMMA OrderedDayIsLevel ==
  ASSUME NEW D, IsFiniteSet(D), NEW day \in [D -> Points], Alternates(day)
  PROVE  \A t \in D : Level(day, t)
<1> SUFFICES ASSUME \E t \in D : ~Level(day, t) PROVE FALSE
  OBVIOUS
<1> DEFINE T == {t \in D : ~Level(day, t)}
<1>1. PICK t \in T : \A y \in T : ~Precedes(day[y], day[t])
  <2>1. T \in SUBSET D /\ T # {}
    OBVIOUS
  <2> HIDE DEF T
  <2> QED BY <2>1, EarliestAndLatest
<1>2. t \in D /\ ~Level(day, t)
  BY DEF T
<1>3. day[t] \in Points /\ day[t].action \in {"start", "end"}
  BY <1>2 DEF Points
<1>4. CASE \A u \in D : ~Precedes(day[u], day[t])
  <2>1. day[t].action = "start"
    BY <1>2, <1>3, <1>4 DEF Alternates, Follows
  <2>2. UpToIn(day, t, "start") = {t} /\ UpToIn(day, t, "end") = {}
    BY <1>2, <1>4, <2>1 DEF UpToIn
  <2>3. Cardinality({t}) = 1 /\ Cardinality({}) = 0
    BY FS_Singleton, FS_EmptySet
  <2> QED BY <1>2, <2>1, <2>2, <2>3 DEF Level
<1>5. CASE \E u \in D : Precedes(day[u], day[t])
  <2>1. PICK s \in D : Follows(day, s, t)
    BY <1>2, <1>5, SomethingIsFollowed
  <2>2. Precedes(day[s], day[t]) /\ Level(day, s) /\ day[s].action # day[t].action
    BY <1>1, <1>2, <2>1 DEF Follows, Alternates
  <2>3. \A u \in D : Precedes(day[u], day[t]) <=> u = s \/ Precedes(day[u], day[s])
    <3>1. \A u \in D : u = s \/ Precedes(day[u], day[s]) \/ Precedes(day[s], day[u])
      BY OrderOfPoints DEF Alternates
    <3>2. \A u \in D : ~(Precedes(day[s], day[u]) /\ Precedes(day[u], day[t]))
      BY <2>1 DEF Follows
    <3>3. \A u \in D : Precedes(day[u], day[s]) => Precedes(day[u], day[t])
      BY <1>2, <2>2, OrderOfPoints
    <3> QED BY <2>2, <3>1, <3>2, <3>3
  <2>4. t # s /\ ~Precedes(day[t], day[s])
    BY <1>2, <2>2, OrderOfPoints
  <2>5. ASSUME NEW action
        PROVE  /\ UpToIn(day, t, action) =
                    IF day[t].action = action THEN UpToIn(day, s, action) \cup {t}
                    ELSE UpToIn(day, s, action)
               /\ t \notin UpToIn(day, s, action)
               /\ IsFiniteSet(UpToIn(day, s, action))
    <3>1. UpToIn(day, s, action) \in SUBSET D
      BY DEF UpToIn
    <3>2. t \notin UpToIn(day, s, action)
      BY <2>4 DEF UpToIn
    <3>3. UpToIn(day, t, action) =
            IF day[t].action = action THEN UpToIn(day, s, action) \cup {t}
            ELSE UpToIn(day, s, action)
      BY <1>2, <2>3 DEF UpToIn
    <3> QED BY <3>1, <3>2, <3>3, FS_Subset
  <2> DEFINE starts == UpToIn(day, s, "start")
             ends == UpToIn(day, s, "end")
  <2>6. Cardinality(starts) \in Nat /\ Cardinality(ends) \in Nat
        /\ Cardinality(starts \cup {t}) = Cardinality(starts) + 1
        /\ Cardinality(ends \cup {t}) = Cardinality(ends) + 1
    BY <2>5, OneMore
  <2>7. CASE day[t].action = "start"
    <3>1. UpToIn(day, t, "start") = starts \cup {t} /\ UpToIn(day, t, "end") = ends
      BY <2>5, <2>7
    <3>2. day[s].action = "end" /\ Cardinality(starts) - Cardinality(ends) = 0
      BY <2>2, <2>7 DEF Level, Points
    <3> HIDE DEF starts, ends
    <3>3. Cardinality(UpToIn(day, t, "start")) = Cardinality(starts) + 1
          /\ Cardinality(UpToIn(day, t, "end")) = Cardinality(ends)
      BY <2>6, <3>1
    <3>4. Cardinality(UpToIn(day, t, "start")) - Cardinality(UpToIn(day, t, "end")) = 1
      BY <2>6, <3>2, <3>3
    <3> QED BY <1>2, <2>7, <3>4 DEF Level
  <2>8. CASE day[t].action = "end"
    <3>1. UpToIn(day, t, "start") = starts /\ UpToIn(day, t, "end") = ends \cup {t}
      BY <2>5, <2>8
    <3>2. day[s].action = "start" /\ Cardinality(starts) - Cardinality(ends) = 1
      BY <2>2, <2>8 DEF Level, Points
    <3> HIDE DEF starts, ends
    <3>3. Cardinality(UpToIn(day, t, "start")) = Cardinality(starts)
          /\ Cardinality(UpToIn(day, t, "end")) = Cardinality(ends) + 1
      BY <2>6, <3>1
    <3>4. Cardinality(UpToIn(day, t, "start")) - Cardinality(UpToIn(day, t, "end")) = 0
      BY <2>6, <3>2, <3>3
    <3> QED BY <1>2, <2>8, <3>4 DEF Level
  <2> QED BY <1>3, <2>7, <2>8
<1> QED BY <1>4, <1>5

EndsNotBefore(day, s) ==
  {day[t].moment : t \in {t \in DOMAIN day : day[t].action = "end" /\ day[t].moment >= day[s].moment}}

LastsUntil(d, from, ends) ==
  IF ends = {} THEN d = Null ELSE \E m \in ends : (\A n \in ends : m <= n) /\ d = m - from

\* What a start lasts in a day in order: until the first end not before it.
LEMMA DurationIsExact ==
  ASSUME NEW D, NEW day \in [D -> Points], Alternates(day), NEW s \in Starts(day),
         NEW ends, ends = EndsNotBefore(day, s)
  PROVE  LastsUntil(DurationIn(day, s), day[s].moment, ends)
<1>1. s \in D /\ day[s].action = "start" /\ \A t \in D : day[t] \in Points
  BY DEF Starts
<1>2. \A t \in D : day[t].action = "end" =>
        (day[t].moment >= day[s].moment <=> Precedes(day[s], day[t]))
  BY <1>1 DEF Precedes, Points, Times
<1>3. CASE ends = {}
  <2>1. EndsOf(day, s) = {}
    BY <1>2, <1>3 DEF EndsOf, Follows, EndsNotBefore
  <2> QED BY <1>3, <2>1 DEF DurationIn, LastsUntil
<1>4. CASE ends # {}
  <2>1. PICK u \in D : day[u].action = "end" /\ Precedes(day[s], day[u])
    BY <1>2, <1>4 DEF EndsNotBefore
  <2>2. PICK t \in D : Follows(day, s, t)
    BY <1>1, <2>1, SomethingFollows
  <2>3. day[t].action = "end" /\ DurationIn(day, s) = day[t].moment - day[s].moment
    BY <2>2, ClosedStart
  <2>4. day[t].moment \in ends
    BY <1>2, <2>2, <2>3 DEF Follows, EndsNotBefore
  <2>5. ASSUME NEW n \in ends PROVE day[t].moment <= n
    <3>1. PICK v \in D : day[v].action = "end" /\ Precedes(day[s], day[v]) /\ n = day[v].moment
      BY <1>2 DEF EndsNotBefore
    <3>2. ~Precedes(day[v], day[t])
      BY <2>2, <3>1 DEF Follows
    <3> QED BY <1>1, <2>3, <3>1, <3>2 DEF Precedes, Points, Times
  <2> QED BY <1>4, <2>3, <2>4, <2>5 DEF LastsUntil
<1> QED BY <1>3, <1>4

LEMMA DayWithOneMore ==
  ASSUME NEW D, NEW day \in [D -> Points], NEW s, s \notin D, NEW p \in Points,
         NEW new, new = With(day, s, p)
  PROVE  /\ new \in [D \cup {s} -> Points] /\ new[s] = p /\ \A u \in D : new[u] = day[u]
         /\ \A u, t \in D : Follows(new, u, t) => Follows(day, u, t)
         /\ \A u, t \in D : Follows(day, u, t) =>
              Follows(new, u, t) \/ (Precedes(day[u], p) /\ Precedes(p, day[t]))
<1>1. new \in [D \cup {s} -> Points] /\ new[s] = p /\ \A u \in D : new[u] = day[u]
  BY DEF With
<1>2. \A u, t \in D : Follows(new, u, t) => Follows(day, u, t)
  BY <1>1 DEF Follows
<1>3. \A u, t \in D : Follows(day, u, t) =>
        Follows(new, u, t) \/ (Precedes(day[u], p) /\ Precedes(p, day[t]))
  BY <1>1 DEF Follows
<1> QED BY <1>1, <1>2, <1>3

\* A start lasts as long in two days in which the same end follows it.
LEMMA SameDuration ==
  ASSUME NEW D, NEW day \in [D -> Points], Alternates(day),
         NEW E, NEW new \in [E -> Points], Alternates(new), D \subseteq E,
         \A u \in D : new[u] = day[u], NEW u \in Starts(day),
         \A t \in D : Follows(day, u, t) => Follows(new, u, t),
         \A t \in EndsOf(new, u) : t \in D
  PROVE  DurationIn(new, u) = DurationIn(day, u)
<1>1. u \in D /\ u \in E /\ u \in Starts(new)
  BY DEF Starts
<1>2. CASE EndsOf(day, u) = {}
  <2>1. \A t \in D : ~Follows(day, u, t)
    BY <1>2, ClosedStart
  <2>2. \A t \in D : ~Precedes(day[u], day[t])
    BY <1>1, <2>1, SomethingFollows
  <2>3. EndsOf(new, u) = {}
    BY <1>1, <2>2 DEF EndsOf, Follows
  <2> QED BY <1>2, <2>3 DEF DurationIn
<1>3. CASE EndsOf(day, u) # {}
  <2>1. PICK t \in D : Follows(day, u, t)
    BY <1>3 DEF EndsOf
  <2>2. DurationIn(day, u) = day[t].moment - day[u].moment
    BY <2>1, ClosedStart
  <2>3. t \in E /\ Follows(new, u, t)
    BY <2>1
  <2>4. DurationIn(new, u) = new[t].moment - new[u].moment
    BY <1>1, <2>3, ClosedStart
  <2> QED BY <1>1, <2>1, <2>2, <2>4
<1> QED BY <1>2, <1>3

\* A start that keeps the day in order comes after every signing, and is open.
LEMMA OneStartMore ==
  ASSUME NEW D, NEW day \in [D -> Points], Alternates(day), NEW s, s \notin D,
         NEW p \in Points, p.action = "start", NEW new, new = With(day, s, p), Alternates(new)
  PROVE  /\ Starts(new) = Starts(day) \cup {s}
         /\ DurationIn(new, s) = Null
         /\ \A u \in Starts(day) : DurationIn(new, u) = DurationIn(day, u)
<1> DEFINE E == D \cup {s}
<1>1. /\ new \in [E -> Points] /\ new[s] = p /\ \A u \in D : new[u] = day[u]
      /\ \A u, t \in D : Follows(new, u, t) => Follows(day, u, t)
      /\ \A u, t \in D : Follows(day, u, t) =>
           Follows(new, u, t) \/ (Precedes(day[u], p) /\ Precedes(p, day[t]))
  <2>1. new \in [E -> Points] /\ new[s] = p /\ \A u \in D : new[u] = day[u]
    BY DEF With
  <2>2. \A u, t \in D : Follows(new, u, t) => Follows(day, u, t)
    BY DayWithOneMore
  <2>3. \A u, t \in D : Follows(day, u, t) =>
          Follows(new, u, t) \/ (Precedes(day[u], p) /\ Precedes(p, day[t]))
    BY DayWithOneMore
  <2> QED BY <2>1, <2>2, <2>3
<1>2. Starts(new) = Starts(day) \cup {s}
  BY <1>1 DEF Starts
<1>3. \A t \in D : ~Follows(new, s, t)
  <2> SUFFICES ASSUME NEW t \in D, Follows(new, s, t) PROVE FALSE
    OBVIOUS
  <2>1. new[t].action = "end" /\ new[t] = day[t] /\ s \in Starts(new) /\ t \in E
    BY <1>1, <1>2, ClosedStart
  <2>2. PICK u \in D : Follows(day, u, t)
    BY <1>1, <2>1 DEF Alternates
  <2>3. day[u].action = "start"
    BY <2>1, <2>2 DEF Alternates, Points
  <2>4. Precedes(new[u], new[s])
    <3>1. ~Follows(new, u, t)
      BY <1>1, <2>1, <2>2, FollowsIsOneToOne DEF Alternates
    <3> QED BY <1>1, <2>2, <3>1
  <2>5. \A x \in E : ~(Precedes(new[u], new[x]) /\ Precedes(new[x], new[s]))
    <3> SUFFICES ASSUME NEW x \in E, Precedes(new[u], new[x]), Precedes(new[x], new[s])
                 PROVE  FALSE
      OBVIOUS
    <3>1. x \in D
      BY <1>1, OrderOfPoints
    <3>2. Precedes(new[x], new[t])
      BY <1>1, OrderOfPoints DEF Follows
    <3> QED BY <1>1, <2>2, <3>1, <3>2 DEF Follows
  <2>6. Follows(new, u, s)
    BY <1>1, <2>4, <2>5 DEF Follows
  <2> QED BY <1>1, <2>3, <2>6 DEF Alternates
<1>4. \A t \in D : ~Precedes(p, day[t])
  <2> SUFFICES ASSUME NEW t \in D, Precedes(p, day[t]) PROVE FALSE
    OBVIOUS
  <2>1. PICK x \in E : Follows(new, s, x)
    BY <1>1, SomethingFollows
  <2>2. x # s
    BY <1>1, <2>1, OrderOfPoints DEF Follows
  <2> QED BY <1>3, <2>1, <2>2
<1>5. DurationIn(new, s) = Null
  <2>1. EndsOf(new, s) = {}
    BY <1>1, <1>4, OrderOfPoints DEF EndsOf, Follows
  <2> QED BY <2>1 DEF DurationIn
<1>6. ASSUME NEW u \in Starts(day) PROVE DurationIn(new, u) = DurationIn(day, u)
  <2>1. u \in D
    BY DEF Starts
  <2>2. \A t \in D : Follows(day, u, t) => Follows(new, u, t)
    BY <1>1, <1>4, <2>1
  <2>3. \A t \in EndsOf(new, u) : t \in D
    BY <1>1 DEF EndsOf
  <2> HIDE DEF E
  <2> QED BY <1>1, <2>2, <2>3, SameDuration DEF E
<1> QED BY <1>2, <1>5, <1>6

\* An end that keeps the day in order comes after every signing; it closes one
\* start, open until then, and changes no other duration.
LEMMA OneEndMore ==
  ASSUME NEW D, NEW day \in [D -> Points], Alternates(day), NEW e, e \notin D,
         NEW p \in Points, p.action = "end", NEW new, new = With(day, e, p), Alternates(new)
  PROVE  /\ Starts(new) = Starts(day)
         /\ \A u \in D : ~Precedes(p, day[u])
         /\ \A u \in Starts(day) :
              DurationIn(day, u) = IF e \in EndsOf(new, u) THEN Null ELSE DurationIn(new, u)
<1> DEFINE E == D \cup {e}
<1>1. /\ new \in [E -> Points] /\ new[e] = p /\ \A u \in D : new[u] = day[u]
      /\ \A u, t \in D : Follows(new, u, t) => Follows(day, u, t)
      /\ \A u, t \in D : Follows(day, u, t) =>
           Follows(new, u, t) \/ (Precedes(day[u], p) /\ Precedes(p, day[t]))
  <2>1. new \in [E -> Points] /\ new[e] = p /\ \A u \in D : new[u] = day[u]
    BY DEF With
  <2>2. \A u, t \in D : Follows(new, u, t) => Follows(day, u, t)
    BY DayWithOneMore
  <2>3. \A u, t \in D : Follows(day, u, t) =>
          Follows(new, u, t) \/ (Precedes(day[u], p) /\ Precedes(p, day[t]))
    BY DayWithOneMore
  <2> QED BY <2>1, <2>2, <2>3
<1>2. Starts(new) = Starts(day)
  BY <1>1 DEF Starts
<1>3. PICK s \in E : Follows(new, s, e)
  BY <1>1 DEF Alternates
<1>4. s \in D /\ s # e /\ day[s].action = "start" /\ Precedes(day[s], p)
  <2>1. s # e
    BY <1>1, <1>3, OrderOfPoints DEF Follows
  <2>2. new[s].action = "start"
    BY <1>1, <1>3 DEF Alternates, Points
  <2> QED BY <1>1, <1>3, <2>1, <2>2 DEF Follows
<1>5. \A u \in D : ~Precedes(p, day[u])
  <2> SUFFICES ASSUME NEW u \in D, Precedes(p, day[u]) PROVE FALSE
    OBVIOUS
  <2>1. PICK v \in E : Follows(new, e, v)
    BY <1>1, SomethingFollows
  <2>2. v # e /\ v \in D
    BY <1>1, <2>1, OrderOfPoints DEF Follows
  <2>3. day[v].action = "start"
    BY <1>1, <2>1, <2>2 DEF Alternates, Points
  <2>4. Precedes(day[s], day[v])
    BY <1>1, <1>4, <2>1, <2>2, OrderOfPoints DEF Follows
  <2>5. ASSUME NEW x \in D, Precedes(day[s], day[x]), Precedes(day[x], day[v]) PROVE FALSE
    <3>1. ~Precedes(new[x], new[e])
      BY <1>1, <1>3, <2>5 DEF Follows
    <3>2. ~Precedes(new[e], new[x])
      BY <1>1, <2>1, <2>5 DEF Follows
    <3>3. new[x] # new[e]
      BY <1>1 DEF Alternates
    <3> QED BY <1>1, <3>1, <3>2, <3>3, OrderOfPoints
  <2>6. Follows(day, s, v)
    BY <1>4, <2>2, <2>4, <2>5 DEF Follows
  <2> QED BY <1>4, <2>2, <2>3, <2>6 DEF Alternates
<1>6. ASSUME NEW u \in Starts(day), e \in EndsOf(new, u) PROVE DurationIn(day, u) = Null
  <2>1. u \in D
    BY DEF Starts
  <2>2. \A t \in D : ~Precedes(day[u], day[t])
    BY <1>1, <1>5, <1>6, <2>1, OrderOfPoints DEF EndsOf, Follows, Alternates
  <2>3. EndsOf(day, u) = {}
    BY <2>2 DEF EndsOf, Follows
  <2> QED BY <2>3 DEF DurationIn
<1>7. ASSUME NEW u \in Starts(day), e \notin EndsOf(new, u)
      PROVE  DurationIn(new, u) = DurationIn(day, u)
  <2>1. u \in D
    BY DEF Starts
  <2>2. \A t \in D : Follows(day, u, t) => Follows(new, u, t)
    BY <1>1, <1>5, <2>1
  <2>3. \A t \in EndsOf(new, u) : t \in D
    BY <1>1, <1>7 DEF EndsOf
  <2> HIDE DEF E
  <2> QED BY <1>1, <2>2, <2>3, SameDuration DEF E
<1> QED BY <1>2, <1>5, <1>6, <1>7

\* Of a day in order, the ends that close the starts are as many as they.
LEMMA ClosedStartsHaveEnds ==
  ASSUME NEW D, IsFiniteSet(D), NEW day \in [D -> Points], Alternates(day),
         NEW C, C \subseteq Starts(day), \A s \in C : DurationIn(day, s) # Null
  PROVE  Cardinality(C) <= Cardinality({t \in D : day[t].action = "end"})
<1> DEFINE T == {t \in D : day[t].action = "end"}
           f == [s \in C |-> CHOOSE t \in T : Follows(day, s, t)]
<1>1. \A s \in C : s \in D /\ \E t \in T : Follows(day, s, t)
  BY DEF DurationIn, EndsOf, Starts
<1>2. \A s \in C : f[s] \in T /\ Follows(day, s, f[s])
  BY <1>1
<1>3. f \in [C -> T]
  BY <1>2
<1> HIDE DEF f
<1>4. \A s, u \in C : f[s] = f[u] => s = u
  BY <1>1, <1>2, FollowsIsOneToOne DEF Alternates
<1>5. f \in Injection(C, T)
  BY <1>3, <1>4 DEF Injection, IsInjective
<1>6. IsFiniteSet(T)
  BY FS_Subset
<1> QED BY <1>5, <1>6, FS_Injection

-----------------------------------------------------------------------------
(* What requests know while others leave them alone.                        *)

\* An edit in flight is alone unless requests overlapped.
EditsAlone ==
  "overlap" \notin mishaps =>
    \A v, w \in Workers : v # w /\ Editing(v) => job[w] = Idle

OneAtATime ==
  mishaps = {} => \A v, w \in Workers : v # w => job[v] = Idle \/ job[w] = Idle

\* Requests that leave each other alone entangle no signing.
NothingEntangled == "overlap" \notin mishaps => entangled = {}

\* What was done to the day shows in the habits of the clients.
HabitsTell ==
  /\ \A w \in Workers : job[w].stage \in {"save", "write", "log"} => "typed" \in habits
  /\ \A w \in Workers : job[w].stage = "cancel" => "cancelled" \in habits
  /\ \A w \in Workers : Holding(w) /\ job[w].status = "cancelled" => "cancelled" \in habits
  /\ cancelled # {} => "cancelled" \in habits

\* The day a correction checked is the day it moves the signing in.
MovesKnow ==
  "overlap" \notin mishaps => \A w \in Workers :
    /\ job[w].stage \in {"sequence", "move"} => job[w].signing \in Active
    /\ job[w].stage = "move" =>
         LET day == With(Today, job[w].signing, job[w].point) IN
           Alternates(day) /\ job[w].plan = DurationsOf(day)

FlightInv ==
  /\ ClockInv /\ IsFiniteSet(made) /\ EditsAlone /\ OneAtATime /\ NothingEntangled
  /\ HabitsTell /\ MovesKnow

LEMMA TodayIsADay ==
  ASSUME ClockTypeOK
  PROVE  /\ Active \subseteq made /\ made \subseteq Signings /\ Today \in [Active -> Points]
         /\ \A s \in Active : Today[s] = at[s]
BY DEF ClockTypeOK, Active, Today

LEMMA RequestStaysAlone ==
  ASSUME FlightInv, NEW w \in Workers, Busy(w), NEW j \in Jobs, Goes(w, j),
         mishaps \subseteq mishaps', j.stage \in EditStages => Editing(w)
  PROVE  EditsAlone' /\ OneAtATime'
<1>1. job'[w] = j /\ \A v \in Workers \ {w} : job'[v] = job[v]
  BY OthersKeepTheirJob DEF FlightInv, ClockInv
<1>2. EditsAlone'
  BY <1>1 DEF FlightInv, EditsAlone, Editing, Busy
<1>3. OneAtATime'
  BY <1>1 DEF FlightInv, OneAtATime, Busy
<1> QED BY <1>2, <1>3

LEMMA RequestBeginsAlone ==
  ASSUME FlightInv, NEW w \in Workers, NEW j \in Jobs, Begins(w, j)
  PROVE  /\ EditsAlone' /\ OneAtATime' /\ mishaps \subseteq mishaps'
         /\ mishaps' = {} => Quiet
<1>1. job'[w] = j /\ (\A v \in Workers \ {w} : job'[v] = job[v]) /\ job[w] = Idle
  BY OthersKeepTheirJob DEF FlightInv, ClockInv, Begins, Goes, Busy
<1>2. Idle.stage \notin EditStages
  BY DEF Idle, EditStages
<1>3. mishaps \subseteq mishaps' /\ (mishaps' = {} => Quiet)
  BY DEF Begins
<1>4. ASSUME "overlap" \notin mishaps'
      PROVE  /\ \A v \in Workers : job[v].stage \notin EditStages
             /\ j.stage \in EditStages => Quiet
  <2>1. Quiet \/ \A v \in Workers : {job[v].stage, j.stage} \cap EditStages = {}
    BY <1>4 DEF Begins
  <2> QED BY <1>2, <2>1 DEF Quiet, Busy, Editing
<1>5. EditsAlone'
  BY <1>1, <1>4 DEF EditsAlone, Editing, Quiet, Busy
<1>6. OneAtATime'
  BY <1>1, <1>3 DEF OneAtATime, Quiet, Busy
<1> QED BY <1>3, <1>4, <1>5, <1>6

LEMMA EditsHaveEnded ==
  ASSUME FlightInv, NEW w \in Workers, NEW j \in Jobs, Begins(w, j), "overlap" \notin mishaps'
  PROVE  \A v \in Workers : job[v].stage \notin EditStages
<1>1. Quiet \/ \A v \in Workers : {job[v].stage, j.stage} \cap EditStages = {}
  BY DEF Begins
<1>2. Idle.stage \notin EditStages
  BY DEF Idle, EditStages
<1> QED BY <1>1, <1>2 DEF Quiet, Busy

LEMMA MovesStayGone ==
  ASSUME FlightInv, NEW w \in Workers, NEW j \in Jobs, Goes(w, j),
         j.stage \notin {"sequence", "move"},
         "overlap" \notin mishaps' => \A v \in Workers \ {w} : ~Editing(v)
  PROVE  MovesKnow'
<1>1. job'[w] = j /\ \A v \in Workers \ {w} : job'[v] = job[v]
  BY OthersKeepTheirJob DEF FlightInv, ClockInv
<1>2. "overlap" \notin mishaps' =>
        \A v \in Workers : job'[v].stage \notin {"sequence", "move"}
  BY <1>1 DEF Editing, EditStages
<1> QED BY <1>2 DEF MovesKnow

\* A request that is in flight sees no edit but its own.
LEMMA NoOtherEdit ==
  ASSUME FlightInv, NEW w \in Workers, Busy(w), "overlap" \notin mishaps
  PROVE  \A v \in Workers \ {w} : ~Editing(v)
BY DEF FlightInv, EditsAlone, Busy

\* A worker that saves the row it loaded changes nothing but the duration.
LEMMA HolderLeavesTheDay ==
  ASSUME FlightInv, NEW w \in Workers, Holding(w), job[w].duration \in Durations,
         SaveRow(job[w].signing, job[w].row, job[w].status, job[w].duration),
         "overlap" \notin mishaps
  PROVE  /\ at' = at /\ cancelled' = cancelled
         /\ duration' = [duration EXCEPT ![job[w].signing] = job[w].duration]
<1>1. ClockTypeOK /\ EditInv /\ entangled = {}
  BY DEF FlightInv, ClockInv, NothingEntangled
<1> PICK s : s = job[w].signing
  OBVIOUS
<1>2. s \in made /\ s \in Signings /\ job[w].row = at[s] /\ job[w].status = Status(s)
  BY <1>1 DEF EditInv, Holding, Choosing, ClockTypeOK
<1>3. at' = [at EXCEPT ![s] = at[s]]
  BY <1>2 DEF SaveRow
<1>4. at' = at
  BY <1>1, <1>2, <1>3 DEF ClockTypeOK
<1>5. cancelled' = cancelled
  BY <1>2 DEF SaveRow, Status
<1> QED BY <1>4, <1>5 DEF SaveRow

\* What it saves of a cancellation, the habits told when it loaded it.
LEMMA HolderTells ==
  ASSUME FlightInv, NEW w \in Workers, Holding(w),
         SaveRow(job[w].signing, job[w].row, job[w].status, job[w].duration), cancelled' # {}
  PROVE  "cancelled" \in habits
<1>1. CASE job[w].status = "cancelled"
  BY <1>1 DEF FlightInv, HabitsTell
<1>2. CASE job[w].status # "cancelled"
  <2>1. cancelled # {}
    BY <1>2 DEF SaveRow
  <2> QED BY <2>1 DEF FlightInv, HabitsTell
<1> QED BY <1>1, <1>2

LEMMA CreateInFlight ==
  ASSUME FlightInv, NEW w \in Workers, NEW s \in Signings, NEW p \in Points, NEW d \in Durations,
         Create(w, s, p, d)
  PROVE  FlightInv'
<1> DEFINE j == IF p.action = "end" THEN [stage |-> "find", moment |-> p.moment] ELSE Idle
<1>1. j \in Jobs /\ j.stage \notin EditStages
  BY DEF Jobs, Closings, Points, Idle, EditStages
<1>2. Begins(w, j)
  BY DEF Create
<1> HIDE DEF j
<1>3. Goes(w, j) /\ job'[w] = j /\ \A v \in Workers \ {w} : job'[v] = job[v]
  BY <1>1, <1>2, OthersKeepTheirJob DEF FlightInv, ClockInv, Begins, Goes
<1>4. EditsAlone' /\ OneAtATime' /\ ("overlap" \notin mishaps' => \A v \in Workers : job[v].stage \notin EditStages)
  <2>1. EditsAlone'
    BY <1>1, <1>2, RequestBeginsAlone
  <2>2. OneAtATime'
    BY <1>1, <1>2, RequestBeginsAlone
  <2>3. "overlap" \notin mishaps' => \A v \in Workers : job[v].stage \notin EditStages
    BY <1>1, <1>2, EditsHaveEnded
  <2> QED BY <2>1, <2>2, <2>3
<1>5. habits \subseteq habits' /\ cancelled' = cancelled
  BY DEF Create
<1>6. HabitsTell'
  <2>1. j.stage \notin {"assign", "write"}
    BY DEF j, Idle
  <2> QED BY <1>1, <1>3, <1>5, <2>1 DEF FlightInv, HabitsTell, Holding, EditStages
<1>7. MovesKnow'
  <2>1. "overlap" \notin mishaps' => \A v \in Workers \ {w} : ~Editing(v)
    BY <1>4 DEF Editing
  <2> QED BY <1>1, <1>3, <2>1, MovesStayGone DEF EditStages
<1>8. IsFiniteSet(made')
  BY FS_AddElement DEF Create, FlightInv
<1>9. ClockInv'
  BY CreatePreserves DEF FlightInv
<1>10. NothingEntangled'
  BY DEF FlightInv, NothingEntangled, Create, Begins
<1> QED BY <1>4, <1>6, <1>7, <1>8, <1>9, <1>10 DEF FlightInv

\* The steps that edit nothing.
LEMMA StepInFlight ==
  ASSUME FlightInv, ClockInv', NEW w \in Workers, Busy(w), NEW j \in Jobs, Goes(w, j),
         made' = made, habits' = habits, mishaps \subseteq mishaps',
         "overlap" \notin mishaps' => entangled' = {},
         cancelled' # {} => "cancelled" \in habits,
         j.stage \in EditStages => Editing(w),
         j.stage \in {"save", "write", "log"} => job[w].stage \in {"save", "write", "log"},
         j.stage \in {"assign", "write"} /\ j.status = "cancelled" => "cancelled" \in habits,
         j.stage \notin {"cancel", "sequence", "move"}
  PROVE  FlightInv'
<1>1. job'[w] = j /\ \A v \in Workers \ {w} : job'[v] = job[v]
  BY OthersKeepTheirJob DEF FlightInv, ClockInv
<1>2. EditsAlone' /\ OneAtATime'
  BY RequestStaysAlone
<1>3. HabitsTell'
  BY <1>1 DEF FlightInv, HabitsTell, Holding
<1>4. MovesKnow'
  BY NoOtherEdit, MovesStayGone
<1> QED BY <1>2, <1>3, <1>4 DEF FlightInv, NothingEntangled

\* A step that leaves the entangled and the cancelled signings as they are.
LEMMA NothingNewToTell ==
  ASSUME FlightInv, mishaps \subseteq mishaps', UNCHANGED <<entangled, cancelled>>
  PROVE  /\ "overlap" \notin mishaps' => entangled' = {}
         /\ cancelled' # {} => "cancelled" \in habits
BY DEF FlightInv, NothingEntangled, HabitsTell

LEMMA FindOpenStartInFlight ==
  ASSUME FlightInv, NEW w \in Workers, FindOpenStart(w)
  PROVE  FlightInv'
<1>1. ClockInv' /\ job' \in [Workers -> Jobs]
  BY FindOpenStartPreserves DEF FlightInv, ClockInv, ClockTypeOK, Jobs
<1>2. PICK j : Goes(w, j) /\ j.stage \in {"idle", "load"}
  <2>1. CASE Goes(w, Idle)
    BY <2>1 DEF Idle
  <2>2. CASE \E s \in LatestOpenStarts(job[w].moment) :
               Goes(w, [stage |-> "load", signing |-> s, duration |-> job[w].moment - at[s].moment])
    BY <2>2
  <2> QED BY <2>1, <2>2 DEF FindOpenStart
<1>3. j \in Jobs
  BY <1>1, <1>2 DEF Goes, FlightInv, ClockInv, ClockTypeOK
<1>4. Busy(w) /\ made' = made /\ cancelled' = cancelled /\ entangled' = entangled
      /\ habits' = habits /\ mishaps' = mishaps
  BY DEF FindOpenStart, Busy, Idle, clockVars, ghostVars
<1>5. ("overlap" \notin mishaps' => entangled' = {}) /\ (cancelled' # {} => "cancelled" \in habits)
  BY <1>4, NothingNewToTell
<1> QED BY <1>1, <1>2, <1>3, <1>4, <1>5, StepInFlight DEF EditStages

LEMMA LoadStartInFlight ==
  ASSUME FlightInv, NEW w \in Workers, LoadStart(w)
  PROVE  FlightInv'
<1>1. ClockInv' /\ job' \in [Workers -> Jobs]
  BY LoadStartPreserves DEF FlightInv, ClockInv, ClockTypeOK, Jobs
<1>2. PICK j : Goes(w, j) /\ j.stage = "assign" /\ j.status = Status(job[w].signing)
  BY DEF LoadStart
<1>3. j \in Jobs
  BY <1>1, <1>2 DEF Goes, FlightInv, ClockInv, ClockTypeOK
<1>4. Busy(w) /\ ~Editing(w) /\ made' = made /\ cancelled' = cancelled /\ habits' = habits
      /\ mishaps' = mishaps
  BY DEF LoadStart, Busy, Idle, clockVars, Editing, EditStages
<1>5. "overlap" \notin mishaps' => entangled' = {}
  <2> SUFFICES ASSUME "overlap" \notin mishaps PROVE entangled' = {}
    BY <1>4
  <2>1. ~Edited(job[w].signing)
    BY <1>4, NoOtherEdit DEF Edited, Editing
  <2> QED BY <2>1 DEF LoadStart, FlightInv, NothingEntangled
<1>6. (cancelled' # {} => "cancelled" \in habits)
      /\ (j.status = "cancelled" => "cancelled" \in habits)
  BY <1>2, <1>4 DEF FlightInv, HabitsTell, Status
<1> QED BY <1>1, <1>2, <1>3, <1>4, <1>5, <1>6, StepInFlight DEF EditStages

LEMMA AssignHolds ==
  ASSUME ClockTypeOK, NEW w \in Workers, AssignDuration(w)
  PROVE  Holding(w) /\ job[w].duration \in Durations
<1>1. job[w] \in Jobs /\ job[w].stage = "assign"
  BY DEF AssignDuration, ClockTypeOK, Jobs
<1> QED BY <1>1, EditsAreRecognized DEF Holding, Durations

LEMMA EndsInFlight ==
  ASSUME FlightInv, ClockInv', NEW w \in Workers, Busy(w), Goes(w, Idle),
         made' = made, entangled' = entangled, habits' = habits, mishaps \subseteq mishaps',
         cancelled' # {} => "cancelled" \in habits
  PROVE  FlightInv'
<1>1. Idle \in Jobs /\ Idle.stage = "idle"
  BY DEF Jobs, Idle
<1>2. "overlap" \notin mishaps' => entangled' = {}
  BY DEF FlightInv, NothingEntangled
<1> QED BY <1>1, <1>2, StepInFlight DEF EditStages

LEMMA EndingStepsInFlight ==
  ASSUME FlightInv, NEW w \in Workers, AssignDuration(w) \/ ApplyMove(w) \/ LogChange(w)
  PROVE  FlightInv'
<1>1. ClockInv'
  BY AssignDurationPreserves, ApplyMovePreserves, LogChangePreserves DEF FlightInv
<1>2. Busy(w) /\ Goes(w, Idle) /\ made' = made /\ entangled' = entangled /\ habits' = habits
      /\ mishaps' = mishaps
  BY DEF AssignDuration, ApplyMove, LogChange, Busy, Idle, clockVars, ghostVars
<1>3. cancelled' # {} => "cancelled" \in habits
  <2>1. CASE AssignDuration(w)
    BY <2>1, HolderTells DEF AssignDuration, Holding
  <2>2. CASE ApplyMove(w) \/ LogChange(w)
    BY <2>2 DEF ApplyMove, LogChange, clockVars, FlightInv, HabitsTell
  <2> QED BY <2>1, <2>2
<1> QED BY <1>1, <1>2, <1>3, EndsInFlight

LEMMA CancelInFlight ==
  ASSUME FlightInv, NEW w \in Workers, Cancel(w)
  PROVE  FlightInv'
<1>1. ClockInv'
  BY CancelPreserves DEF FlightInv
<1>2. Busy(w) /\ Goes(w, Idle) /\ made' = made /\ habits' = habits /\ mishaps' = mishaps
      /\ job[w].stage = "cancel"
  BY DEF Cancel, Busy, Idle, ghostVars
<1>3. Idle \in Jobs /\ Idle.stage \notin EditStages
  BY DEF Jobs, Idle, EditStages
<1>4. job'[w] = Idle /\ \A v \in Workers \ {w} : job'[v] = job[v]
  BY <1>2, <1>3, OthersKeepTheirJob DEF FlightInv, ClockInv
<1>5. "cancelled" \in habits
  BY <1>2 DEF FlightInv, HabitsTell
<1>6. "overlap" \notin mishaps' => entangled' = {}
  BY DEF Cancel, ghostVars, FlightInv, NothingEntangled
<1> QED BY <1>1, <1>2, <1>3, <1>5, <1>6, EndsInFlight DEF Cancel, ghostVars

LEMMA LoadSavedInFlight ==
  ASSUME FlightInv, NEW w \in Workers, LoadSaved(w)
  PROVE  FlightInv'
<1>1. ClockInv' /\ job' \in [Workers -> Jobs]
  BY LoadSavedPreserves DEF FlightInv, ClockInv, ClockTypeOK, Jobs
<1>2. PICK j : Goes(w, j) /\ j.stage = "write" /\ j.status = Status(job[w].signing)
  BY DEF LoadSaved
<1>3. j \in Jobs
  BY <1>1, <1>2 DEF Goes, FlightInv, ClockInv, ClockTypeOK
<1>4. Busy(w) /\ Editing(w) /\ job[w].stage = "save" /\ made' = made /\ cancelled' = cancelled
      /\ entangled' = entangled /\ habits' = habits /\ mishaps' = mishaps
  BY DEF LoadSaved, Busy, Idle, clockVars, ghostVars, Editing, EditStages
<1>5. ("overlap" \notin mishaps' => entangled' = {}) /\ (cancelled' # {} => "cancelled" \in habits)
  BY <1>4, NothingNewToTell
<1>6. j.status = "cancelled" => "cancelled" \in habits
  BY <1>2 DEF FlightInv, HabitsTell, Status
<1> QED BY <1>1, <1>2, <1>3, <1>4, <1>5, <1>6, StepInFlight

LEMMA SaveDurationInFlight ==
  ASSUME FlightInv, NEW w \in Workers, SaveDuration(w)
  PROVE  FlightInv'
<1>1. ClockInv' /\ job' \in [Workers -> Jobs]
  BY SaveDurationPreserves DEF FlightInv, ClockInv, ClockTypeOK, Jobs
<1>2. PICK j : Goes(w, j) /\ j.stage = "log"
  BY DEF SaveDuration
<1>3. j \in Jobs
  BY <1>1, <1>2 DEF Goes, FlightInv, ClockInv, ClockTypeOK
<1>4. Busy(w) /\ Editing(w) /\ Holding(w) /\ job[w].stage = "write" /\ made' = made
      /\ entangled' = entangled /\ habits' = habits /\ mishaps' = mishaps
  BY DEF SaveDuration, Busy, Idle, ghostVars, Editing, Holding, EditStages
<1>5. cancelled' # {} => "cancelled" \in habits
  BY <1>4, HolderTells DEF SaveDuration
<1>6. "overlap" \notin mishaps' => entangled' = {}
  BY <1>4 DEF FlightInv, NothingEntangled
<1> QED BY <1>1, <1>2, <1>3, <1>4, <1>5, <1>6, StepInFlight

LEMMA CrashInFlight ==
  ASSUME FlightInv, NEW w \in Workers, Crash(w)
  PROVE  FlightInv'
<1>1. ClockInv'
  BY CrashPreserves DEF FlightInv
<1>2. Busy(w) /\ Goes(w, Idle) /\ made' = made /\ cancelled' = cancelled /\ habits' = habits
      /\ entangled' = entangled /\ mishaps \subseteq mishaps'
  BY DEF Crash, clockVars
<1>3. cancelled' # {} => "cancelled" \in habits
  BY <1>2 DEF FlightInv, HabitsTell
<1> QED BY <1>1, <1>2, <1>3, EndsInFlight

LEMMA EditBeginsInFlight ==
  ASSUME FlightInv, ClockInv', NEW w \in Workers, NEW s \in Active, NEW j \in Edits,
         Begins(w, j), j.signing = s, j.stage \in {"sequence", "save", "cancel"},
         habits \subseteq habits', j.stage = "save" => "typed" \in habits',
         j.stage = "cancel" => "cancelled" \in habits', UNCHANGED clockVars, Entangles(s)
  PROVE  FlightInv'
<1>1. j \in Jobs /\ j.stage \in EditStages
  BY DEF Jobs, EditStages
<1>2. Goes(w, j) /\ job'[w] = j /\ \A v \in Workers \ {w} : job'[v] = job[v]
  BY <1>1, OthersKeepTheirJob DEF FlightInv, ClockInv, Begins, Goes
<1>3. EditsAlone' /\ OneAtATime' /\ ("overlap" \notin mishaps' => \A v \in Workers : job[v].stage \notin EditStages)
  <2>1. EditsAlone'
    BY <1>1, RequestBeginsAlone
  <2>2. OneAtATime'
    BY <1>1, RequestBeginsAlone
  <2>3. "overlap" \notin mishaps' => \A v \in Workers : job[v].stage \notin EditStages
    BY <1>1, EditsHaveEnded
  <2> QED BY <2>1, <2>2, <2>3
<1>4. made' = made /\ cancelled' = cancelled /\ at' = at
  BY DEF clockVars
<1>5. HabitsTell'
  BY <1>2, <1>4 DEF FlightInv, HabitsTell, Holding
<1>7. NothingEntangled'
  <2> SUFFICES ASSUME "overlap" \notin mishaps' PROVE entangled' = {}
    BY DEF NothingEntangled
  <2>1. Quiet /\ mishaps \subseteq mishaps'
    BY <1>1 DEF Begins
  <2>2. ~Edited(s) /\ ~Held(s)
    BY <2>1 DEF Quiet, Busy, Edited, Held, EditStages, Idle
  <2> QED BY <2>1, <2>2 DEF Entangles, FlightInv, NothingEntangled
<1>6. MovesKnow'
  <2> SUFFICES ASSUME "overlap" \notin mishaps', NEW v \in Workers
               PROVE  /\ job'[v].stage \in {"sequence", "move"} => job'[v].signing \in Active
                      /\ job'[v].stage # "move"
    BY <1>4 DEF MovesKnow, Active
  <2>1. v # w => job'[v].stage \notin {"sequence", "move"}
    BY <1>2, <1>3 DEF Editing, EditStages
  <2> QED BY <1>2, <2>1
<1> QED BY <1>3, <1>4, <1>5, <1>6, <1>7 DEF FlightInv

LEMMA BeginMoveInFlight ==
  ASSUME FlightInv, NEW w \in Workers, NEW s \in Signings, NEW p \in Points, BeginMove(w, s, p)
  PROVE  FlightInv'
<1> DEFINE j == [stage |-> "sequence", signing |-> s, was |-> at[s], point |-> p]
<1>1. ClockInv' /\ ClockTypeOK /\ s \in Active
  BY BeginMovePreserves DEF FlightInv, ClockInv, BeginMove
<1>2. j \in Edits /\ j.signing = s /\ j.stage = "sequence"
  BY <1>1 DEF ClockTypeOK, Edits
<1>3. Begins(w, j) /\ habits' = habits /\ UNCHANGED clockVars /\ Entangles(s)
  BY DEF BeginMove
<1> HIDE DEF j
<1> QED BY <1>1, <1>2, <1>3, EditBeginsInFlight

LEMMA BeginSaveInFlight ==
  ASSUME FlightInv, NEW w \in Workers, NEW s \in Signings, NEW d \in Durations, BeginSave(w, s, d)
  PROVE  FlightInv'
<1> DEFINE j == [stage |-> "save", signing |-> s, was |-> at[s], duration |-> d]
<1>1. ClockInv' /\ ClockTypeOK /\ s \in Active
  BY BeginSavePreserves DEF FlightInv, ClockInv, BeginSave
<1>2. j \in Edits /\ j.signing = s /\ j.stage = "save"
  BY <1>1 DEF ClockTypeOK, Edits
<1>3. Begins(w, j) /\ habits' = habits \cup {"typed"} /\ UNCHANGED clockVars /\ Entangles(s)
  BY DEF BeginSave
<1> HIDE DEF j
<1> QED BY <1>1, <1>2, <1>3, EditBeginsInFlight

LEMMA BeginCancelInFlight ==
  ASSUME FlightInv, NEW w \in Workers, NEW s \in Signings, BeginCancel(w, s)
  PROVE  FlightInv'
<1> DEFINE j == [stage |-> "cancel", signing |-> s, was |-> at[s], duration |-> duration[s]]
<1>1. ClockInv' /\ ClockTypeOK /\ s \in Active
  BY BeginCancelPreserves DEF FlightInv, ClockInv, BeginCancel
<1>2. j \in Edits /\ j.signing = s /\ j.stage = "cancel"
  BY <1>1 DEF ClockTypeOK, Edits
<1>3. Begins(w, j) /\ habits' = habits \cup {"cancelled"} /\ UNCHANGED clockVars /\ Entangles(s)
  BY DEF BeginCancel
<1> HIDE DEF j
<1> QED BY <1>1, <1>2, <1>3, EditBeginsInFlight

LEMMA CheckSequenceInFlight ==
  ASSUME FlightInv, NEW w \in Workers, CheckSequence(w)
  PROVE  FlightInv'
<1> PICK s, p, day : s = job[w].signing /\ p = job[w].point /\ day = With(Today, s, p)
  OBVIOUS
<1>1. ClockInv' /\ job' \in [Workers -> Jobs]
  BY CheckSequencePreserves DEF FlightInv, ClockInv, ClockTypeOK, Jobs
<1>2. PICK j : /\ Goes(w, j)
               /\ \/ j = Idle
                  \/ /\ j.stage = "move" /\ j.signing = s /\ j.point = p
                     /\ j.plan = DurationsOf(day) /\ Alternates(day)
  BY DEF CheckSequence
<1>3. j \in Jobs
  BY <1>1, <1>2 DEF Goes, FlightInv, ClockInv, ClockTypeOK
<1>4. Busy(w) /\ Editing(w) /\ job[w].stage = "sequence"
      /\ made' = made /\ cancelled' = cancelled /\ at' = at /\ habits' = habits /\ mishaps' = mishaps
  BY DEF CheckSequence, Busy, Idle, clockVars, ghostVars, Editing, EditStages
<1>5. job'[w] = j /\ \A v \in Workers \ {w} : job'[v] = job[v]
  BY <1>2, <1>3, OthersKeepTheirJob DEF FlightInv, ClockInv
<1>6. EditsAlone' /\ OneAtATime'
  BY <1>2, <1>3, <1>4, RequestStaysAlone
<1>7. HabitsTell'
  BY <1>2, <1>4, <1>5 DEF FlightInv, HabitsTell, Holding, Idle
<1>9. NothingEntangled'
  BY DEF CheckSequence, ghostVars, FlightInv, NothingEntangled
<1>8. MovesKnow'
  <2> SUFFICES ASSUME "overlap" \notin mishaps, NEW v \in Workers
               PROVE  /\ job'[v].stage \in {"sequence", "move"} => job'[v].signing \in Active
                      /\ job'[v].stage = "move" =>
                           /\ Alternates(With(Today, job'[v].signing, job'[v].point))
                           /\ job'[v].plan = DurationsOf(With(Today, job'[v].signing, job'[v].point))
    BY <1>4 DEF MovesKnow, Active, Today
  <2>1. v # w => job'[v].stage \notin {"sequence", "move"}
    BY <1>4, <1>5, NoOtherEdit DEF Editing, EditStages
  <2>2. s \in Active
    BY <1>4 DEF FlightInv, MovesKnow
  <2>3. job'[w].stage \in {"sequence", "move"} => job'[w].signing = s
    BY <1>2, <1>5 DEF Idle
  <2>4. job'[w].stage = "move" => /\ job'[w].signing = s /\ job'[w].point = p
                                  /\ job'[w].plan = DurationsOf(day) /\ Alternates(day)
    BY <1>2, <1>5 DEF Idle
  <2> QED BY <2>1, <2>2, <2>3, <2>4
<1> QED BY <1>1, <1>4, <1>6, <1>7, <1>8, <1>9 DEF FlightInv

LEMMA FlightInvInductive == Spec => []FlightInv
<1>1. Init => FlightInv
  <2> SUFFICES ASSUME Init PROVE FlightInv
    OBVIOUS
  <2>1. ClockInv /\ IsFiniteSet(made)
    BY InitEstablishes, FS_EmptySet DEF Init
  <2>2. \A w \in Workers : job[w] = Idle
    BY DEF Init
  <2>3. EditsAlone /\ OneAtATime /\ NothingEntangled
    BY <2>2 DEF EditsAlone, OneAtATime, NothingEntangled, Init
  <2>4. HabitsTell
    BY <2>2 DEF HabitsTell, Holding, Idle, Init
  <2>5. MovesKnow
    BY <2>2 DEF MovesKnow, Idle
  <2> QED BY <2>1, <2>3, <2>4, <2>5 DEF FlightInv
<1>2. FlightInv /\ [Next]_vars => FlightInv'
  <2> SUFFICES ASSUME FlightInv, [Next]_vars
               PROVE  FlightInv'
    OBVIOUS
  <2>0. Typed \cup {Null} \subseteq Durations
    BY ClockAssumption DEF Durations, Times
  <2>1. ASSUME NEW w \in Workers, NEW s \in Signings, NEW p \in Points, NEW d \in Typed \cup {Null},
               Create(w, s, p, d)
        PROVE  FlightInv'
    BY <2>0, <2>1, CreateInFlight
  <2>2. ASSUME NEW w \in Workers, NEW s \in Signings,
               \/ \E p \in Points : BeginMove(w, s, p)
               \/ \E d \in Typed \cup {Null} : BeginSave(w, s, d)
               \/ BeginCancel(w, s)
        PROVE  FlightInv'
    BY <2>0, <2>2, BeginMoveInFlight, BeginSaveInFlight, BeginCancelInFlight
  <2>3. ASSUME NEW w \in Workers,
               \/ FindOpenStart(w) \/ LoadStart(w) \/ CheckSequence(w)
               \/ LoadSaved(w) \/ SaveDuration(w) \/ Cancel(w) \/ Crash(w)
        PROVE  FlightInv'
    BY <2>3, FindOpenStartInFlight, LoadStartInFlight, CheckSequenceInFlight, LoadSavedInFlight,
       SaveDurationInFlight, CancelInFlight, CrashInFlight
  <2>4. ASSUME NEW w \in Workers, AssignDuration(w) \/ ApplyMove(w) \/ LogChange(w)
        PROVE  FlightInv'
    BY <2>4, EndingStepsInFlight
  <2>5. CASE UNCHANGED vars
    <3>1. ClockInv'
      BY <2>5, StutterPreserves DEF FlightInv
    <3>2. /\ EditsAlone' /\ OneAtATime' /\ NothingEntangled' /\ HabitsTell'
          /\ IsFiniteSet(made')
      BY <2>5 DEF FlightInv, EditsAlone, Editing, OneAtATime, NothingEntangled, HabitsTell, Holding,
                  vars, clockVars, ghostVars
    <3>3. MovesKnow'
      BY <2>5 DEF FlightInv, MovesKnow, Active, Today, vars, clockVars, ghostVars
    <3> QED BY <3>1, <3>2, <3>3 DEF FlightInv
  <2> QED BY <2>1, <2>2, <2>3, <2>4, <2>5 DEF Next
<1> QED BY <1>1, <1>2, PTL DEF Spec

-----------------------------------------------------------------------------
(* A day in order whose starts last as long as they should.                 *)

Exact(s) == duration[s] = DurationIn(Today, s)

TidyDay == ClockTypeOK /\ IsFiniteSet(made) /\ Alternates(Today) /\ \A s \in Starts(Today) : Exact(s)

LEMMA TidyDaysAreRight == TidyDay => DayIsOrdered /\ DurationsAreExact
<1> SUFFICES ASSUME TidyDay PROVE DayIsOrdered /\ DurationsAreExact
  OBVIOUS
<1> PICK D, day : D = Active /\ day = Today
  OBVIOUS
<1>1. /\ D \subseteq made /\ IsFiniteSet(D) /\ day \in [D -> Points] /\ Alternates(day)
      /\ \A s \in D : day[s] = at[s]
  BY TodayIsADay, FS_Subset DEF TidyDay
<1>2. DayIsOrdered
  <2> SUFFICES ASSUME NEW t \in D
               PROVE  Cardinality(UpTo(t, "start")) - Cardinality(UpTo(t, "end")) =
                        (IF at[t].action = "start" THEN 1 ELSE 0)
    BY DEF DayIsOrdered
  <2>1. Level(day, t)
    BY <1>1, OrderedDayIsLevel
  <2>2. UpToIn(day, t, "start") = UpTo(t, "start") /\ UpToIn(day, t, "end") = UpTo(t, "end")
    BY <1>1 DEF UpToIn, UpTo
  <2> QED BY <1>1, <2>1, <2>2 DEF Level
<1>3. DurationsAreExact
  <2> SUFFICES ASSUME NEW s \in D, at[s].action = "start", NEW ends,
                      ends = {at[t].moment : t \in {t \in D : at[t].action = "end" /\ at[t].moment >= at[s].moment}}
               PROVE  IF ends = {} THEN duration[s] = Null
                      ELSE \E m \in ends : (\A n \in ends : m <= n) /\ duration[s] = m - at[s].moment
    BY DEF DurationsAreExact
  <2>1. ends = EndsNotBefore(day, s)
    BY <1>1 DEF EndsNotBefore
  <2>2. s \in Starts(day) /\ duration[s] = DurationIn(day, s)
    BY <1>1 DEF Starts, TidyDay, Exact
  <2>3. LastsUntil(DurationIn(day, s), day[s].moment, ends)
    BY <1>1, <2>1, <2>2, DurationIsExact
  <2> QED BY <1>1, <2>2, <2>3 DEF LastsUntil
<1> QED BY <1>2, <1>3

\* The correction of a request that ran alone leaves the day its check had made.
LEMMA MovesTidy ==
  ASSUME FlightInv, FlightInv', NEW w \in Workers, ApplyMove(w), "overlap" \notin mishaps
  PROVE  TidyDay'
<1> PICK s, p, day : s = job[w].signing /\ p = job[w].point /\ day = With(Today, s, p)
  OBVIOUS
<1>1. s \in Active /\ s \in Signings /\ ClockTypeOK /\ ClockTypeOK' /\ IsFiniteSet(made')
  BY TodayIsADay DEF ApplyMove, FlightInv, MovesKnow, ClockInv
<1>2. Alternates(day) /\ job[w].plan = DurationsOf(day)
  BY DEF ApplyMove, FlightInv, MovesKnow
<1>3. Active' = Active /\ at' = [at EXCEPT ![s] = p]
      /\ duration' = [t \in Signings |-> IF t \in DOMAIN job[w].plan THEN job[w].plan[t] ELSE duration[t]]
  BY DEF ApplyMove, Active
<1>4. \A t \in Active : at'[t] = IF t = s THEN p ELSE at[t]
  BY <1>1, <1>3, TodayIsADay DEF ClockTypeOK
<1>5. Today' = day
  <2>1. Today' = [t \in Active |-> at'[t]]
    BY <1>3 DEF Today
  <2>2. day = [t \in Active |-> IF t = s THEN p ELSE at[t]]
    BY <1>1 DEF With, Today
  <2> QED BY <1>4, <2>1, <2>2
<1>6. ASSUME NEW t \in Starts(day) PROVE duration'[t] = DurationIn(day, t)
  <2>1. t \in Signings
    BY <1>1, <1>5, TodayIsADay DEF Starts, Today, With
  <2> QED BY <1>2, <1>3, <2>1 DEF DurationsOf
<1>7. Alternates(Today')
  BY <1>2, <1>5
<1>8. \A t \in Starts(Today') : duration'[t] = DurationIn(Today', t)
  BY <1>5, <1>6
<1> QED BY <1>1, <1>7, <1>8 DEF TidyDay, Exact

\* A request that moves a signing is the one that had checked the move.
LEMMA MovesAreApplied ==
  ASSUME ClockTypeOK, NEW w \in Workers, job[w].stage = "move", job'[w] = Idle, at' # at, Next
  PROVE  ApplyMove(w)
<1>1. job[w] # Idle
  BY DEF Idle
<1>2. ASSUME NEW v \in Workers, NEW s \in Signings, NEW p \in Points, NEW d \in Typed \cup {Null},
             Create(v, s, p, d)
      PROVE  FALSE
  <2>1. v # w /\ \E j : job' = [job EXCEPT ![v] = j]
    BY <1>1, <1>2 DEF Create, Begins, Busy
  <2> QED BY <1>1, <2>1 DEF ClockTypeOK
<1>3. ASSUME NEW v \in Workers, NEW s \in Signings,
             \/ \E p \in Points : BeginMove(v, s, p)
             \/ \E d \in Typed \cup {Null} : BeginSave(v, s, d)
             \/ BeginCancel(v, s)
      PROVE  FALSE
  BY <1>3 DEF BeginMove, BeginSave, BeginCancel, clockVars
<1>4. ASSUME NEW v \in Workers,
             \/ FindOpenStart(v) \/ LoadStart(v) \/ CheckSequence(v)
             \/ LoadSaved(v) \/ LogChange(v) \/ Crash(v)
      PROVE  FALSE
  BY <1>4 DEF FindOpenStart, LoadStart, CheckSequence, LoadSaved, LogChange, Crash, clockVars
<1>5. ASSUME NEW v \in Workers, AssignDuration(v) \/ Cancel(v) \/ ApplyMove(v)
      PROVE  v = w /\ ApplyMove(w)
  <2>1. job' = [job EXCEPT ![v] = Idle]
    BY <1>5 DEF AssignDuration, Cancel, ApplyMove, Goes
  <2>2. v = w
    BY <1>1, <2>1 DEF ClockTypeOK
  <2> QED BY <1>5, <2>2 DEF AssignDuration, Cancel
<1>6. ASSUME NEW v \in Workers, SaveDuration(v)
      PROVE  FALSE
  <2>1. /\ job[v].stage = "write"
        /\ job' = [job EXCEPT ![v] = [stage |-> "log", signing |-> job[v].signing, was |-> job[v].was]]
    BY <1>6 DEF SaveDuration, Goes
  <2> QED BY <1>1, <2>1 DEF ClockTypeOK
<1> QED BY <1>2, <1>3, <1>4, <1>5, <1>6 DEF Next

\* A correction of the point of a signing leaves the day in order and every start
\* with its duration, whatever create, a typed duration, a cancellation or a
\* clock-out that lost its race had left, unless requests overlapped: the plan
\* that the check of SigningService made of the day is that of the day it is
\* applied to.
THEOREM MovesAlwaysRepair == Spec => MovesRepairTheDay
<1>1. FlightInv /\ FlightInv' /\ (TidyDay' => DayIsOrdered' /\ DurationsAreExact') /\ [Next]_vars =>
        [\A w \in Workers :
           job[w].stage = "move" /\ job'[w] = Idle /\ at' # at /\ mishaps \subseteq {"crash"}
             => DayIsOrdered' /\ DurationsAreExact']_vars
  <2> SUFFICES ASSUME FlightInv, FlightInv', TidyDay' => DayIsOrdered' /\ DurationsAreExact', Next,
                      NEW w \in Workers, job[w].stage = "move", job'[w] = Idle, at' # at,
                      mishaps \subseteq {"crash"}
               PROVE  DayIsOrdered' /\ DurationsAreExact'
    OBVIOUS
  <2>1. ApplyMove(w)
    BY MovesAreApplied DEF FlightInv, ClockInv
  <2>2. "overlap" \notin mishaps
    OBVIOUS
  <2>3. TidyDay'
    BY <2>1, <2>2, MovesTidy
  <2> QED BY <2>3
<1>2. TidyDay' => DayIsOrdered' /\ DurationsAreExact'
  BY TidyDaysAreRight, PTL
<1> QED BY FlightInvInductive, <1>1, <1>2, PTL DEF Spec, MovesRepairTheDay

-----------------------------------------------------------------------------
(* Clients that sign in order.                                              *)

ExactIn(day, d) == \A s \in Starts(day) : d[s] = DurationIn(day, s)

\* The clock-out e, the last of the day, has yet to give its start a duration.
ClosesIn(day, d, e) ==
  /\ e \in DOMAIN day /\ day[e].action = "end" /\ \A u \in DOMAIN day : ~Precedes(day[e], day[u])
  /\ \A s \in Starts(day) : d[s] = IF e \in EndsOf(day, s) THEN Null ELSE DurationIn(day, s)

\* The clock-out has found its start, and the duration n of it.
FoundIn(day, d, t, n) ==
  /\ t \in Starts(day) /\ n = DurationIn(day, t)
  /\ \A s \in Starts(day) \ {t} : d[s] = DurationIn(day, s)

OrderlyInv ==
  habits = {} /\ mishaps = {} =>
    /\ Alternates(Today)
    /\ \A w \in Workers : job[w].stage = "find" =>
         \E e \in Active : Today[e].moment = job[w].moment /\ ClosesIn(Today, duration, e)
    /\ \A w \in Workers : job[w].stage \in {"load", "assign"} =>
         FoundIn(Today, duration, job[w].signing, job[w].duration)
    /\ (\A w \in Workers : job[w].stage \notin {"find", "load", "assign"}) => ExactIn(Today, duration)

\* The one open start of a day whose last clock-out has yet to close it.
LEMMA OneStartToClose ==
  ASSUME NEW D, NEW day \in [D -> Points], Alternates(day), NEW d, NEW e, ClosesIn(day, d, e)
  PROVE  \E t \in Starts(day) :
           /\ \A s \in Starts(day) : d[s] = Null <=> s = t
           /\ day[t].moment <= day[e].moment
           /\ FoundIn(day, d, t, day[e].moment - day[t].moment)
<1>1. /\ e \in D /\ day[e].action = "end" /\ \A u \in D : ~Precedes(day[e], day[u])
      /\ \A s \in Starts(day) : d[s] = IF e \in EndsOf(day, s) THEN Null ELSE DurationIn(day, s)
  BY DEF ClosesIn
<1>2. PICK t \in D : Follows(day, t, e)
  BY <1>1 DEF Alternates
<1>3. t \in Starts(day)
  BY <1>1, <1>2 DEF Alternates, Starts, Points
<1>4. /\ EndsOf(day, t) = {e} /\ DurationIn(day, t) = day[e].moment - day[t].moment
  BY <1>1, <1>2, <1>3, ClosedStart
<1>5. day[t].moment <= day[e].moment
  BY <1>1, <1>2 DEF Follows, Precedes, Points, Times
<1>6. \A s \in Starts(day) : e \in EndsOf(day, s) <=> s = t
  <2>1. \A s \in Starts(day) : s \in D
    BY DEF Starts
  <2>2. \A s \in Starts(day) : e \in EndsOf(day, s) => Follows(day, s, e)
    BY DEF EndsOf
  <2> QED BY <1>1, <1>2, <1>4, <2>1, <2>2, FollowsIsOneToOne DEF Alternates
<1>7. \A s \in Starts(day) : DurationIn(day, s) # Null
  <2> SUFFICES ASSUME NEW s \in Starts(day) PROVE DurationIn(day, s) # Null
    OBVIOUS
  <2>1. s \in D /\ s # e
    BY <1>1 DEF Starts
  <2>2. Precedes(day[s], day[e])
    BY <1>1, <2>1, OrderOfPoints DEF Alternates
  <2> QED BY <1>1, <2>2, OpenStart
<1>8. \A s \in Starts(day) : d[s] = Null <=> s = t
  BY <1>1, <1>6, <1>7
<1>9. FoundIn(day, d, t, day[e].moment - day[t].moment)
  BY <1>1, <1>3, <1>4, <1>6 DEF FoundIn
<1> QED BY <1>3, <1>5, <1>8, <1>9

LEMMA CreateKeepsOrder ==
  ASSUME FlightInv, FlightInv', OrderlyInv, NEW w \in Workers, NEW s \in Signings, NEW p \in Points,
         NEW d, Create(w, s, p, d)
  PROVE  OrderlyInv'
<1> SUFFICES ASSUME habits' = {}, mishaps' = {} PROVE OrderlyInv'
  BY DEF OrderlyInv
<1> PICK D, day, new, dur : D = Active /\ day = Today /\ new = With(Today, s, p) /\ dur = duration'
  OBVIOUS
<1>1. d = Null /\ Alternates(new) /\ habits = {} /\ mishaps = {} /\ Quiet
  BY DEF Create, Begins
<1>2. /\ s \notin D /\ D \subseteq Signings /\ day \in [D -> Points] /\ ClockTypeOK
      /\ Active' = D \cup {s} /\ \A u \in D : day[u] = at[u]
  BY TodayIsADay DEF FlightInv, ClockInv, Create, ClockTypeOK, Active
<1>3. at' = [at EXCEPT ![s] = p] /\ duration' = [duration EXCEPT ![s] = d]
  BY DEF Create
<1>4. Today' = new
  <2>1. Today' = [u \in D \cup {s} |-> at'[u]]
    BY <1>2 DEF Today
  <2>2. new = [u \in D \cup {s} |-> IF u = s THEN p ELSE at[u]]
    BY <1>2 DEF With, Today
  <2> QED BY <1>2, <1>3, <2>1, <2>2 DEF ClockTypeOK
<1>5. dur[s] = Null /\ \A u \in D : dur[u] = duration[u]
  BY <1>1, <1>2, <1>3 DEF ClockTypeOK
<1>6. Alternates(day) /\ \A u \in Starts(day) : u \in D /\ duration[u] = DurationIn(day, u)
  <2>1. \A v \in Workers : job[v].stage \notin {"find", "load", "assign"}
    BY <1>1 DEF Quiet, Busy, Idle
  <2> QED BY <1>1, <1>2, <2>1 DEF OrderlyInv, ExactIn, Starts
<1>7. job' = [job EXCEPT ![w] = IF p.action = "end" THEN [stage |-> "find", moment |-> p.moment] ELSE Idle]
  BY DEF Create, Begins
<1>8. \A v \in Workers : job[v] = Idle
  BY <1>1 DEF Quiet, Busy
<1>9. CASE p.action = "start"
  <2>1. \A v \in Workers : job'[v].stage \notin {"find", "load", "assign"}
    BY <1>2, <1>7, <1>8, <1>9 DEF Idle, ClockTypeOK
  <2>2. /\ Starts(new) = Starts(day) \cup {s} /\ DurationIn(new, s) = Null
        /\ \A u \in Starts(day) : DurationIn(new, u) = DurationIn(day, u)
    <3>1. Starts(new) = Starts(day) \cup {s}
      BY <1>1, <1>2, <1>6, <1>9, OneStartMore
    <3>2. DurationIn(new, s) = Null
      BY <1>1, <1>2, <1>6, <1>9, OneStartMore
    <3>3. \A u \in Starts(day) : DurationIn(new, u) = DurationIn(day, u)
      BY <1>1, <1>2, <1>6, <1>9, OneStartMore
    <3> QED BY <3>1, <3>2, <3>3
  <2>3. ExactIn(new, dur)
    BY <1>5, <1>6, <2>2 DEF ExactIn
  <2> QED BY <1>1, <1>4, <2>1, <2>3 DEF OrderlyInv
<1>10. CASE p.action = "end"
  <2>1. job'[w] = [stage |-> "find", moment |-> p.moment] /\ \A v \in Workers \ {w} : job'[v] = Idle
    BY <1>2, <1>7, <1>8, <1>10 DEF ClockTypeOK
  <2>2. /\ Starts(new) = Starts(day) /\ \A u \in D : ~Precedes(p, day[u])
        /\ \A u \in Starts(day) :
             DurationIn(day, u) = IF s \in EndsOf(new, u) THEN Null ELSE DurationIn(new, u)
    <3>1. Starts(new) = Starts(day)
      BY <1>1, <1>2, <1>6, <1>10, OneEndMore
    <3>2. \A u \in D : ~Precedes(p, day[u])
      BY <1>1, <1>2, <1>6, <1>10, OneEndMore
    <3>3. \A u \in Starts(day) :
            DurationIn(day, u) = IF s \in EndsOf(new, u) THEN Null ELSE DurationIn(new, u)
      BY <1>1, <1>2, <1>6, <1>10, OneEndMore
    <3> QED BY <3>1, <3>2, <3>3
  <2>3. new \in [D \cup {s} -> Points] /\ new[s] = p /\ \A u \in D : new[u] = day[u]
    BY <1>2 DEF With
  <2>4. ClosesIn(new, dur, s)
    <3>1. \A u \in D \cup {s} : ~Precedes(new[s], new[u])
      BY <2>2, <2>3, OrderOfPoints
    <3>2. \A u \in Starts(new) : dur[u] = IF s \in EndsOf(new, u) THEN Null ELSE DurationIn(new, u)
      BY <1>5, <1>6, <2>2
    <3> QED BY <1>10, <2>3, <3>1, <3>2 DEF ClosesIn
  <2>5. \E e \in Active' : Today'[e].moment = job'[w].moment /\ ClosesIn(Today', duration', e)
    BY <1>2, <1>4, <2>1, <2>3, <2>4
  <2>6. \A v \in Workers : job'[v].stage = "find" => v = w
    BY <2>1 DEF Idle
  <2>7. \A v \in Workers : job'[v].stage \notin {"load", "assign"}
    BY <2>1 DEF Idle
  <2>8. ~(\A v \in Workers : job'[v].stage \notin {"find", "load", "assign"})
    BY <2>1
  <2> QED BY <1>1, <1>4, <2>5, <2>6, <2>7, <2>8 DEF OrderlyInv
<1> QED BY <1>9, <1>10 DEF Points

LEMMA FindKeepsOrder ==
  ASSUME FlightInv, FlightInv', OrderlyInv, NEW w \in Workers, FindOpenStart(w)
  PROVE  OrderlyInv'
<1>1. Today' = Today /\ duration' = duration /\ Active' = Active /\ habits' = habits /\ mishaps' = mishaps
  BY DEF FindOpenStart, clockVars, ghostVars, Today, Active
<1> SUFFICES ASSUME habits = {}, mishaps = {} PROVE OrderlyInv'
  BY <1>1 DEF OrderlyInv
<1> PICK D, day, m : D = Active /\ day = Today /\ m = job[w].moment
  OBVIOUS
<1>2. /\ D \subseteq Signings /\ day \in [D -> Points] /\ ClockTypeOK /\ \A u \in D : day[u] = at[u]
  BY TodayIsADay DEF FlightInv, ClockInv
<1>3. PICK e \in D : day[e].moment = m /\ ClosesIn(day, duration, e) /\ Alternates(day)
  BY DEF OrderlyInv, FindOpenStart
<1>4. PICK t \in Starts(day) :
           /\ \A s \in Starts(day) : duration[s] = Null <=> s = t
           /\ day[t].moment <= m
           /\ FoundIn(day, duration, t, m - day[t].moment)
  BY <1>2, <1>3, OneStartToClose
<1>5. \A s : s \in OpenStarts(m) <=> s = t
  BY <1>2, <1>4 DEF OpenStarts, Open, Starts
<1>6. \A v \in Workers \ {w} : job[v] = Idle
  BY DEF FlightInv, OneAtATime, FindOpenStart, Idle
<1>7. Goes(w, [stage |-> "load", signing |-> t, duration |-> m - day[t].moment])
  <2>1. t \in D /\ day[t] = at[t]
    BY <1>2 DEF Starts
  <2>2. OpenStarts(m) # {} /\ \A s \in LatestOpenStarts(m) : s = t
    BY <1>5 DEF LatestOpenStarts
  <2>3. \E s \in LatestOpenStarts(m) :
          Goes(w, [stage |-> "load", signing |-> s, duration |-> m - at[s].moment])
    BY <2>2 DEF FindOpenStart
  <2> QED BY <2>1, <2>2, <2>3
<1>8. /\ job'[w] = [stage |-> "load", signing |-> t, duration |-> m - day[t].moment]
      /\ \A v \in Workers \ {w} : job'[v] = Idle
  BY <1>2, <1>6, <1>7 DEF Goes, ClockTypeOK
<1>9. \A v \in Workers : job'[v].stage # "find"
  BY <1>8 DEF Idle
<1>10. \A v \in Workers : job'[v].stage \in {"load", "assign"} =>
         FoundIn(day, duration, job'[v].signing, job'[v].duration)
  BY <1>4, <1>8 DEF Idle
<1>11. ~(\A v \in Workers : job'[v].stage \notin {"find", "load", "assign"})
  BY <1>8
<1> QED BY <1>1, <1>3, <1>9, <1>10, <1>11 DEF OrderlyInv

LEMMA LoadKeepsOrder ==
  ASSUME FlightInv, OrderlyInv, NEW w \in Workers, LoadStart(w)
  PROVE  OrderlyInv'
<1>1. /\ Today' = Today /\ duration' = duration /\ Active' = Active
      /\ habits' = habits /\ mishaps' = mishaps
  BY DEF LoadStart, clockVars, Today, Active
<1> SUFFICES ASSUME habits = {}, mishaps = {} PROVE OrderlyInv'
  BY <1>1 DEF OrderlyInv
<1>2. PICK j : /\ Goes(w, j) /\ j.stage = "assign" /\ job[w].stage = "load"
               /\ j.signing = job[w].signing /\ j.duration = job[w].duration
  BY DEF LoadStart
<1>3. job'[w] = j /\ \A v \in Workers \ {w} : job'[v] = job[v]
  BY <1>2 DEF Goes, FlightInv, ClockInv, ClockTypeOK
<1>4. \A v \in Workers : job'[v].stage = "find" => job'[v] = job[v]
  BY <1>2, <1>3
<1>5. \A v \in Workers : job'[v].stage \in {"load", "assign"} =>
        /\ job[v].stage \in {"load", "assign"}
        /\ job'[v].signing = job[v].signing /\ job'[v].duration = job[v].duration
  BY <1>2, <1>3
<1>6. ~(\A v \in Workers : job'[v].stage \notin {"find", "load", "assign"})
  BY <1>2, <1>3
<1> QED BY <1>1, <1>4, <1>5, <1>6 DEF OrderlyInv

LEMMA AssignKeepsOrder ==
  ASSUME FlightInv, FlightInv', OrderlyInv, NEW w \in Workers, AssignDuration(w)
  PROVE  OrderlyInv'
<1>0. habits' = habits /\ mishaps' = mishaps
  BY DEF AssignDuration, ghostVars
<1> SUFFICES ASSUME habits = {}, mishaps = {} PROVE OrderlyInv'
  BY <1>0 DEF OrderlyInv
<1>1. /\ at' = at /\ cancelled' = cancelled /\ made' = made
      /\ duration' = [duration EXCEPT ![job[w].signing] = job[w].duration]
      /\ Today' = Today /\ Active' = Active
  <2>1. Holding(w) /\ job[w].duration \in Durations
    BY AssignHolds DEF FlightInv, ClockInv
  <2>2. at' = at /\ cancelled' = cancelled
        /\ duration' = [duration EXCEPT ![job[w].signing] = job[w].duration]
    BY <2>1, HolderLeavesTheDay DEF AssignDuration
  <2> QED BY <2>2 DEF AssignDuration, Today, Active
<1> PICK D, day, dur, t, n : /\ D = Active /\ day = Today /\ dur = duration'
                             /\ t = job[w].signing /\ n = job[w].duration
  OBVIOUS
<1>2. /\ D \subseteq Signings /\ day \in [D -> Points] /\ ClockTypeOK
      /\ Starts(day) \subseteq Signings
  BY TodayIsADay DEF FlightInv, ClockInv, Starts
<1>3. FoundIn(day, duration, t, n) /\ Alternates(day)
  BY DEF OrderlyInv, AssignDuration
<1>4. duration' = [duration EXCEPT ![t] = n] /\ Goes(w, Idle)
  BY <1>1 DEF AssignDuration
<1>5. ExactIn(day, dur)
  BY <1>2, <1>3, <1>4 DEF FoundIn, ExactIn, ClockTypeOK
<1>6. \A v \in Workers : job'[v] = Idle
  <2>1. \A v \in Workers \ {w} : job[v] = Idle
    BY DEF FlightInv, OneAtATime, AssignDuration, Idle
  <2> QED BY <1>2, <1>4, <2>1 DEF Goes, ClockTypeOK
<1>7. \A v \in Workers : job'[v].stage \notin {"find", "load", "assign"}
  BY <1>6 DEF Idle
<1> QED BY <1>0, <1>1, <1>3, <1>5, <1>7 DEF OrderlyInv

\* The steps of corrections that change no signing.
LEMMA CorrectionsKeepOrder ==
  ASSUME FlightInv, FlightInv', OrderlyInv, NEW w \in Workers,
         CheckSequence(w) \/ \E s \in Signings, p \in Points : BeginMove(w, s, p)
  PROVE  OrderlyInv'
<1>1. /\ Today' = Today /\ duration' = duration /\ Active' = Active
      /\ habits' = habits /\ mishaps \subseteq mishaps'
  BY DEF CheckSequence, BeginMove, Begins, clockVars, ghostVars, Today, Active
<1> SUFFICES ASSUME habits = {}, mishaps' = {} PROVE OrderlyInv'
  BY <1>1 DEF OrderlyInv
<1>2. mishaps = {}
  BY <1>1
<1>3. \A v \in Workers : job[v].stage \notin {"find", "load", "assign"}
  <2>1. CASE CheckSequence(w)
    <3>1. \A v \in Workers \ {w} : job[v] = Idle
      BY <1>2, <2>1 DEF FlightInv, OneAtATime, CheckSequence, Idle
    <3> QED BY <2>1, <3>1 DEF CheckSequence, Idle
  <2>2. CASE \E s \in Signings, p \in Points : BeginMove(w, s, p)
    <3>1. Quiet
      BY <2>2 DEF BeginMove, Begins
    <3> QED BY <3>1 DEF Quiet, Busy, Idle
  <2> QED BY <2>1, <2>2
<1>4. PICK j : Goes(w, j) /\ j.stage \notin {"find", "load", "assign"}
  <2>1. CASE CheckSequence(w)
    <3>1. PICK j : Goes(w, j) /\ (j = Idle \/ j.stage = "move")
      BY <2>1 DEF CheckSequence
    <3> QED BY <3>1 DEF Idle
  <2>2. CASE \E s \in Signings, p \in Points : BeginMove(w, s, p)
    <3>1. PICK s \in Signings, p \in Points : BeginMove(w, s, p)
      BY <2>2
    <3>2. PICK j : j = [stage |-> "sequence", signing |-> s, was |-> at[s], point |-> p]
      OBVIOUS
    <3>3. Goes(w, j) /\ j.stage = "sequence"
      BY <3>1, <3>2 DEF BeginMove, Begins, Goes
    <3> QED BY <3>3
  <2> QED BY <2>1, <2>2
<1>5. \A v \in Workers : job'[v].stage \notin {"find", "load", "assign"}
  BY <1>3, <1>4 DEF Goes, FlightInv, ClockInv, ClockTypeOK
<1>6. Alternates(Today) /\ ExactIn(Today, duration)
  BY <1>2, <1>3 DEF OrderlyInv
<1> QED BY <1>1, <1>5, <1>6 DEF OrderlyInv

LEMMA MovesKeepOrder ==
  ASSUME FlightInv, FlightInv', NEW w \in Workers, ApplyMove(w)
  PROVE  OrderlyInv'
<1> SUFFICES ASSUME mishaps' = {} PROVE OrderlyInv'
  BY DEF OrderlyInv
<1>1. mishaps = {} /\ Goes(w, Idle)
  BY DEF ApplyMove, ghostVars
<1>2. Alternates(Today') /\ \A s \in Starts(Today') : duration'[s] = DurationIn(Today', s)
  BY <1>1, MovesTidy DEF TidyDay, Exact
<1>3. \A v \in Workers : job'[v] = Idle
  <2>1. \A v \in Workers \ {w} : job[v] = Idle
    BY <1>1 DEF FlightInv, OneAtATime, ApplyMove, Idle
  <2> QED BY <1>1, <2>1 DEF Goes, FlightInv, ClockInv, ClockTypeOK
<1>4. \A v \in Workers : job'[v].stage \notin {"find", "load", "assign"}
  BY <1>3 DEF Idle
<1> QED BY <1>2, <1>4 DEF OrderlyInv, ExactIn

\* The day stays in order and exact while clients sign in order, type no duration
\* and cancel nothing, and requests neither meet nor die: each clock-out finds the
\* one start left open, and each correction recomputes the others.
THEOREM OrderlyDaysStayExact == Spec => []OrderlyDayStaysExact
<1>1. Init => OrderlyInv
  BY DEF Init, OrderlyInv, Alternates, Today, Active, ExactIn, Starts, Idle
<1>2. FlightInv /\ FlightInv' /\ OrderlyInv /\ [Next]_vars => OrderlyInv'
  <2> SUFFICES ASSUME FlightInv, FlightInv', OrderlyInv, [Next]_vars
               PROVE  OrderlyInv'
    OBVIOUS
  <2>1. ASSUME NEW w \in Workers, NEW s \in Signings, NEW p \in Points, NEW d \in Typed \cup {Null},
               Create(w, s, p, d)
        PROVE  OrderlyInv'
    BY <2>1, CreateKeepsOrder
  <2>2. ASSUME NEW w \in Workers, NEW s \in Signings,
               (\E d \in Typed \cup {Null} : BeginSave(w, s, d)) \/ BeginCancel(w, s)
        PROVE  OrderlyInv'
    BY <2>2 DEF BeginSave, BeginCancel, OrderlyInv
  <2>3. ASSUME NEW w \in Workers,
               CheckSequence(w) \/ \E s \in Signings, p \in Points : BeginMove(w, s, p)
        PROVE  OrderlyInv'
    BY <2>3, CorrectionsKeepOrder
  <2>4. ASSUME NEW w \in Workers, \/ FindOpenStart(w) \/ LoadStart(w) \/ AssignDuration(w)
               \/ ApplyMove(w)
        PROVE  OrderlyInv'
    BY <2>4, FindKeepsOrder, LoadKeepsOrder, AssignKeepsOrder, MovesKeepOrder
  <2>5. ASSUME NEW w \in Workers,
               LoadSaved(w) \/ SaveDuration(w) \/ LogChange(w) \/ Cancel(w)
        PROVE  OrderlyInv'
    <3>1. habits # {} /\ habits' = habits
      BY <2>5 DEF FlightInv, HabitsTell, LoadSaved, SaveDuration, LogChange, Cancel, ghostVars
    <3> QED BY <3>1 DEF OrderlyInv
  <2>6. ASSUME NEW w \in Workers, Crash(w)
        PROVE  OrderlyInv'
    BY <2>6 DEF Crash, OrderlyInv
  <2>7. CASE UNCHANGED vars
    BY <2>7 DEF vars, clockVars, ghostVars, OrderlyInv, Today, Active
  <2> QED BY <2>1, <2>2, <2>3, <2>4, <2>5, <2>6, <2>7 DEF Next
<1>3. FlightInv /\ OrderlyInv /\ (TidyDay => DayIsOrdered /\ DurationsAreExact) => OrderlyDayStaysExact
  <2> SUFFICES ASSUME FlightInv, OrderlyInv, habits = {}, mishaps = {}, Quiet
               PROVE  TidyDay
    BY DEF OrderlyDayStaysExact
  <2>1. \A w \in Workers : job[w].stage \notin {"find", "load", "assign"}
    BY DEF Quiet, Busy, Idle
  <2> QED BY <2>1 DEF OrderlyInv, ExactIn, TidyDay, Exact, FlightInv, ClockInv
<1>4. TidyDay => DayIsOrdered /\ DurationsAreExact
  BY TidyDaysAreRight
<1> QED BY FlightInvInductive, <1>1, <1>2, <1>3, <1>4, PTL DEF Spec

-----------------------------------------------------------------------------
(* Clock-outs that race.                                                    *)

Closed == {s \in made : at[s].action = "start" /\ duration[s] # Null}
EndsMade == {s \in made : at[s].action = "end"}

\* The clock-outs in flight: those that look for a start, and the starts found.
Finders == {w \in Workers : job[w].stage = "find"}
Targets == {s \in Signings : \E w \in Workers : job[w].stage \in {"load", "assign"} /\ job[w].signing = s}

Claimed == Closed \cup Targets

\* Every start that has, or is about to have, a duration and every clock-out that
\* still looks for one has an end of its own.
ClaimsInv ==
  habits \subseteq {"unordered"} /\ "overlap" \notin mishaps =>
    /\ IsFiniteSet(Claimed) /\ IsFiniteSet(Finders)
    /\ Cardinality(Claimed) + Cardinality(Finders) <= Cardinality(EndsMade)

LEMMA ClockOutsInFlight ==
  ASSUME ClockTypeOK, NEW w \in Workers, NEW j, Goes(w, j)
  PROVE  /\ Finders' = IF j.stage = "find" THEN Finders \cup {w} ELSE Finders \ {w}
         /\ Targets' \subseteq Targets \cup (IF j.stage \in {"load", "assign"} THEN {j.signing} ELSE {})
<1>1. job'[w] = j /\ \A v \in Workers \ {w} : job'[v] = job[v]
  BY DEF ClockTypeOK, Goes
<1>2. Finders' = IF j.stage = "find" THEN Finders \cup {w} ELSE Finders \ {w}
  BY <1>1 DEF Finders
<1>3. Targets' \subseteq Targets \cup (IF j.stage \in {"load", "assign"} THEN {j.signing} ELSE {})
  BY <1>1 DEF Targets
<1> QED BY <1>2, <1>3

\* How a step changes the claims, from A and F to B and G, and the ends, from E to
\* H: it drops some, or one that looks finds t, or one more looks, for the end t.
ClaimsGo(A, F, E, B, G, H) ==
  \/ B \subseteq A /\ G \subseteq F /\ H = E
  \/ \E x \in F : \E t : B \subseteq A \cup {t} /\ G = F \ {x} /\ H = E
  \/ \E x : \E t : B \subseteq A /\ G = F \cup {x} /\ t \notin E /\ H = E \cup {t}

LEMMA ClaimsCount ==
  ASSUME NEW A, NEW F, NEW E, NEW B, NEW G, NEW H, IsFiniteSet(A), IsFiniteSet(F), IsFiniteSet(E),
         Cardinality(A) + Cardinality(F) <= Cardinality(E), ClaimsGo(A, F, E, B, G, H)
  PROVE  IsFiniteSet(B) /\ IsFiniteSet(G) /\ Cardinality(B) + Cardinality(G) <= Cardinality(H)
<1>1. Cardinality(A) \in Nat /\ Cardinality(F) \in Nat /\ Cardinality(E) \in Nat
  BY FS_CardinalityType
<1>2. CASE B \subseteq A /\ G \subseteq F /\ H = E
  <2>1. IsFiniteSet(B) /\ Cardinality(B) <= Cardinality(A) /\ IsFiniteSet(G) /\ Cardinality(G) <= Cardinality(F)
    BY <1>2, FS_Subset
  <2>2. Cardinality(B) \in Nat /\ Cardinality(G) \in Nat
    BY <2>1, FS_CardinalityType
  <2> QED BY <1>1, <1>2, <2>1, <2>2
<1>3. CASE \E x \in F : \E t : B \subseteq A \cup {t} /\ G = F \ {x} /\ H = E
  <2>0. PICK x \in F : \E t : B \subseteq A \cup {t} /\ G = F \ {x} /\ H = E
    BY <1>3
  <2>1. PICK t : B \subseteq A \cup {t} /\ G = F \ {x} /\ H = E
    BY <2>0
  <2>2. /\ IsFiniteSet(A \cup {t})
        /\ Cardinality(A \cup {t}) = Cardinality(A) \/ Cardinality(A \cup {t}) = Cardinality(A) + 1
    BY <1>1, FS_AddElement
  <2>3. IsFiniteSet(B) /\ Cardinality(B) <= Cardinality(A \cup {t})
    BY <2>1, <2>2, FS_Subset
  <2>4. IsFiniteSet(G) /\ Cardinality(G) = Cardinality(F) - 1
    BY <1>1, <2>1, FS_RemoveElement
  <2>5. Cardinality(B) \in Nat /\ Cardinality(G) \in Nat
    BY <2>3, <2>4, FS_CardinalityType
  <2> QED BY <1>1, <2>1, <2>2, <2>3, <2>4, <2>5
<1>4. CASE \E x : \E t : B \subseteq A /\ G = F \cup {x} /\ t \notin E /\ H = E \cup {t}
  <2>1. PICK x, t : B \subseteq A /\ G = F \cup {x} /\ t \notin E /\ H = E \cup {t}
    BY <1>4
  <2>2. IsFiniteSet(B) /\ Cardinality(B) <= Cardinality(A)
    BY <2>1, FS_Subset
  <2>3. /\ IsFiniteSet(G)
        /\ Cardinality(G) = Cardinality(F) \/ Cardinality(G) = Cardinality(F) + 1
    BY <1>1, <2>1, FS_AddElement
  <2>4. Cardinality(H) = Cardinality(E) + 1
    BY <2>1, FS_AddElement
  <2>5. Cardinality(B) \in Nat /\ Cardinality(G) \in Nat
    BY <2>2, <2>3, FS_CardinalityType
  <2> QED BY <1>1, <2>2, <2>3, <2>4, <2>5
<1> QED BY <1>2, <1>3, <1>4 DEF ClaimsGo

LEMMA ClaimsFollow ==
  ASSUME FlightInv, ClaimsInv, habits \subseteq habits', mishaps \subseteq mishaps',
         habits' \subseteq {"unordered"} /\ "overlap" \notin mishaps' =>
           \/ Claimed' \subseteq Claimed /\ Finders' \subseteq Finders /\ EndsMade' = EndsMade
           \/ \E x \in Finders : \E t :
                Claimed' \subseteq Claimed \cup {t} /\ Finders' = Finders \ {x} /\ EndsMade' = EndsMade
           \/ \E x, t : /\ Claimed' \subseteq Claimed /\ Finders' = Finders \cup {x}
                        /\ t \notin EndsMade /\ EndsMade' = EndsMade \cup {t}
  PROVE  ClaimsInv'
<1> SUFFICES ASSUME habits' \subseteq {"unordered"}, "overlap" \notin mishaps'
             PROVE  /\ IsFiniteSet(Claimed') /\ IsFiniteSet(Finders')
                    /\ Cardinality(Claimed') + Cardinality(Finders') <= Cardinality(EndsMade')
  BY DEF ClaimsInv
<1> PICK A, F, E, B, G, H : /\ A = Claimed /\ F = Finders /\ E = EndsMade
                            /\ B = Claimed' /\ G = Finders' /\ H = EndsMade'
  OBVIOUS
<1>1. IsFiniteSet(A) /\ IsFiniteSet(F) /\ Cardinality(A) + Cardinality(F) <= Cardinality(E)
  BY DEF ClaimsInv
<1>2. IsFiniteSet(E)
  BY FS_Subset DEF FlightInv, EndsMade
<1>3. ClaimsGo(A, F, E, B, G, H)
  BY DEF ClaimsGo
<1>4. IsFiniteSet(B) /\ IsFiniteSet(G) /\ Cardinality(B) + Cardinality(G) <= Cardinality(H)
  BY <1>1, <1>2, <1>3, ClaimsCount
<1> QED BY <1>4

LEMMA CreateClaims ==
  ASSUME FlightInv, ClaimsInv, NEW w \in Workers, NEW s \in Signings, NEW p \in Points, NEW d,
         Create(w, s, p, d)
  PROVE  ClaimsInv'
<1>1. ClockTypeOK /\ s \notin made /\ habits \subseteq habits' /\ mishaps \subseteq mishaps'
      /\ (habits' \subseteq {"unordered"} => d = Null)
  BY DEF FlightInv, ClockInv, Create, Begins
<1>2. /\ made' = made \cup {s} /\ at'[s] = p /\ duration'[s] = d
      /\ \A u \in made : at'[u] = at[u] /\ duration'[u] = duration[u]
  BY <1>1 DEF Create, ClockTypeOK
<1> PICK j : j = IF p.action = "end" THEN [stage |-> "find", moment |-> p.moment] ELSE Idle
  OBVIOUS
<1>3. Goes(w, j) /\ job[w] = Idle /\ job[w].stage # "find" /\ j.stage \notin {"load", "assign"}
      /\ (j.stage = "find" <=> p.action = "end")
  BY DEF Create, Begins, Busy, Goes, Idle
<1>4. /\ Finders' = IF j.stage = "find" THEN Finders \cup {w} ELSE Finders \ {w}
      /\ Targets' \subseteq Targets
  BY <1>1, <1>3, ClockOutsInFlight
<1>5. d = Null => Claimed' \subseteq Claimed
  <2>1. d = Null => Closed' \subseteq Closed
    BY <1>2 DEF Closed
  <2> QED BY <1>4, <2>1 DEF Claimed
<1>6. s \notin EndsMade /\ EndsMade' = IF p.action = "end" THEN EndsMade \cup {s} ELSE EndsMade
  BY <1>1, <1>2 DEF EndsMade
<1>7. CASE p.action = "end"
  BY <1>1, <1>3, <1>4, <1>5, <1>6, <1>7, ClaimsFollow
<1>8. CASE p.action # "end"
  <2>1. Finders' \subseteq Finders /\ EndsMade' = EndsMade
    BY <1>3, <1>4, <1>6, <1>8
  <2> QED BY <1>1, <1>5, <2>1, ClaimsFollow
<1> QED BY <1>7, <1>8

\* The other steps of a request that move no signing.
LEMMA StepClaims ==
  ASSUME FlightInv, ClaimsInv, NEW w \in Workers, NEW j, Goes(w, j),
         UNCHANGED <<made, at>>, habits \subseteq habits', mishaps \subseteq mishaps',
         j.stage # "find",
         j.stage \in {"load", "assign"} => w \in Finders \/ j.signing \in Targets,
         Closed' \subseteq Claimed
  PROVE  ClaimsInv'
<1>1. /\ Finders' = Finders \ {w}
      /\ Targets' \subseteq Targets \cup (IF j.stage \in {"load", "assign"} THEN {j.signing} ELSE {})
  BY ClockOutsInFlight DEF FlightInv, ClockInv
<1>2. EndsMade' = EndsMade
  BY DEF EndsMade
<1>3. CASE j.stage \in {"load", "assign"} /\ w \in Finders
  <2>1. Claimed' \subseteq Claimed \cup {j.signing}
    BY <1>1, <1>3 DEF Claimed
  <2>2. \E x \in Finders : \E t :
          Claimed' \subseteq Claimed \cup {t} /\ Finders' = Finders \ {x} /\ EndsMade' = EndsMade
    BY <1>1, <1>2, <1>3, <2>1
  <2> QED BY <2>2, ClaimsFollow
<1>4. CASE j.stage \in {"load", "assign"} => j.signing \in Targets
  <2>1. Claimed' \subseteq Claimed /\ Finders' \subseteq Finders
    BY <1>1, <1>4 DEF Claimed
  <2> QED BY <1>2, <2>1, ClaimsFollow
<1> QED BY <1>3, <1>4

LEMMA FindClaims ==
  ASSUME FlightInv, ClaimsInv, NEW w \in Workers, FindOpenStart(w)
  PROVE  ClaimsInv'
<1>1. PICK j : Goes(w, j) /\ j.stage # "find"
  <2>1. CASE Goes(w, Idle)
    BY <2>1 DEF Idle
  <2>2. CASE \E s \in LatestOpenStarts(job[w].moment) :
               Goes(w, [stage |-> "load", signing |-> s, duration |-> job[w].moment - at[s].moment])
    BY <2>2
  <2> QED BY <2>1, <2>2 DEF FindOpenStart
<1>2. w \in Finders /\ Closed' \subseteq Claimed /\ UNCHANGED <<made, at, habits, mishaps>>
  BY DEF FindOpenStart, clockVars, ghostVars, Finders, Closed, Claimed
<1> QED BY <1>1, <1>2, StepClaims

LEMMA LoadClaims ==
  ASSUME FlightInv, ClaimsInv, NEW w \in Workers, LoadStart(w)
  PROVE  ClaimsInv'
<1>1. PICK j : Goes(w, j) /\ j.stage = "assign" /\ j.signing = job[w].signing
  BY DEF LoadStart
<1>2. j.signing \in Targets
  BY <1>1 DEF LoadStart, Targets, FlightInv, ClockInv, EditInv, Choosing, ClockTypeOK
<1>3. Closed' \subseteq Claimed /\ UNCHANGED <<made, at, habits, mishaps>>
  BY DEF LoadStart, clockVars, Closed, Claimed
<1> QED BY <1>1, <1>2, <1>3, StepClaims

LEMMA AssignClaims ==
  ASSUME FlightInv, ClaimsInv, NEW w \in Workers, AssignDuration(w)
  PROVE  ClaimsInv'
<1>0. UNCHANGED <<made, habits, mishaps>> /\ Goes(w, Idle) /\ Idle.stage = "idle"
  BY DEF AssignDuration, ghostVars, Idle
<1> SUFFICES ASSUME "overlap" \notin mishaps PROVE ClaimsInv'
  BY <1>0 DEF ClaimsInv
<1>1. ClockTypeOK /\ Holding(w) /\ job[w].duration \in Durations
  BY AssignHolds DEF FlightInv, ClockInv
<1>2. at' = at /\ duration' = [duration EXCEPT ![job[w].signing] = job[w].duration]
  BY <1>1, HolderLeavesTheDay DEF AssignDuration
<1>3. Closed' \subseteq Closed \cup {job[w].signing}
  BY <1>0, <1>1, <1>2 DEF Closed, ClockTypeOK
<1>4. \A s \in Signings : s = job[w].signing => s \in Targets
  BY DEF Targets, AssignDuration
<1>5. Closed' \subseteq Claimed
  BY <1>0, <1>1, <1>3, <1>4 DEF Claimed, ClockTypeOK, Closed
<1> QED BY <1>0, <1>2, <1>5, StepClaims

LEMMA MoveClaims ==
  ASSUME FlightInv, FlightInv', ClaimsInv, NEW w \in Workers, ApplyMove(w)
  PROVE  ClaimsInv'
<1> SUFFICES ASSUME habits' \subseteq {"unordered"}, "overlap" \notin mishaps'
             PROVE  /\ IsFiniteSet(Claimed') /\ IsFiniteSet(Finders')
                    /\ Cardinality(Claimed') + Cardinality(Finders') <= Cardinality(EndsMade')
  BY DEF ClaimsInv
<1>1. Goes(w, Idle) /\ "overlap" \notin mishaps /\ made' = made
  BY DEF ApplyMove, ghostVars
<1>2. \A v \in Workers : job'[v].stage = "idle"
  <2>1. \A v \in Workers \ {w} : job[v] = Idle
    BY <1>1 DEF FlightInv, EditsAlone, Editing, EditStages, ApplyMove
  <2> QED BY <1>1, <2>1 DEF Goes, Idle, FlightInv, ClockInv, ClockTypeOK
<1>3. Finders' = {} /\ Targets' = {}
  BY <1>2 DEF Finders, Targets
<1>4. Active' = made'
  BY DEF FlightInv, HabitsTell, Active
<1>5. TidyDay'
  BY <1>1, MovesTidy
<1> PICK D, day, C : D = made' /\ day = Today' /\ C = Closed'
  OBVIOUS
<1>6. IsFiniteSet(D) /\ day \in [D -> Points] /\ Alternates(day) /\ \A s \in D : day[s] = at'[s]
  BY <1>4, <1>5 DEF TidyDay, Today, ClockTypeOK
<1>7. C \subseteq Starts(day) /\ \A s \in C : DurationIn(day, s) # Null
  BY <1>5, <1>6 DEF Closed, Starts, TidyDay, Exact
<1>8. EndsMade' = {t \in D : day[t].action = "end"}
  BY <1>6 DEF EndsMade
<1>9. Cardinality(C) <= Cardinality({t \in D : day[t].action = "end"})
  BY <1>6, <1>7, ClosedStartsHaveEnds
<1>10. Cardinality(Closed') <= Cardinality(EndsMade')
  BY <1>8, <1>9
<1>11. IsFiniteSet(Closed') /\ IsFiniteSet(EndsMade')
  <2>1. C \subseteq D /\ EndsMade' \subseteq D
    BY DEF Closed, EndsMade
  <2> QED BY <1>6, <2>1, FS_Subset
<1>12. Claimed' = Closed'
  BY <1>3 DEF Claimed
<1>13. IsFiniteSet(Finders') /\ Cardinality(Finders') = 0
  BY <1>3, FS_EmptySet
<1>14. Cardinality(Closed') \in Nat
  BY <1>11, FS_CardinalityType
<1> QED BY <1>10, <1>11, <1>12, <1>13, <1>14

\* However many clock-outs race, and in whatever order the clients sign, an end
\* closes at most one start: a clock-out that looks, the start it has found and the
\* duration it gives it each stand for an end of their own.
THEOREM EndsCloseOneStart == Spec => []EachEndClosesOneStart
<1>1. Init => ClaimsInv
  <2> SUFFICES ASSUME Init PROVE ClaimsInv
    OBVIOUS
  <2>1. Claimed = {} /\ Finders = {} /\ EndsMade = {}
    BY DEF Init, Claimed, Closed, Targets, Finders, EndsMade, Idle
  <2> QED BY <2>1, FS_EmptySet DEF ClaimsInv
<1>2. FlightInv /\ FlightInv' /\ ClaimsInv /\ [Next]_vars => ClaimsInv'
  <2> SUFFICES ASSUME FlightInv, FlightInv', ClaimsInv, [Next]_vars
               PROVE  ClaimsInv'
    OBVIOUS
  <2>1. ASSUME NEW w \in Workers, NEW s \in Signings, NEW p \in Points, NEW d \in Typed \cup {Null},
               Create(w, s, p, d)
        PROVE  ClaimsInv'
    BY <2>1, CreateClaims
  <2>2. ASSUME NEW w \in Workers, NEW s \in Signings,
               (\E d \in Typed \cup {Null} : BeginSave(w, s, d)) \/ BeginCancel(w, s)
        PROVE  ClaimsInv'
    <3>1. "typed" \in habits' \/ "cancelled" \in habits'
      BY <2>2 DEF BeginSave, BeginCancel
    <3> QED BY <3>1 DEF ClaimsInv
  <2>3. ASSUME NEW w \in Workers, NEW s \in Signings, NEW p \in Points, BeginMove(w, s, p)
        PROVE  ClaimsInv'
    <3> PICK j : j = [stage |-> "sequence", signing |-> s, was |-> at[s], point |-> p]
      OBVIOUS
    <3>1. Goes(w, j) /\ j.stage = "sequence" /\ mishaps \subseteq mishaps'
      BY <2>3 DEF BeginMove, Begins, Goes
    <3>2. UNCHANGED <<made, at, habits>> /\ Closed' \subseteq Claimed
      BY <2>3 DEF BeginMove, clockVars, Closed, Claimed
    <3> QED BY <3>1, <3>2, StepClaims
  <2>4. ASSUME NEW w \in Workers, CheckSequence(w)
        PROVE  ClaimsInv'
    <3>1. PICK j : Goes(w, j) /\ (j = Idle \/ j.stage = "move")
      BY <2>4 DEF CheckSequence
    <3>2. UNCHANGED <<made, at, habits, mishaps>> /\ Closed' \subseteq Claimed
      BY <2>4 DEF CheckSequence, clockVars, ghostVars, Closed, Claimed
    <3> QED BY <3>1, <3>2, StepClaims DEF Idle
  <2>5. ASSUME NEW w \in Workers, \/ FindOpenStart(w) \/ LoadStart(w) \/ AssignDuration(w)
               \/ ApplyMove(w)
        PROVE  ClaimsInv'
    BY <2>5, FindClaims, LoadClaims, AssignClaims, MoveClaims
  <2>6. ASSUME NEW w \in Workers,
               LoadSaved(w) \/ SaveDuration(w) \/ LogChange(w) \/ Cancel(w)
        PROVE  ClaimsInv'
    <3>1. habits \cap {"typed", "cancelled"} # {} /\ habits' = habits
      BY <2>6 DEF FlightInv, HabitsTell, LoadSaved, SaveDuration, LogChange, Cancel, ghostVars
    <3> QED BY <3>1 DEF ClaimsInv
  <2>7. ASSUME NEW w \in Workers, Crash(w)
        PROVE  ClaimsInv'
    <3>1. Goes(w, Idle) /\ Idle.stage = "idle" /\ mishaps \subseteq mishaps'
      BY <2>7 DEF Crash, Idle
    <3>2. UNCHANGED <<made, at, habits>> /\ Closed' \subseteq Claimed
      BY <2>7 DEF Crash, clockVars, Closed, Claimed
    <3> QED BY <3>1, <3>2, StepClaims
  <2>8. CASE UNCHANGED vars
    BY <2>8 DEF vars, clockVars, ghostVars, ClaimsInv, Claimed, Closed, Targets, Finders, EndsMade
  <2> QED BY <2>1, <2>2, <2>3, <2>4, <2>5, <2>6, <2>7, <2>8 DEF Next
<1>3. FlightInv /\ ClaimsInv => EachEndClosesOneStart
  <2> SUFFICES ASSUME FlightInv, ClaimsInv, habits \subseteq {"unordered"}, "overlap" \notin mishaps
               PROVE  Cardinality(Closed) <= Cardinality(EndsMade)
    BY DEF EachEndClosesOneStart, Closed, EndsMade
  <2>1. /\ IsFiniteSet(Claimed) /\ IsFiniteSet(Finders) /\ IsFiniteSet(EndsMade)
        /\ Cardinality(Claimed) + Cardinality(Finders) <= Cardinality(EndsMade)
    BY FS_Subset DEF ClaimsInv, FlightInv, EndsMade
  <2>2. IsFiniteSet(Closed) /\ Cardinality(Closed) <= Cardinality(Claimed)
    BY <2>1, FS_Subset DEF Claimed
  <2>3. /\ Cardinality(Closed) \in Nat /\ Cardinality(Claimed) \in Nat
        /\ Cardinality(Finders) \in Nat /\ Cardinality(EndsMade) \in Nat
    BY <2>1, <2>2, FS_CardinalityType
  <2> QED BY <2>1, <2>2, <2>3
<1> QED BY FlightInvInductive, <1>1, <1>2, <1>3, PTL DEF Spec
=============================================================================
