------------------------------ MODULE CronNext ------------------------------
(***************************************************************************)
(* The next run of a schedule: internal/scheduler/cron.go.                  *)
(*                                                                         *)
(* A schedule has six fields, each "*" or a set of values.  Compiled.Next   *)
(* walks from the second after `after` to the first time the fields select, *)
(* skipping by month, day, hour, minute and second; NextFromAnchor tries a  *)
(* multiple of the step field's interval from an anchor first.  The         *)
(* scheduler loop and the predictions call them again from the time they    *)
(* returned, as Again does here.                                            *)
(*                                                                         *)
(* The calendar is a small one: its units are constants, a month has the    *)
(* length MonthDays gives it and its second month one day more in a leap    *)
(* year.  A time is a number of seconds; the clock on the wall is set by    *)
(* OffsetBefore ahead of it until Change and by OffsetAfter from then on.   *)
(***************************************************************************)
EXTENDS Integers, Sequences, FiniteSets, FiniteSetsExt

CONSTANTS SecondsPerMinute, MinutesPerHour, HoursPerDay, DaysPerWeek,
          MonthDays,       \* length of each month, 1..n
          StepMonth,       \* days of a month in an interval: 30
          LeapEvery, Years, \* bound: the calendar ends with year Years
          Change, OffsetBefore, OffsetAfter,
          MaxIterations,   \* bound of the search: 366 * 24 * 60 in the code
          Schedules,       \* the schedules of the instance, a function
          Anchors,         \* cron_base_time: times, or None
          Afters,          \* where the searches start
          LastAfter        \* bound: no search starts after it

None == -1   \* no anchor, no result yet
Never == -2  \* the zero time.Time

Hour == SecondsPerMinute * MinutesPerHour
Day == Hour * HoursPerDay

ASSUME CalendarAssumption ==
    /\ {SecondsPerMinute, MinutesPerHour, HoursPerDay, DaysPerWeek, StepMonth,
        LeapEvery, Years, MaxIterations} \subseteq Nat \ {0}
    /\ MonthDays \in Seq(Nat \ {0}) /\ MonthDays # <<>>
    /\ {OffsetBefore, OffsetAfter, Change} \subseteq Nat

-----------------------------------------------------------------------------
(* The calendar *)

Months == DOMAIN MonthDays
LeapDay(y, m) == IF m = 2 /\ y % LeapEvery = 0 THEN 1 ELSE 0
LongestMonth == Max({MonthDays[m] + (IF m = 2 THEN 1 ELSE 0) : m \in Months})
Dates == {d \in (1..Years) \X Months \X (1..LongestMonth) :
             d[3] <= MonthDays[d[2]] + LeapDay(d[1], d[2])}
Earlier(d, e) ==
    \/ d[1] < e[1]
    \/ d[1] = e[1] /\ (d[2] < e[2] \/ (d[2] = e[2] /\ d[3] < e[3]))

\* Days are numbered from 0; day 0 is a Sunday.
DayNumber == [d \in Dates |-> Cardinality({e \in Dates : Earlier(e, d)})]
DateOf == [n \in 0..Cardinality(Dates) - 1 |-> CHOOSE d \in Dates : DayNumber[d] = n]
FirstOf(y, m) == DayNumber[<<y, m, 1>>] * Day

\* The times whose dates are in the calendar.
Time == 0..Cardinality(Dates) * Day - 1 - Max({OffsetBefore, OffsetAfter})

Wall(t) == t + IF t < Change THEN OffsetBefore ELSE OffsetAfter

\* The fields of a time, in the order of a schedule: 0..5.
Clock == [w \in 0..Cardinality(Dates) * Day - 1 |->
    LET date == DateOf[w \div Day] IN
    [i \in 0..5 |-> CASE i = 0 -> w % SecondsPerMinute
                      [] i = 1 -> (w \div SecondsPerMinute) % MinutesPerHour
                      [] i = 2 -> (w \div Hour) % HoursPerDay
                      [] i = 3 -> date[3]
                      [] i = 4 -> date[2]
                      [] i = 5 -> (w \div Day) % DaysPerWeek]]
Fields(t) == Clock[Wall(t)]

\* time.Date: the times at which a clock on the wall shows w.  One that shows
\* it twice may mean either; one that skips it is read with either offset.
TimesOf(w) ==
    LET before == w - OffsetBefore
        after == w - OffsetAfter
        shown == {t \in {before, after} : Wall(t) = w}
    IN  IF shown = {} THEN {before, after} ELSE shown

\* AddDate(2, 0, 0): the 29th of February becomes the 1st of March.
TwoYearsLater(t) ==
    LET d == DateOf[Wall(t) \div Day] IN
    TimesOf(FirstOf(d[1] + 2, d[2]) + (d[3] - 1) * Day + (Wall(t) % Day))

-----------------------------------------------------------------------------
(* Schedules *)

\* A part of a field: "*", "lo" or "lo-hi", with a step or (0) without one.
Part(base, lo, hi, step) == [base |-> base, lo |-> lo, hi |-> hi, step |-> step]

\* expandFieldPart.  "lo/step" runs to the largest value; a "*" that is one of
\* several parts stands for nothing.
Expand(p, low, high) ==
    LET from == IF p.base = "*" THEN low ELSE p.lo
        to == CASE p.base = "range" -> p.hi
                [] p.base = "*" -> IF p.step = 0 THEN low - 1 ELSE high
                [] p.base = "value" -> IF p.step = 0 THEN p.lo ELSE high
    IN  {v \in from..to : p.step = 0 \/ (v - from) % p.step = 0}

\* The matcher of a field, with the step an anchor goes by: that of a field
\* written "*/step" or "lo-hi/step".
Star == [any |-> TRUE, parts |-> {}, low |-> 0, high |-> 0, values |-> {}, step |-> 0]
Field(parts, low, high) ==
    [any |-> FALSE, parts |-> parts, low |-> low, high |-> high,
     values |-> UNION {Expand(p, low, high) : p \in parts},
     step |-> IF \E p \in parts : parts = {p} /\ p.base # "value"
              THEN (CHOOSE p \in parts : TRUE).step ELSE 0]

Matches(f, v) == f.any \/ v \in f.values

\* A field that selects nothing: fm.never.
Dead(s) == \E i \in 0..5 : ~s[i].any /\ s[i].values = {}

\* Sunday is 0 and 7.
DowMatches(f, v) == Matches(f, v) \/ (v = 0 /\ Matches(f, DaysPerWeek))

\* stepInterval: the first stepped field gives the unit.
Unit == [i \in 0..4 |-> CASE i = 0 -> 1
                          [] i = 1 -> SecondsPerMinute
                          [] i = 2 -> Hour
                          [] i = 3 -> Day
                          [] i = 4 -> StepMonth * Day]
Interval(s) ==
    LET stepped == {i \in 0..4 : s[i].step > 0} IN
    IF stepped = {} THEN 0 ELSE s[Min(stepped)].step * Unit[Min(stepped)]

\* CronFieldRange
Low(i) == IF i \in {3, 4} THEN 1 ELSE 0
High(i) == CASE i = 0 -> SecondsPerMinute - 1
             [] i = 1 -> MinutesPerHour - 1
             [] i = 2 -> HoursPerDay - 1
             [] i = 3 -> LongestMonth
             [] i = 4 -> Len(MonthDays)
             [] i = 5 -> DaysPerWeek

\* What ValidateSchedule lets through.
ValidPart(p, low, high) ==
    /\ p = Part(p.base, p.lo, p.hi, p.step) /\ p.step \in 0..high - low + 1
    /\ \/ p.base = "*"
       \/ p.base = "value" /\ p.lo \in low..high
       \/ p.base = "range" /\ p.lo \in low..high /\ p.hi \in p.lo..high
\* Of a list with a range the step is that of its last part; the order of a
\* list is not modelled.
ValidField(f, low, high) ==
    \/ f = Star
    \/ /\ f = [Field(f.parts, low, high) EXCEPT !.step = f.step]
       /\ \/ f.step = Field(f.parts, low, high).step
          \/ \E p, q \in f.parts : p.base = "range" /\ f.step = q.step
       /\ \A p \in f.parts : ValidPart(p, low, high)

ASSUME ScheduleAssumption ==
    \A c \in DOMAIN Schedules : \A i \in 0..5 : ValidField(Schedules[c][i], Low(i), High(i))

\* The searches of an instance stay in its calendar, and no limit on iterations
\* is below a few for each day of the lookahead.
ASSUME HorizonAssumption ==
    /\ LastAfter \in Nat /\ Afters \subseteq 0..LastAfter
    /\ Anchors \subseteq {None} \cup 0..LastAfter /\ None \in Anchors
    /\ Years > 4 /\ LastAfter + 1 + Max({OffsetBefore, OffsetAfter}) < FirstOf(Years - 3, 1)
    /\ \A c \in DOMAIN Schedules : LastAfter + Interval(Schedules[c]) \in Time

ASSUME IterationAssumption ==
    \A y \in 1..Years - 4 :
        6 * (DayNumber[<<y + 4, 1, 1>>] - DayNumber[<<y, 1, 1>>] + 1) < MaxIterations

-----------------------------------------------------------------------------
VARIABLES
    pc,         \* "start", "search" or "done"
    chosen, anchor,  \* the schedule is Schedules[chosen]
    after,
    current, limit, iterations,   \* of the search
    result

searchVars == <<current, limit, iterations>>
vars == <<pc, chosen, anchor, after, searchVars, result>>

schedule == Schedules[chosen]

Init ==
    /\ pc = "start"
    /\ chosen \in DOMAIN Schedules
    /\ anchor \in IF Interval(schedule) > 0 THEN Anchors ELSE {None}
    /\ after \in Afters
    /\ current = 0 /\ limit = 0 /\ iterations = 0
    /\ result = None

\* The multiple of the interval, counted from the anchor, that follows `after`.
Candidate ==
    LET interval == Interval(schedule) IN
    IF anchor > after THEN anchor
    ELSE anchor + ((after - anchor) \div interval + 1) * interval

\* Compiled.matches: both the day and the weekday have to match.
MatchesAll(t) ==
    LET now == Fields(t) IN
    /\ \A i \in 0..4 : Matches(schedule[i], now[i])
    /\ DowMatches(schedule[5], now[5])

\* The day rule of the search: either of the two when both are given.
DayMatches ==
    LET now == Fields(current)
        day == Matches(schedule[3], now[3])
        dow == DowMatches(schedule[5], now[5])
    IN  IF ~schedule[3].any /\ ~schedule[5].any THEN day \/ dow
        ELSE (schedule[3].any \/ day) /\ (schedule[5].any \/ dow)

Shows(i) == Matches(schedule[i], Fields(current)[i])

\* The values of field i that are still to come before it wraps.
Later(i) == {v \in schedule[i].values : v > Fields(current)[i]}

Searching == pc = "search" /\ current < limit /\ iterations < MaxIterations

\* current = time.Date(...) and `continue`
Skip(w) ==
    /\ current' \in TimesOf(w)
    /\ iterations' = iterations + 1
    /\ UNCHANGED <<pc, chosen, anchor, after, limit, result>>

StartOf(unit, t) == Wall(t) - (Wall(t) % unit)

-----------------------------------------------------------------------------
(* Seeded faults: variants of the definitions below with a plausible mistake,
   to show that the properties notice it. *)

\* The search begins at `after` itself.
StartSearchAtAfter ==
    /\ pc = "start" /\ ~Dead(schedule)
    /\ anchor # None => ~MatchesAll(Candidate)
    /\ current' = after
    /\ limit' \in TwoYearsLater(after)
    /\ iterations' = 0
    /\ pc' = "search"
    /\ UNCHANGED <<chosen, anchor, after, result>>

\* The candidate is not held against the fields.
AnchoredUnchecked ==
    /\ pc = "start" /\ anchor # None /\ ~Dead(schedule)
    /\ result' = Candidate
    /\ pc' = "done"
    /\ UNCHANGED <<chosen, anchor, after, searchVars>>

\* The next day begins at the time of day of this one.
SkipDayKeepingTime ==
    /\ Searching /\ Shows(4) /\ ~DayMatches
    /\ Skip(Wall(current) + Day)

\* The result of an earlier call is kept.
AgainKeeping ==
    /\ pc = "done" /\ result # Never /\ result <= LastAfter
    /\ after' = result
    /\ pc' = "start"
    /\ UNCHANGED <<chosen, anchor, searchVars, result>>

-----------------------------------------------------------------------------
(* NextFromAnchor *)

Anchored ==
    /\ pc = "start" /\ anchor # None /\ ~Dead(schedule)
    /\ MatchesAll(Candidate)
    /\ result' = Candidate
    /\ pc' = "done"
    /\ UNCHANGED <<chosen, anchor, after, searchVars>>

Dies ==
    /\ pc = "start" /\ Dead(schedule)
    /\ result' = Never
    /\ pc' = "done"
    /\ UNCHANGED <<chosen, anchor, after, searchVars>>

StartSearch ==
    /\ pc = "start" /\ ~Dead(schedule)
    /\ anchor # None => ~MatchesAll(Candidate)
    /\ current' = after + 1
    /\ limit' \in TwoYearsLater(after + 1)
    /\ iterations' = 0
    /\ pc' = "search"
    /\ UNCHANGED <<chosen, anchor, after, result>>

-----------------------------------------------------------------------------
(* nextRunTime: one action per `continue` *)

SkipMonth ==
    /\ Searching /\ ~Shows(4)
    /\ LET year == DateOf[Wall(current) \div Day][1] IN
       Skip(IF Later(4) = {} THEN FirstOf(year + 1, Min(schedule[4].values))
            ELSE FirstOf(year, Min(Later(4))))

SkipDay ==
    /\ Searching /\ Shows(4) /\ ~DayMatches
    /\ Skip(StartOf(Day, current) + Day)

SkipHour ==
    /\ Searching /\ Shows(4) /\ DayMatches /\ ~Shows(2)
    /\ Skip(StartOf(Day, current)
            + IF Later(2) = {} THEN Day + Hour * Min(schedule[2].values)
              ELSE Hour * Min(Later(2)))

\* The carry into the next hour is added to the time, not to the clock.
SkipMinute ==
    /\ Searching /\ Shows(4) /\ DayMatches /\ Shows(2) /\ ~Shows(1)
    /\ IF Later(1) = {}
       THEN Skip(StartOf(Hour, current + (MinutesPerHour - Fields(current)[1]) * SecondsPerMinute))
       ELSE Skip(StartOf(Hour, current) + Min(Later(1)) * SecondsPerMinute)

SkipSecond ==
    /\ Searching /\ Shows(4) /\ DayMatches /\ Shows(2) /\ Shows(1) /\ ~Shows(0)
    /\ IF Later(0) = {}
       THEN Skip(StartOf(SecondsPerMinute, current + (SecondsPerMinute - Fields(current)[0])))
       ELSE Skip(StartOf(SecondsPerMinute, current) + Min(Later(0)))

Found ==
    /\ Searching /\ DayMatches /\ \A i \in {0, 1, 2, 4} : Shows(i)
    /\ result' = current
    /\ pc' = "done"
    /\ UNCHANGED <<chosen, anchor, after, searchVars>>

GiveUp ==
    /\ pc = "search" /\ (current >= limit \/ iterations >= MaxIterations)
    /\ result' = Never
    /\ pc' = "done"
    /\ UNCHANGED <<chosen, anchor, after, searchVars>>

\* The next call, from the time found.
Again ==
    /\ pc = "done" /\ result # Never /\ result <= LastAfter
    /\ after' = result
    /\ result' = None
    /\ pc' = "start"
    /\ UNCHANGED <<chosen, anchor, searchVars>>

Next ==
    \/ Anchored \/ Dies \/ StartSearch
    \/ SkipMonth \/ SkipDay \/ SkipHour \/ SkipMinute \/ SkipSecond \/ Found \/ GiveUp
    \/ Again

Spec == Init /\ [][Next]_vars

-----------------------------------------------------------------------------
(* Properties *)

\* The meaning of a schedule in crontab(5): every field, but only one of day
\* and weekday when both are restricted; 7 is Sunday.
Selected(t) ==
    LET now == Fields(t)
        day == schedule[3].any \/ now[3] \in schedule[3].values
        dow == schedule[5].any
               \/ \E v \in schedule[5].values : v % DaysPerWeek = now[5]
    IN  /\ \A i \in {0, 1, 2, 4} : schedule[i].any \/ now[i] \in schedule[i].values
        /\ IF schedule[3].any \/ schedule[5].any THEN day /\ dow ELSE day \/ dow

\* Every variable has its type; a search keeps within its lookahead.
TypeOK ==
    /\ pc \in {"start", "search", "done"}
    /\ chosen \in DOMAIN Schedules /\ anchor \in Anchors
    /\ after \in Time /\ current \in Time /\ limit \in Time
    /\ iterations \in 0..MaxIterations
    /\ result \in Time \cup {None, Never}
    /\ pc = "done" <=> result # None

\* The search skips no time that the schedule selects, whichever fields it
\* skips by and wherever they wrap (cron.go:174-256).
NothingSkipped ==
    pc = "search" => \A t \in after + 1..current - 1 : ~Selected(t)

\* Next and NextFromAnchor return a time after `after` that the schedule
\* selects (cron.go:87-124, 142).
ResultIsLater ==
    pc = "done" /\ result # Never => result > after /\ Selected(result)

\* A day or weekday that is a list of "*" alone counts as unparsable, and the
\* schedule as one that never runs, although the other of the two selects days
\* (cron.go:79-81, 288-293).
HalfDead ==
    /\ ~schedule[3].any /\ ~schedule[5].any
    /\ (schedule[3].values = {}) # (schedule[5].values = {})

\* They return the zero time only if nothing is selected for two years, so the
\* limit on iterations is out of reach of a search (cron.go:152-156, 167-172).
NeverForTwoYears ==
    pc = "done" /\ result = Never /\ ~HalfDead =>
        \A t \in after + 1..Min(TwoYearsLater(after + 1)) - 1 : ~Selected(t)

\* So a result is right, be it a time or the zero time (cron.go:87-124, 158-262).
ResultIsRight == ResultIsLater /\ NeverForTwoYears

\* With an anchor the result is the first multiple of the interval after
\* `after`, if every field matches it, the stepped one included; otherwise the
\* search decides and the anchor has no say (cron.go:117-123).
AnchorDecides ==
    LET onGrid(t) == t >= anchor /\ (t - anchor) % Interval(schedule) = 0
        between == after + 1..result - 1
    IN  pc = "done" /\ anchor # None /\ result \in Time =>
            \/ /\ onGrid(result) /\ MatchesAll(result)
               /\ \A t \in between : ~onGrid(t)
            \/ \A t \in between : ~Selected(t)

-----------------------------------------------------------------------------
(* Claims of comments that the code does not keep *)

\* The zero time means that no later time is selected at all: cron.go:87, "or
\* the zero time when the expression can never match".
NeverMeansNever ==
    pc = "done" /\ result = Never => \A t \in Time : t > after => ~Selected(t)

\* The step is counted from the anchor, and the candidate held against the other
\* fields only: README.md:149-151, an anchor at 08:00 gives "*/3" hours the runs
\* "at 11:00, 14:00, 17:00"; cron.go:117, "checked against the other fields".
AnchorKept ==
    LET stepped == Min({i \in 0..4 : schedule[i].step > 0})
        now == Fields(Candidate)
    IN  /\ pc = "done" /\ anchor # None
        /\ \A i \in (0..4) \ {stepped} : Matches(schedule[i], now[i])
        /\ DowMatches(schedule[5], now[5])
        => result = Candidate

=============================================================================
