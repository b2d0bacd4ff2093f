------------------------------- MODULE CronPage -------------------------------
(***************************************************************************)
(* The runs that the web page predicts (cron.js, and updateNextRuns of      *)
(* app.js), beside those that the daemon finds.                             *)
(*                                                                         *)
(* The page reads and searches a schedule with code of its own.  Here it    *)
(* predicts the next runs from a moment `now`, and then the daemon          *)
(* (CronNext) finds one run after the other from that moment on.  The       *)
(* browser's clock is taken to show the zone of the server.                 *)
(***************************************************************************)
EXTENDS CronNext

CONSTANTS
    Count,          \* runs predicted: 5 in the code
    PageDays,       \* lookahead of the page: 4 * 365 days
    PageIterations  \* bound of its search: 100000

ASSUME PageAssumption == {Count, PageDays, PageIterations} \subseteq Nat \ {0}

VARIABLES
    page,            \* "open", "grid", "fallback", "search", "done" or "thrown"
    now, runs,       \* of the prediction: from when, results
    cur, maxCheck, turns \* of nextRunTimeAfter

pageVars == <<page, now, runs, cur, maxCheck, turns>>
allVars == <<vars, pageVars>>

PageInit ==
    /\ Init
    /\ page = "open" /\ now = after /\ runs = <<>>
    /\ cur = 0 /\ maxCheck = 0 /\ turns = 0

-----------------------------------------------------------------------------
(* cron.js: the fields of a schedule *)

\* matchField reads the text of a field anew: here a "*" among other parts
\* matches everything.
matchField(v, f) ==
    f.any \/ \E p \in f.parts :
        CASE p.base = "*" -> p.step > 0 => (v - f.low) % p.step = 0
          [] p.base = "range" -> v \in p.lo..p.hi /\ (p.step > 0 => (v - p.lo) % p.step = 0)
          [] p.base = "value" -> IF p.step = 0 THEN v = p.lo ELSE v >= p.lo /\ (v - p.lo) % p.step = 0

\* "a/b" runs to the largest value; a "*" among other parts is no number.
parseFieldValues(f) ==
    LET valuesOf(p) ==
            LET from == IF p.base = "*" THEN f.low ELSE p.lo
                to == IF p.base = "range" THEN p.hi ELSE IF p.step = 0 THEN p.lo ELSE f.high
            IN  IF p.base = "*" /\ p.step = 0 THEN {}
                ELSE {v \in from..to : p.step > 0 => (v - from) % p.step = 0}
    IN  UNION {valuesOf(p) : p \in f.parts}

fieldMatches(f, v) == f.any \/ v \in parseFieldValues(f)

\* fieldNextAfter and fieldMin, the value that comes after the wrap.
fieldAfter(f, v) == {x \in parseFieldValues(f) : x > v}
fieldMin(f) == Min(parseFieldValues(f))

\* fieldNextAfter of a field without values is undefined: the time becomes
\* invalid and the search ends.  It is never asked for a day or a weekday, which
\* without values match no date.
NoValues == \E i \in {0, 1, 2, 4} : ~schedule[i].any /\ parseFieldValues(schedule[i]) = {}

\* _getStep: of a field that is "*/N" and nothing else
getStep(f) ==
    IF \E p \in f.parts : f.parts = {p} /\ p.base = "*" THEN (CHOOSE p \in f.parts : TRUE).step ELSE 0

\* The interval is that of the largest unit, and never of months.
IntervalShown(s) ==
    LET stepped == {i \in 0..3 : getStep(s[i]) > 0} IN
    IF stepped = {} THEN 0 ELSE getStep(s[Max(stepped)]) * Unit[Max(stepped)]
PageInterval == IntervalShown(schedule)

\* The searches of the page stay in the calendar, too.
ASSUME PageHorizonAssumption ==
    \A c \in DOMAIN Schedules :
        LastAfter + IntervalShown(Schedules[c]) + 1 + PageDays * Day + Max({OffsetBefore, OffsetAfter})
            < FirstOf(Years, 1)

matchCron6(t) ==
    LET at == Fields(t)
        day == matchField(at[3], schedule[3])
        dow == matchField(at[5], schedule[5])
               \/ (at[5] = 0 /\ ~schedule[5].any /\ matchField(DaysPerWeek, schedule[5]))
    IN  /\ \A i \in {0, 1, 2, 4} : matchField(at[i], schedule[i])
        /\ IF ~schedule[3].any /\ ~schedule[5].any THEN day \/ dow ELSE day /\ dow

-----------------------------------------------------------------------------
(* cron.js: nextRunTimeAfter *)

\* new Date(...) with parts of a clock: of two times it shows the first, a
\* clock that is skipped is read with the offset before.
date(w) ==
    IF Wall(w - OffsetBefore) # w /\ Wall(w - OffsetAfter) = w THEN w - OffsetAfter ELSE w - OffsetBefore

searchFrom(t, as) ==
    /\ page' = as
    /\ cur' = t + 1 /\ maxCheck' = t + 1 + PageDays * Day /\ turns' = 0

PageSearching ==
    /\ page \in {"fallback", "search"} /\ ~NoValues
    /\ cur < maxCheck /\ turns < PageIterations

Is(i) == fieldMatches(schedule[i], Fields(cur)[i])

DayIs ==
    LET dow == Is(5) \/ (Fields(cur)[5] = 0 /\ fieldMatches(schedule[5], DaysPerWeek)) IN
    IF ~schedule[3].any /\ ~schedule[5].any THEN Is(3) \/ dow ELSE Is(3) /\ dow

\* cur = new Date(...) and `continue`
moveTo(w) ==
    /\ cur' = date(w) /\ turns' = turns + 1
    /\ UNCHANGED <<vars, page, now, runs, maxCheck>>

-----------------------------------------------------------------------------
(* Seeded faults: variants of the definitions below with a plausible mistake, *)
(* to show that the properties notice it.                                     *)

\* A base in the future is left out, its first multiple taken.
FirstMultipleAfterBase ==
    anchor + ((IF anchor > now THEN 0 ELSE (now - anchor) \div PageInterval) + 1) * PageInterval

-----------------------------------------------------------------------------
PageMonth ==
    /\ PageSearching /\ ~Is(4)
    /\ LET year == DateOf[Wall(cur) \div Day][1]
           later == fieldAfter(schedule[4], Fields(cur)[4])
       IN  moveTo(IF later = {} THEN FirstOf(year + 1, fieldMin(schedule[4])) ELSE FirstOf(year, Min(later)))

PageDay ==
    /\ PageSearching /\ Is(4) /\ ~DayIs
    /\ moveTo(StartOf(Day, cur) + Day)

PageHour ==
    /\ PageSearching /\ Is(4) /\ DayIs /\ ~Is(2)
    /\ LET later == fieldAfter(schedule[2], Fields(cur)[2]) IN
       moveTo(StartOf(Day, cur) + IF later = {} THEN Day + Hour * fieldMin(schedule[2]) ELSE Hour * Min(later))

\* The next hour or minute is counted on the clock.
PageMinute ==
    /\ PageSearching /\ Is(4) /\ DayIs /\ Is(2) /\ ~Is(1)
    /\ LET later == fieldAfter(schedule[1], Fields(cur)[1]) IN
       moveTo(StartOf(Hour, cur)
              + IF later = {} THEN Hour + fieldMin(schedule[1]) * SecondsPerMinute
                ELSE Min(later) * SecondsPerMinute)

PageSecond ==
    /\ PageSearching /\ Is(4) /\ DayIs /\ Is(2) /\ Is(1) /\ ~Is(0)
    /\ LET later == fieldAfter(schedule[0], Fields(cur)[0]) IN
       moveTo(StartOf(SecondsPerMinute, cur)
              + IF later = {} THEN SecondsPerMinute + fieldMin(schedule[0]) ELSE Min(later))

-----------------------------------------------------------------------------
(* cron.js: getNextRunTimes and getNextRunTimesFromBase *)

\* The multiple after now, or a base in the future itself.
FirstMultiple ==
    IF anchor > now THEN anchor ELSE anchor + ((now - anchor) \div PageInterval + 1) * PageInterval
Multiple == FirstMultiple + Len(runs) * PageInterval

Predict ==
    /\ page = "open"
    /\ IF anchor # None /\ PageInterval > 0
       THEN page' = "grid" /\ UNCHANGED <<cur, maxCheck, turns>>
       ELSE searchFrom(now, "search")
    /\ UNCHANGED <<vars, now, runs>>

TakeMultiple ==
    /\ page = "grid" /\ matchCron6(Multiple)
    /\ runs' = Append(runs, Multiple)
    /\ page' = IF Len(runs') = Count \/ Multiple > LastAfter THEN "done" ELSE "grid"
    /\ UNCHANGED <<vars, now, cur, maxCheck, turns>>

\* From the first multiple that does not match on, the search alone goes on.
LeaveGrid ==
    /\ page = "grid" /\ ~matchCron6(Multiple)
    /\ searchFrom(IF runs = <<>> THEN Multiple - 1 ELSE runs[Len(runs)], "fallback")
    /\ UNCHANGED <<vars, now, runs>>

\* The run after the grid is not given twice.
PageFound ==
    /\ PageSearching /\ DayIs /\ \A i \in {0, 1, 2, 4} : Is(i)
    /\ runs' = IF page = "fallback" /\ runs # <<>> /\ cur = runs[Len(runs)] THEN runs ELSE Append(runs, cur)
    /\ IF Len(runs') = Count \/ cur > LastAfter
       THEN page' = "done" /\ UNCHANGED <<cur, maxCheck, turns>>
       ELSE searchFrom(cur, "search")
    /\ UNCHANGED <<vars, now>>

\* After a fallback without a result the next search goes on from the last
\* result: without one it throws, and the page reports an error.
PageGivesUp ==
    /\ page \in {"fallback", "search"}
    /\ NoValues \/ cur >= maxCheck \/ turns >= PageIterations
    /\ page' = IF page = "fallback" /\ runs = <<>> THEN "thrown" ELSE "done"
    /\ UNCHANGED <<vars, now, runs, cur, maxCheck, turns>>

Daemon == page \in {"done", "thrown"} /\ Next /\ UNCHANGED pageVars

PageNext ==
    \/ Predict \/ TakeMultiple \/ LeaveGrid
    \/ PageMonth \/ PageDay \/ PageHour \/ PageMinute \/ PageSecond \/ PageFound \/ PageGivesUp
    \/ Daemon

PageSpec == PageInit /\ [][PageNext]_allVars

-----------------------------------------------------------------------------
(* Properties *)

Predicted == {runs[i] : i \in DOMAIN runs}
DaemonFound == pc = "done" /\ result # Never

\* matchField is lenient with a "*" that is one of several parts: it matches
\* everything, where the daemon and the page's own search take it for nothing.
NoBareStar == \A i \in 0..5 : \A p \in schedule[i].parts : p.base = "*" => p.step > 0

\* The page keeps to the multiples of the daemon's own interval; what it makes
\* of an anchor when one of them does not match, or when both day fields are
\* restricted, is its own.
OnDaemonsGrid ==
    /\ PageInterval = Interval(schedule) /\ maxCheck = 0
    /\ schedule[3].any \/ schedule[5].any
    /\ NoBareStar

\* The runs that the page predicts are the runs that the daemon finds, one
\* after the other and none in between, without an anchor and with one
\* (cron.js:158, "Equivalent to Go backend's NextRunTime function"; 314-377).
PredictionsCome ==
    (anchor = None \/ OnDaemonsGrid) /\ runs # <<>> /\ DaemonFound /\ result <= runs[Len(runs)] =>
        {t \in Predicted : t > after /\ t <= result} = {result}

\* Each prediction is later than the one before it and than now, and a time that
\* the schedule selects (cron.js:160-254, 358-407).
PredictedSelected ==
    \A i \in DOMAIN runs :
        /\ runs[i] > IF i = 1 THEN now ELSE runs[i - 1]
        /\ anchor = None \/ NoBareStar => Selected(runs[i])

\* Where the daemon finds nothing, the page, which looks further ahead, predicts
\* only what the daemon will find when it has come within two years
\* (cron.js:171, cron.go:166).
PredictionsWait ==
    pc = "done" /\ result = Never /\ ~HalfDead /\ (anchor = None \/ NoBareStar) =>
        \A t \in Predicted : t > after => t >= Min(TwoYearsLater(after + 1))

\* The predictions are the right ones, in number and in time.
PredictionsRight == PredictionsCome /\ PredictedSelected /\ PredictionsWait

-----------------------------------------------------------------------------
(* Claims of comments and the README that the code does not keep *)

\* What the page predicts comes, whatever the daemon's search gave up on:
\* cron.js:158, "Equivalent to Go backend's NextRunTime function".
PredictedNotLost ==
    pc = "done" /\ result = Never => \A t \in Predicted : t <= after

\* An anchored prediction is what the daemon does: README.md:149, "Subsequent
\* run times are calculated from anchor + N * interval".
AnchoredCome ==
    anchor # None /\ runs # <<>> /\ DaemonFound /\ result <= runs[Len(runs)] =>
        {t \in Predicted : t > after /\ t <= result} = {result}

\* A prediction ends without an error.
NeverThrown == page # "thrown"

=============================================================================
