------------------------------ MODULE MCCronNext ------------------------------
(* Instances of CronNext for TLC: two seconds to the minute, two minutes to   *)
(* the hour, three hours to the day, three days to the week, two months.      *)
EXTENDS CronNext

\* Lengths of the months: the second one has a day more in a leap year.
TwoMonths == <<2, 1>>

FieldOf(i, parts) == Field(parts, Low(i), High(i))
Every(i, n) == FieldOf(i, {Part("*", 0, 0, n)})
Only(i, v) == FieldOf(i, {Part("value", v, v, 0)})
From(i, v, n) == FieldOf(i, {Part("value", v, v, n)})
FromTo(i, low, high, n) == FieldOf(i, {Part("range", low, high, n)})
List(i, v, w) == FieldOf(i, {Part("value", v, v, 0), Part("value", w, w, 0)})
RangeAndFrom(i, low, high, v, n) ==
    [FieldOf(i, {Part("range", low, high, 0), Part("value", v, v, n)}) EXCEPT !.step = n]
StarInList(i) == FieldOf(i, {Part("*", 0, 0, 0)})
StarAnd(i, v) == FieldOf(i, {Part("*", 0, 0, 0), Part("value", v, v, 0)})

FieldsTried == <<
    <<Star, Every(0, 2)>>,
    <<Star, Only(1, 0), Only(1, 1)>>,
    <<Star, Every(2, 2), FromTo(2, 1, 2, 1), From(2, 1, 2), StarAnd(2, 1),
      RangeAndFrom(2, 0, 0, 2, 2)>>,
    <<Star, Only(3, 2), Every(3, 2), StarInList(3)>>,
    <<Star, Only(4, 1), Only(4, 2)>>,
    <<Star, Only(5, 0), Only(5, 3), List(5, 1, 3)>> >>

\* A schedule is named by the number of its choice in each field.
AllSchedules ==
    [c \in (1..2) \X (1..3) \X (1..6) \X (1..4) \X (1..3) \X (1..4) |->
        [i \in 0..5 |-> FieldsTried[i + 1][c[i + 1]]]]

\* "1 0 0 2 2 *": the leap day.
LeapDaySchedule ==
    [c \in {1} |-> [i \in 0..5 |-> CASE i = 0 -> Only(0, 1) [] i \in {1, 2} -> Only(i, 0)
                                      [] i \in {3, 4} -> Only(i, 2) [] i = 5 -> Star]]

\* Every second minute of every hour.
EveryHour ==
    [c \in {1} |-> [i \in 0..5 |-> CASE i = 0 -> Only(0, 0) [] i = 1 -> Only(1, 1) [] OTHER -> Star]]

\* "0 0 */2 * * *" in days of four hours, counted from one o'clock.
EveryTwoHours ==
    [c \in {1} |-> [i \in 0..5 |-> CASE i \in {0, 1} -> Only(i, 0) [] i = 2 -> Every(2, 2) [] OTHER -> Star]]
OneOClock == {-1, 4}

\* "0 0 0 *,* * 2": the page takes the list of "*" for no day at all, and goes by
\* the weekday.
StarsOnly ==
    [c \in {1} |-> [i \in 0..5 |-> CASE i \in 0..2 -> Only(i, 0) [] i = 3 -> StarInList(3)
                                      [] i = 4 -> Star [] i = 5 -> Only(5, 2)]]

NoAnchor == {-1}
SomeAnchors == {-1, 5, 40}

=============================================================================
