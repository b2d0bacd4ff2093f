----------------------------- MODULE CronProofs -----------------------------
(***************************************************************************)
(* For every calendar, every schedule that ValidateSchedule lets through    *)
(* and every anchor, as long as the clock is not changed: a search skips no *)
(* selected time, ends before its limit, and what it finds is right; and    *)
(* what the page predicts are the runs that the daemon finds.               *)
(*                                                                         *)
(* The search is about a time, its skips are about the fields of a clock.   *)
(* First the calendar: the number of a day keeps the order of the dates     *)
(* (DayNumberOrder), so a time shows the date that its day has (ClockAt).   *)
(* Then the jumps: MonthJump, DayJump, LaterJump and WrapJump say that a    *)
(* search goes forward and over times only that one field rejects.  Then    *)
(* the number of jumps: each lowers the Rank of the time or goes to another *)
(* day, so SearchInv counts six to a day, and TwoYearsIs and StartIs bound  *)
(* the days.  The page searches by the same jumps, from a reading of the    *)
(* fields that comes to the same (PageReads, PageMatches); PInv says which  *)
(* times its runs so far are all of.                                       *)
(***************************************************************************)
EXTENDS CronPage, FiniteSetTheorems, WellFoundedInduction, TLAPS

\* The clock is not changed.
SteadyClock == OffsetBefore = OffsetAfter

-----------------------------------------------------------------------------
(* Division *)

LEMMA Product ==
    ASSUME NEW a \in Nat, NEW b \in Nat
    PROVE  a * b \in Nat /\ (a > 0 /\ b > 0 => a * b > 0) /\ (a > 0 => b <= a * b)
OBVIOUS

\* A larger factor makes the product larger by the other factor at least.
LEMMA ProductGrows ==
    ASSUME NEW a \in Nat, NEW q \in Int, NEW r \in Int, q < r
    PROVE  a * q + a <= a * r
<1>1. a * (r - q) >= a
  <2>1. r - q - 1 \in Nat
    OBVIOUS
  <2>2. a * (r - q - 1) \in Nat
    BY <2>1, Product
  <2>3. a * (r - q) = a * (r - q - 1) + a
    OBVIOUS
  <2> QED
    BY <2>2, <2>3
<1>2. a * r = a * (r - q) + a * q
  OBVIOUS
<1> QED
  BY <1>1, <1>2

LEMMA ProductKeepsOrder ==
    ASSUME NEW a \in Nat, NEW q \in Int, NEW r \in Int, q <= r
    PROVE  a * q <= a * r
<1>1. CASE q = r
  BY <1>1
<1>2. CASE q < r
  <2>1. a * q + a <= a * r
    BY <1>2, ProductGrows
  <2>2. a * q \in Int /\ a * r \in Int
    OBVIOUS
  <2> QED
    BY <2>1, <2>2
<1> QED
  BY <1>1, <1>2

LEMMA Division ==
    ASSUME NEW x \in Nat, NEW b \in Nat \ {0}
    PROVE  x \div b \in Nat /\ x % b \in 0..b - 1 /\ x = b * (x \div b) + (x % b)
OBVIOUS

\* Quotient and remainder are the only ones.
LEMMA Quotient ==
    ASSUME NEW b \in Nat \ {0}, NEW q \in Nat, NEW r \in 0..b - 1
    PROVE  b * q + r \in Nat /\ (b * q + r) \div b = q /\ (b * q + r) % b = r
<1> DEFINE x == b * q + r
           d == x \div b
<1>1. b * q \in Nat /\ x \in Nat
  BY Product
<1>2. d \in Nat /\ x % b \in 0..b - 1 /\ x = b * d + (x % b)
  BY <1>1, Division
<1>3. b * d \in Nat
  BY <1>2, Product
<1>4. d = q
  <2>1. CASE d < q
    <3>1. b * d + b <= b * q
      BY <2>1, <1>2, ProductGrows
    <3> HIDE DEF d
    <3> QED
      BY <3>1, <1>1, <1>2, <1>3
  <2>2. CASE q < d
    <3>1. b * q + b <= b * d
      BY <2>2, <1>2, ProductGrows
    <3> HIDE DEF d
    <3> QED
      BY <3>1, <1>1, <1>2, <1>3
  <2> QED
    BY <1>2, <2>1, <2>2
<1> QED
  BY <1>1, <1>2, <1>4

\* A number in a block of b numbers.
LEMMA InBlock ==
    ASSUME NEW b \in Nat \ {0}, NEW q \in Nat, NEW x \in Nat, b * q <= x, x < b * (q + 1)
    PROVE  x \div b = q /\ x % b = x - b * q
<1> DEFINE r == x - b * q
<1>1. b * q \in Nat /\ b * (q + 1) = b * q + b
  BY Product
<1>2. r \in 0..b - 1 /\ x = b * q + r
  BY <1>1
<1> HIDE DEF r
<1>3. (b * q + r) \div b = q /\ (b * q + r) % b = r
  BY <1>2, Quotient
<1> QED
  BY <1>2, <1>3 DEF r

LEMMA DivisionKeepsOrder ==
    ASSUME NEW b \in Nat \ {0}, NEW x \in Nat, NEW y \in Nat, x <= y
    PROVE  x \div b <= y \div b
<1> DEFINE q == x \div b
           r == y \div b
<1>1. q \in Nat /\ x >= b * q /\ r \in Nat /\ y < b * r + b /\ b * q \in Nat /\ b * r \in Nat
  BY Division, Product
<1> HIDE DEF q, r
<1>2. ASSUME r < q PROVE FALSE
  <2>1. b * r + b <= b * q
    BY <1>1, <1>2, ProductGrows
  <2> QED
    BY <1>1, <2>1
<1>3. q <= r
  BY <1>1, <1>2
<1> QED
  BY <1>3 DEF q, r

\* Before a multiple of b the quotient is smaller.
LEMMA BeforeBlock ==
    ASSUME NEW b \in Nat \ {0}, NEW q \in Nat, NEW x \in Nat
    PROVE  x < b * q <=> x \div b < q
<1> DEFINE d == x \div b
<1>1. d \in Nat /\ x >= b * d /\ x < b * d + b /\ b * d \in Nat /\ b * q \in Nat
  BY Division, Product
<1> HIDE DEF d
<1>2. CASE d < q
  <2>1. b * d + b <= b * q
    BY <1>1, <1>2, ProductGrows
  <2> QED
    BY <1>1, <1>2, <2>1 DEF d
<1>3. CASE q <= d
  <2>1. b * q <= b * d
    BY <1>1, <1>3, ProductKeepsOrder
  <2> QED
    BY <1>1, <1>3, <2>1 DEF d
<1> QED
  BY <1>1, <1>2, <1>3

\* Division by a product, in two steps.
LEMMA TwoSteps ==
    ASSUME NEW b \in Nat \ {0}, NEW c \in Nat \ {0}, NEW x \in Nat
    PROVE  /\ x \div (b * c) = (x \div b) \div c
           /\ x % (b * c) = b * ((x \div b) % c) + (x % b)
<1> DEFINE d == x \div b
           r == x % b
           e == d \div c
           s == d % c
<1>1. d \in Nat /\ r \in 0..b - 1 /\ x = b * d + r
  BY Division
<1> HIDE DEF d, r
<1>2. e \in Nat /\ s \in 0..c - 1 /\ d = c * e + s
  BY <1>1, Division
<1> HIDE DEF e, s
<1>3. b * c \in Nat \ {0} /\ b * s \in Nat /\ b * s + b <= b * c
  <2>1. s < c
    BY <1>2
  <2> QED
    BY <1>2, <2>1, Product, ProductGrows
<1>4. x = (b * c) * e + (b * s + r)
  BY <1>1, <1>2
<1>5. b * s + r \in 0..b * c - 1
  BY <1>1, <1>3
<1> DEFINE bc == b * c
           bsr == b * s + r
<1>6. bc \in Nat \ {0} /\ bsr \in 0..bc - 1 /\ x = bc * e + bsr
  BY <1>3, <1>4, <1>5
<1> HIDE DEF bc, bsr
<1>7. x \div bc = e /\ x % bc = bsr
  BY <1>2, <1>6, Quotient
<1> QED
  BY <1>7 DEF bc, bsr, d, r, e, s

-----------------------------------------------------------------------------
(* Counting *)

Less == OpToRel(<, Nat)

LEMMA NotBefore ==
    ASSUME NEW m \in Nat, NEW n \in Nat, <<m, n>> \notin Less
    PROVE  n <= m
BY SMT DEF Less, OpToRel

LEMMA LeastOf ==
    ASSUME NEW S \in SUBSET Nat, S # {}
    PROVE  \E m \in S : \A k \in S : m <= k
<1>1. IsWellFoundedOn(Less, Nat)
  BY NatLessThanWellFounded DEF Less
<1>2. PICK m \in S : \A k \in S : <<k, m>> \notin Less
  BY <1>1, WFMin
<1> QED
  BY <1>2, NotBefore

LEMMA MinIsLeast ==
    ASSUME NEW S \in SUBSET Nat, S # {}
    PROVE  Min(S) \in S /\ \A x \in S : Min(S) <= x
BY LeastOf DEF Min

LEMMA Counting ==
    ASSUME NEW N \in Nat, NEW S, 1 \in S, \A n \in 2..N : n - 1 \in S => n \in S
    PROVE  1..N \subseteq S
<1> SUFFICES ASSUME ~(1..N \subseteq S) PROVE FALSE
  OBVIOUS
<1>1. (1..N) \ S \in SUBSET Nat /\ (1..N) \ S # {}
  OBVIOUS
<1>2. PICK m \in (1..N) \ S : \A k \in (1..N) \ S : m <= k
  BY <1>1, LeastOf
<1>3. m \in 2..N /\ m - 1 \in 1..N /\ ~(m <= m - 1)
  BY <1>2
<1> QED
  BY <1>2, <1>3

-----------------------------------------------------------------------------
(* The calendar *)

LEMMA Units ==
    /\ {SecondsPerMinute, MinutesPerHour, HoursPerDay, DaysPerWeek, StepMonth, LeapEvery, Years,
        MaxIterations, Hour, Day} \subseteq Nat \ {0}
    /\ Len(MonthDays) \in Nat \ {0} /\ Months = 1..Len(MonthDays)
    /\ \A m \in Months : MonthDays[m] \in Nat \ {0}
<1>1. Hour \in Nat \ {0}
  BY CalendarAssumption, Product DEF Hour
<1>2. Day \in Nat \ {0}
  BY CalendarAssumption, <1>1, Product DEF Day
<1> QED
  BY CalendarAssumption, <1>1, <1>2 DEF Months

\* The days of a month in a leap year, if it is longer then.
Longest(m) == MonthDays[m] + (IF m = 2 THEN 1 ELSE 0)

LEMMA LongestMonthIsLongest ==
    LongestMonth \in Nat \ {0} /\ \A m \in Months : Longest(m) <= LongestMonth
<1> DEFINE S == {n \in Months : \E m \in 1..n : \A k \in 1..n : Longest(k) <= Longest(m)}
<1>0. \A m \in Months : Longest(m) \in Nat \ {0}
  BY Units DEF Longest
<1>1. 1 \in S
  BY Units, <1>0
<1>2. ASSUME NEW n \in 2..Len(MonthDays), n - 1 \in S PROVE n \in S
  <2>1. PICK m \in 1..n - 1 : \A k \in 1..n - 1 : Longest(k) <= Longest(m)
    BY <1>2
  <2>2. n \in Months /\ m \in Months /\ Longest(n) \in Nat /\ Longest(m) \in Nat
    BY Units, <1>0
  <2>3. CASE Longest(n) <= Longest(m)
    <3>1. m \in 1..n /\ \A k \in 1..n : k = n \/ k \in 1..n - 1
      OBVIOUS
    <3>2. \A k \in 1..n : Longest(k) <= Longest(m)
      BY <2>1, <2>3, <3>1
    <3> QED
      BY <2>2, <3>1, <3>2
  <2>4. CASE Longest(m) < Longest(n)
    <3>1. \A k \in 1..n : Longest(k) <= Longest(n)
      <4> SUFFICES ASSUME NEW k \in 1..n PROVE Longest(k) <= Longest(n)
        OBVIOUS
      <4>1. k \in Months /\ Longest(k) \in Nat
        BY Units, <1>0
      <4> QED
        BY <2>1, <2>2, <2>4, <4>1
    <3> QED
      BY <2>2, <3>1
  <2> QED
    BY <2>2, <2>3, <2>4
<1>3. Len(MonthDays) \in S
  <2>1. Len(MonthDays) \in Nat \ {0} /\ Len(MonthDays) \in 1..Len(MonthDays)
    BY Units
  <2> HIDE DEF S
  <2>2. 1..Len(MonthDays) \subseteq S
    BY <1>1, <1>2, <2>1, Counting
  <2> QED
    BY <2>1, <2>2
<1>4. PICK m \in Months : \A k \in Months : Longest(k) <= Longest(m)
  BY Units, <1>3
<1> DEFINE lengths == {Longest(k) : k \in Months}
<1>5. LongestMonth = CHOOSE x \in lengths : \A y \in lengths : x >= y
  BY DEF LongestMonth, Max, Longest
<1>6. \E x \in lengths : \A y \in lengths : x >= y
  BY <1>0, <1>4
<1>7. LongestMonth \in lengths /\ \A y \in lengths : LongestMonth >= y
  <2> HIDE DEF lengths
  <2> QED
    BY <1>5, <1>6
<1> QED
  BY <1>0, <1>7

IsDate(d) == d = <<d[1], d[2], d[3]>>

LEMMA DateType ==
    ASSUME NEW d \in Dates
    PROVE  /\ IsDate(d)
           /\ d[1] \in 1..Years /\ d[2] \in Months /\ d[3] \in 1..LongestMonth
           /\ d[3] <= MonthDays[d[2]] + LeapDay(d[1], d[2])
BY DEF Dates, IsDate

LEMMA DateParts ==
    ASSUME NEW d \in Dates
    PROVE  d[1] \in Nat /\ d[2] \in Nat /\ d[3] \in Nat /\ d[1] >= 1 /\ d[2] >= 1 /\ d[3] >= 1
<1>1. \A n \in Nat : \A x \in 1..n : x \in Nat /\ x >= 1
  OBVIOUS
<1>2. Years \in Nat /\ Len(MonthDays) \in Nat /\ Months = 1..Len(MonthDays) /\ LongestMonth \in Nat
  BY Units, LongestMonthIsLongest
<1>3. d[1] \in 1..Years /\ d[2] \in Months /\ d[3] \in 1..LongestMonth
  BY DateType
<1> QED
  BY <1>1, <1>2, <1>3

LEMMA DateIs ==
    ASSUME NEW y \in 1..Years, NEW m \in Months, NEW k \in 1..MonthDays[m]
    PROVE  <<y, m, k>> \in Dates
<1>1. MonthDays[m] \in Nat /\ LeapDay(y, m) \in Nat /\ MonthDays[m] <= LongestMonth
  BY Units, LongestMonthIsLongest, SMTT(30) DEF LeapDay, Longest
<1>2. k \in 1..LongestMonth /\ k <= MonthDays[m] + LeapDay(y, m)
  BY <1>1, LongestMonthIsLongest
<1> QED
  BY <1>2 DEF Dates

LEMMA DatesAreOrdered ==
    ASSUME NEW d \in Dates, NEW e \in Dates
    PROVE  /\ ~Earlier(d, d)
           /\ Earlier(d, e) \/ Earlier(e, d) \/ d = e
           /\ \A f \in Dates : Earlier(d, e) /\ Earlier(e, f) => Earlier(d, f)
<1>1. \A f \in Dates : f[1] \in Int /\ f[2] \in Int /\ f[3] \in Int /\ f = <<f[1], f[2], f[3]>>
  BY DateType, Units DEF IsDate
<1>2. d = e <=> d[1] = e[1] /\ d[2] = e[2] /\ d[3] = e[3]
  BY <1>1
<1> QED
  BY <1>1, <1>2 DEF Earlier

LEMMA DatesFinite == IsFiniteSet(Dates) /\ Cardinality(Dates) \in Nat
<1> DEFINE A == 1..Years
           B == 1..Len(MonthDays)
           C == 1..LongestMonth
           P == (A \X B) \X C
           f == [x \in P |-> <<x[1][1], x[1][2], x[2]>>]
           T == A \X B \X C
<1>1. IsFiniteSet(P)
  <2>1. IsFiniteSet(A) /\ IsFiniteSet(B) /\ IsFiniteSet(C)
    BY FS_Interval, Units, LongestMonthIsLongest
  <2> HIDE DEF A, B, C
  <2>2. IsFiniteSet(A \X B)
    BY <2>1, FS_Product
  <2> QED
    BY <2>1, <2>2, FS_Product
<1>2. f \in Surjection(P, T)
  <2>1. f \in [P -> T]
    OBVIOUS
  <2>2. ASSUME NEW t \in T PROVE \E x \in P : f[x] = t
    <3>1. <<<<t[1], t[2]>>, t[3]>> \in P /\ f[<<<<t[1], t[2]>>, t[3]>>] = t
      OBVIOUS
    <3> QED
      BY <3>1
  <2> HIDE DEF f, P, T
  <2> QED
    BY <2>1, <2>2 DEF Surjection
<1>3. IsFiniteSet(T)
  <2> HIDE DEF f, P, T
  <2> QED
    BY <1>1, <1>2, FS_Surjection
<1>4. Dates \subseteq T
  BY Units DEF Dates
<1> HIDE DEF T
<1> QED
  BY <1>3, <1>4, FS_Subset, FS_CardinalityType

\* The numbers of the days keep the order of their dates.
LEMMA DayNumberType ==
    ASSUME NEW d \in Dates
    PROVE  DayNumber[d] \in 0..Cardinality(Dates) - 1
<1> DEFINE before == {x \in Dates : Earlier(x, d)}
<1>1. before \in SUBSET Dates /\ before # Dates
  BY DatesAreOrdered
<1>2. DayNumber[d] = Cardinality(before)
  BY DEF DayNumber
<1> HIDE DEF before
<1>3. IsFiniteSet(before) /\ Cardinality(before) <= Cardinality(Dates) /\ Cardinality(before) # Cardinality(Dates)
  BY <1>1, DatesFinite, FS_Subset
<1>4. Cardinality(before) \in Nat
  BY <1>3, FS_CardinalityType
<1> QED
  BY <1>2, <1>3, <1>4, DatesFinite

LEMMA DayNumberGrows ==
    ASSUME NEW d \in Dates, NEW e \in Dates, Earlier(d, e)
    PROVE  DayNumber[d] < DayNumber[e]
<1> DEFINE S == {x \in Dates : Earlier(x, d)}
           T == {x \in Dates : Earlier(x, e)}
<1>1. T \in SUBSET Dates /\ S \in SUBSET T /\ S # T
  BY DatesAreOrdered
<1>2. DayNumber[d] = Cardinality(S) /\ DayNumber[e] = Cardinality(T)
  BY DEF DayNumber
<1> HIDE DEF S, T
<1>3. IsFiniteSet(T)
  BY <1>1, DatesFinite, FS_Subset
<1>4. Cardinality(S) <= Cardinality(T) /\ Cardinality(S) # Cardinality(T)
  BY <1>1, <1>3, FS_Subset
<1>5. DayNumber[d] \in Nat /\ DayNumber[e] \in Nat
  BY DayNumberType
<1> QED
  BY <1>2, <1>4, <1>5

LEMMA DayNumberOrder ==
    ASSUME NEW d \in Dates, NEW e \in Dates
    PROVE  /\ DayNumber[d] < DayNumber[e] <=> Earlier(d, e)
           /\ DayNumber[d] = DayNumber[e] => d = e
<1>1. DayNumber[d] \in Nat /\ DayNumber[e] \in Nat
  BY DayNumberType
<1>2. Earlier(d, e) \/ Earlier(e, d) \/ d = e
  BY DatesAreOrdered
<1> QED
  BY <1>1, <1>2, DayNumberGrows, DatesAreOrdered

\* Each number up to the last is that of a date.
LEMMA DateOfNumber ==
    ASSUME NEW n \in 0..Cardinality(Dates) - 1
    PROVE  DateOf[n] \in Dates /\ DayNumber[DateOf[n]] = n
<1> DEFINE T == 0..Cardinality(Dates) - 1
<1>1. DayNumber \in Injection(Dates, T)
  <2>1. DayNumber \in [Dates -> T]
    <3>1. DayNumber = [d \in Dates |-> DayNumber[d]]
      BY DEF DayNumber
    <3> QED
      BY <3>1, DayNumberType
  <2> HIDE DEF T
  <2> QED
    BY <2>1, DayNumberOrder DEF Injection, IsInjective
<1>2. IsFiniteSet(T) /\ Cardinality(T) = Cardinality(Dates)
  BY DatesFinite, FS_Interval
<1>3. DayNumber \in Surjection(Dates, T)
  <2> HIDE DEF T
  <2> QED
    BY <1>1, <1>2, FS_Injection
<1>4. \E d \in Dates : DayNumber[d] = n
  BY <1>3 DEF Surjection
<1> QED
  BY <1>4 DEF DateOf

LEMMA DateOfOrder ==
    ASSUME NEW m \in 0..Cardinality(Dates) - 1, NEW n \in 0..Cardinality(Dates) - 1
    PROVE  m < n <=> Earlier(DateOf[m], DateOf[n])
BY DateOfNumber, DayNumberOrder

-----------------------------------------------------------------------------
(* Skipping values of a field.  The field of a time x counts units of b       *)
(* seconds, c of them to a block: (x \div b) % c.                             *)

\* To the next value in the block.
LEMMA LaterValue ==
    ASSUME NEW b \in Nat \ {0}, NEW c \in Nat \ {0}, NEW V \in SUBSET (0..c - 1),
           NEW w \in Nat, (w \div b) % c \notin V,
           NEW q, q = (w \div b) \div c,
           NEW v \in V, v > (w \div b) % c, \A x \in V : x > (w \div b) % c => v <= x
    PROVE  /\ q \in Nat
           /\ w < b * (c * q + v)
           /\ \A x \in w..b * (c * q + v) - 1 : (x \div b) % c \notin V
<1> DEFINE d == w \div b
           u == d % c
<1>1. d \in Nat /\ q \in Nat /\ u \in 0..c - 1 /\ d = c * q + u
  BY Division
<1>4. v \in V /\ v > u /\ v \in 0..c - 1 /\ u \notin V /\ \A x \in V : x > u => v <= x
  OBVIOUS
<1> DEFINE n == c * q + v
<1>5. c * q \in Nat /\ n = c * q + v /\ n \in Nat /\ d < n /\ n < c * q + c
  BY <1>1, <1>4, Product
<1>6. w < b * n
  <2> HIDE DEF n
  <2> QED
    BY <1>5, BeforeBlock
<1>7. ASSUME NEW x \in w..b * n - 1 PROVE (x \div b) % c \notin V
  <2> DEFINE e == x \div b
  <2>1. x \in Nat /\ w <= x /\ x < b * n
    <3>1. b * n \in Nat
      BY <1>5, Product
    <3> HIDE DEF n
    <3> QED
      BY <1>7, <3>1
  <2>2. e \in Nat /\ d <= e /\ e < n
    <3> HIDE DEF n
    <3> QED
      BY <1>5, <2>1, Division, DivisionKeepsOrder, BeforeBlock
  <2> HIDE DEF e, d
  <2>3. c * q <= e /\ e < c * (q + 1)
    BY <1>1, <1>5, <2>2
  <2>4. e % c = e - c * q
    BY <1>1, <2>2, <2>3, InBlock
  <2> HIDE DEF n, u
  <2>5. u <= e % c /\ e % c < v /\ e % c \in Nat
    BY <1>1, <1>4, <1>5, <2>2, <2>3, <2>4
  <2>6. e % c \in V => e % c > u
    BY <1>1, <1>4, <2>5
  <2>7. ~(v <= e % c)
    BY <1>4, <2>5
  <2> QED
    BY <1>4, <2>6, <2>7 DEF e
<1> QED
  BY <1>1, <1>4, <1>6, <1>7

\* To the next block, or up to its first value z.
LEMMA WrappedValue ==
    ASSUME NEW b \in Nat \ {0}, NEW c \in Nat \ {0}, NEW V \in SUBSET (0..c - 1),
           NEW w \in Nat, (w \div b) % c \notin V,
           NEW later, later = {x \in V : x > (w \div b) % c}, later = {},
           NEW q, q = (w \div b) \div c,
           NEW z \in 0..c - 1, \A x \in V : z <= x
    PROVE  /\ q \in Nat
           /\ w < b * (c * (q + 1) + z)
           /\ \A x \in w..b * (c * (q + 1) + z) - 1 : (x \div b) % c \notin V
<1> DEFINE d == w \div b
           u == d % c
<1>1. d \in Nat /\ q \in Nat /\ u \in 0..c - 1 /\ d = c * q + u
  BY Division
<1>2. u \notin V /\ \A x \in V : x < u
  BY <1>1
<1> DEFINE n == c * (q + 1) + z
<1>5. c * q \in Nat /\ n = c * q + c + z /\ n \in Nat /\ d < n
  BY <1>1, Product
<1>6. w < b * n
  <2> HIDE DEF n
  <2> QED
    BY <1>5, BeforeBlock
<1>7. ASSUME NEW x \in w..b * n - 1 PROVE (x \div b) % c \notin V
  <2> DEFINE e == x \div b
  <2>1. x \in Nat /\ w <= x /\ x < b * n
    <3>1. b * n \in Nat
      BY <1>5, Product
    <3> HIDE DEF n
    <3> QED
      BY <1>7, <3>1
  <2>2. e \in Nat /\ d <= e /\ e < n
    <3> HIDE DEF n
    <3> QED
      BY <1>5, <2>1, Division, DivisionKeepsOrder, BeforeBlock
  <2> HIDE DEF e, d
  <2>3. CASE e < c * (q + 1)
    <3>1. c * q <= e
      BY <1>1, <1>5, <2>2
    <3>2. e % c = e - c * q
      BY <1>1, <2>2, <2>3, <3>1, InBlock
    <3>3. u <= e % c
      BY <1>1, <1>5, <2>2, <3>2
    <3> QED
      BY <1>1, <1>2, <2>2, <3>2, <3>3, <1>5 DEF e
  <2>4. CASE c * (q + 1) <= e
    <3>1. c * (q + 1) = c * q + c /\ c * (q + 1 + 1) = c * q + c + c
      BY <1>1
    <3>2. e < c * (q + 1 + 1)
      BY <1>5, <2>2, <3>1
    <3>3. e % c = e - c * (q + 1)
      <4>1. q + 1 \in Nat
        BY <1>1
      <4> QED
        BY <4>1, <2>2, <2>4, <3>2, InBlock
    <3>4. e % c < z
      BY <1>5, <2>2, <3>1, <3>3
    <3> QED
      BY <3>4, <2>2, <1>5, <3>1, <3>3 DEF e
  <2> QED
    BY <2>2, <2>3, <2>4, <1>5
<1> QED
  BY <1>1, <1>6, <1>7

-----------------------------------------------------------------------------
(* Times of the calendar and their fields *)

Walls == 0..Cardinality(Dates) * Day - 1
DateAt(w) == DateOf[w \div Day]

LEMMA WallDays ==
    ASSUME NEW w \in Nat
    PROVE  w \in Walls <=> w \div Day < Cardinality(Dates)
<1> DEFINE D == Cardinality(Dates)
<1>1. D \in Nat /\ Day \in Nat \ {0}
  BY DatesFinite, Units
<1>2. w < Day * D <=> w \div Day < D
  <2> HIDE DEF D
  <2> QED
    BY <1>1, BeforeBlock
<1>3. D * Day = Day * D /\ Day * D \in Nat
  <2> HIDE DEF D
  <2> QED
    BY <1>1, Product
<1> HIDE DEF D
<1>4. w \in 0..D * Day - 1 <=> w < Day * D
  BY <1>3
<1> QED
  BY <1>2, <1>4 DEF Walls, D

LEMMA WallsBefore ==
    ASSUME NEW v \in Walls, NEW x \in Nat, x <= v
    PROVE  v \in Nat /\ x \in Walls
BY DatesFinite, Units, Product DEF Walls

LEMMA ClockAt ==
    ASSUME NEW w \in Walls
    PROVE  /\ w \in Nat /\ w \div Day \in 0..Cardinality(Dates) - 1 /\ DateAt(w) \in Dates
           /\ Clock[w][0] = w % SecondsPerMinute
           /\ Clock[w][1] = (w \div SecondsPerMinute) % MinutesPerHour
           /\ Clock[w][2] = (w \div Hour) % HoursPerDay
           /\ Clock[w][3] = DateAt(w)[3]
           /\ Clock[w][4] = DateAt(w)[2]
           /\ Clock[w][5] = (w \div Day) % DaysPerWeek
<1>1. w \in Nat
  BY WallsBefore DEF Walls
<1>2. w \div Day \in 0..Cardinality(Dates) - 1
  <2>1. w \div Day < Cardinality(Dates) /\ w \div Day \in Nat
    BY <1>1, WallDays, Units, Division
  <2> QED
    BY <2>1, DatesFinite
<1>3. DateAt(w) \in Dates
  BY <1>2, DateOfNumber DEF DateAt
<1>4. Clock[w] = [i \in 0..5 |-> CASE i = 0 -> w % SecondsPerMinute
                      [] i = 1 -> (w \div SecondsPerMinute) % MinutesPerHour
                      [] i = 2 -> (w \div Hour) % HoursPerDay
                      [] i = 3 -> DateAt(w)[3]
                      [] i = 4 -> DateAt(w)[2]
                      [] i = 5 -> (w \div Day) % DaysPerWeek]
  BY DEF Clock, Walls, DateAt
<1> QED
  BY <1>1, <1>2, <1>3, <1>4

LEMMA ClockRange ==
    ASSUME NEW w \in Walls
    PROVE  /\ \A i \in 0..5 : Clock[w][i] \in Low(i)..High(i)
           /\ Clock[w][5] \in 0..DaysPerWeek - 1
<1> DEFINE a == w \div SecondsPerMinute
           b == w \div Hour
           c == w \div Day
<1>1. w \in Nat /\ a \in Nat /\ b \in Nat /\ c \in Nat
  BY ClockAt, Units, Division
<1> HIDE DEF a, b, c
<1>2. /\ w % SecondsPerMinute \in 0..SecondsPerMinute - 1
      /\ a % MinutesPerHour \in 0..MinutesPerHour - 1
      /\ b % HoursPerDay \in 0..HoursPerDay - 1
      /\ c % DaysPerWeek \in 0..DaysPerWeek - 1
  BY <1>1, Units, Division
<1>3. DateAt(w)[3] \in 1..LongestMonth /\ DateAt(w)[2] \in 1..Len(MonthDays)
  BY ClockAt, DateType, Units
<1>4. /\ Clock[w][0] \in 0..SecondsPerMinute - 1 /\ Clock[w][1] \in 0..MinutesPerHour - 1
      /\ Clock[w][2] \in 0..HoursPerDay - 1 /\ Clock[w][3] \in 1..LongestMonth
      /\ Clock[w][4] \in 1..Len(MonthDays) /\ Clock[w][5] \in 0..DaysPerWeek - 1
  BY <1>2, <1>3, ClockAt DEF a, b, c
<1>5. Clock[w][5] \in 0..DaysPerWeek
  <2>1. 0..DaysPerWeek - 1 \subseteq 0..DaysPerWeek
    BY Units
  <2> QED
    BY <1>4, <2>1
<1> QED
  BY <1>4, <1>5 DEF Low, High

\* Seconds, minutes, hours and days as quotients of each other.
LEMMA Nested ==
    ASSUME NEW w \in Nat
    PROVE  /\ w \div Hour = (w \div SecondsPerMinute) \div MinutesPerHour
           /\ w \div Day = (w \div Hour) \div HoursPerDay
           /\ w % Hour = SecondsPerMinute * ((w \div SecondsPerMinute) % MinutesPerHour) + (w % SecondsPerMinute)
           /\ w % Day = Hour * ((w \div Hour) % HoursPerDay) + (w % Hour)
           /\ w \div 1 = w /\ w \div SecondsPerMinute = (w \div 1) \div SecondsPerMinute
<1>1. Hour \in Nat \ {0} /\ SecondsPerMinute \in Nat \ {0} /\ MinutesPerHour \in Nat \ {0} /\ HoursPerDay \in Nat \ {0}
  BY Units
<1>2. Hour = SecondsPerMinute * MinutesPerHour /\ Day = Hour * HoursPerDay
  BY DEF Hour, Day
<1>3. w \div 1 = w
  OBVIOUS
<1> QED
  BY <1>1, <1>2, <1>3, TwoSteps, ZenonT(40)

-----------------------------------------------------------------------------
(* Schedules *)

Valid(s) == \A i \in 0..5 : ValidField(s[i], Low(i), High(i))

\* What a field holds that is not "*".
Expanded(f, low, high) == UNION {Expand(p, low, high) : p \in f.parts}

LEMMA FieldHolds ==
    ASSUME NEW f, NEW low, NEW high, ValidField(f, low, high), f # Star
    PROVE  /\ f.any = FALSE /\ f.low = low /\ f.high = high
           /\ f.values = Expanded(f, low, high)
           /\ f.step \in Nat
           /\ \A p \in f.parts : ValidPart(p, low, high)
<1> DEFINE g == Field(f.parts, low, high)
<1>1. /\ f = [g EXCEPT !.step = f.step] /\ \A p \in f.parts : ValidPart(p, low, high)
      /\ f.step = g.step \/ \E q \in f.parts : f.step = q.step
  BY DEF ValidField
<1>2. /\ g = [any |-> FALSE, parts |-> f.parts, low |-> low, high |-> high,
              values |-> Expanded(f, low, high), step |-> g.step]
  BY DEF Field, Expanded
<1>3. /\ f.any = g.any /\ f.low = g.low /\ f.high = g.high /\ f.values = g.values
      /\ g.any = FALSE /\ g.low = low /\ g.high = high
      /\ g.values = Expanded(f, low, high)
  <2> HIDE DEF g
  <2> QED
    BY <1>1, <1>2
<1>4. \A p \in f.parts : p.step \in Nat
  BY <1>1 DEF ValidPart
<1>5. g.step \in Nat
  <2>1. g.step = IF \E p \in f.parts : f.parts = {p} /\ p.base # "value"
                 THEN (CHOOSE p \in f.parts : TRUE).step ELSE 0
    BY DEF Field
  <2>2. (\E p \in f.parts : TRUE) => (CHOOSE p \in f.parts : TRUE) \in f.parts
    OBVIOUS
  <2> QED
    BY <1>4, <2>1, <2>2
<1> QED
  BY <1>1, <1>3, <1>4, <1>5

LEMMA FieldIs ==
    ASSUME NEW f, NEW low \in Nat, NEW high \in Int, ValidField(f, low, high)
    PROVE  f.any \in BOOLEAN /\ f.values \subseteq low..high /\ f.step \in Nat
<1>1. CASE f = Star
  BY <1>1 DEF Star
<1>2. CASE f # Star
  <2>1. ASSUME NEW p \in f.parts PROVE Expand(p, low, high) \subseteq low..high
    <3>1. ValidPart(p, low, high)
      BY <1>2, FieldHolds
    <3> QED
      BY <3>1 DEF ValidPart, Expand
  <2>2. f.any = FALSE /\ f.values = Expanded(f, low, high) /\ f.step \in Nat
    BY <1>2, FieldHolds
  <2> QED
    BY <2>1, <2>2 DEF Expanded
<1> QED
  BY <1>1, <1>2

LEMMA Bounds == \A i \in 0..5 : Low(i) \in Nat /\ High(i) \in Int
BY Units, LongestMonthIsLongest, SMTT(30) DEF Low, High

LEMMA ScheduleIs ==
    ASSUME NEW s, Valid(s)
    PROVE  \A i \in 0..5 : s[i].any \in BOOLEAN /\ s[i].values \subseteq Low(i)..High(i) /\ s[i].step \in Nat
BY FieldIs, Bounds DEF Valid

\* A schedule at a time of the calendar: its meaning, and the tests of the code.
Picks(s, w) ==
    LET at == Clock[w]
        day == s[3].any \/ at[3] \in s[3].values
        dow == s[5].any \/ \E v \in s[5].values : v % DaysPerWeek = at[5]
    IN  /\ \A i \in {0, 1, 2, 4} : s[i].any \/ at[i] \in s[i].values
        /\ IF s[3].any \/ s[5].any THEN day /\ dow ELSE day \/ dow

PicksDay(s, w) ==
    LET day == Matches(s[3], Clock[w][3])
        dow == DowMatches(s[5], Clock[w][5])
    IN  IF ~s[3].any /\ ~s[5].any THEN day \/ dow
        ELSE (s[3].any \/ day) /\ (s[5].any \/ dow)

\* Sunday is 0 and 7.
LEMMA DowIs ==
    ASSUME NEW f, f.any \in BOOLEAN, f.values \subseteq 0..DaysPerWeek, NEW v \in 0..DaysPerWeek - 1
    PROVE  DowMatches(f, v) <=> f.any \/ \E x \in f.values : x % DaysPerWeek = v
<1>0. DaysPerWeek \in Nat \ {0}
  BY Units
<1>1. ASSUME NEW x \in 0..DaysPerWeek PROVE x % DaysPerWeek = IF x = DaysPerWeek THEN 0 ELSE x
  <2>1. CASE x = DaysPerWeek
    <3>1. x = DaysPerWeek * 1 + 0 /\ (DaysPerWeek * 1 + 0) % DaysPerWeek = 0
      BY <1>0, <2>1, Quotient
    <3> QED
      BY <2>1, <3>1
  <2>2. CASE x # DaysPerWeek
    <3>1. x = DaysPerWeek * 0 + x /\ (DaysPerWeek * 0 + x) % DaysPerWeek = x
      BY <1>0, <1>1, <2>2, Quotient
    <3> QED
      BY <2>2, <3>1
  <2> QED
    BY <2>1, <2>2
<1> QED
  BY <1>0, <1>1 DEF DowMatches, Matches

LEMMA PicksIs ==
    ASSUME NEW s, Valid(s), NEW w \in Walls
    PROVE  Picks(s, w) <=> (\A i \in {0, 1, 2, 4} : Matches(s[i], Clock[w][i])) /\ PicksDay(s, w)
<1>1. \A i \in 0..5 : s[i].any \in BOOLEAN
  BY ScheduleIs
<1>2. s[5].values \subseteq 0..DaysPerWeek
  BY ScheduleIs DEF Low, High
<1>3. DowMatches(s[5], Clock[w][5]) <=> s[5].any \/ \E v \in s[5].values : v % DaysPerWeek = Clock[w][5]
  BY <1>1, <1>2, ClockRange, DowIs
<1> QED
  BY <1>1, <1>3 DEF Picks, PicksDay, Matches

-----------------------------------------------------------------------------
(* The jumps of a search.  Each goes forward, on the same day or to the next  *)
(* (SkipMonth: to a later one), and over no time that the schedule picks.     *)

LaterThan(f, v) == {x \in f.values : x > v}

\* v is a place for a search to go to from w.
Jump(s, w, v) ==
    /\ w < v /\ (w \div Day) <= (v \div Day)
    /\ \A x \in w..v - 1 : ~Picks(s, x)

\* A field that rejects all times in between makes a jump.
LEMMA JumpIs ==
    ASSUME NEW s, Valid(s), NEW w \in Walls, NEW v \in Walls, w < v,
           NEW i \in {0, 1, 2, 4}, ~s[i].any,
           \A x \in w..v - 1 : Clock[x][i] \notin s[i].values
    PROVE  Jump(s, w, v)
<1>1. (w \div Day) <= (v \div Day)
  <2>1. w \in Nat /\ v \in Nat /\ w <= v
    BY ClockAt
  <2>2. Day \in Nat \ {0}
    BY Units
  <2> QED
    BY <2>1, <2>2, DivisionKeepsOrder
<1>2. \A x \in w..v - 1 : ~Picks(s, x)
  BY DEF Picks
<1> QED
  BY <1>1, <1>2 DEF Jump

\* The dates from day n on up to that of number DayNumber[e] lie before e.
LEMMA DatesBetween ==
    ASSUME NEW w \in Walls, NEW e \in Dates, NEW x \in w..DayNumber[e] * Day - 1
    PROVE  x \in Walls /\ ~Earlier(DateAt(x), DateAt(w)) /\ Earlier(DateAt(x), e)
<1>1. DayNumber[e] \in Nat /\ DayNumber[e] < Cardinality(Dates) /\ w \in Nat /\ Day \in Nat \ {0}
  <2>1. DayNumber[e] \in 0..Cardinality(Dates) - 1
    BY DayNumberType
  <2>2. DayNumber[e] \in Nat /\ DayNumber[e] < Cardinality(Dates)
    BY <2>1, DatesFinite
  <2> QED
    BY <2>2, ClockAt, Units
<1>2. x \in Nat /\ w <= x /\ x < Day * DayNumber[e]
  <2>1. DayNumber[e] * Day = Day * DayNumber[e] /\ Day * DayNumber[e] \in Nat
    BY <1>1, Product
  <2> QED
    BY <1>1, <2>1
<1>3. x \div Day \in Nat /\ (x \div Day) < DayNumber[e] /\ (w \div Day) <= (x \div Day)
  BY <1>1, <1>2, Division, BeforeBlock, DivisionKeepsOrder
<1>4. x \in Walls
  BY <1>1, <1>2, <1>3, WallDays, DatesFinite
<1>5. x \div Day \in 0..Cardinality(Dates) - 1 /\ w \div Day \in 0..Cardinality(Dates) - 1
  BY <1>4, ClockAt
<1>6. ~Earlier(DateAt(x), DateAt(w))
  <2>1. ~((x \div Day) < (w \div Day))
    BY <1>3, <1>5
  <2> QED
    BY <1>5, <2>1, DateOfOrder DEF DateAt
<1>7. Earlier(DateAt(x), e)
  <2>1. DateAt(x) \in Dates /\ DayNumber[DateAt(x)] = x \div Day
    BY <1>5, DateOfNumber DEF DateAt
  <2> QED
    BY <1>3, <2>1, DayNumberOrder
<1> QED
  BY <1>4, <1>6, <1>7

LEMMA FirstIs ==
    ASSUME NEW y \in 1..Years, NEW m \in Months
    PROVE  <<y, m, 1>> \in Dates /\ FirstOf(y, m) = DayNumber[<<y, m, 1>>] * Day
BY DateIs, Units DEF FirstOf

\* The first of a month that is later than the date of w.
LEMMA LaterMonth ==
    ASSUME NEW w \in Walls, NEW y \in 1..Years, NEW m \in Months, Earlier(DateAt(w), <<y, m, 1>>)
    PROVE  FirstOf(y, m) \in Walls /\ w < FirstOf(y, m) /\ (w \div Day) < (FirstOf(y, m) \div Day)
<1> DEFINE e == <<y, m, 1>>
           n == DayNumber[e]
<1>1. e \in Dates /\ FirstOf(y, m) = n * Day
  BY FirstIs
<1>2. n \in Nat /\ n < Cardinality(Dates) /\ Day \in Nat \ {0} /\ w \in Nat
  BY <1>1, DayNumberType, DatesFinite, Units, ClockAt, SMTT(30)
<1>3. (w \div Day) < n
  <2>1. w \div Day \in 0..Cardinality(Dates) - 1
    BY ClockAt
  <2>2. DateAt(w) \in Dates /\ DayNumber[DateAt(w)] = w \div Day
    BY <2>1, DateOfNumber DEF DateAt
  <2> QED
    BY <1>1, <2>2, DayNumberOrder
<1> HIDE DEF n, e
<1>4. n * Day = Day * n + 0 /\ n * Day = Day * n
  BY <1>2
<1>5. n * Day \in Nat /\ (n * Day) \div Day = n
  <2>1. 0 \in 0..Day - 1
    BY <1>2
  <2> QED
    BY <1>2, <1>4, <2>1, Quotient
<1>6. w < n * Day
  BY <1>2, <1>3, <1>4, BeforeBlock
<1>7. n * Day \in Walls
  BY <1>2, <1>5, WallDays
<1> QED
  BY <1>1, <1>3, <1>5, <1>6, <1>7

LEMMA MonthJump ==
    ASSUME NEW s, Valid(s), NEW w \in Walls, ~Matches(s[4], Clock[w][4]), s[4].values # {},
           DateAt(w)[1] < Years,
           NEW later, later = LaterThan(s[4], Clock[w][4]),
           NEW v, v = IF later = {} THEN FirstOf(DateAt(w)[1] + 1, Min(s[4].values))
                      ELSE FirstOf(DateAt(w)[1], Min(later))
    PROVE  v \in Walls /\ Jump(s, w, v) /\ (w \div Day) < (v \div Day)
<1> DEFINE V == s[4].values
           d == DateAt(w)
           y == IF later = {} THEN d[1] + 1 ELSE d[1]
           m == IF later = {} THEN Min(V) ELSE Min(later)
           e == <<y, m, 1>>
<1>1. d \in Dates /\ Clock[w][4] = d[2]
  BY ClockAt
<1>2. d[1] \in 1..Years /\ d[2] \in Months /\ d[3] \in 1..LongestMonth /\ Years \in Nat /\ Months \subseteq Nat
  BY <1>1, DateType, Units
<1>3. V \subseteq Months /\ V \in SUBSET Nat /\ V # {} /\ ~s[4].any /\ d[2] \notin V
  <2>1. V \subseteq Months
    BY ScheduleIs, Units DEF Low, High
  <2> QED
    BY <1>1, <1>2, <2>1 DEF Matches
<1>4. later = {x \in V : x > d[2]}
  BY <1>1 DEF LaterThan
<1> HIDE DEF d, V
<1>5. /\ m \in V /\ y \in 1..Years
      /\ later = {} => \A x \in V : m <= x
      /\ later # {} => m > d[2] /\ \A x \in V : x > d[2] => m <= x
  <2>1. CASE later = {}
    <3>1. m \in V /\ \A x \in V : m <= x
      BY <1>3, <2>1, MinIsLeast
    <3>2. y \in 1..Years
      BY <1>2, <2>1 DEF d
    <3> QED
      BY <2>1, <3>1, <3>2
  <2>2. CASE later # {}
    <3>1. later \in SUBSET Nat
      BY <1>3, <1>4
    <3>2. m \in later /\ \A x \in later : m <= x
      BY <2>2, <3>1, MinIsLeast
    <3> QED
      BY <1>2, <1>4, <2>2, <3>2
  <2> QED
    BY <2>1, <2>2
<1>6. m \in Months /\ v = FirstOf(y, m) /\ e \in Dates
  BY <1>3, <1>5, FirstIs DEF d, V
<1>7. Earlier(d, e)
  BY <1>2, <1>5 DEF Earlier
<1>8. v \in Walls /\ w < v /\ (w \div Day) < (v \div Day)
  BY <1>5, <1>6, <1>7, LaterMonth DEF d
<1>9. ASSUME NEW x \in w..v - 1 PROVE Clock[x][4] \notin V
  <2> DEFINE f == DateAt(x)
  <2>1. x \in Walls /\ ~Earlier(f, d) /\ Earlier(f, e)
    <3>1. v = DayNumber[e] * Day
      BY <1>5, <1>6, FirstIs
    <3> HIDE DEF e
    <3> QED
      BY <1>6, <1>9, <3>1, DatesBetween DEF d
  <2>2. Clock[x][4] = f[2] /\ f \in Dates
    BY <2>1, ClockAt
  <2>3. f[1] \in Nat /\ f[2] \in Nat /\ f[3] \in Nat /\ f[3] >= 1
    BY <2>2, DateParts
  <2> HIDE DEF f
  <2>4. \/ f[1] = d[1] /\ d[2] <= f[2] /\ (later # {} => f[2] < m)
        \/ later = {} /\ f[1] = d[1] + 1 /\ f[2] < m
    <3>1. e[1] = y /\ e[2] = m /\ e[3] = 1
      OBVIOUS
    <3>2. y = IF later = {} THEN d[1] + 1 ELSE d[1]
      OBVIOUS
    <3> HIDE DEF e, y, m
    <3>3. m \in Nat /\ d[1] \in Nat /\ d[2] \in Nat /\ d[3] \in Nat
      BY <1>1, <1>2, <1>6, DateParts
    <3> QED
      BY <2>1, <2>3, <3>1, <3>2, <3>3 DEF Earlier
  <2>5. \A z \in V : z \in Nat
    BY <1>3
  <2> HIDE DEF m, y, e
  <2>6. f[2] \notin V
    <3>1. m \in Nat /\ d[2] \in Nat
      BY <1>2, <1>6
    <3> QED
      BY <3>1, <1>3, <1>4, <1>5, <2>3, <2>4, <2>5
  <2> QED
    BY <2>2, <2>6
<1>10. Jump(s, w, v)
  BY <1>3, <1>8, <1>9, JumpIs DEF V
<1> QED
  BY <1>8, <1>10

\* Without a match on a day, to the start of the next.
LEMMA DayJump ==
    ASSUME NEW s, Valid(s), NEW w \in Walls, ~PicksDay(s, w), (w \div Day) + 1 < Cardinality(Dates),
           NEW v, v = w - (w % Day) + Day
    PROVE  v \in Walls /\ Jump(s, w, v) /\ (v \div Day) = (w \div Day) + 1
<1> DEFINE n == w \div Day
<1>1. w \in Nat /\ Day \in Nat \ {0} /\ n \in Nat /\ w % Day \in 0..Day - 1 /\ w = Day * n + (w % Day)
  BY ClockAt, Units, Division
<1>2. Day * n \in Nat /\ v = Day * n + Day /\ w < v /\ Day * n <= w
  BY <1>1, Product
<1> HIDE DEF n
<1>3. v = Day * (n + 1) + 0 /\ n + 1 \in Nat /\ 0 \in 0..Day - 1
  <2>1. \A b \in Nat : b * (n + 1) = b * n + b
    BY <1>1
  <2>2. Day * (n + 1) = Day * n + Day
    BY <1>1, <2>1
  <2>3. Day * n + Day \in Nat /\ Day * n + Day = Day * n + Day + 0
    BY <1>1, <1>2
  <2>4. 0 \in 0..Day - 1 /\ n + 1 \in Nat
    BY <1>1
  <2> QED
    BY <1>2, <2>2, <2>3, <2>4
<1>4. v \in Nat /\ v \div Day = n + 1
  <2>1. Day * (n + 1) + 0 \in Nat /\ (Day * (n + 1) + 0) \div Day = n + 1
    BY <1>1, <1>3, Quotient
  <2> QED
    BY <1>3, <2>1
<1>5. v \in Walls
  BY <1>4, WallDays DEF n
<1>6. ASSUME NEW x \in w..v - 1 PROVE ~Picks(s, x)
  <2>1. x \in Nat /\ w <= x /\ x < v
    BY <1>1, <1>4
  <2>2. x \in Walls
    BY <1>5, <2>1, WallsBefore
  <2>3. x \div Day = n
    <3>1. Day * n <= x /\ x < Day * (n + 1)
      <4>1. Day * n \in Nat /\ Day * (n + 1) \in Nat /\ v = Day * (n + 1)
        BY <1>1, <1>3, Product
      <4> QED
        BY <1>1, <1>2, <2>1, <4>1
    <3> QED
      BY <1>1, <2>1, <3>1, InBlock
  <2>4. Clock[x][3] = Clock[w][3] /\ Clock[x][5] = Clock[w][5]
    BY <2>2, <2>3, ClockAt DEF n, DateAt
  <2>5. ~PicksDay(s, x)
    BY <2>4 DEF PicksDay
  <2> QED
    BY <2>2, <2>5, PicksIs
<1>7. Jump(s, w, v)
  BY <1>1, <1>2, <1>4, <1>6 DEF Jump, n
<1> QED
  BY <1>4, <1>5, <1>7 DEF n

-----------------------------------------------------------------------------
(* Seconds, minutes and hours: fields 0 to 2.                                 *)

\* How many units of a field make one of the next.
Radix(i) == CASE i = 0 -> SecondsPerMinute [] i = 1 -> MinutesPerHour [] i = 2 -> HoursPerDay

LEMMA Scale ==
    ASSUME NEW i \in 0..2
    PROVE  /\ Unit[i] \in Nat \ {0} /\ Radix(i) \in Nat \ {0}
           /\ Unit[i + 1] = Unit[i] * Radix(i) /\ Unit[i + 1] \in Nat \ {0}
           /\ \E k \in Nat \ {0} : Day = Unit[i + 1] * k
           /\ Low(i) = 0 /\ High(i) = Radix(i) - 1
           /\ \A w \in Walls : Clock[w][i] = (w \div Unit[i]) % Radix(i)
<1>1. /\ SecondsPerMinute \in Nat \ {0} /\ MinutesPerHour \in Nat \ {0} /\ HoursPerDay \in Nat \ {0}
      /\ Hour \in Nat \ {0} /\ Day \in Nat \ {0}
  BY Units
<1>2. Unit[0] = 1 /\ Unit[1] = SecondsPerMinute /\ Unit[2] = Hour /\ Unit[3] = Day
  BY DEF Unit
<1>3. /\ SecondsPerMinute = 1 * SecondsPerMinute
      /\ Hour = SecondsPerMinute * MinutesPerHour /\ Day = Hour * HoursPerDay
  BY <1>1 DEF Hour, Day
<1>4. \A w \in Walls : /\ Clock[w][0] = (w \div 1) % SecondsPerMinute
                       /\ Clock[w][1] = (w \div SecondsPerMinute) % MinutesPerHour
                       /\ Clock[w][2] = (w \div Hour) % HoursPerDay
  BY ClockAt, Nested
<1>5. CASE i = 0
  <2>1. Unit[i] = 1 /\ Unit[i + 1] = SecondsPerMinute /\ Radix(i) = SecondsPerMinute /\ Low(i) = 0 /\ High(i) = SecondsPerMinute - 1
    <3>1. i + 1 = 1
      BY <1>5
    <3>2. Radix(0) = SecondsPerMinute /\ Low(0) = 0 /\ High(0) = SecondsPerMinute - 1
      BY DEF Radix, Low, High
    <3> QED
      BY <1>2, <1>5, <3>1, <3>2
  <2>2. \E k \in Nat \ {0} : Day = SecondsPerMinute * k
    <3>1. MinutesPerHour * HoursPerDay \in Nat \ {0} /\ Day = SecondsPerMinute * (MinutesPerHour * HoursPerDay)
      BY <1>1, <1>3, Product
    <3> QED
      BY <3>1
  <2>3. \A w \in Walls : Clock[w][i] = (w \div 1) % SecondsPerMinute
    BY <1>4, <1>5
  <2>4. /\ 1 \in Nat \ {0} /\ SecondsPerMinute \in Nat \ {0} /\ SecondsPerMinute \in Nat \ {0}
        /\ SecondsPerMinute = 1 * SecondsPerMinute
    BY <1>1, <1>3
  <2> QED
    BY <2>1, <2>2, <2>3, <2>4
<1>6. CASE i = 1
  <2>1. Unit[i] = SecondsPerMinute /\ Unit[i + 1] = Hour /\ Radix(i) = MinutesPerHour /\ Low(i) = 0 /\ High(i) = MinutesPerHour - 1
    <3>1. i + 1 = 2
      BY <1>6
    <3>2. Radix(1) = MinutesPerHour /\ Low(1) = 0 /\ High(1) = MinutesPerHour - 1
      BY DEF Radix, Low, High
    <3> QED
      BY <1>2, <1>6, <3>1, <3>2
  <2>2. \E k \in Nat \ {0} : Day = Hour * k
    BY <1>1, <1>3
  <2>3. \A w \in Walls : Clock[w][i] = (w \div SecondsPerMinute) % MinutesPerHour
    BY <1>4, <1>6
  <2>4. /\ SecondsPerMinute \in Nat \ {0} /\ MinutesPerHour \in Nat \ {0} /\ Hour \in Nat \ {0}
        /\ Hour = SecondsPerMinute * MinutesPerHour
    BY <1>1, <1>3
  <2> QED
    BY <2>1, <2>2, <2>3, <2>4
<1>7. CASE i = 2
  <2>1. Unit[i] = Hour /\ Unit[i + 1] = Day /\ Radix(i) = HoursPerDay /\ Low(i) = 0 /\ High(i) = HoursPerDay - 1
    <3>1. i + 1 = 3
      BY <1>7
    <3>2. Radix(2) = HoursPerDay /\ Low(2) = 0 /\ High(2) = HoursPerDay - 1
      BY DEF Radix, Low, High
    <3> QED
      BY <1>2, <1>7, <3>1, <3>2
  <2>2. \E k \in Nat \ {0} : Day = Day * k
    <3>1. Day = Day * 1
      BY <1>1
    <3> QED
      BY <3>1
  <2>3. \A w \in Walls : Clock[w][i] = (w \div Hour) % HoursPerDay
    BY <1>4, <1>7
  <2>4. /\ Hour \in Nat \ {0} /\ HoursPerDay \in Nat \ {0} /\ Day \in Nat \ {0}
        /\ Day = Hour * HoursPerDay
    BY <1>1, <1>3
  <2> QED
    BY <2>1, <2>2, <2>3, <2>4
<1> QED
  BY <1>5, <1>6, <1>7

\* Whole units of a field leave the smaller ones at 0.
LEMMA SmallerAreZero ==
    ASSUME NEW i \in 0..2, NEW m \in Nat, NEW v \in Walls, v = Unit[i] * m
    PROVE  Clock[v][i] = m % Radix(i) /\ \A j \in 0..i - 1 : Clock[v][j] = 0
<1>1. /\ SecondsPerMinute \in Nat \ {0} /\ MinutesPerHour \in Nat \ {0}
      /\ Unit[0] = 1 /\ Unit[1] = SecondsPerMinute /\ Unit[2] = SecondsPerMinute * MinutesPerHour
  BY Units DEF Unit, Hour
<1>2. Unit[i] \in Nat \ {0} /\ Radix(i) \in Nat \ {0} /\ Clock[v][i] = (v \div Unit[i]) % Radix(i)
  BY Scale
<1>3. v \div Unit[i] = m
  <2>1. v = Unit[i] * m + 0 /\ 0 \in 0..Unit[i] - 1
    BY <1>2, ClockAt
  <2>2. (Unit[i] * m + 0) \div Unit[i] = m
    BY <1>2, <2>1, Quotient
  <2> QED
    BY <2>1, <2>2
<1>4. ASSUME NEW j \in 0..i - 1 PROVE Clock[v][j] = 0
  <2>1. CASE i = 1
    <3>0. v = SecondsPerMinute * m /\ v \in Nat /\ j \in 0..1 - 1
      BY <1>1, <2>1, ClockAt
    <3>1. v = SecondsPerMinute * m + 0 /\ 0 \in 0..SecondsPerMinute - 1 /\ j = 0
      BY <1>1, <3>0
    <3>2. (SecondsPerMinute * m + 0) % SecondsPerMinute = 0
      BY <1>1, <3>1, Quotient
    <3> QED
      BY <3>1, <3>2, ClockAt
  <2>2. CASE i = 2
    <3> DEFINE k == MinutesPerHour * m
    <3>1. v = SecondsPerMinute * k /\ k \in Nat /\ v \in Nat
      BY <1>1, <2>2, ClockAt, Product
    <3>2. k % MinutesPerHour = 0
      <4>1. k = MinutesPerHour * m + 0 /\ 0 \in 0..MinutesPerHour - 1
        BY <1>1
      <4>2. (MinutesPerHour * m + 0) % MinutesPerHour = 0
        BY <1>1, <4>1, Quotient
      <4> QED
        BY <4>1, <4>2
    <3> HIDE DEF k
    <3>3. v \div SecondsPerMinute = k /\ v % SecondsPerMinute = 0
      <4>1. v = SecondsPerMinute * k + 0 /\ 0 \in 0..SecondsPerMinute - 1
        BY <1>1, <3>1
      <4>2. (SecondsPerMinute * k + 0) \div SecondsPerMinute = k /\ (SecondsPerMinute * k + 0) % SecondsPerMinute = 0
        BY <1>1, <3>1, <4>1, Quotient
      <4> QED
        BY <4>1, <4>2
    <3>4. Clock[v][0] = 0 /\ Clock[v][1] = 0
      BY <3>2, <3>3, ClockAt
    <3> QED
      BY <2>2, <3>4
  <2>3. CASE i = 0
    BY <2>3
  <2> QED
    BY <2>1, <2>2, <2>3
<1> QED
  BY <1>2, <1>3, <1>4

\* To the units numbered m, in this block of them or the next.
LEMMA FieldJump ==
    ASSUME NEW s, Valid(s), NEW w \in Walls, (w \div Day) + 1 < Cardinality(Dates), NEW i \in 0..2,
           ~s[i].any, NEW m \in Nat,
           m < Radix(i) * ((w \div Unit[i + 1]) + 2),
           w < Unit[i] * m,
           \A x \in w..Unit[i] * m - 1 : (x \div Unit[i]) % Radix(i) \notin s[i].values,
           NEW v, v = Unit[i] * m
    PROVE  v \in Walls /\ Jump(s, w, v) /\ (v \div Day) <= (w \div Day) + 1
<1> DEFINE u == Unit[i]
           r == Radix(i)
           b == Unit[i + 1]
           q == w \div b
           n == w \div Day
<1>1. u \in Nat \ {0} /\ r \in Nat \ {0} /\ b \in Nat \ {0} /\ b = u * r
  BY Scale
<1>2. PICK k \in Nat \ {0} : Day = b * k
  BY Scale
<1>3. w \in Nat /\ Day \in Nat \ {0}
  BY ClockAt, Units
<1> HIDE DEF u, r, b
<1>4. q \in Nat /\ n \in Nat /\ w < Day * (n + 1)
  <2>0. n \in Nat
    BY <1>3, Division
  <2>1. n \in Nat /\ n < n + 1 /\ n + 1 \in Nat
    <3> HIDE DEF n
    <3> QED
      BY <2>0
  <2> QED
    BY <1>1, <1>3, <2>1, Division, BeforeBlock
<1>5. m < r * (q + 2) /\ v = u * m /\ w < u * m
  BY DEF u, r, b
<1> HIDE DEF q, n
<1>6. v \in Nat
  BY <1>1, <1>5, Product
<1>7. v < Day * (n + 2)
  <2>1. q < k * (n + 1)
    <3>1. Day * (n + 1) = b * (k * (n + 1)) /\ k * (n + 1) \in Nat
      BY <1>1, <1>2, <1>4, Product
    <3> QED
      BY <1>1, <1>3, <1>4, <3>1, BeforeBlock DEF q
  <2>2. q + 2 <= k * (n + 2)
    <3>1. k * (n + 2) = k * (n + 1) + k /\ k * (n + 1) \in Nat
      BY <1>4, Product
    <3> QED
      BY <1>4, <2>1, <3>1
  <2>3. v < b * (q + 2)
    <3>1. r * (q + 2) \in Nat /\ b * (q + 2) = u * (r * (q + 2)) /\ u * (r * (q + 2)) \in Nat
      BY <1>1, <1>4, Product
    <3>2. u * m + u <= u * (r * (q + 2))
      BY <1>1, <1>5, <3>1, ProductGrows
    <3> QED
      BY <1>1, <1>5, <1>6, <3>1, <3>2
  <2>4. b * (q + 2) <= b * (k * (n + 2))
    <3>1. q + 2 \in Int /\ k * (n + 2) \in Int
      BY <1>4
    <3> QED
      BY <1>1, <2>2, <3>1, ProductKeepsOrder
  <2>5. b * (k * (n + 2)) = Day * (n + 2) /\ b * (q + 2) \in Int /\ Day * (n + 2) \in Int
    BY <1>1, <1>2, <1>3, <1>4
  <2> QED
    BY <1>6, <2>3, <2>4, <2>5
<1>8. v \div Day \in Nat /\ (v \div Day) < n + 2
  <2>1. n + 2 \in Nat
    BY <1>4
  <2> QED
    BY <1>3, <1>6, <1>7, <2>1, BeforeBlock, Division
<1>9. (v \div Day) <= n + 1
  BY <1>4, <1>8
<1>10. v \in Walls
  <2>1. n + 1 < Cardinality(Dates)
    BY DEF n
  <2>2. (v \div Day) < Cardinality(Dates)
    BY <1>4, <1>8, <1>9, <2>1, DatesFinite
  <2> QED
    BY <1>6, <2>2, WallDays
<1>11. ASSUME NEW x \in w..v - 1 PROVE Clock[x][i] \notin s[i].values
  <2>1. x \in Walls
    BY <1>3, <1>6, <1>10, <1>11, WallsBefore
  <2>2. (x \div Unit[i]) % Radix(i) \notin s[i].values
    BY <1>11
  <2> QED
    BY <2>1, <2>2, Scale
<1>12. Jump(s, w, v)
  <2>1. w < v
    BY <1>5
  <2>2. i \in {0, 1, 2, 4}
    OBVIOUS
  <2> QED
    BY <1>10, <1>11, <2>1, <2>2, JumpIs
<1> QED
  BY <1>9, <1>10, <1>12 DEF n

\* The same unit of the field above field i.
SameBlock(i, v, w) == v \div Unit[i + 1] = w \div Unit[i + 1]

\* What a later value and the next block come to.
LEMMA LaterJump ==
    ASSUME NEW s, Valid(s), NEW w \in Walls, (w \div Day) + 1 < Cardinality(Dates), NEW i \in 0..2,
           ~Matches(s[i], Clock[w][i]),
           NEW later, later = LaterThan(s[i], Clock[w][i]), later # {},
           NEW v, v = w - (w % Unit[i + 1]) + Unit[i] * Min(later)
    PROVE  /\ v \in Walls /\ Jump(s, w, v) /\ (v \div Day) <= (w \div Day) + 1
           /\ Clock[v][i] \in s[i].values /\ \A j \in 0..i - 1 : Clock[v][j] = 0
           /\ SameBlock(i, v, w)
<1> DEFINE V == s[i].values
           u == Unit[i]
           r == Radix(i)
           b == Unit[i + 1]
           q == w \div b
           z == Min(later)
           m == r * q + z
<1>1. u \in Nat \ {0} /\ r \in Nat \ {0} /\ b \in Nat \ {0} /\ b = u * r /\ w \in Nat
  BY Scale, ClockAt
<1>2. Clock[w][i] = (w \div u) % r /\ q = (w \div u) \div r
  <2>1. Clock[w][i] = (w \div u) % r
    BY Scale
  <2> HIDE DEF u, r, b
  <2>2. w \div (u * r) = (w \div u) \div r
    BY <1>1, TwoSteps
  <2> QED
    BY <1>1, <2>1, <2>2
<1>3. V \in SUBSET (0..r - 1) /\ ~s[i].any /\ Clock[w][i] \notin V
  <2>1. s[i].values \subseteq Low(i)..High(i) /\ s[i].any \in BOOLEAN
    BY ScheduleIs
  <2>2. Low(i) = 0 /\ High(i) = Radix(i) - 1
    BY Scale
  <2> QED
    BY <2>1, <2>2 DEF Matches
<1>4. later = {x \in V : x > (w \div u) % r}
  BY <1>2 DEF LaterThan
<1> HIDE DEF u, r, b, V, q
<1>5. /\ q \in Nat /\ z \in V
      /\ w < u * (r * q + z)
      /\ \A x \in w..u * (r * q + z) - 1 : (x \div u) % r \notin V
  <2>0. V \subseteq Nat
    BY <1>1, <1>3
  <2>1. later \in SUBSET Nat
    BY <1>4, <2>0
  <2>2. z \in later /\ \A x \in later : z <= x
    BY <2>1, MinIsLeast
  <2>3. z \in V /\ z > (w \div u) % r /\ \A x \in V : x > (w \div u) % r => z <= x
    BY <1>4, <2>2
  <2>4. /\ u \in Nat \ {0} /\ r \in Nat \ {0} /\ V \in SUBSET (0..r - 1) /\ w \in Nat
        /\ (w \div u) % r \notin V /\ q = (w \div u) \div r
    BY <1>1, <1>2, <1>3
  <2> HIDE DEF z
  <2>5. q \in Nat
    BY <2>3, <2>4, LaterValue
  <2>6. w < u * (r * q + z)
    BY <2>3, <2>4, LaterValue
  <2>7. \A x \in w..u * (r * q + z) - 1 : (x \div u) % r \notin V
    BY <2>3, <2>4, LaterValue
  <2> QED
    BY <2>3, <2>5, <2>6, <2>7
<1>6. z \in Nat /\ z <= r - 1 /\ z \in 0..r - 1
  <2> HIDE DEF z
  <2>1. z \in 0..r - 1
    BY <1>3, <1>5
  <2> QED
    BY <1>1, <2>1
<1> HIDE DEF z
<1>7. m \in Nat /\ m < r * (q + 2)
  <2>1. r * q \in Nat /\ r * (q + 2) = r * q + r + r
    BY <1>1, <1>5, Product
  <2> QED
    BY <1>1, <1>6, <2>1
<1>8. v = u * m
  <2>1. w = b * q + (w % b) /\ b * q \in Nat /\ w % b \in Nat
    <3>1. w = b * q + (w % b) /\ w % b \in 0..b - 1
      BY <1>1, Division DEF q
    <3> QED
      BY <1>1, <1>5, <3>1, Product
  <2>2. v = b * q + u * z
    <3>1. v = w - (w % b) + u * z /\ u * z \in Nat
      BY <1>1, <1>6, Product DEF b, u, z
    <3> QED
      BY <1>1, <2>1, <3>1
  <2>3. u * (r * q + z) = (u * r) * q + u * z
    BY <1>1, <1>5, <1>6
  <2> QED
    BY <1>1, <2>2, <2>3
<1>9. w < u * m /\ \A x \in w..u * m - 1 : (x \div u) % r \notin V
  BY <1>5
<1>10. m % r = z /\ m \div r = q
  BY <1>1, <1>5, <1>6, Quotient
<1> HIDE DEF m
<1>11. v \in Walls /\ Jump(s, w, v) /\ (v \div Day) <= (w \div Day) + 1
  BY <1>3, <1>7, <1>8, <1>9, FieldJump DEF u, r, b, q, V
<1>12. Clock[v][i] = z /\ \A j \in 0..i - 1 : Clock[v][j] = 0
  BY <1>7, <1>8, <1>10, <1>11, SmallerAreZero DEF u, r
<1>13. v \div b = q
  <2>1. v \in Nat /\ v \div u = m
    <3>1. u * m + 0 = v /\ 0 \in 0..u - 1 /\ v \in Nat
      BY <1>1, <1>7, <1>8, <1>11, ClockAt
    <3>2. (u * m + 0) \div u = m
      BY <1>1, <1>7, <3>1, Quotient
    <3> QED
      BY <3>1, <3>2
  <2>2. v \div (u * r) = (v \div u) \div r
    BY <1>1, <2>1, TwoSteps
  <2> QED
    BY <1>1, <1>10, <2>1, <2>2
<1> QED
  BY <1>5, <1>11, <1>12, <1>13 DEF V, b, q, SameBlock

LEMMA WrapJump ==
    ASSUME NEW s, Valid(s), NEW w \in Walls, (w \div Day) + 1 < Cardinality(Dates), NEW i \in 0..2,
           ~Matches(s[i], Clock[w][i]), LaterThan(s[i], Clock[w][i]) = {},
           NEW z \in 0..Radix(i) - 1, \A x \in s[i].values : z <= x,
           NEW v, v = w - (w % Unit[i + 1]) + Unit[i + 1] + Unit[i] * z
    PROVE  /\ v \in Walls /\ Jump(s, w, v) /\ (v \div Day) <= (w \div Day) + 1
           /\ Clock[v][i] = z /\ \A j \in 0..i - 1 : Clock[v][j] = 0
<1> DEFINE V == s[i].values
           u == Unit[i]
           r == Radix(i)
           b == Unit[i + 1]
           q == w \div b
           m == r * (q + 1) + z
<1>1. u \in Nat \ {0} /\ r \in Nat \ {0} /\ b \in Nat \ {0} /\ b = u * r /\ w \in Nat
  BY Scale, ClockAt
<1>2. Clock[w][i] = (w \div u) % r /\ q = (w \div u) \div r
  <2>1. Clock[w][i] = (w \div u) % r
    BY Scale
  <2> HIDE DEF u, r, b
  <2>2. w \div (u * r) = (w \div u) \div r
    BY <1>1, TwoSteps
  <2> QED
    BY <1>1, <2>1, <2>2
<1>3. V \in SUBSET (0..r - 1) /\ ~s[i].any /\ Clock[w][i] \notin V
  <2>1. s[i].values \subseteq Low(i)..High(i) /\ s[i].any \in BOOLEAN
    BY ScheduleIs
  <2>2. Low(i) = 0 /\ High(i) = Radix(i) - 1
    BY Scale
  <2> QED
    BY <2>1, <2>2 DEF Matches
<1> DEFINE later == {x \in V : x > (w \div u) % r}
<1>4. later = {}
  BY <1>2 DEF LaterThan
<1> HIDE DEF u, r, b, V, q
<1>5. /\ q \in Nat
      /\ w < u * (r * (q + 1) + z)
      /\ \A x \in w..u * (r * (q + 1) + z) - 1 : (x \div u) % r \notin V
  <2>1. z \in 0..r - 1 /\ \A x \in V : z <= x
    BY DEF r, V
  <2>2. later = {x \in V : x > (w \div u) % r} /\ (w \div u) % r \notin V
    BY <1>2, <1>3
  <2> HIDE DEF later
  <2> QED
    BY <1>1, <1>2, <1>3, <1>4, <2>1, <2>2, WrappedValue, SMTT(30)
<1>6. z \in Nat /\ z <= r - 1 /\ z \in 0..r - 1 /\ q + 1 \in Nat
  BY <1>1, <1>5 DEF r
<1>7. m \in Nat /\ m < r * (q + 2)
  <2>1. r * q \in Nat /\ r * (q + 2) = r * q + r + r /\ r * (q + 1) = r * q + r
    BY <1>1, <1>5, Product
  <2> QED
    BY <1>1, <1>6, <2>1
<1>8. v = u * m
  <2>1. w = b * q + (w % b) /\ b * q \in Nat /\ w % b \in Nat
    <3>1. w = b * q + (w % b) /\ w % b \in 0..b - 1
      BY <1>1, Division DEF q
    <3> QED
      BY <1>1, <1>5, <3>1, Product
  <2>2. v = b * q + b + u * z
    <3>1. v = w - (w % b) + b + u * z /\ u * z \in Nat
      BY <1>1, <1>6, Product DEF b, u
    <3> QED
      BY <1>1, <2>1, <3>1
  <2>3. u * (r * (q + 1) + z) = (u * r) * q + u * r + u * z
    BY <1>1, <1>5, <1>6
  <2> QED
    BY <1>1, <2>2, <2>3
<1>9. w < u * m /\ \A x \in w..u * m - 1 : (x \div u) % r \notin V
  BY <1>5
<1>10. m % r = z
  BY <1>1, <1>6, Quotient
<1> HIDE DEF m
<1>11. v \in Walls /\ Jump(s, w, v) /\ (v \div Day) <= (w \div Day) + 1
  BY <1>3, <1>7, <1>8, <1>9, FieldJump DEF u, r, b, q, V
<1>12. Clock[v][i] = z /\ \A j \in 0..i - 1 : Clock[v][j] = 0
  BY <1>7, <1>8, <1>10, <1>11, SmallerAreZero DEF u, r
<1> QED
  BY <1>11, <1>12

-----------------------------------------------------------------------------
(* How many steps a search may take on a day.  Every step lowers the rank of  *)
(* the time or goes to another day, and no rank is above 5.                   *)

Rank(s, w) ==
    LET at == Clock[w] IN
    IF ~Matches(s[4], at[4]) \/ ~PicksDay(s, w) THEN 0
    ELSE IF ~Matches(s[2], at[2]) THEN 3
    ELSE IF ~Matches(s[1], at[1]) THEN IF LaterThan(s[1], at[1]) = {} THEN 4 ELSE 2
    ELSE IF ~Matches(s[0], at[0]) THEN IF LaterThan(s[0], at[0]) = {} THEN 5 ELSE 1
    ELSE 0

LEMMA RankRange == \A s, w : Rank(s, w) \in 0..5
BY DEF Rank

\* The fields that are skipped by have values.
Fed(s) == \A i \in {0, 1, 2, 4} : s[i].any \/ s[i].values # {}

\* A field that rejects 0 has a later value.
LEMMA ZeroHasLater ==
    ASSUME NEW s, Valid(s), Fed(s), NEW i \in 0..2, ~Matches(s[i], 0)
    PROVE  LaterThan(s[i], 0) # {}
<1>1. s[i].values \subseteq 0..Radix(i) - 1 /\ s[i].any \in BOOLEAN
  BY ScheduleIs, Scale
<1>2. i \in 0..5
  OBVIOUS
<1>3. PICK v \in s[i].values : TRUE
  BY <1>1, <1>2 DEF Matches, Fed
<1>4. v \in 0..Radix(i) - 1 /\ v # 0 /\ Radix(i) \in Nat
  BY <1>1, <1>3, Scale DEF Matches
<1>5. v > 0
  BY <1>4
<1> QED
  BY <1>5 DEF LaterThan

LEMMA RankIs ==
    ASSUME NEW s, Valid(s), Fed(s), NEW w, Clock[w][0] = 0
    PROVE  /\ Rank(s, w) <= 4
           /\ Clock[w][1] = 0 => Rank(s, w) <= 3
           /\ Clock[w][1] = 0 /\ Matches(s[2], Clock[w][2]) => Rank(s, w) <= 2
           /\ Matches(s[1], Clock[w][1]) /\ Matches(s[2], Clock[w][2]) => Rank(s, w) <= 1
<1>1. ~Matches(s[0], 0) => LaterThan(s[0], 0) # {}
  BY ZeroHasLater
<1>2. ~Matches(s[1], 0) => LaterThan(s[1], 0) # {}
  BY ZeroHasLater
<1> QED
  BY <1>1, <1>2 DEF Rank

LEMMA RankOfMatch ==
    ASSUME NEW s, NEW w, \A i \in 0..2 : Matches(s[i], Clock[w][i])
    PROVE  Rank(s, w) = 0
BY DEF Rank

\* The same hour, or the same minute, shows the same.
LEMMA SameAbove ==
    ASSUME NEW v \in Walls, NEW w \in Walls
    PROVE  /\ SameBlock(1, v, w) => Clock[v][2] = Clock[w][2]
           /\ SameBlock(0, v, w) => Clock[v][1] = Clock[w][1] /\ Clock[v][2] = Clock[w][2]
<1>1. Unit[1 + 1] = Hour /\ Unit[0 + 1] = SecondsPerMinute
  BY DEF Unit
<1>2. /\ v \div Hour = (v \div SecondsPerMinute) \div MinutesPerHour
      /\ w \div Hour = (w \div SecondsPerMinute) \div MinutesPerHour
  BY ClockAt, Nested
<1> QED
  BY <1>1, <1>2, ClockAt DEF SameBlock

-----------------------------------------------------------------------------
(* A clock that is not changed.                                               *)

LEMMA Steady ==
    ASSUME SteadyClock
    PROVE  /\ OffsetBefore \in Nat /\ Max({OffsetBefore, OffsetAfter}) = OffsetBefore
           /\ Time = 0..Cardinality(Dates) * Day - 1 - OffsetBefore
           /\ \A t : Wall(t) = t + OffsetBefore
<1>1. OffsetBefore \in Nat /\ OffsetAfter = OffsetBefore
  BY CalendarAssumption DEF SteadyClock
<1>2. Max({OffsetBefore, OffsetAfter}) = OffsetBefore
  <2>1. {OffsetBefore, OffsetAfter} \in SUBSET Nat /\ {OffsetBefore, OffsetAfter} = {OffsetBefore}
    BY <1>1
  <2>2. Max({OffsetBefore}) = CHOOSE x \in {OffsetBefore} : \A y \in {OffsetBefore} : x >= y
    BY DEF Max
  <2>3. \E x \in {OffsetBefore} : \A y \in {OffsetBefore} : x >= y
    BY <1>1
  <2>4. Max({OffsetBefore}) \in {OffsetBefore}
    BY <2>2, <2>3
  <2> QED
    BY <2>1, <2>4
<1>3. \A t : Wall(t) = t + OffsetBefore
  BY <1>1 DEF Wall
<1> QED
  BY <1>1, <1>2, <1>3 DEF Time

LEMMA WallOf ==
    ASSUME SteadyClock, NEW t \in Time
    PROVE  t \in Nat /\ Wall(t) = t + OffsetBefore /\ Wall(t) \in Walls
<1>1. Cardinality(Dates) * Day \in Nat
  BY DatesFinite, Units, Product
<1> DEFINE N == Cardinality(Dates) * Day
<1>2. N \in Nat /\ t \in 0..N - 1 - OffsetBefore /\ OffsetBefore \in Nat /\ Wall(t) = t + OffsetBefore
  BY <1>1, Steady
<1>3. Walls = 0..N - 1
  BY DEF Walls
<1> HIDE DEF N
<1> QED
  BY <1>2, <1>3

LEMMA TimeOf ==
    ASSUME SteadyClock, NEW w \in Walls, w >= OffsetBefore
    PROVE  /\ TimesOf(w) = {w - OffsetBefore}
           /\ w - OffsetBefore \in Time /\ Wall(w - OffsetBefore) = w
<1>1. Cardinality(Dates) * Day \in Nat
  BY DatesFinite, Units, Product
<1> DEFINE N == Cardinality(Dates) * Day
<1>2. N \in Nat /\ w \in 0..N - 1 /\ OffsetBefore \in Nat
  BY <1>1, Steady DEF Walls
<1>3. Time = 0..N - 1 - OffsetBefore
  BY Steady
<1> HIDE DEF N
<1>4. w - OffsetBefore \in Time /\ w - OffsetBefore + OffsetBefore = w
  BY <1>2, <1>3
<1>5. Wall(w - OffsetBefore) = w
  BY <1>4, Steady
<1>6. TimesOf(w) = {w - OffsetBefore}
  BY <1>5 DEF TimesOf, SteadyClock
<1> QED
  BY <1>4, <1>5, <1>6

-----------------------------------------------------------------------------
(* The lookahead                                                              *)

\* The days of a month follow each other.
LEMMA DaysOfMonth ==
    ASSUME NEW y \in 1..Years, NEW m \in Months, NEW k \in 1..MonthDays[m]
    PROVE  DayNumber[<<y, m, k>>] >= DayNumber[<<y, m, 1>>] + k - 1
<1> DEFINE n(j) == DayNumber[<<y, m, j>>]
           S == {j \in 1..MonthDays[m] : n(j) >= n(1) + j - 1}
<1>1. MonthDays[m] \in Nat \ {0}
  BY Units
<1>2. \A j \in 1..MonthDays[m] : n(j) \in Nat /\ <<y, m, j>> \in Dates
  BY DateIs, DayNumberType
<1>3. 1 \in S
  BY <1>1, <1>2
<1>4. ASSUME NEW j \in 2..MonthDays[m], j - 1 \in S PROVE j \in S
  <2>1. j \in 1..MonthDays[m] /\ j - 1 \in 1..MonthDays[m] /\ j - 1 < j /\ n(j - 1) >= n(1) + (j - 1) - 1
    BY <1>1, <1>4
  <2>2. Earlier(<<y, m, j - 1>>, <<y, m, j>>)
    BY <2>1 DEF Earlier
  <2>3. n(j - 1) < n(j)
    BY <1>2, <2>1, <2>2, DayNumberGrows
  <2>4. n(j) \in Nat /\ n(j - 1) \in Nat /\ n(1) \in Nat
    BY <1>1, <1>2, <2>1
  <2> HIDE DEF n
  <2> QED
    BY <1>1, <2>1, <2>3, <2>4
<1>5. 1..MonthDays[m] \subseteq S
  <2> HIDE DEF S
  <2> QED
    BY <1>1, <1>3, <1>4, Counting
<1> QED
  BY <1>5

LEMMA NextYear ==
    ASSUME NEW y \in 1..Years - 1, NEW d \in Dates, d[1] <= y
    PROVE  /\ <<y + 1, 1, 1>> \in Dates
           /\ DayNumber[d] < DayNumber[<<y + 1, 1, 1>>]
<1>1. y + 1 \in 1..Years /\ 1 \in Months /\ y \in Nat
  BY Units
<1>2. <<y + 1, 1, 1>> \in Dates
  BY <1>1, FirstIs
<1>3. d[1] \in Nat /\ d[1] < y + 1
  BY <1>1, DateParts
<1>4. Earlier(d, <<y + 1, 1, 1>>)
  BY <1>3 DEF Earlier
<1> QED
  BY <1>2, <1>4, DayNumberGrows

\* Two years later it is not yet the year after those.
LEMMA TwoYearsIs ==
    ASSUME SteadyClock, NEW t \in Time, NEW y, y = DateAt(Wall(t))[1], y <= Years - 4
    PROVE  /\ y \in 1..Years - 4 /\ <<y + 4, 1, 1>> \in Dates
           /\ \E l \in Time : TwoYearsLater(t) = {l} /\ (Wall(l) \div Day) < DayNumber[<<y + 4, 1, 1>>]
<1> DEFINE w == Wall(t)
           d == DateAt(w)
           m == d[2]
           k == d[3]
           r == w % Day
           first == DayNumber[<<y + 2, m, 1>>]
           n == first + k - 1
           v == FirstOf(y + 2, m) + (k - 1) * Day + r
<1>1. w \in Walls /\ w \in Nat /\ d \in Dates /\ Day \in Nat \ {0} /\ Years \in Nat
  BY WallOf, ClockAt, Units
<1>2. /\ y \in Nat /\ y >= 1 /\ m \in Months /\ k \in Nat /\ k >= 1 /\ r \in 0..Day - 1
      /\ k <= MonthDays[m] + 1
  <2>1. k <= MonthDays[m] + LeapDay(d[1], m) /\ MonthDays[m] \in Nat
    BY <1>1, DateType, Units
  <2>2. LeapDay(d[1], m) \in Nat /\ LeapDay(d[1], m) <= 1
    BY DEF LeapDay
  <2>3. k \in Nat /\ k >= 1 /\ y \in Nat /\ y >= 1 /\ m \in Months
    BY <1>1, DateParts, DateType
  <2>4. r \in 0..Day - 1
    BY <1>1, Division
  <2>5. k <= MonthDays[m] + 1
    <3> HIDE DEF d, m, k
    <3> QED
      BY <2>1, <2>2, <2>3
  <2> QED
    BY <2>3, <2>4, <2>5
<1>3. TwoYearsLater(t) = TimesOf(v)
  BY DEF TwoYearsLater, DateAt
<1>4. /\ y \in 1..Years - 4 /\ y + 2 \in 1..Years /\ y + 2 \in 1..Years - 1 /\ y + 3 \in 1..Years - 1
      /\ y + 3 \in 1..Years
  <2> HIDE DEF w, d, m, k, r
  <2> QED
    BY <1>1, <1>2
<1>5. <<y + 3, 1, 1>> \in Dates /\ <<y + 4, 1, 1>> \in Dates /\ DayNumber[<<y + 3, 1, 1>>] < DayNumber[<<y + 4, 1, 1>>]
  <2>1. <<y + 3, 1, 1>> \in Dates
    <3>1. 1 \in Months
      BY Units
    <3> QED
      BY <1>4, <3>1, FirstIs
  <2>2. y + 3 + 1 = y + 4
    BY <1>2
  <2> QED
    BY <1>4, <2>1, <2>2, NextYear
<1>6. <<y + 2, m, 1>> \in Dates /\ FirstOf(y + 2, m) = first * Day
  BY <1>2, <1>4, FirstIs
<1>7. n < DayNumber[<<y + 4, 1, 1>>] /\ n \in Nat
  <2> DEFINE last == <<y + 2, m, MonthDays[m]>>
  <2>1. MonthDays[m] \in Nat \ {0}
    BY <1>2, Units
  <2>2. last \in Dates /\ DayNumber[last] >= first + MonthDays[m] - 1
    <3>1. MonthDays[m] \in 1..MonthDays[m]
      BY <2>1
    <3> HIDE DEF m
    <3> QED
      BY <1>2, <1>4, <3>1, DateIs, DaysOfMonth
  <2>3. DayNumber[last] < DayNumber[<<y + 3, 1, 1>>]
    <3>1. last[1] <= y + 2 /\ y + 2 + 1 = y + 3
      BY <1>2
    <3> HIDE DEF last
    <3> QED
      BY <1>4, <2>2, <3>1, NextYear
  <2>4. first \in Nat /\ DayNumber[last] \in Nat /\ DayNumber[<<y + 3, 1, 1>>] \in Nat /\ DayNumber[<<y + 4, 1, 1>>] \in Nat
    BY <1>5, <1>6, <2>2, DayNumberType
  <2> HIDE DEF first, last, k, m, d
  <2> QED
    BY <1>2, <1>5, <2>1, <2>2, <2>3, <2>4
<1>8. v \in Walls /\ v \div Day = n /\ w < v
  <2>1. first \in Nat
    BY <1>6, DayNumberType
  <2>2. v = Day * n + r
    <3> HIDE DEF first, k, r
    <3>1. v = first * Day + (k - 1) * Day + r
      BY <1>6
    <3>2. \A a \in Nat : a * first + a * (k - 1) = a * (first + k - 1)
      BY <1>2, <2>1
    <3>3. first * Day = Day * first /\ (k - 1) * Day = Day * (k - 1)
      BY <1>1, <1>2, <2>1
    <3>4. Day * first + Day * (k - 1) = Day * n
      BY <1>1, <3>2
    <3> QED
      BY <3>1, <3>3, <3>4
  <2>3. v \in Nat /\ v \div Day = n
    <3> HIDE DEF n, r, v
    <3>1. Day * n + r \in Nat /\ (Day * n + r) \div Day = n
      BY <1>1, <1>2, <1>7, Quotient
    <3> QED
      BY <2>2, <3>1
  <2>4. v \in Walls
    <3> HIDE DEF n, v
    <3>1. DayNumber[<<y + 4, 1, 1>>] \in 0..Cardinality(Dates) - 1
      BY <1>5, DayNumberType
    <3>2. n < Cardinality(Dates)
      BY <1>7, <3>1, DatesFinite
    <3> QED
      BY <2>3, <3>2, WallDays
  <2>5. w < v
    <3>1. Earlier(d, <<y + 2, m, 1>>)
      BY <1>2 DEF Earlier
    <3>2. w < FirstOf(y + 2, m)
      BY <1>1, <1>2, <1>4, <3>1, LaterMonth
    <3>3. (k - 1) * Day \in Nat /\ first * Day \in Nat
      BY <1>1, <1>2, <2>1, Product
    <3> HIDE DEF w, k, first, r
    <3> QED
      BY <1>1, <1>2, <1>6, <3>2, <3>3
  <2> QED
    BY <2>3, <2>4, <2>5
<1>9. v >= OffsetBefore
  <2>1. w = t + OffsetBefore /\ t \in Nat /\ OffsetBefore \in Nat /\ v \in Nat
    BY <1>8, WallOf, Steady, ClockAt
  <2> HIDE DEF w, v
  <2> QED
    BY <1>8, <2>1
<1> HIDE DEF v, n
<1>10. TimesOf(v) = {v - OffsetBefore} /\ v - OffsetBefore \in Time /\ Wall(v - OffsetBefore) = v
  BY <1>8, <1>9, TimeOf
<1> QED
  BY <1>3, <1>4, <1>5, <1>7, <1>8, <1>10

\* A search that is within its lookahead is well within the calendar.
LEMMA Lookahead ==
    ASSUME SteadyClock, NEW t \in Time, NEW l \in Time, t < l, NEW y \in 1..Years - 4,
           (Wall(l) \div Day) < DayNumber[<<y + 4, 1, 1>>], <<y + 4, 1, 1>> \in Dates
    PROVE  /\ (Wall(t) \div Day) < DayNumber[<<y + 4, 1, 1>>]
           /\ (Wall(t) \div Day) + 1 < Cardinality(Dates)
           /\ DateAt(Wall(t))[1] < Years
<1> DEFINE e == <<y + 4, 1, 1>>
           w == Wall(t)
           x == Wall(l)
<1>1. w \in Walls /\ x \in Walls /\ w \in Nat /\ x \in Nat /\ w <= x /\ Day \in Nat \ {0}
  <2>1. w = t + OffsetBefore /\ x = l + OffsetBefore /\ t \in Nat /\ l \in Nat /\ OffsetBefore \in Nat
    BY WallOf, Steady
  <2>2. w \in Walls /\ x \in Walls /\ Day \in Nat \ {0}
    BY WallOf, Units
  <2> HIDE DEF w, x
  <2> QED
    BY <2>1, <2>2
<1>2. DayNumber[e] \in 0..Cardinality(Dates) - 1
  BY DayNumberType
<1>3. w \div Day \in Nat /\ x \div Day \in Nat /\ (w \div Day) <= (x \div Day)
  BY <1>1, Division, DivisionKeepsOrder
<1>4. (w \div Day) < DayNumber[e] /\ (w \div Day) + 1 < Cardinality(Dates)
  <2> DEFINE a == w \div Day
             b == x \div Day
             c == DayNumber[e]
             D == Cardinality(Dates)
  <2>1. a \in Nat /\ b \in Nat /\ a <= b /\ b < c /\ c \in 0..D - 1 /\ D \in Nat
    BY <1>2, <1>3, DatesFinite
  <2> HIDE DEF a, b, c, D
  <2>2. a < c /\ a + 1 < D
    BY <2>1
  <2> QED
    BY <2>2 DEF a, c, D
<1>5. DateAt(w)[1] < Years
  <2> DEFINE d == DateAt(w)
  <2>1. w \div Day \in 0..Cardinality(Dates) - 1 /\ d \in Dates
    BY <1>1, ClockAt
  <2>2. DayNumber[d] = w \div Day
    BY <2>1, DateOfNumber DEF DateAt
  <2>3. Earlier(d, e)
    BY <1>4, <2>1, <2>2, DayNumberOrder
  <2>4. d[1] \in Nat /\ d[2] \in Nat /\ d[3] \in Nat /\ d[2] >= 1 /\ d[3] >= 1
    BY <2>1, DateParts
  <2>5. y \in Nat /\ y + 4 <= Years /\ Years \in Nat
    BY Units
  <2> HIDE DEF d
  <2>6. d[1] < y + 4
    BY <2>3, <2>4, <2>5 DEF Earlier
  <2>7. d[1] < Years
    BY <2>4, <2>5, <2>6
  <2> QED
    BY <2>7 DEF d
<1> QED
  BY <1>4, <1>5

\* A time before the first day of a year.
LEMMA BeforeYear ==
    ASSUME SteadyClock, NEW y \in 1..Years, NEW t \in Nat, t + OffsetBefore < FirstOf(y, 1)
    PROVE  /\ t \in Time
           /\ (Wall(t) \div Day) + 1 < Cardinality(Dates)
           /\ DateAt(Wall(t))[1] < y
<1> DEFINE w == Wall(t)
           e == <<y, 1, 1>>
           d == DateAt(w)
<1>1. OffsetBefore \in Nat /\ w = t + OffsetBefore /\ w \in Nat
  BY Steady
<1>2. e \in Dates /\ FirstOf(y, 1) = DayNumber[e] * Day
  BY FirstIs, Units
<1>3. DayNumber[e] \in Nat /\ DayNumber[e] < Cardinality(Dates) /\ Day \in Nat \ {0}
  <2>1. DayNumber[e] \in 0..Cardinality(Dates) - 1
    BY <1>2, DayNumberType
  <2> QED
    BY <2>1, DatesFinite, Units, SMTT(30)
<1> HIDE DEF e
<1>4. w < Day * DayNumber[e]
  <2>1. FirstOf(y, 1) = Day * DayNumber[e]
    BY <1>2, <1>3
  <2> QED
    BY <1>1, <2>1
<1>5. w \div Day \in Nat /\ (w \div Day) < DayNumber[e]
  BY <1>1, <1>3, <1>4, BeforeBlock, Division
<1>6. w \in Walls
  BY <1>1, <1>3, <1>5, WallDays, DatesFinite
<1>7. t \in Time
  <2> DEFINE N == Cardinality(Dates) * Day
  <2>1. N \in Nat
    BY DatesFinite, Units, Product
  <2>2. w \in 0..N - 1 /\ Time = 0..N - 1 - OffsetBefore
    BY <1>6, Steady DEF Walls
  <2> HIDE DEF N, w
  <2> QED
    BY <1>1, <2>1, <2>2
<1>8. (w \div Day) + 1 < Cardinality(Dates)
  <2> DEFINE n == w \div Day
             D == Cardinality(Dates)
  <2>1. D \in Nat /\ n \in Nat /\ n < DayNumber[e] /\ DayNumber[e] < D
    BY <1>3, <1>5, DatesFinite
  <2> HIDE DEF n, D
  <2>2. n + 1 < D
    BY <1>3, <2>1
  <2> QED
    BY <2>2 DEF n, D
<1>9. d[1] < y
  <2>1. d \in Dates /\ DayNumber[d] = w \div Day
    BY <1>6, ClockAt, DateOfNumber DEF DateAt
  <2>2. d[1] \in Nat /\ d[2] \in Nat /\ d[3] \in Nat /\ d[2] >= 1 /\ d[3] >= 1
    BY <2>1, DateParts
  <2>3. Earlier(d, e)
    BY <1>2, <1>5, <2>1, DayNumberOrder
  <2>4. y \in Nat
    BY Units
  <2> HIDE DEF d
  <2> QED
    BY <2>2, <2>3, <2>4 DEF Earlier, e
<1> QED
  BY <1>7, <1>8, <1>9

\* Every search starts in the calendar, and its limit is there.
LEMMA StartIs ==
    ASSUME SteadyClock, NEW a \in 0..LastAfter
    PROVE  /\ a \in Time /\ a + 1 \in Time
           /\ \E y \in 1..Years - 4, l \in Time :
                 /\ y = DateAt(Wall(a + 1))[1] /\ <<y, 1, 1>> \in Dates /\ <<y + 4, 1, 1>> \in Dates
                 /\ DayNumber[<<y, 1, 1>>] <= (Wall(a + 1) \div Day)
                 /\ TwoYearsLater(a + 1) = {l} /\ (Wall(l) \div Day) < DayNumber[<<y + 4, 1, 1>>]
<1> DEFINE t == a + 1
           w == Wall(t)
           d == DateAt(w)
           y == d[1]
<1>1. /\ LastAfter \in Nat /\ a \in Nat /\ a <= LastAfter /\ OffsetBefore \in Nat
      /\ LastAfter + 1 + OffsetBefore < FirstOf(Years - 3, 1) /\ Years > 4 /\ Years \in Nat
  BY HorizonAssumption, Steady, Units
<1>2. Years - 3 \in 1..Years /\ 1 \in Months /\ FirstOf(Years - 3, 1) \in Int
  <2>1. Years - 3 \in 1..Years /\ 1 \in Months
    BY <1>1, Units
  <2>2. DayNumber[<<Years - 3, 1, 1>>] \in Nat
    BY <2>1, FirstIs, DayNumberType
  <2> QED
    BY <2>1, <2>2, Units, Product, SMTT(30) DEF FirstOf
<1>3. t \in Nat /\ t + OffsetBefore < FirstOf(Years - 3, 1) /\ a + OffsetBefore < FirstOf(Years - 3, 1)
  BY <1>1, <1>2
<1>4. t \in Time /\ a \in Time /\ y < Years - 3
  BY <1>1, <1>2, <1>3, BeforeYear
<1>5. w \in Walls
  BY <1>4, WallOf
<1>6. d \in Dates /\ DayNumber[d] = w \div Day
  BY <1>5, ClockAt, DateOfNumber DEF DateAt
<1>7. y \in Nat /\ y >= 1 /\ y <= Years - 4
  <2>1. d[1] \in Nat /\ d[1] >= 1
    BY <1>6, DateParts
  <2> HIDE DEF d
  <2> QED
    BY <1>1, <1>4, <2>1
<1>8. y \in 1..Years - 4 /\ y \in 1..Years
  <2> HIDE DEF y
  <2> QED
    BY <1>1, <1>7
<1>9. <<y, 1, 1>> \in Dates /\ DayNumber[<<y, 1, 1>>] <= (w \div Day)
  <2>1. <<y, 1, 1>> \in Dates
    BY <1>2, <1>8, FirstIs
  <2>2. ~Earlier(d, <<y, 1, 1>>)
    <3>1. d[1] \in Nat /\ d[2] \in Nat /\ d[3] \in Nat /\ d[2] >= 1 /\ d[3] >= 1
      BY <1>6, DateParts
    <3> HIDE DEF d
    <3> QED
      BY <3>1 DEF Earlier
  <2>3. DayNumber[d] \in Nat /\ DayNumber[<<y, 1, 1>>] \in Nat
    BY <1>6, <2>1, DayNumberType
  <2>4. ~(DayNumber[d] < DayNumber[<<y, 1, 1>>])
    BY <1>6, <2>1, <2>2, DayNumberOrder
  <2> QED
    BY <1>6, <2>1, <2>3, <2>4
<1>10. PICK l \in Time : TwoYearsLater(t) = {l} /\ (Wall(l) \div Day) < DayNumber[<<y + 4, 1, 1>>]
  BY <1>4, <1>7, TwoYearsIs
<1>11. <<y + 4, 1, 1>> \in Dates
  BY <1>4, <1>7, TwoYearsIs
<1> QED
  BY <1>4, <1>8, <1>9, <1>10, <1>11

-----------------------------------------------------------------------------
(* The inductive invariant of the daemon's search.                            *)

DayOf(t) == Wall(t) \div Day

\* A search has not used up more iterations than its days allow.
SearchInv ==
    pc = "search" =>
        /\ ~Dead(schedule) /\ after < current
        /\ TwoYearsLater(after + 1) = {limit}
        /\ iterations + Rank(schedule, Wall(current)) <= 6 * (DayOf(current) - DayOf(after + 1) + 1)

CInv ==
    /\ TypeOK
    /\ after \in 0..LastAfter
    /\ anchor # None => Interval(schedule) > 0
    /\ SearchInv
    /\ NothingSkipped
    /\ ResultIsRight
    /\ AnchorDecides

LEMMA ScheduleValid ==
    ASSUME NEW c \in DOMAIN Schedules
    PROVE  Valid(Schedules[c])
BY ScheduleAssumption DEF Valid

LEMMA IntervalIs ==
    ASSUME NEW s, Valid(s)
    PROVE  Interval(s) \in Nat
<1> DEFINE stepped == {i \in 0..4 : s[i].step > 0}
<1>1. \A i \in 0..4 : Unit[i] \in Nat /\ s[i].step \in Nat
  <2>1. \A i \in 0..4 : s[i].step \in Nat
    BY ScheduleIs
  <2>2. SecondsPerMinute \in Nat /\ Hour \in Nat /\ Day \in Nat /\ StepMonth * Day \in Nat
    BY Units, Product
  <2>3. \A i \in 0..4 : Unit[i] \in Nat
    BY <2>2 DEF Unit
  <2> QED
    BY <2>1, <2>3
<1>2. CASE stepped = {}
  BY <1>2 DEF Interval
<1>3. CASE stepped # {}
  <2>1. stepped \in SUBSET Nat
    OBVIOUS
  <2>2. Min(stepped) \in 0..4
    BY <1>3, <2>1, MinIsLeast
  <2>3. s[Min(stepped)].step * Unit[Min(stepped)] \in Nat
    BY <1>1, <2>2, Product
  <2> QED
    BY <1>3, <2>3 DEF Interval
<1> QED
  BY <1>2, <1>3

LEMMA SelectedIs == \A t : Selected(t) <=> Picks(schedule, Wall(t))
BY DEF Selected, Picks, Fields

LEMMA MatchingIsSelected ==
    ASSUME Valid(schedule), NEW t, Wall(t) \in Walls, MatchesAll(t)
    PROVE  Selected(t)
<1> DEFINE w == Wall(t)
<1>1. /\ \A i \in 0..4 : Matches(schedule[i], Clock[w][i])
      /\ DowMatches(schedule[5], Clock[w][5])
  BY DEF MatchesAll, Fields
<1>2. PicksDay(schedule, w)
  BY <1>1 DEF PicksDay
<1>3. Picks(schedule, w)
  BY <1>1, <1>2, PicksIs
<1> QED
  BY <1>3, SelectedIs

\* The limit of a search is within the two years, and the iterations last.
LEMMA SearchIs ==
    ASSUME SteadyClock, CInv, pc = "search", current < limit
    PROVE  /\ Wall(current) \in Walls /\ DayOf(current) + 1 < Cardinality(Dates)
           /\ DateAt(Wall(current))[1] < Years
           /\ iterations < MaxIterations
<1>1. after \in 0..LastAfter /\ current \in Time /\ limit \in Time /\ after < current /\ iterations \in Nat
  BY DEF CInv, TypeOK, SearchInv
<1>2. PICK y \in 1..Years - 4, l \in Time :
                 /\ y = DateAt(Wall(after + 1))[1] /\ <<y, 1, 1>> \in Dates /\ <<y + 4, 1, 1>> \in Dates
                 /\ DayNumber[<<y, 1, 1>>] <= (Wall(after + 1) \div Day)
                 /\ TwoYearsLater(after + 1) = {l} /\ (Wall(l) \div Day) < DayNumber[<<y + 4, 1, 1>>]
  BY <1>1, StartIs
<1>3. limit = l
  BY <1>2 DEF CInv, SearchInv
<1>4. /\ DayOf(current) < DayNumber[<<y + 4, 1, 1>>] /\ DayOf(current) + 1 < Cardinality(Dates)
      /\ DateAt(Wall(current))[1] < Years
  BY <1>1, <1>2, <1>3, Lookahead DEF DayOf
<1>5. iterations < MaxIterations
  <2> DEFINE a == DayNumber[<<y, 1, 1>>]
             b == DayNumber[<<y + 4, 1, 1>>]
             c == DayOf(current)
             f == DayOf(after + 1)
             r == Rank(schedule, Wall(current))
  <2>1. a \in Nat /\ b \in Nat
    BY <1>2, DayNumberType
  <2>2. c \in Nat /\ f \in Nat
    <3>1. after + 1 \in Time /\ Day \in Nat \ {0}
      BY <1>1, StartIs, Units
    <3>2. Wall(current) \in Nat /\ Wall(after + 1) \in Nat
      BY <1>1, <3>1, WallOf, ClockAt
    <3> QED
      BY <3>1, <3>2, Division DEF DayOf
  <2>3. r \in 0..5 /\ iterations + r <= 6 * (c - f + 1)
    BY RankRange DEF CInv, SearchInv
  <2>4. 6 * (b - a + 1) < MaxIterations /\ MaxIterations \in Nat
    BY IterationAssumption, Units
  <2>5. c < b /\ a <= f
    BY <1>2, <1>4 DEF DayOf
  <2> HIDE DEF a, b, c, f, r
  <2> QED
    BY <1>1, <2>1, <2>2, <2>3, <2>4, <2>5
<1>6. Wall(current) \in Walls
  BY <1>1, WallOf
<1> QED
  BY <1>4, <1>5, <1>6

LEMMA DayOfType ==
    ASSUME SteadyClock, NEW t \in Time
    PROVE  DayOf(t) \in Nat
BY WallOf, ClockAt, Units, Division DEF DayOf

\* A jump to a place of lower rank or on another day.
LEMMA SearchStep ==
    ASSUME SteadyClock, CInv, Searching,
           NEW v \in Walls, Jump(schedule, Wall(current), v),
           DayOf(current) < v \div Day \/ Rank(schedule, v) < Rank(schedule, Wall(current)),
           Skip(v)
    PROVE  CInv'
<1> DEFINE w == Wall(current)
<1>1. /\ pc = "search" /\ current \in Time /\ after \in 0..LastAfter /\ after < current
      /\ iterations \in 0..MaxIterations /\ iterations < MaxIterations /\ MaxIterations \in Nat
  BY Units DEF Searching, CInv, TypeOK, SearchInv
<1>2. w = current + OffsetBefore /\ current \in Nat /\ OffsetBefore \in Nat /\ after \in Nat /\ v \in Nat
  BY <1>1, WallOf, Steady, ClockAt, HorizonAssumption
<1>3. w < v /\ (w \div Day) <= (v \div Day) /\ \A x \in w..v - 1 : ~Picks(schedule, x)
  BY DEF Jump
<1> HIDE DEF w
<1>4. current' = v - OffsetBefore /\ current' \in Time /\ Wall(current') = v
  <2>1. v >= OffsetBefore
    BY <1>2, <1>3
  <2>2. TimesOf(v) = {v - OffsetBefore} /\ v - OffsetBefore \in Time /\ Wall(v - OffsetBefore) = v
    BY <2>1, TimeOf
  <2> QED
    BY <2>2 DEF Skip
<1>5. /\ iterations' = iterations + 1 /\ pc' = pc /\ chosen' = chosen /\ anchor' = anchor /\ after' = after
      /\ limit' = limit /\ result' = result /\ schedule' = schedule
  BY DEF Skip, schedule
<1>6. TypeOK'
  <2>1. iterations' \in 0..MaxIterations
    BY <1>1, <1>5
  <2> QED
    BY <1>4, <1>5, <2>1 DEF CInv, TypeOK
<1>7. NothingSkipped'
  <2> SUFFICES ASSUME NEW t \in after + 1..current' - 1 PROVE ~Picks(schedule, Wall(t))
    BY <1>5, SelectedIs DEF NothingSkipped, Selected, Fields, Picks
  <2>1. t \in Int /\ after + 1 <= t /\ t < current'
    BY <1>2, <1>4
  <2>2. CASE t < current
    <3>1. t \in after + 1..current - 1
      BY <1>2, <2>1, <2>2
    <3> QED
      BY <1>1, <3>1, SelectedIs DEF CInv, NothingSkipped
  <2>3. CASE current <= t
    <3>1. t + OffsetBefore \in w..v - 1
      BY <1>2, <1>4, <2>1, <2>3
    <3> QED
      BY <1>3, <3>1, Steady
  <2> QED
    BY <1>2, <2>1, <2>2, <2>3
<1>8. SearchInv'
  <2> DEFINE c == DayOf(current)
             f == DayOf(after + 1)
             d == v \div Day
             r == Rank(schedule, w)
             p == Rank(schedule, v)
  <2>1. c \in Nat /\ f \in Nat /\ d \in Nat
    BY <1>1, <1>2, DayOfType, StartIs, Units, Division
  <2>2. r \in 0..5 /\ p \in 0..5
    BY RankRange
  <2>3. iterations + r <= 6 * (c - f + 1) /\ c <= d /\ (c < d \/ p < r)
    BY <1>1, <1>3 DEF CInv, SearchInv, w, DayOf
  <2> HIDE DEF c, f, d, r, p
  <2>4. iterations + 1 + p <= 6 * (d - f + 1)
    BY <1>1, <2>1, <2>2, <2>3
  <2>5. iterations' + Rank(schedule, Wall(current'))  <= 6 * (DayOf(current') - DayOf(after + 1) + 1)
    BY <1>4, <1>5, <2>4 DEF d, f, p, DayOf
  <2>6. after < current'
    BY <1>1, <1>2, <1>3, <1>4
  <2>7. (DayOf(after + 1))' = DayOf(after + 1) /\ (Wall(current))' = Wall(current') /\ (DayOf(current))' = DayOf(current')
    BY <1>5 DEF DayOf, Wall
  <2>8. (Rank(schedule, Wall(current)))' = Rank(schedule, Wall(current'))
    BY <1>5, <2>7 DEF Rank, Matches, PicksDay, DowMatches, LaterThan
  <2>9. TwoYearsLater(after + 1)' = TwoYearsLater(after + 1)
    BY <1>5 DEF TwoYearsLater, Wall, TimesOf
  <2> QED
    BY <1>1, <1>5, <2>5, <2>6, <2>7, <2>8, <2>9 DEF CInv, SearchInv, Dead
<1>9. pc' = "search"
  BY <1>1, <1>5
<1>10. ResultIsRight' /\ AnchorDecides'
  BY <1>9 DEF ResultIsRight, ResultIsLater, NeverForTwoYears, AnchorDecides
<1> QED
  BY <1>5, <1>6, <1>7, <1>8, <1>10 DEF CInv

\* A carry into the next block, added to the time.
Carries(u, r, b, w, f, x) ==
    /\ u \in Nat \ {0} /\ r \in Nat \ {0} /\ b = u * r /\ w \in Nat
    /\ f = (w \div u) % r /\ x = w + (r - f) * u

CarriesTo(b, w, x) == x - (x % b) = w - (w % b) + b

LEMMA Carry ==
    ASSUME NEW u, NEW r, NEW b, NEW w, NEW f, NEW x, Carries(u, r, b, w, f, x)
    PROVE  CarriesTo(b, w, x)
<1>0. /\ u \in Nat \ {0} /\ r \in Nat \ {0} /\ b = u * r /\ w \in Nat
      /\ f = (w \div u) % r /\ x = w + (r - f) * u
  BY DEF Carries
<1> DEFINE q == w \div b
           z == w % u
<1>1. b \in Nat \ {0} /\ u <= b
  BY <1>0, Product
<1>2. q \in Nat /\ w % b = u * f + z /\ w = b * q + (w % b) /\ z \in 0..u - 1 /\ f \in 0..r - 1
  <2>1. w % (u * r) = u * f + z
    BY <1>0, TwoSteps
  <2>2. w \div u \in Nat
    BY <1>0, Division
  <2>3. f \in 0..r - 1 /\ z \in 0..u - 1
    BY <1>0, <2>2, Division
  <2>4. q \in Nat /\ w = b * q + (w % b)
    BY <1>0, <1>1, Division
  <2> QED
    BY <1>0, <2>1, <2>3, <2>4
<1> HIDE DEF q, z
<1>3. u * f \in Nat /\ b * q \in Nat /\ z \in Nat /\ z \in 0..b - 1 /\ q + 1 \in Nat
  BY <1>0, <1>1, <1>2, Product
<1>4. x = b * (q + 1) + z
  <2>1. (r - f) * u = u * r - u * f
    BY <1>0, <1>2
  <2>2. b * (q + 1) = b * q + b
    BY <1>1, <1>2
  <2> QED
    BY <1>0, <1>1, <1>2, <1>3, <2>1, <2>2
<1>5. x \in Nat /\ x % b = z
  BY <1>1, <1>3, <1>4, Quotient
<1>6. w - (w % b) = b * q /\ x - z = b * q + b
  <2>1. b * (q + 1) = b * q + b
    BY <1>1, <1>2
  <2>2. w % b \in Nat /\ w = b * q + (w % b)
    BY <1>2, <1>3
  <2> QED
    BY <1>1, <1>3, <1>4, <2>1, <2>2
<1>7. b * q \in Nat /\ b \in Nat /\ w - (w % b) + b = b * q + b
  BY <1>1, <1>3, <1>6
<1> QED
  BY <1>5, <1>6, <1>7 DEF CarriesTo

\* A field that does not match has values.
LEMMA HasValues ==
    ASSUME NEW s, Valid(s), Fed(s), NEW i \in {0, 1, 2, 4}, NEW v, ~Matches(s[i], v)
    PROVE  /\ s[i].values # {} /\ s[i].values \in SUBSET Nat
           /\ Min(s[i].values) \in s[i].values /\ \A x \in s[i].values : Min(s[i].values) <= x
<1>1. ~s[i].any /\ i \in 0..5
  BY ScheduleIs DEF Matches
<1>2. s[i].values # {}
  BY <1>1 DEF Fed
<1>3. s[i].values \in SUBSET Nat
  <2>1. s[i].values \subseteq Low(i)..High(i) /\ Low(i) \in Nat /\ High(i) \in Int
    BY <1>1, ScheduleIs, Bounds
  <2>2. Low(i)..High(i) \subseteq Nat
    BY <2>1
  <2> QED
    BY <2>1, <2>2
<1> QED
  BY <1>2, <1>3, MinIsLeast

\* What the actions of a search have in common.
LEMMA InSearch ==
    ASSUME SteadyClock, CInv, Searching
    PROVE  /\ Valid(schedule) /\ Fed(schedule)
           /\ Wall(current) \in Walls /\ Wall(current) \in Nat /\ current \in Nat
           /\ (Wall(current) \div Day) + 1 < Cardinality(Dates)
           /\ DateAt(Wall(current))[1] < Years
           /\ \A i \in 0..5 : Shows(i) <=> Matches(schedule[i], Clock[Wall(current)][i])
           /\ \A i \in 0..5 : Later(i) = LaterThan(schedule[i], Clock[Wall(current)][i])
           /\ DayMatches <=> PicksDay(schedule, Wall(current))
           /\ Shows(4) /\ DayMatches => PicksDay(schedule, Wall(current)) /\ Matches(schedule[4], Clock[Wall(current)][4])
<1>1. chosen \in DOMAIN Schedules /\ pc = "search" /\ current < limit /\ current \in Time
  BY DEF Searching, CInv, TypeOK
<1>2. Valid(schedule) /\ Fed(schedule)
  BY <1>1, ScheduleValid DEF schedule, CInv, SearchInv, Dead, Fed
<1>3. /\ Wall(current) \in Walls /\ Wall(current) \in Nat /\ current \in Nat
      /\ (Wall(current) \div Day) + 1 < Cardinality(Dates)
      /\ DateAt(Wall(current))[1] < Years
  BY <1>1, SearchIs, WallOf, ClockAt DEF DayOf
<1> QED
  BY <1>2, <1>3 DEF Shows, Later, DayMatches, PicksDay, Fields, LaterThan

LEMMA SkipMonthKeeps == ASSUME SteadyClock, CInv, SkipMonth PROVE CInv'
<1> DEFINE w == Wall(current)
           d == DateAt(w)
<1>1. Searching /\ ~Shows(4)
  BY DEF SkipMonth
<1>2. /\ Valid(schedule) /\ w \in Walls /\ d[1] < Years
      /\ ~Matches(schedule[4], Clock[w][4]) /\ schedule[4].values # {}
      /\ Later(4) = LaterThan(schedule[4], Clock[w][4])
  <2>1. 4 \in 0..5 /\ 4 \in {0, 1, 2, 4}
    OBVIOUS
  <2> QED
    BY <1>1, <2>1, InSearch, HasValues
<1> DEFINE v == IF Later(4) = {} THEN FirstOf(d[1] + 1, Min(schedule[4].values))
                ELSE FirstOf(d[1], Min(Later(4)))
<1>3. v \in Walls /\ Jump(schedule, w, v) /\ (w \div Day) < (v \div Day)
  BY <1>2, MonthJump
<1>4. Skip(v)
  BY DEF SkipMonth, DateAt
<1> QED
  BY <1>1, <1>3, <1>4, SearchStep DEF DayOf

LEMMA SkipDayKeeps == ASSUME SteadyClock, CInv, SkipDay PROVE CInv'
<1> DEFINE w == Wall(current)
           v == w - (w % Day) + Day
<1>1. Searching /\ ~DayMatches /\ Skip(v)
  BY DEF SkipDay, StartOf
<1>2. v \in Walls /\ Jump(schedule, w, v) /\ (v \div Day) = (w \div Day) + 1
  BY <1>1, InSearch, DayJump
<1>3. w \div Day \in Nat
  BY <1>1, InSearch, Units, Division
<1>4. (w \div Day) < (v \div Day)
  BY <1>2, <1>3
<1> QED
  BY <1>1, <1>2, <1>4, SearchStep DEF DayOf

LEMMA SkipHourKeeps == ASSUME SteadyClock, CInv, SkipHour PROVE CInv'
<1> DEFINE w == Wall(current)
           s == schedule
           f == s[2]
<1>1. Searching /\ Shows(4) /\ DayMatches /\ ~Shows(2)
  BY DEF SkipHour
<1>2. /\ Valid(s) /\ Fed(s) /\ w \in Walls /\ w \in Nat /\ (w \div Day) + 1 < Cardinality(Dates)
      /\ Matches(s[4], Clock[w][4]) /\ PicksDay(s, w) /\ ~Matches(s[2], Clock[w][2])
      /\ Later(2) = LaterThan(s[2], Clock[w][2])
  <2>1. 2 \in 0..5 /\ 4 \in 0..5
    OBVIOUS
  <2> QED
    BY <1>1, <2>1, InSearch
<1>3. Rank(s, w) = 3
  BY <1>2 DEF Rank
<1>4. Unit[2] = Hour /\ Unit[2 + 1] = Day /\ 2 \in 0..2
  BY DEF Unit
<1>5. ASSUME NEW v \in Walls, Jump(s, w, v), Skip(v), Clock[v][2] \in f.values, Clock[v][0] = 0, Clock[v][1] = 0
      PROVE  CInv'
  <2>1. Matches(s[2], Clock[v][2])
    BY <1>5 DEF Matches
  <2>2. Rank(s, v) <= 2 /\ Rank(s, v) \in 0..5
    BY <1>2, <1>5, <2>1, RankIs, RankRange
  <2>3. Rank(s, v) < Rank(s, w)
    BY <1>3, <2>2
  <2> QED
    BY <1>1, <1>5, <2>3, SearchStep
<1>6. CASE Later(2) = {}
  <2> DEFINE z == Min(f.values)
             v == w - (w % Day) + Day + Hour * z
  <2>1. z \in f.values /\ f.values \subseteq 0..Radix(2) - 1 /\ \A x \in f.values : z <= x
    <3>1. 2 \in 0..4 /\ 2 \in 0..5
      OBVIOUS
    <3>2. f.values \subseteq 0..Radix(2) - 1
      BY <1>2, <1>4, <3>1, ScheduleIs, Scale
    <3>3. z \in f.values /\ \A x \in f.values : z <= x
      BY <1>2, <3>1, HasValues
    <3> QED
      BY <3>2, <3>3
  <2>2. Skip(v)
    <3>1. Skip(w - (w % Day) + (Day + Hour * z))
      BY <1>6 DEF SkipHour, StartOf
    <3>2. w % Day \in Nat /\ Hour * z \in Nat /\ Day \in Nat
      <4>1. z \in Nat /\ Hour \in Nat /\ Day \in Nat \ {0}
        BY <2>1, Units
      <4>2. w % Day \in 0..Day - 1
        BY <1>2, <4>1, Division
      <4> HIDE DEF z, w
      <4> QED
        BY <4>1, <4>2, Product
    <3>3. w - (w % Day) + (Day + Hour * z) = v
      <4> DEFINE a == w % Day
                 h == Hour * z
      <4>1. w \in Nat /\ a \in Nat /\ h \in Nat /\ Day \in Nat
        BY <1>2, <3>2
      <4> HIDE DEF a, h, w
      <4>2. w - a + (Day + h) = w - a + Day + h
        BY <4>1
      <4> QED
        BY <4>2 DEF a, h
    <3> QED
      BY <3>1, <3>3
  <2>3. v \in Walls /\ Jump(s, w, v) /\ Clock[v][2] = z /\ \A j \in 0..2 - 1 : Clock[v][j] = 0
    <3>1. z \in 0..Radix(2) - 1 /\ LaterThan(s[2], Clock[w][2]) = {}
      BY <1>2, <1>6, <2>1
    <3>2. v = w - (w % Unit[2 + 1]) + Unit[2 + 1] + Unit[2] * z
      BY <1>4
    <3> HIDE DEF v, z, w
    <3> QED
      BY <1>2, <1>4, <2>1, <3>1, <3>2, WrapJump
  <2>4. Clock[v][0] = 0 /\ Clock[v][1] = 0
    <3>1. 0 \in 0..2 - 1 /\ 1 \in 0..2 - 1
      OBVIOUS
    <3> QED
      BY <2>3, <3>1
  <2> QED
    BY <1>5, <2>1, <2>2, <2>3, <2>4
<1>7. CASE Later(2) # {}
  <2> DEFINE v == w - (w % Day) + Hour * Min(Later(2))
  <2>1. Skip(v)
    BY <1>7 DEF SkipHour, StartOf
  <2>2. v \in Walls /\ Jump(s, w, v) /\ Clock[v][2] \in f.values /\ \A j \in 0..2 - 1 : Clock[v][j] = 0
    <3>1. v = w - (w % Unit[2 + 1]) + Unit[2] * Min(Later(2))
      BY <1>4
    <3> DEFINE later == Later(2)
    <3>2. later = LaterThan(s[2], Clock[w][2]) /\ later # {} /\ v = w - (w % Unit[2 + 1]) + Unit[2] * Min(later)
      BY <1>2, <1>7, <3>1
    <3>3. 2 \in 0..2
      OBVIOUS
    <3>4. Valid(s) /\ w \in Walls /\ (w \div Day) + 1 < Cardinality(Dates) /\ ~Matches(s[2], Clock[w][2])
      BY <1>2
    <3> HIDE DEF v, w, s, later
    <3>5. v \in Walls /\ Jump(s, w, v)
      BY <3>2, <3>3, <3>4, LaterJump
    <3>6. Clock[v][2] \in s[2].values
      BY <3>2, <3>3, <3>4, LaterJump
    <3>7. \A j \in 0..2 - 1 : Clock[v][j] = 0
      BY <3>2, <3>3, <3>4, LaterJump
    <3> QED
      BY <3>5, <3>6, <3>7
  <2>3. Clock[v][0] = 0 /\ Clock[v][1] = 0
    <3>1. 0 \in 0..2 - 1 /\ 1 \in 0..2 - 1
      OBVIOUS
    <3> QED
      BY <2>2, <3>1
  <2> QED
    BY <1>5, <2>1, <2>2, <2>3
<1> QED
  BY <1>6, <1>7

LEMMA SkipMinuteKeeps == ASSUME SteadyClock, CInv, SkipMinute PROVE CInv'
<1> DEFINE w == Wall(current)
           s == schedule
           f == s[1]
<1>1. Searching /\ Shows(4) /\ DayMatches /\ Shows(2) /\ ~Shows(1)
  BY DEF SkipMinute
<1>2. /\ Valid(s) /\ Fed(s) /\ w \in Walls /\ w \in Nat /\ (w \div Day) + 1 < Cardinality(Dates)
      /\ Matches(s[4], Clock[w][4]) /\ PicksDay(s, w) /\ Matches(s[2], Clock[w][2]) /\ ~Matches(s[1], Clock[w][1])
      /\ Later(1) = LaterThan(s[1], Clock[w][1])
  <2>1. 1 \in 0..5 /\ 2 \in 0..5 /\ 4 \in 0..5
    OBVIOUS
  <2> QED
    BY <1>1, <2>1, InSearch
<1>3. Rank(s, w) = IF Later(1) = {} THEN 4 ELSE 2
  BY <1>2 DEF Rank
<1>4. /\ Unit[1] = SecondsPerMinute /\ Unit[2] = Hour /\ 1 \in 0..2 /\ 1 + 1 = 2
      /\ Radix(1) = MinutesPerHour /\ Hour = SecondsPerMinute * MinutesPerHour
      /\ SecondsPerMinute \in Nat \ {0} /\ MinutesPerHour \in Nat \ {0}
  BY Units DEF Unit, Radix, Hour
<1>5. CASE Later(1) = {}
  <2> DEFINE x == w + (MinutesPerHour - Clock[w][1]) * SecondsPerMinute
             v == w - (w % Hour) + Hour
  <2>1. Skip(x - (x % Hour))
    <3>1. Skip(StartOf(Hour, current + (MinutesPerHour - Fields(current)[1]) * SecondsPerMinute))
      BY <1>5 DEF SkipMinute
    <3> DEFINE g == (MinutesPerHour - Clock[w][1]) * SecondsPerMinute
    <3>2. current \in Nat /\ OffsetBefore \in Nat
      BY <1>1, InSearch, Steady
    <3>3. g \in Int
      <4>1. Clock[w][1] \in Low(1)..High(1) /\ Low(1) \in Nat /\ High(1) \in Int
        BY <1>2, ClockRange, Bounds
      <4> QED
        BY <1>4, <4>1
    <3>4. Wall(current + g) = w + g
      <4> HIDE DEF g
      <4>1. Wall(current + g) = current + g + OffsetBefore /\ w = current + OffsetBefore
        BY Steady
      <4> QED
        BY <3>2, <3>3, <4>1
    <3> QED
      BY <3>1, <3>4 DEF StartOf, Fields
  <2>2. x - (x % Hour) = v
    <3>1. Clock[w][1] = (w \div SecondsPerMinute) % MinutesPerHour
      BY <1>2, ClockAt
    <3>2. x = w + (MinutesPerHour - Clock[w][1]) * SecondsPerMinute /\ w \in Nat
      BY <1>2
    <3> DEFINE g == Clock[w][1]
    <3>3. Hour = SecondsPerMinute * MinutesPerHour
      BY <1>4
    <3>4. g = (w \div SecondsPerMinute) % MinutesPerHour /\ x = w + (MinutesPerHour - g) * SecondsPerMinute
      BY <3>1, <3>2
    <3>5. w \in Nat /\ SecondsPerMinute \in Nat \ {0} /\ MinutesPerHour \in Nat \ {0}
      BY <1>4, <3>2
    <3> HIDE DEF w, x, g
    <3>6. Carries(SecondsPerMinute, MinutesPerHour, Hour, w, g, x)
      BY <3>3, <3>4, <3>5 DEF Carries
    <3>7. CarriesTo(Hour, w, x)
      BY <3>6, Carry
    <3> QED
      BY <3>7 DEF CarriesTo
  <2>3. v \in Walls /\ Jump(s, w, v) /\ Clock[v][1] = 0 /\ \A j \in 0..1 - 1 : Clock[v][j] = 0
    <3>1. 0 \in 0..Radix(1) - 1 /\ LaterThan(s[1], Clock[w][1]) = {}
      BY <1>2, <1>4, <1>5
    <3>2. \A y \in s[1].values : 0 <= y
      <4>1. s[1].values \subseteq Low(1)..High(1) /\ Low(1) = 0
        BY <1>2, <1>4, ScheduleIs, Scale
      <4> QED
        BY <4>1
    <3>3. v = w - (w % Unit[1 + 1]) + Unit[1 + 1] + Unit[1] * 0
      <4>1. w \in Nat /\ Hour \in Nat \ {0} /\ w % Hour \in 0..Hour - 1
        BY <1>2, Units, Division
      <4> HIDE DEF w
      <4> QED
        BY <1>4, <4>1
    <3> HIDE DEF v, w
    <3> QED
      BY <1>2, <1>4, <3>1, <3>2, <3>3, WrapJump
  <2>4. Rank(s, v) <= 3 /\ Rank(s, v) \in 0..5
    <3>1. 0 \in 0..1 - 1
      OBVIOUS
    <3> QED
      BY <1>2, <2>3, <3>1, RankIs, RankRange
  <2>5. Rank(s, v) < Rank(s, w)
    BY <1>3, <1>5, <2>4
  <2> QED
    BY <1>1, <2>1, <2>2, <2>3, <2>5, SearchStep
<1>6. CASE Later(1) # {}
  <2> DEFINE v == w - (w % Hour) + SecondsPerMinute * Min(Later(1))
  <2>1. Skip(v)
    <3>1. Skip(w - (w % Hour) + Min(Later(1)) * SecondsPerMinute)
      BY <1>6 DEF SkipMinute, StartOf
    <3>2. Min(Later(1)) \in Nat
      <4>1. s[1].values \subseteq Low(1)..High(1) /\ Low(1) = 0 /\ High(1) \in Int
        BY <1>2, <1>4, ScheduleIs, Scale, Bounds
      <4>2. Later(1) \in SUBSET Nat
        BY <4>1 DEF Later
      <4> QED
        BY <1>6, <4>2, MinIsLeast
    <3>3. Min(Later(1)) * SecondsPerMinute = SecondsPerMinute * Min(Later(1))
      <4> DEFINE z == Min(Later(1))
      <4>1. z \in Nat
        BY <3>2
      <4> HIDE DEF z
      <4>2. z * SecondsPerMinute = SecondsPerMinute * z
        BY <1>4, <4>1
      <4> QED
        BY <4>2 DEF z
    <3> QED
      BY <3>1, <3>3
  <2>2. /\ v \in Walls /\ Jump(s, w, v) /\ Clock[v][1] \in f.values /\ \A j \in 0..1 - 1 : Clock[v][j] = 0
        /\ SameBlock(1, v, w)
    <3>1. v = w - (w % Unit[1 + 1]) + Unit[1] * Min(Later(1))
      BY <1>4
    <3> DEFINE later == Later(1)
    <3>2. later = LaterThan(s[1], Clock[w][1]) /\ later # {} /\ v = w - (w % Unit[1 + 1]) + Unit[1] * Min(later)
      BY <1>2, <1>6, <3>1
    <3>3. 1 \in 0..2
      OBVIOUS
    <3>4. Valid(s) /\ w \in Walls /\ (w \div Day) + 1 < Cardinality(Dates) /\ ~Matches(s[1], Clock[w][1])
      BY <1>2
    <3> HIDE DEF v, w, s, later
    <3>5. v \in Walls /\ Jump(s, w, v)
      BY <3>2, <3>3, <3>4, LaterJump
    <3>6. SameBlock(1, v, w)
      BY <3>2, <3>3, <3>4, LaterJump
    <3>7. Clock[v][1] \in s[1].values
      BY <3>2, <3>3, <3>4, LaterJump
    <3>8. \A j \in 0..1 - 1 : Clock[v][j] = 0
      BY <3>2, <3>3, <3>4, LaterJump
    <3> QED
      BY <3>5, <3>6, <3>7, <3>8
  <2>3. Rank(s, v) <= 1 /\ Rank(s, v) \in 0..5
    <3>1. Clock[v][0] = 0
      <4>1. 0 \in 0..1 - 1
        OBVIOUS
      <4> QED
        BY <2>2, <4>1
    <3>2. Clock[v][2] = Clock[w][2]
      BY <1>2, <1>4, <2>2, SameAbove
    <3>3. Matches(s[1], Clock[v][1]) /\ Matches(s[2], Clock[v][2])
      BY <1>2, <2>2, <3>2 DEF Matches
    <3> QED
      BY <1>2, <3>1, <3>3, RankIs, RankRange
  <2>4. Rank(s, v) < Rank(s, w)
    BY <1>3, <1>6, <2>3
  <2> QED
    BY <1>1, <2>1, <2>2, <2>4, SearchStep
<1> QED
  BY <1>5, <1>6

LEMMA SkipSecondKeeps == ASSUME SteadyClock, CInv, SkipSecond PROVE CInv'
<1> DEFINE w == Wall(current)
           s == schedule
           f == s[0]
<1>1. Searching /\ Shows(4) /\ DayMatches /\ Shows(2) /\ Shows(1) /\ ~Shows(0)
  BY DEF SkipSecond
<1>2. /\ Valid(s) /\ Fed(s) /\ w \in Walls /\ w \in Nat /\ (w \div Day) + 1 < Cardinality(Dates)
      /\ Matches(s[4], Clock[w][4]) /\ PicksDay(s, w) /\ Matches(s[2], Clock[w][2]) /\ Matches(s[1], Clock[w][1])
      /\ ~Matches(s[0], Clock[w][0])
      /\ Later(0) = LaterThan(s[0], Clock[w][0])
  <2>1. 0 \in 0..5 /\ 1 \in 0..5 /\ 2 \in 0..5 /\ 4 \in 0..5
    OBVIOUS
  <2> QED
    BY <1>1, <2>1, InSearch
<1>3. Rank(s, w) = IF Later(0) = {} THEN 5 ELSE 1
  BY <1>2 DEF Rank
<1>4. /\ Unit[0] = 1 /\ Unit[1] = SecondsPerMinute /\ 0 \in 0..2 /\ 0 + 1 = 1
      /\ Radix(0) = SecondsPerMinute /\ SecondsPerMinute \in Nat \ {0} /\ SecondsPerMinute = 1 * SecondsPerMinute
  BY Units DEF Unit, Radix
<1>5. CASE Later(0) = {}
  <2> DEFINE x == w + (SecondsPerMinute - Clock[w][0]) * 1
             v == w - (w % SecondsPerMinute) + SecondsPerMinute
  <2>1. Skip(x - (x % SecondsPerMinute))
    <3>1. Skip(StartOf(SecondsPerMinute, current + (SecondsPerMinute - Fields(current)[0])))
      BY <1>5 DEF SkipSecond
    <3> DEFINE g == SecondsPerMinute - Clock[w][0]
    <3>2. current \in Nat /\ OffsetBefore \in Nat
      BY <1>1, InSearch, Steady
    <3>3. g \in Int
      <4>1. Clock[w][0] \in Low(0)..High(0) /\ Low(0) \in Nat /\ High(0) \in Int
        BY <1>2, ClockRange, Bounds
      <4> QED
        BY <1>4, <4>1
    <3>4. Wall(current + g) = w + g * 1
      <4> HIDE DEF g
      <4>1. Wall(current + g) = current + g + OffsetBefore /\ w = current + OffsetBefore
        BY Steady
      <4> QED
        BY <3>2, <3>3, <4>1
    <3> QED
      BY <3>1, <3>4 DEF StartOf, Fields
  <2>2. x - (x % SecondsPerMinute) = v
    <3>1. Clock[w][0] = (w \div 1) % SecondsPerMinute
      BY <1>2, ClockAt, Nested
    <3>2. 1 \in Nat \ {0}
      OBVIOUS
    <3>3. x = w + (SecondsPerMinute - Clock[w][0]) * 1 /\ w \in Nat
      BY <1>2
    <3> DEFINE g == Clock[w][0]
    <3>4. g = (w \div 1) % SecondsPerMinute /\ x = w + (SecondsPerMinute - g) * 1
      BY <3>1, <3>3
    <3>5. w \in Nat /\ SecondsPerMinute \in Nat \ {0} /\ SecondsPerMinute = 1 * SecondsPerMinute
      BY <1>4, <3>3
    <3> HIDE DEF w, x, g
    <3>6. Carries(1, SecondsPerMinute, SecondsPerMinute, w, g, x)
      BY <3>2, <3>4, <3>5 DEF Carries
    <3>7. CarriesTo(SecondsPerMinute, w, x)
      BY <3>6, Carry
    <3> QED
      BY <3>7 DEF CarriesTo
  <2>3. v \in Walls /\ Jump(s, w, v) /\ Clock[v][0] = 0
    <3>1. 0 \in 0..Radix(0) - 1 /\ LaterThan(s[0], Clock[w][0]) = {}
      BY <1>2, <1>4, <1>5
    <3>2. \A y \in s[0].values : 0 <= y
      <4>1. s[0].values \subseteq Low(0)..High(0) /\ Low(0) = 0
        BY <1>2, <1>4, ScheduleIs, Scale
      <4> QED
        BY <4>1
    <3>3. v = w - (w % Unit[0 + 1]) + Unit[0 + 1] + Unit[0] * 0
      <4>1. w \in Nat /\ w % SecondsPerMinute \in 0..SecondsPerMinute - 1
        BY <1>2, <1>4, Division
      <4> HIDE DEF w
      <4> QED
        BY <1>4, <4>1
    <3> HIDE DEF v, w
    <3> QED
      BY <1>2, <1>4, <3>1, <3>2, <3>3, WrapJump
  <2>4. Rank(s, v) <= 4 /\ Rank(s, v) \in 0..5
    BY <1>2, <2>3, RankIs, RankRange
  <2>5. Rank(s, v) < Rank(s, w)
    BY <1>3, <1>5, <2>4
  <2> QED
    BY <1>1, <2>1, <2>2, <2>3, <2>5, SearchStep
<1>6. CASE Later(0) # {}
  <2> DEFINE v == w - (w % SecondsPerMinute) + Min(Later(0))
  <2>1. Skip(v)
    BY <1>6 DEF SkipSecond, StartOf
  <2>2. /\ v \in Walls /\ Jump(s, w, v) /\ Clock[v][0] \in f.values
        /\ SameBlock(0, v, w)
    <3>0. Min(Later(0)) \in Nat
      <4>1. s[0].values \subseteq Low(0)..High(0) /\ Low(0) = 0 /\ High(0) \in Int
        BY <1>2, <1>4, ScheduleIs, Scale, Bounds
      <4>2. Later(0) \in SUBSET Nat
        BY <4>1 DEF Later
      <4> QED
        BY <1>6, <4>2, MinIsLeast
    <3>1. v = w - (w % Unit[0 + 1]) + Unit[0] * Min(Later(0))
      BY <1>4, <3>0
    <3> DEFINE later == Later(0)
    <3>2. later = LaterThan(s[0], Clock[w][0]) /\ later # {} /\ v = w - (w % Unit[0 + 1]) + Unit[0] * Min(later)
      BY <1>2, <1>6, <3>1
    <3>3. 0 \in 0..2
      OBVIOUS
    <3>4. Valid(s) /\ w \in Walls /\ (w \div Day) + 1 < Cardinality(Dates) /\ ~Matches(s[0], Clock[w][0])
      BY <1>2
    <3> HIDE DEF v, w, s, later
    <3>5. v \in Walls /\ Jump(s, w, v)
      BY <3>2, <3>3, <3>4, LaterJump
    <3>6. SameBlock(0, v, w)
      BY <3>2, <3>3, <3>4, LaterJump
    <3>7. Clock[v][0] \in s[0].values
      BY <3>2, <3>3, <3>4, LaterJump
    <3> QED
      BY <3>5, <3>6, <3>7
  <2>3. Rank(s, v) = 0
    <3>1. Clock[v][1] = Clock[w][1] /\ Clock[v][2] = Clock[w][2]
      BY <1>2, <1>4, <2>2, SameAbove
    <3>2. \A i \in 0..2 : Matches(s[i], Clock[v][i])
      BY <1>2, <2>2, <3>1 DEF Matches
    <3> QED
      BY <3>2, RankOfMatch
  <2>4. Rank(s, v) < Rank(s, w)
    BY <1>3, <1>6, <2>3
  <2> QED
    BY <1>1, <2>1, <2>2, <2>4, SearchStep
<1> QED
  BY <1>5, <1>6

\* A schedule with a field without values selects nothing, half dead ones aside.
LEMMA DeadSelectsNothing ==
    ASSUME Valid(schedule), Dead(schedule), ~HalfDead, NEW t
    PROVE  ~Selected(t)
<1>1. \A i \in 0..5 : schedule[i].any \in BOOLEAN
  BY ScheduleIs
<1>2. PICK i \in 0..5 : ~schedule[i].any /\ schedule[i].values = {}
  BY DEF Dead
<1>3. CASE i \in {0, 1, 2, 4}
  BY <1>2, <1>3 DEF Selected
<1>4. CASE i = 3
  <2>1. schedule[5].any \/ schedule[5].values = {}
    BY <1>1, <1>2, <1>4 DEF HalfDead
  <2> QED
    BY <1>1, <1>2, <1>4, <2>1 DEF Selected
<1>5. CASE i = 5
  <2>1. schedule[3].any \/ schedule[3].values = {}
    BY <1>1, <1>2, <1>5 DEF HalfDead
  <2> QED
    BY <1>1, <1>2, <1>5, <2>1 DEF Selected
<1> QED
  BY <1>2, <1>3, <1>4, <1>5

\* The grid of an anchor, and its first time after a.
OnGrid(base, I, t) == t >= base /\ (t - base) % I = 0
GridAfter(base, I, a) == IF base > a THEN base ELSE base + ((a - base) \div I + 1) * I

LEMMA GridIs ==
    ASSUME NEW base \in Nat, NEW I \in Nat \ {0}, NEW a \in Nat, NEW c, c = GridAfter(base, I, a)
    PROVE  /\ c \in Nat /\ a < c /\ (c <= base \/ c <= a + I)
           /\ OnGrid(base, I, c) /\ \A t \in a + 1..c - 1 : ~OnGrid(base, I, t)
<1>1. CASE base > a
  <2>1. c = base
    BY <1>1 DEF GridAfter
  <2>2. (base - base) % I = 0
    <3>1. I * 0 + 0 = base - base /\ 0 \in 0..I - 1
      OBVIOUS
    <3>2. (I * 0 + 0) % I = 0
      BY <3>1, Quotient
    <3> QED
      BY <3>1, <3>2
  <2>3. \A t \in a + 1..base - 1 : ~(t >= base)
    OBVIOUS
  <2> QED
    BY <1>1, <2>1, <2>2, <2>3 DEF OnGrid
<1>2. CASE ~(base > a)
  <2> DEFINE x == a - base
             q == x \div I
  <2>1. c = base + (q + 1) * I
    BY <1>2 DEF GridAfter
  <2>2. x \in Nat
    BY <1>2
  <2> HIDE DEF x
  <2>3. q \in Nat /\ x >= I * q /\ x < I * q + I /\ I * q \in Nat
    <3>1. q \in Nat /\ x % I \in 0..I - 1 /\ x = I * q + (x % I)
      BY <2>2, Division
    <3>2. I * q \in Nat
      BY <3>1, Product
    <3> HIDE DEF q
    <3> QED
      BY <3>1, <3>2
  <2> HIDE DEF q
  <2>4. (q + 1) * I = I * q + I /\ I * (q + 1) = I * q + I
    BY <2>3
  <2>5. c \in Nat /\ a < c /\ c <= a + I /\ c >= base
    <3> DEFINE y == I * q
    <3>1. c = base + (y + I) /\ x = a - base
      BY <2>1, <2>4 DEF x
    <3> HIDE DEF y
    <3> QED
      BY <2>2, <2>3, <3>1 DEF y
  <2>6. (c - base) % I = 0
    <3>1. c - base = I * (q + 1) + 0 /\ 0 \in 0..I - 1 /\ q + 1 \in Nat
      BY <2>1, <2>3, <2>4, <2>5
    <3>2. (I * (q + 1) + 0) % I = 0
      BY <3>1, Quotient
    <3> QED
      BY <3>1, <3>2
  <2>7. ASSUME NEW t \in a + 1..c - 1, t >= base, (t - base) % I = 0 PROVE FALSE
    <3>1. x = a - base
      BY DEF x
    <3>2. t - base \in Nat /\ I * q <= t - base /\ t - base < I * (q + 1) /\ t - base > x
      <4> DEFINE y == I * q
      <4>1. y \in Nat /\ x >= y /\ c = base + (y + I) /\ I * (q + 1) = y + I
        BY <2>1, <2>3, <2>4
      <4> HIDE DEF y
      <4> QED
        BY <2>2, <2>5, <2>7, <3>1, <4>1 DEF y
    <3>3. (t - base) % I = t - base - I * q
      BY <2>3, <3>2, InBlock
    <3> QED
      BY <2>2, <2>3, <2>7, <3>2, <3>3
  <2> QED
    BY <2>5, <2>6, <2>7 DEF OnGrid
<1> QED
  BY <1>1, <1>2

\* The candidate is the first time after `after` on the grid of the anchor.
LEMMA CandidateIs ==
    ASSUME SteadyClock, CInv, anchor # None
    PROVE  /\ anchor \in Nat /\ Interval(schedule) \in Nat \ {0}
           /\ Candidate \in Time /\ after < Candidate
           /\ OnGrid(anchor, Interval(schedule), Candidate)
           /\ \A t \in after + 1..Candidate - 1 : ~OnGrid(anchor, Interval(schedule), t)
<1> DEFINE I == Interval(schedule)
           N == Cardinality(Dates) * Day - 1 - OffsetBefore
<1>1. /\ after \in Nat /\ after <= LastAfter /\ LastAfter \in Nat
      /\ anchor \in Nat /\ anchor <= LastAfter
  <2>1. after \in 0..LastAfter /\ anchor \in 0..LastAfter /\ LastAfter \in Nat
    BY HorizonAssumption DEF CInv, TypeOK
  <2> QED
    BY <2>1
<1>2. I \in Nat \ {0} /\ LastAfter + I \in Time
  <2>1. chosen \in DOMAIN Schedules
    BY DEF CInv, TypeOK
  <2>2. I \in Nat
    BY <2>1, ScheduleValid, IntervalIs DEF schedule
  <2>3. I > 0
    BY DEF CInv
  <2>4. LastAfter + I \in Time
    BY <2>1, HorizonAssumption DEF schedule
  <2> QED
    BY <2>2, <2>3, <2>4
<1>3. Candidate = GridAfter(anchor, I, after)
  BY DEF Candidate, GridAfter
<1> HIDE DEF I
<1>4. /\ Candidate \in Nat /\ after < Candidate /\ (Candidate <= anchor \/ Candidate <= after + I)
      /\ OnGrid(anchor, I, Candidate) /\ \A t \in after + 1..Candidate - 1 : ~OnGrid(anchor, I, t)
  BY <1>1, <1>2, <1>3, GridIs
<1>5. Candidate \in Time
  <2>1. Time = 0..N
    BY Steady
  <2>2. N \in Int
    <3>1. Cardinality(Dates) * Day \in Nat /\ OffsetBefore \in Nat
      BY DatesFinite, Units, Product, Steady
    <3> QED
      BY <3>1
  <2>3. Candidate <= LastAfter + I
    BY <1>1, <1>2, <1>4
  <2> HIDE DEF N
  <2> QED
    BY <1>1, <1>2, <1>4, <2>1, <2>2, <2>3
<1> QED
  BY <1>1, <1>2, <1>4, <1>5 DEF I

LEMMA CInvInit == ASSUME SteadyClock, Init PROVE CInv
<1>1. after \in 0..LastAfter /\ after \in Time /\ chosen \in DOMAIN Schedules
  BY HorizonAssumption, StartIs DEF Init
<1>2. anchor \in Anchors /\ (anchor # None => Interval(schedule) > 0)
  <2>1. schedule = Schedules[chosen] /\ Interval(schedule) \in Nat
    BY <1>1, ScheduleValid, IntervalIs DEF schedule
  <2>2. None \in Anchors
    BY HorizonAssumption
  <2> QED
    BY <2>1, <2>2 DEF Init
<1>3. 0 \in Time /\ MaxIterations \in Nat
  <2>1. 0 \in 0..LastAfter
    BY HorizonAssumption
  <2> QED
    BY <2>1, StartIs, Units
<1>4. None # Never
  BY DEF None, Never
<1> QED
  BY <1>1, <1>2, <1>3, <1>4
     DEF Init, CInv, TypeOK, SearchInv, NothingSkipped, ResultIsRight, ResultIsLater, NeverForTwoYears, AnchorDecides

\* None and Never are no times.
LEMMA NoTimes ==
    ASSUME SteadyClock
    PROVE  None \notin Time /\ Never \notin Time /\ None # Never
<1>1. \A t \in Time : t \in Nat
  BY WallOf
<1> QED
  BY <1>1 DEF None, Never

LEMMA AnchoredKeeps == ASSUME SteadyClock, CInv, Anchored PROVE CInv'
<1>1. /\ anchor # None /\ MatchesAll(Candidate) /\ result' = Candidate /\ pc' = "done"
      /\ UNCHANGED <<chosen, anchor, after, current, limit, iterations>>
  BY DEF Anchored, searchVars
<1>2. /\ Candidate \in Time /\ after < Candidate
      /\ OnGrid(anchor, Interval(schedule), Candidate)
      /\ \A t \in after + 1..Candidate - 1 : ~OnGrid(anchor, Interval(schedule), t)
  BY <1>1, CandidateIs
<1>3. Selected(Candidate)
  <2>1. Valid(schedule)
    BY ScheduleValid DEF schedule, CInv, TypeOK
  <2> QED
    BY <1>1, <1>2, <2>1, WallOf, MatchingIsSelected
<1>4. result' # None /\ result' # Never
  BY <1>1, <1>2, NoTimes
<1>5. schedule' = schedule
  BY <1>1 DEF schedule
<1>6. TypeOK'
  BY <1>1, <1>2, <1>4 DEF CInv, TypeOK
<1>7. after' \in 0..LastAfter /\ (anchor # None => Interval(schedule) > 0)'
  BY <1>1, <1>5 DEF CInv, Interval
<1>8. SearchInv' /\ NothingSkipped'
  BY <1>1 DEF SearchInv, NothingSkipped
<1>9. ResultIsRight'
  <2>1. Selected(Candidate) => Selected(result)'
    BY <1>1, <1>5 DEF Selected, Fields, Wall
  <2>2. result' > after'
    <3>1. Candidate \in Nat /\ after \in Nat
      BY <1>2, WallOf DEF CInv, TypeOK
    <3> QED
      BY <1>1, <1>2, <3>1
  <2> QED
    BY <1>3, <1>4, <2>1, <2>2 DEF ResultIsRight, ResultIsLater, NeverForTwoYears
<1>10. AnchorDecides'
  <2> SUFFICES /\ (result >= anchor /\ (result - anchor) % Interval(schedule) = 0 /\ MatchesAll(result))'
               /\ (\A t \in after + 1..result - 1 : ~(t >= anchor /\ (t - anchor) % Interval(schedule) = 0))'
    BY DEF AnchorDecides
  <2>1. Interval(schedule)' = Interval(schedule)
    BY <1>5 DEF Interval
  <2>2. MatchesAll(result)'
    BY <1>1, <1>5 DEF MatchesAll, Matches, DowMatches, Fields, Wall
  <2>3. (result >= anchor /\ (result - anchor) % Interval(schedule) = 0)'
    BY <1>1, <1>2, <2>1 DEF OnGrid
  <2>4. (\A t \in after + 1..result - 1 : ~(t >= anchor /\ (t - anchor) % Interval(schedule) = 0))'
    BY <1>1, <1>2, <2>1 DEF OnGrid
  <2> QED
    BY <2>2, <2>3, <2>4
<1> QED
  BY <1>6, <1>7, <1>8, <1>9, <1>10 DEF CInv

LEMMA DiesKeeps == ASSUME SteadyClock, CInv, Dies PROVE CInv'
<1>1. /\ Dead(schedule) /\ result' = Never /\ pc' = "done"
      /\ UNCHANGED <<chosen, anchor, after, current, limit, iterations>>
  BY DEF Dies, searchVars
<1>2. schedule' = schedule /\ None # Never /\ Never \notin Time
  BY <1>1, NoTimes DEF schedule
<1>3. TypeOK'
  BY <1>1, <1>2 DEF CInv, TypeOK
<1>4. after' \in 0..LastAfter /\ (anchor # None => Interval(schedule) > 0)'
  BY <1>1, <1>2 DEF CInv, Interval
<1>5. SearchInv' /\ NothingSkipped' /\ AnchorDecides'
  BY <1>1, <1>2 DEF SearchInv, NothingSkipped, AnchorDecides
<1>6. ResultIsRight'
  <2>1. Valid(schedule)
    BY ScheduleValid DEF schedule, CInv, TypeOK
  <2>2. ~HalfDead => \A t : ~Selected(t)
    BY <1>1, <2>1, DeadSelectsNothing
  <2>3. HalfDead' = HalfDead
    BY <1>2 DEF HalfDead
  <2>4. (~HalfDead => \A t : ~Selected(t))'
    BY <2>2, <2>3, <1>2 DEF Selected, Fields, Wall
  <2> QED
    BY <1>1, <2>4 DEF ResultIsRight, ResultIsLater, NeverForTwoYears
<1> QED
  BY <1>3, <1>4, <1>5, <1>6 DEF CInv

LEMMA StartSearchKeeps == ASSUME SteadyClock, CInv, StartSearch PROVE CInv'
<1>1. /\ ~Dead(schedule) /\ current' = after + 1 /\ limit' \in TwoYearsLater(after + 1) /\ iterations' = 0
      /\ pc' = "search" /\ UNCHANGED <<chosen, anchor, after, result>> /\ pc = "start"
  BY DEF StartSearch
<1>2. schedule' = schedule
  BY <1>1 DEF schedule
<1>3. after \in 0..LastAfter /\ after \in Nat
  BY HorizonAssumption DEF CInv
<1>4. after \in Time /\ after + 1 \in Time
  BY <1>3, StartIs
<1>5. \E l \in Time : TwoYearsLater(after + 1) = {l}
  BY <1>3, StartIs
<1>6. limit' \in Time /\ TwoYearsLater(after + 1) = {limit'}
  BY <1>1, <1>5
<1>7. TypeOK'
  BY <1>1, <1>4, <1>6, Units DEF CInv, TypeOK
<1>8. after' \in 0..LastAfter /\ (anchor # None => Interval(schedule) > 0)'
  BY <1>1, <1>2 DEF CInv, Interval
<1>9. NothingSkipped'
  <2>1. after + 1..current' - 1 = {}
    BY <1>1, <1>3
  <2> QED
    BY <1>1, <2>1 DEF NothingSkipped
<1>10. SearchInv'
  <2> DEFINE r == Rank(schedule, Wall(after + 1))
             c == DayOf(after + 1)
  <2>1. r \in 0..5 /\ c \in Nat
    BY <1>4, RankRange, DayOfType
  <2> HIDE DEF r, c
  <2>2. 0 + r <= 6 * (c - c + 1)
    BY <2>1
  <2>3. Rank(schedule, Wall(current))' = r /\ DayOf(current)' = c /\ DayOf(after + 1)' = c
    BY <1>1, <1>2 DEF r, c, DayOf, Wall, Rank, Matches, PicksDay, DowMatches, LaterThan
  <2>4. TwoYearsLater(after + 1)' = TwoYearsLater(after + 1)
    BY <1>1 DEF TwoYearsLater, Wall, TimesOf
  <2> QED
    BY <1>1, <1>2, <1>3, <1>6, <2>2, <2>3, <2>4 DEF SearchInv, Dead
<1>11. ResultIsRight' /\ AnchorDecides'
  BY <1>1 DEF ResultIsRight, ResultIsLater, NeverForTwoYears, AnchorDecides
<1> QED
  BY <1>7, <1>8, <1>9, <1>10, <1>11 DEF CInv

LEMMA FoundKeeps == ASSUME SteadyClock, CInv, Found PROVE CInv'
<1>1. /\ Searching /\ DayMatches /\ (\A i \in {0, 1, 2, 4} : Shows(i)) /\ result' = current /\ pc' = "done"
      /\ UNCHANGED <<chosen, anchor, after, current, limit, iterations>>
  BY DEF Found, searchVars
<1>2. pc = "search" /\ current \in Time /\ current \in Nat /\ after < current
  BY <1>1, WallOf DEF Searching, CInv, TypeOK, SearchInv
<1>3. schedule' = schedule
  BY <1>1 DEF schedule
<1>4. result' # None /\ result' # Never
  BY <1>1, <1>2, NoTimes
<1>5. Selected(current)
  <2>1. {0, 1, 2, 4} \subseteq 0..5
    OBVIOUS
  <2>2. \A i \in {0, 1, 2, 4} : Matches(schedule[i], Clock[Wall(current)][i])
    BY <1>1, <2>1, InSearch
  <2>3. Picks(schedule, Wall(current))
    BY <1>1, <2>2, InSearch, PicksIs
  <2> QED
    BY <2>3, SelectedIs
<1>6. TypeOK'
  BY <1>1, <1>2, <1>4 DEF CInv, TypeOK
<1>7. after' \in 0..LastAfter /\ (anchor # None => Interval(schedule) > 0)'
  BY <1>1, <1>3 DEF CInv, Interval
<1>8. SearchInv' /\ NothingSkipped'
  BY <1>1 DEF SearchInv, NothingSkipped
<1>9. ResultIsRight'
  <2>1. Selected(current) => Selected(result)'
    BY <1>1, <1>3 DEF Selected, Fields, Wall
  <2> QED
    BY <1>1, <1>2, <1>4, <1>5, <2>1 DEF ResultIsRight, ResultIsLater, NeverForTwoYears
<1>10. AnchorDecides'
  <2>1. \A t \in after + 1..current - 1 : ~Selected(t)
    BY <1>2 DEF CInv, NothingSkipped
  <2>2. (\A t \in after + 1..result - 1 : ~Selected(t))'
    BY <1>1, <1>3, <2>1 DEF Selected, Fields, Wall
  <2> QED
    BY <2>2 DEF AnchorDecides
<1> QED
  BY <1>6, <1>7, <1>8, <1>9, <1>10 DEF CInv

LEMMA GiveUpKeeps == ASSUME SteadyClock, CInv, GiveUp PROVE CInv'
<1>1. /\ pc = "search" /\ (current >= limit \/ iterations >= MaxIterations) /\ result' = Never /\ pc' = "done"
      /\ UNCHANGED <<chosen, anchor, after, current, limit, iterations>>
  BY DEF GiveUp, searchVars
<1>2. schedule' = schedule /\ None # Never /\ Never \notin Time
  BY <1>1, NoTimes DEF schedule
<1>3. current \in Nat /\ limit \in Nat /\ after \in Nat
  BY WallOf DEF CInv, TypeOK
<1>4. limit <= current
  <2>1. iterations \in Nat /\ MaxIterations \in Nat
    BY Units DEF CInv, TypeOK
  <2> QED
    BY <1>1, <1>3, <2>1, SearchIs
<1>5. TypeOK'
  BY <1>1, <1>2 DEF CInv, TypeOK
<1>6. after' \in 0..LastAfter /\ (anchor # None => Interval(schedule) > 0)'
  BY <1>1, <1>2 DEF CInv, Interval
<1>7. SearchInv' /\ NothingSkipped' /\ AnchorDecides'
  BY <1>1, <1>2 DEF SearchInv, NothingSkipped, AnchorDecides
<1>8. ResultIsRight'
  <2>1. Min(TwoYearsLater(after + 1)) = limit
    <3>1. TwoYearsLater(after + 1) = {limit}
      BY <1>1 DEF CInv, SearchInv
    <3>2. {limit} \in SUBSET Nat /\ {limit} # {}
      BY <1>3
    <3> QED
      BY <3>1, <3>2, MinIsLeast
  <2>2. \A t \in after + 1..limit - 1 : ~Selected(t)
    <3>1. after + 1..limit - 1 \subseteq after + 1..current - 1
      BY <1>3, <1>4
    <3> QED
      BY <1>1, <3>1 DEF CInv, NothingSkipped
  <2>3. Min(TwoYearsLater(after + 1))' = limit
    <3>1. TwoYearsLater(after + 1)' = TwoYearsLater(after + 1)
      BY <1>1 DEF TwoYearsLater, Wall, TimesOf
    <3> QED
      BY <2>1, <3>1
  <2>4. (\A t \in after + 1..limit - 1 : ~Selected(t))'
    BY <1>1, <1>2, <2>2 DEF Selected, Fields, Wall
  <2> QED
    BY <1>1, <2>3, <2>4 DEF ResultIsRight, ResultIsLater, NeverForTwoYears
<1> QED
  BY <1>5, <1>6, <1>7, <1>8 DEF CInv

LEMMA AgainKeeps == ASSUME SteadyClock, CInv, Again PROVE CInv'
<1>1. /\ pc = "done" /\ result # Never /\ result <= LastAfter /\ after' = result /\ result' = None /\ pc' = "start"
      /\ UNCHANGED <<chosen, anchor, current, limit, iterations>>
  BY DEF Again, searchVars
<1>2. schedule' = schedule
  BY <1>1 DEF schedule
<1>3. result \in Time /\ result \in 0..LastAfter
  <2>1. result \in Time
    BY <1>1 DEF CInv, TypeOK
  <2> QED
    BY <1>1, <2>1, WallOf, HorizonAssumption
<1>4. TypeOK'
  BY <1>1, <1>3 DEF CInv, TypeOK
<1>5. after' \in 0..LastAfter /\ (anchor # None => Interval(schedule) > 0)'
  BY <1>1, <1>2, <1>3 DEF CInv, Interval
<1>6. SearchInv' /\ NothingSkipped' /\ ResultIsRight' /\ AnchorDecides'
  BY <1>1 DEF SearchInv, NothingSkipped, AnchorDecides, ResultIsRight, ResultIsLater, NeverForTwoYears
<1> QED
  BY <1>4, <1>5, <1>6 DEF CInv

LEMMA CInvStutters == ASSUME CInv, UNCHANGED vars PROVE CInv'
<1>1. UNCHANGED <<pc, chosen, anchor, after, current, limit, iterations, result>> /\ schedule' = schedule
  BY DEF vars, searchVars, schedule
<1>2. TypeOK'
  BY <1>1 DEF CInv, TypeOK
<1>3. after' \in 0..LastAfter /\ (anchor # None => Interval(schedule) > 0)'
  BY <1>1 DEF CInv, Interval
<1>0. TwoYearsLater(after + 1)' = TwoYearsLater(after + 1)
  BY <1>1 DEF TwoYearsLater, Wall, TimesOf
<1>4. SearchInv'
  <2>1. Rank(schedule, Wall(current))' = Rank(schedule, Wall(current))
    BY <1>1 DEF Wall, Rank, Matches, PicksDay, DowMatches, LaterThan
  <2>2. DayOf(current)' = DayOf(current) /\ DayOf(after + 1)' = DayOf(after + 1)
    BY <1>1 DEF DayOf, Wall
  <2> QED
    BY <1>0, <1>1, <2>1, <2>2 DEF CInv, SearchInv, Dead
<1>5. NothingSkipped'
  BY <1>1 DEF CInv, NothingSkipped, Selected, Fields, Wall
<1>6. ResultIsRight'
  <2>1. Min(TwoYearsLater(after + 1))' = Min(TwoYearsLater(after + 1))
    BY <1>0
  <2>2. ResultIsLater'
    BY <1>1 DEF CInv, ResultIsRight, ResultIsLater, Selected, Fields, Wall
  <2>3. NeverForTwoYears'
    BY <1>1, <2>1 DEF CInv, ResultIsRight, NeverForTwoYears, HalfDead, Selected, Fields, Wall
  <2> QED
    BY <2>2, <2>3 DEF ResultIsRight
<1>7. AnchorDecides'
  <2>1. Interval(schedule)' = Interval(schedule)
    BY <1>1 DEF Interval
  <2>2. \A t : MatchesAll(t)' = MatchesAll(t)
    BY <1>1 DEF MatchesAll, Matches, DowMatches, Fields, Wall
  <2>3. \A t : Selected(t)' = Selected(t)
    BY <1>1 DEF Selected, Fields, Wall
  <2>4. AnchorDecides
    BY DEF CInv
  <2> QED
    BY <1>1, <2>1, <2>2, <2>3, <2>4 DEF AnchorDecides
<1> QED
  BY <1>2, <1>3, <1>4, <1>5, <1>6, <1>7 DEF CInv

LEMMA CInvStep == ASSUME SteadyClock, CInv, [Next]_vars PROVE CInv'
BY AnchoredKeeps, DiesKeeps, StartSearchKeeps, SkipMonthKeeps, SkipDayKeeps, SkipHourKeeps, SkipMinuteKeeps,
   SkipSecondKeeps, FoundKeeps, GiveUpKeeps, AgainKeeps, CInvStutters DEF Next

\* The search of a clock that is not changed keeps its invariant
\* (cron.go:87-262).
THEOREM SearchIsSound == ASSUME SteadyClock PROVE Spec => []CInv
<1>1. Init => CInv
  BY CInvInit
<1>2. CInv /\ [Next]_vars => CInv'
  BY CInvStep
<1> QED
  BY <1>1, <1>2, PTL DEF Spec

\* Every variable has its type, and a search keeps within its lookahead and its
\* iterations (cron.go:152-172).
THEOREM SearchTypes == ASSUME SteadyClock PROVE Spec => []TypeOK
<1>1. CInv => TypeOK
  BY DEF CInv
<1> QED
  BY <1>1, SearchIsSound, PTL

\* The search skips no time that the schedule selects (cron.go:174-256).
THEOREM SearchSkipsNothing == ASSUME SteadyClock PROVE Spec => []NothingSkipped
<1>1. CInv => NothingSkipped
  BY DEF CInv
<1> QED
  BY <1>1, SearchIsSound, PTL

\* A time found is later and selected, and no time found means none for two
\* years: the limit on iterations is out of reach (cron.go:87-172).
THEOREM SearchResultIsRight == ASSUME SteadyClock PROVE Spec => []ResultIsRight
<1>1. CInv => ResultIsRight
  BY DEF CInv
<1> QED
  BY <1>1, SearchIsSound, PTL

\* With an anchor the result is the first multiple of the interval, which has
\* to match, or the next selected time (cron.go:92-124).
THEOREM SearchAnchorDecides == ASSUME SteadyClock PROVE Spec => []AnchorDecides
<1>1. CInv => AnchorDecides
  BY DEF CInv
<1> QED
  BY <1>1, SearchIsSound, PTL

-----------------------------------------------------------------------------
(* Which of the times is found: the next one, or a candidate that matches.    *)

FoundInv ==
    /\ pc = "done" /\ anchor = None /\ result # Never => \A t \in after + 1..result - 1 : ~Selected(t)
    /\ anchor # None /\ pc # "start" /\ result # Never /\ MatchesAll(Candidate) => result = Candidate

LEMMA FoundInvStep == ASSUME SteadyClock, CInv, FoundInv, [Next]_vars PROVE FoundInv'
<1>1. anchor # None => Candidate \in Time
  BY CandidateIs
<1>2. ASSUME UNCHANGED <<chosen, anchor, after>>
      PROVE  /\ Candidate' = Candidate
             /\ ~MatchesAll(Candidate) => ~MatchesAll(Candidate)'
             /\ \A r : (\A t \in after + 1..r - 1 : ~Selected(t)) <=> (\A t \in after' + 1..r - 1 : ~Selected(t)')
  <2>1. schedule' = schedule
    BY <1>2 DEF schedule
  <2>2. Candidate' = Candidate
    BY <1>2, <2>1 DEF Candidate, Interval
  <2>3. ~MatchesAll(Candidate) => ~MatchesAll(Candidate)'
    BY <2>1, <2>2 DEF MatchesAll, Matches, DowMatches, Fields, Wall
  <2> QED
    BY <1>2, <2>1, <2>2, <2>3 DEF Selected, Fields, Wall
<1>3. CASE Anchored
  <2>1. result' = Candidate /\ anchor # None /\ UNCHANGED <<chosen, anchor, after>>
    BY <1>3 DEF Anchored
  <2> QED
    BY <1>2, <2>1 DEF FoundInv
<1>4. CASE Dies \/ GiveUp
  <2>1. result' = Never
    BY <1>4 DEF Dies, GiveUp
  <2> QED
    BY <2>1 DEF FoundInv
<1>5. CASE StartSearch
  <2>1. /\ (anchor # None => ~MatchesAll(Candidate)) /\ pc' = "search" /\ UNCHANGED <<chosen, anchor, after>>
    BY <1>5 DEF StartSearch
  <2> QED
    BY <1>2, <2>1 DEF FoundInv
<1>6. CASE pc = "search" /\ \E w : Skip(w)
  <2>1. UNCHANGED <<pc, result, chosen, anchor, after>>
    BY <1>6 DEF Skip
  <2>2. pc # "done" /\ result = None
    BY <1>6 DEF CInv, TypeOK
  <2> QED
    BY <1>1, <1>2, <1>6, <2>1, <2>2, NoTimes DEF FoundInv
<1>7. CASE Found
  <2>1. /\ pc = "search" /\ result' = current /\ UNCHANGED <<chosen, anchor, after>>
    BY <1>7 DEF Found, Searching
  <2>2. result = None /\ None # Never /\ NothingSkipped
    BY <2>1, NoTimes DEF CInv, TypeOK
  <2>3. anchor # None => ~MatchesAll(Candidate)
    BY <1>1, <2>1, <2>2, NoTimes DEF FoundInv
  <2>4. \A t \in after + 1..current - 1 : ~Selected(t)
    BY <2>1, <2>2 DEF NothingSkipped
  <2>5. (\A t \in after + 1..result - 1 : ~Selected(t))'
    BY <1>2, <2>1, <2>4
  <2> QED
    BY <1>2, <2>1, <2>3, <2>5 DEF FoundInv
<1>8. CASE Again
  <2>1. pc' = "start"
    BY <1>8 DEF Again
  <2> QED
    BY <2>1 DEF FoundInv
<1>9. CASE UNCHANGED vars
  <2>1. UNCHANGED <<pc, result, chosen, anchor, after>>
    BY <1>9 DEF vars
  <2>2. (\A t \in after + 1..result - 1 : ~Selected(t)) <=> (\A t \in after + 1..result - 1 : ~Selected(t))'
    BY <1>2, <2>1
  <2> QED
    BY <1>2, <2>1, <2>2 DEF FoundInv
<1>10. ASSUME SkipMonth \/ SkipDay \/ SkipHour \/ SkipMinute \/ SkipSecond
       PROVE  pc = "search" /\ \E w : Skip(w)
  <2>1. SkipMonth => pc = "search" /\ \E w : Skip(w)
    BY DEF SkipMonth, Searching
  <2>2. SkipDay => pc = "search" /\ \E w : Skip(w)
    BY DEF SkipDay, Searching
  <2>3. SkipHour => pc = "search" /\ \E w : Skip(w)
    BY DEF SkipHour, Searching
  <2>4. SkipMinute => pc = "search" /\ \E w : Skip(w)
    BY DEF SkipMinute, Searching
  <2>5. SkipSecond => pc = "search" /\ \E w : Skip(w)
    BY DEF SkipSecond, Searching
  <2> QED
    BY <1>10, <2>1, <2>2, <2>3, <2>4, <2>5
<1> QED
  BY <1>3, <1>4, <1>5, <1>6, <1>7, <1>8, <1>9, <1>10 DEF Next

-----------------------------------------------------------------------------
(* The page reads a schedule as the daemon does.                              *)

LEMMA ParsedValues ==
    ASSUME NEW f, NEW low \in Nat, NEW high \in Int, ValidField(f, low, high)
    PROVE  parseFieldValues(f) = f.values /\ \A v : fieldMatches(f, v) <=> Matches(f, v)
<1>1. parseFieldValues(f) = f.values
  <2>1. CASE f = Star
    <3>1. f.parts = {} /\ f.values = {}
      BY <2>1 DEF Star
    <3> QED
      BY <3>1 DEF parseFieldValues
  <2>2. CASE f # Star
    <3>1. \A p \in f.parts : ValidPart(p, low, high)
      BY <2>2, FieldHolds
    <3>2. f.values = Expanded(f, low, high) /\ f.low = low /\ f.high = high
      BY <2>2, FieldHolds
    <3> DEFINE from(p) == IF p.base = "*" THEN f.low ELSE p.lo
               to(p) == IF p.base = "range" THEN p.hi ELSE IF p.step = 0 THEN p.lo ELSE f.high
               valuesOf(p) == IF p.base = "*" /\ p.step = 0 THEN {}
                              ELSE {v \in from(p)..to(p) : p.step > 0 => (v - from(p)) % p.step = 0}
    <3>3. ASSUME NEW p \in f.parts PROVE valuesOf(p) = Expand(p, low, high)
      <4>1. p.step \in Nat /\ (p.base = "*" \/ p.base = "value" \/ p.base = "range")
        BY <3>1 DEF ValidPart
      <4>2. CASE p.base = "*" /\ p.step = 0
        <5>1. low..low - 1 = {}
          OBVIOUS
        <5> QED
          BY <4>2, <5>1 DEF Expand
      <4>3. CASE p.base = "*" /\ p.step > 0
        BY <3>2, <4>1, <4>3 DEF Expand
      <4>4. CASE p.base = "value"
        BY <3>2, <4>1, <4>4 DEF Expand
      <4>5. CASE p.base = "range"
        BY <3>2, <4>1, <4>5 DEF Expand
      <4> QED
        BY <4>1, <4>2, <4>3, <4>4, <4>5
    <3>4. parseFieldValues(f) = UNION {valuesOf(p) : p \in f.parts}
      BY DEF parseFieldValues
    <3>5. {valuesOf(p) : p \in f.parts} = {Expand(p, low, high) : p \in f.parts}
      BY <3>3
    <3> QED
      BY <3>2, <3>4, <3>5 DEF Expanded
  <2> QED
    BY <2>1, <2>2
<1> QED
  BY <1>1 DEF fieldMatches, Matches

\* Without a "*" among its parts a field matches what its values are.
LEMMA MatchedValues ==
    ASSUME NEW f, NEW low \in Nat, NEW high \in Int, ValidField(f, low, high),
           \A p \in f.parts : p.base = "*" => p.step > 0,
           NEW v \in low..high
    PROVE  matchField(v, f) <=> Matches(f, v)
<1>1. CASE f = Star
  BY <1>1 DEF Star, matchField, Matches
<1>2. CASE f # Star
  <2>1. \A p \in f.parts : ValidPart(p, low, high)
    BY <1>2, FieldHolds
  <2>2. f.values = Expanded(f, low, high) /\ f.low = low /\ f.any = FALSE
    BY <1>2, FieldHolds
  <2> DEFINE M(p) == CASE p.base = "*" -> p.step > 0 => (v - f.low) % p.step = 0
                       [] p.base = "range" -> v \in p.lo..p.hi /\ (p.step > 0 => (v - p.lo) % p.step = 0)
                       [] p.base = "value" -> IF p.step = 0 THEN v = p.lo
                                              ELSE v >= p.lo /\ (v - p.lo) % p.step = 0
  <2>3. ASSUME NEW p \in f.parts PROVE M(p) <=> v \in Expand(p, low, high)
    <3>1. p.step \in Nat /\ (p.base = "*" => p.step > 0)
      BY <2>1 DEF ValidPart
    <3>2. CASE p.base = "*"
      <4>1. p.step > 0
        BY <3>1, <3>2
      <4> QED
        BY <2>2, <3>1, <3>2, <4>1 DEF Expand
    <3>3. CASE p.base = "value"
      <4>1. p.lo \in low..high
        BY <2>1, <3>3 DEF ValidPart
      <4> QED
        BY <3>1, <3>3, <4>1 DEF Expand
    <3>4. CASE p.base = "range"
      <4>1. p.lo \in low..high /\ p.hi \in p.lo..high
        BY <2>1, <3>4 DEF ValidPart
      <4> QED
        BY <3>1, <3>4, <4>1 DEF Expand
    <3> QED
      BY <2>1, <3>2, <3>3, <3>4 DEF ValidPart
  <2>4. matchField(v, f) <=> \E p \in f.parts : M(p)
    BY <2>2 DEF matchField
  <2> HIDE DEF M
  <2>5. matchField(v, f) <=> \E p \in f.parts : v \in Expand(p, low, high)
    BY <2>3, <2>4
  <2> QED
    BY <2>2, <2>5 DEF Matches, Expanded
<1> QED
  BY <1>1, <1>2

\* The tests of the page at a time of the calendar.
LEMMA PageReads ==
    ASSUME Valid(schedule)
    PROVE  /\ ~NoValues <=> Fed(schedule)
           /\ \A i \in 0..5 : parseFieldValues(schedule[i]) = schedule[i].values
           /\ \A i \in 0..5 : Is(i) <=> Matches(schedule[i], Clock[Wall(cur)][i])
           /\ \A i \in 0..5 : \A v : fieldAfter(schedule[i], v) = LaterThan(schedule[i], v)
           /\ \A i \in 0..5 : fieldMin(schedule[i]) = Min(schedule[i].values)
           /\ DayIs <=> PicksDay(schedule, Wall(cur))
<1>1. \A i \in 0..5 : parseFieldValues(schedule[i]) = schedule[i].values
  BY ParsedValues, Bounds DEF Valid
<1>2. \A i \in 0..5 : \A v : fieldMatches(schedule[i], v) <=> Matches(schedule[i], v)
  BY ParsedValues, Bounds DEF Valid
<1>3. ~NoValues <=> Fed(schedule)
  BY <1>1 DEF NoValues, Fed
<1>4. \A i \in 0..5 : Is(i) <=> Matches(schedule[i], Clock[Wall(cur)][i])
  BY <1>2 DEF Is, Fields
<1>5. \A i \in 0..5 : \A v : fieldAfter(schedule[i], v) = LaterThan(schedule[i], v)
  BY <1>1 DEF fieldAfter, LaterThan
<1>6. \A i \in 0..5 : fieldMin(schedule[i]) = Min(schedule[i].values)
  BY <1>1 DEF fieldMin
<1>7. DayIs <=> PicksDay(schedule, Wall(cur))
  <2>1. 3 \in 0..5 /\ 5 \in 0..5
    OBVIOUS
  <2>2. schedule[3].any \in BOOLEAN /\ schedule[5].any \in BOOLEAN
    BY <2>1, ScheduleIs
  <2> QED
    BY <1>2, <1>4, <2>1, <2>2 DEF DayIs, PicksDay, DowMatches, Matches, Fields
<1> QED
  BY <1>1, <1>3, <1>4, <1>5, <1>6, <1>7

LEMMA PageMatches ==
    ASSUME Valid(schedule), NoBareStar, NEW t, Wall(t) \in Walls
    PROVE  /\ matchCron6(t) <=> Selected(t)
           /\ schedule[3].any \/ schedule[5].any => (matchCron6(t) <=> MatchesAll(t))
<1> DEFINE w == Wall(t)
           s == schedule
<1>1. \A i \in 0..5 : s[i].any \in BOOLEAN
  BY ScheduleIs
<1>2. ASSUME NEW i \in 0..5 PROVE \A v \in Low(i)..High(i) : matchField(v, s[i]) <=> Matches(s[i], v)
  BY MatchedValues, Bounds DEF Valid, NoBareStar
<1>3. \A i \in 0..5 : matchField(Clock[w][i], s[i]) <=> Matches(s[i], Clock[w][i])
  BY <1>2, ClockRange
<1>4. matchField(DaysPerWeek, s[5]) <=> Matches(s[5], DaysPerWeek)
  <2>1. DaysPerWeek \in Low(5)..High(5) /\ 5 \in 0..5
    BY Units DEF Low, High
  <2> QED
    BY <1>2, <2>1
<1> DEFINE dow == \/ matchField(Clock[w][5], s[5])
                  \/ Clock[w][5] = 0 /\ ~s[5].any /\ matchField(DaysPerWeek, s[5])
<1>5. dow <=> DowMatches(s[5], Clock[w][5])
  BY <1>1, <1>3, <1>4 DEF DowMatches, Matches
<1>6. matchCron6(t) <=> /\ \A i \in {0, 1, 2, 4} : Matches(s[i], Clock[w][i])
                        /\ IF ~s[3].any /\ ~s[5].any
                           THEN Matches(s[3], Clock[w][3]) \/ DowMatches(s[5], Clock[w][5])
                           ELSE Matches(s[3], Clock[w][3]) /\ DowMatches(s[5], Clock[w][5])
  <2>1. matchCron6(t) <=> /\ \A i \in {0, 1, 2, 4} : matchField(Clock[w][i], s[i])
                          /\ IF ~s[3].any /\ ~s[5].any THEN matchField(Clock[w][3], s[3]) \/ dow
                             ELSE matchField(Clock[w][3], s[3]) /\ dow
    BY DEF matchCron6, Fields
  <2>2. {0, 1, 2, 4} \subseteq 0..5 /\ 3 \in 0..5
    OBVIOUS
  <2> HIDE DEF dow
  <2> QED
    BY <1>3, <1>5, <2>1, <2>2
<1>7. PicksDay(s, w) <=> IF ~s[3].any /\ ~s[5].any
                         THEN Matches(s[3], Clock[w][3]) \/ DowMatches(s[5], Clock[w][5])
                         ELSE Matches(s[3], Clock[w][3]) /\ DowMatches(s[5], Clock[w][5])
  BY <1>1 DEF PicksDay, Matches, DowMatches
<1>8. matchCron6(t) <=> Selected(t)
  BY <1>6, <1>7, PicksIs, SelectedIs
<1>9. MatchesAll(t) <=> /\ \A i \in {0, 1, 2, 4} : Matches(s[i], Clock[w][i])
                        /\ Matches(s[3], Clock[w][3]) /\ DowMatches(s[5], Clock[w][5])
  <2>1. 0..4 = {0, 1, 2, 4} \cup {3}
    OBVIOUS
  <2> QED
    BY <2>1 DEF MatchesAll, Fields
<1> QED
  BY <1>6, <1>8, <1>9

-----------------------------------------------------------------------------
(* The search of the page                                                     *)

\* The target of a skip by hours, minutes or seconds on the page.
Target(i, w, s) ==
    w - (w % Unit[i + 1])
        + IF LaterThan(s[i], Clock[w][i]) = {} THEN Unit[i + 1] + Unit[i] * Min(s[i].values)
          ELSE Unit[i] * Min(LaterThan(s[i], Clock[w][i]))

LEMMA TargetIs ==
    ASSUME NEW s, Valid(s), Fed(s), NEW w \in Walls, (w \div Day) + 1 < Cardinality(Dates), NEW i \in 0..2,
           ~Matches(s[i], Clock[w][i])
    PROVE  Target(i, w, s) \in Walls /\ Jump(s, w, Target(i, w, s))
<1> DEFINE later == LaterThan(s[i], Clock[w][i])
           v == Target(i, w, s)
           z == Min(s[i].values)
<1>1. CASE later # {}
  <2>1. v = w - (w % Unit[i + 1]) + Unit[i] * Min(later)
    BY <1>1 DEF Target
  <2> HIDE DEF v, later
  <2>2. later = LaterThan(s[i], Clock[w][i])
    BY DEF later
  <2>3. v \in Walls /\ Jump(s, w, v)
    BY <1>1, <2>1, <2>2, LaterJump
  <2> QED
    BY <2>3 DEF v
<1>2. CASE later = {}
  <2>1. v = w - (w % Unit[i + 1]) + (Unit[i + 1] + Unit[i] * z)
    BY <1>2 DEF Target
  <2>2. z \in s[i].values /\ \A x \in s[i].values : z <= x
    <3>1. i \in {0, 1, 2, 4}
      OBVIOUS
    <3> QED
      BY <3>1, HasValues
  <2>3. z \in 0..Radix(i) - 1
    <3>1. s[i].values \subseteq Low(i)..High(i)
      BY ScheduleIs
    <3> QED
      BY <2>2, <3>1, Scale
  <2> HIDE DEF v, z
  <2>4. v = w - (w % Unit[i + 1]) + Unit[i + 1] + Unit[i] * z
    <3>1. w \in Nat /\ Unit[i + 1] \in Nat \ {0} /\ Unit[i] \in Nat /\ z \in Nat /\ Radix(i) \in Nat
      BY <2>3, ClockAt, Scale
    <3>2. w % Unit[i + 1] \in 0..Unit[i + 1] - 1 /\ Unit[i] * z \in Nat
      BY <3>1, Division, Product
    <3> DEFINE a == w % Unit[i + 1]
               b == Unit[i + 1]
               c == Unit[i] * z
    <3>3. a \in Int /\ b \in Int /\ c \in Int
      BY <3>1, <3>2
    <3> HIDE DEF a, b, c
    <3>4. w - a + (b + c) = w - a + b + c
      BY <3>1, <3>3
    <3> QED
      BY <2>1, <3>4 DEF a, b, c
  <2>5. v \in Walls /\ Jump(s, w, v)
    BY <1>2, <2>2, <2>3, <2>4, WrapJump
  <2> QED
    BY <2>5 DEF v
<1> QED
  BY <1>1, <1>2

-----------------------------------------------------------------------------
(* The page stays in the calendar, too.                                       *)

LEMMA MaxIsGreatest ==
    ASSUME NEW S \in SUBSET (0..3), S # {}
    PROVE  Max(S) \in S
<1>1. 0..3 = {0, 1, 2, 3}
  OBVIOUS
<1>2. \E m \in S : \A k \in S : m >= k
  <2>1. CASE 3 \in S
    BY <1>1, <2>1
  <2>2. CASE 3 \notin S /\ 2 \in S
    <3>1. \A k \in S : 2 >= k
      BY <1>1, <2>2
    <3> QED
      BY <2>2, <3>1
  <2>3. CASE 3 \notin S /\ 2 \notin S /\ 1 \in S
    <3>1. \A k \in S : 1 >= k
      BY <1>1, <2>3
    <3> QED
      BY <2>3, <3>1
  <2>4. CASE 3 \notin S /\ 2 \notin S /\ 1 \notin S
    <3>1. \A k \in S : k = 0
      BY <1>1, <2>4
    <3>2. 0 \in S
      BY <3>1
    <3> QED
      BY <3>1, <3>2
  <2> QED
    BY <2>1, <2>2, <2>3, <2>4
<1> QED
  BY <1>2 DEF Max

\* The interval that the page goes by.
LEMMA ShownIs ==
    ASSUME NEW s, Valid(s)
    PROVE  IntervalShown(s) \in Nat
<1> DEFINE stepped == {i \in 0..3 : getStep(s[i]) > 0}
<1>1. ASSUME NEW i \in 0..5 PROVE getStep(s[i]) \in Nat
  <2>1. s[i] = Star \/ \A p \in s[i].parts : p.step \in Nat
    BY DEF Valid, ValidField, ValidPart
  <2>2. s[i] = Star => s[i].parts = {}
    BY DEF Star
  <2>3. (\E p \in s[i].parts : TRUE) => (CHOOSE p \in s[i].parts : TRUE) \in s[i].parts
    OBVIOUS
  <2> QED
    BY <2>1, <2>2, <2>3 DEF getStep
<1>2. \A i \in 0..3 : Unit[i] \in Nat
  BY Units DEF Unit
<1>3. CASE stepped = {}
  BY <1>3 DEF IntervalShown
<1>4. CASE stepped # {}
  <2>1. Max(stepped) \in 0..3
    BY <1>4, MaxIsGreatest
  <2>2. getStep(s[Max(stepped)]) * Unit[Max(stepped)] \in Nat
    BY <1>1, <1>2, <2>1, Product
  <2> QED
    BY <1>4, <2>2 DEF IntervalShown
<1> QED
  BY <1>3, <1>4

\* Before the end of a search of the page the calendar goes on.
LEMMA PageInCalendar ==
    ASSUME SteadyClock, NEW c \in DOMAIN Schedules,
           NEW t \in Nat, t < LastAfter + IntervalShown(Schedules[c]) + 1 + PageDays * Day
    PROVE  /\ t \in Time /\ Wall(t) \in Walls
           /\ (Wall(t) \div Day) + 1 < Cardinality(Dates)
           /\ DateAt(Wall(t))[1] < Years
<1> DEFINE b == LastAfter + IntervalShown(Schedules[c]) + 1 + PageDays * Day
<1>1. Years \in 1..Years /\ 1 \in Months
  BY Units
<1>2. OffsetBefore \in Nat /\ Max({OffsetBefore, OffsetAfter}) = OffsetBefore
  BY Steady
<1>3. b + OffsetBefore < FirstOf(Years, 1)
  BY <1>2, PageHorizonAssumption
<1>4. b \in Nat
  <2>1. IntervalShown(Schedules[c]) \in Nat /\ LastAfter \in Nat
    BY ScheduleValid, ShownIs, HorizonAssumption
  <2>2. PageDays * Day \in Nat
    BY PageAssumption, Units, Product
  <2> QED
    BY <2>1, <2>2
<1>5. FirstOf(Years, 1) \in Int
  <2>1. DayNumber[<<Years, 1, 1>>] \in Nat
    BY <1>1, FirstIs, DayNumberType
  <2> QED
    BY <1>1, <2>1, Units, Product DEF FirstOf
<1> HIDE DEF b
<1>6. t + OffsetBefore < FirstOf(Years, 1)
  BY <1>2, <1>3, <1>4, <1>5 DEF b
<1>7. t \in Time /\ (Wall(t) \div Day) + 1 < Cardinality(Dates) /\ DateAt(Wall(t))[1] < Years
  BY <1>1, <1>6, BeforeYear
<1> QED
  BY <1>7, WallOf

\* The page reads a clock as the daemon does.
LEMMA DateIsTime ==
    ASSUME SteadyClock, NEW w \in Walls, w >= OffsetBefore
    PROVE  date(w) = w - OffsetBefore /\ w - OffsetBefore \in Time /\ Wall(w - OffsetBefore) = w
BY TimeOf DEF date

\* Behind a time of the grid comes the next.
LEMMA GridNext ==
    ASSUME NEW base \in Nat, NEW I \in Nat \ {0}, NEW a \in Nat, OnGrid(base, I, a)
    PROVE  GridAfter(base, I, a) = a + I
<1> DEFINE x == a - base
           q == x \div I
<1>1. x \in Nat /\ x % I = 0 /\ base <= a
  BY DEF OnGrid
<1> HIDE DEF x
<1>2. x = I * q + (x % I) /\ q \in Nat
  BY <1>1, Division
<1>3. GridAfter(base, I, a) = base + (q + 1) * I
  BY <1>1 DEF GridAfter, x
<1> HIDE DEF q
<1>4. (q + 1) * I = I * q + I /\ I * q \in Nat
  BY <1>2, Product
<1>5. x = I * q
  BY <1>1, <1>2, <1>4
<1>6. a = base + x
  BY DEF x
<1> QED
  BY <1>3, <1>4, <1>5, <1>6

-----------------------------------------------------------------------------
(* The inductive invariant of a prediction.                                   *)

LastRun == IF runs = <<>> THEN now ELSE runs[Len(runs)]

PageTypes ==
    /\ page \in {"open", "grid", "fallback", "search", "done", "thrown"}
    /\ now \in 0..LastAfter /\ now <= after
    /\ cur \in Nat /\ maxCheck \in Nat
    /\ runs \in Seq(Time)
    /\ page = "open" => runs = <<>> /\ maxCheck = 0

RunsRise ==
    \A i \in DOMAIN runs : runs[i] > now /\ runs[i] <= LastRun /\ (i > 1 => runs[i] > runs[i - 1])

RunsAreSelected == anchor = None \/ NoBareStar => \A t \in Predicted : Selected(t)

\* Without an anchor no selected time is left out.
SelectedAreRuns == anchor = None => \A t \in now + 1..LastRun : Selected(t) => t \in Predicted

\* As long as there was no search the runs are the times of the grid.
RunsAreGrid ==
    anchor # None /\ maxCheck = 0 =>
        /\ \A t \in Predicted : OnGrid(anchor, PageInterval, t) /\ matchCron6(t)
        /\ \A t \in now + 1..LastRun : OnGrid(anchor, PageInterval, t) => t \in Predicted

RunsInv == RunsRise /\ RunsAreSelected /\ SelectedAreRuns /\ RunsAreGrid

AtGrid ==
    page = "grid" =>
        /\ maxCheck = 0 /\ anchor # None /\ PageInterval > 0 /\ LastRun <= LastAfter
        /\ Multiple = GridAfter(anchor, PageInterval, LastRun)

AtSearch ==
    page \in {"search", "fallback"} =>
        /\ LastRun <= LastAfter /\ LastRun < cur
        /\ maxCheck > 0 /\ maxCheck <= LastAfter + PageInterval + 1 + PageDays * Day
        /\ anchor = None => \A t \in LastRun + 1..cur - 1 : ~Selected(t)

PInv == PageTypes /\ RunsInv /\ AtGrid /\ AtSearch

\* What depends on the schedule alone.
LEMMA SameSchedule ==
    ASSUME UNCHANGED <<chosen, anchor>>
    PROVE  /\ schedule' = schedule /\ anchor' = anchor
           /\ PageInterval' = PageInterval /\ NoBareStar' = NoBareStar
           /\ \A t : Selected(t)' <=> Selected(t)
           /\ \A t : matchCron6(t)' <=> matchCron6(t)
<1>1. schedule' = schedule
  BY DEF schedule
<1>2. \A t : Selected(t)' <=> Selected(t)
  BY <1>1 DEF Selected, Fields, Wall
<1>3. \A t : matchCron6(t)' <=> matchCron6(t)
  BY <1>1 DEF matchCron6, Fields, Wall
<1> QED
  BY <1>1, <1>2, <1>3 DEF PageInterval, NoBareStar

LEMMA PageValues ==
    ASSUME SteadyClock, CInv, PageTypes
    PROVE  /\ chosen \in DOMAIN Schedules /\ Valid(schedule) /\ PageInterval \in Nat
           /\ LastRun \in Nat /\ now \in Nat /\ LastAfter \in Nat
           /\ anchor = None \/ anchor \in 0..LastAfter
           /\ Len(runs) \in Nat /\ DOMAIN runs = 1..Len(runs)
           /\ \A i \in 1..Len(runs) : runs[i] \in Time /\ runs[i] \in Nat
<1>1. chosen \in DOMAIN Schedules
  BY DEF CInv, TypeOK
<1>2. Valid(schedule) /\ PageInterval \in Nat
  BY <1>1, ScheduleValid, ShownIs DEF schedule, PageInterval
<1>3. LastAfter \in Nat /\ now \in Nat
  BY HorizonAssumption DEF PageTypes
<1>4. Len(runs) \in Nat /\ DOMAIN runs = 1..Len(runs) /\ \A i \in 1..Len(runs) : runs[i] \in Time
  BY DEF PageTypes
<1>5. \A i \in 1..Len(runs) : runs[i] \in Nat
  BY <1>4, WallOf
<1>6. LastRun \in Nat
  BY <1>3, <1>4, <1>5 DEF LastRun, PageTypes
<1>7. anchor = None \/ anchor \in 0..LastAfter
  BY HorizonAssumption DEF CInv, TypeOK
<1> QED
  BY <1>1, <1>2, <1>3, <1>4, <1>5, <1>6, <1>7

\* A step that adds no run.
LEMMA RunsKept ==
    ASSUME RunsInv, UNCHANGED <<chosen, anchor, now, runs>>, maxCheck' = 0 => maxCheck = 0
    PROVE  RunsInv' /\ LastRun' = LastRun
<1>1. LastRun' = LastRun /\ Predicted' = Predicted
  BY DEF LastRun, Predicted
<1>2. RunsRise'
  BY <1>1 DEF RunsInv, RunsRise
<1>3. RunsAreSelected'
  BY <1>1, SameSchedule DEF RunsInv, RunsAreSelected
<1>4. SelectedAreRuns'
  BY <1>1, SameSchedule DEF RunsInv, SelectedAreRuns
<1>5. RunsAreGrid'
  BY <1>1, SameSchedule DEF RunsInv, RunsAreGrid
<1> QED
  BY <1>1, <1>2, <1>3, <1>4, <1>5 DEF RunsInv

\* A step that adds the run t.
LEMMA RunsGrow ==
    ASSUME SteadyClock, CInv, PageTypes, RunsInv, UNCHANGED <<chosen, anchor, now>>,
           NEW t \in Time, runs' = Append(runs, t), LastRun < t,
           anchor = None \/ NoBareStar => Selected(t),
           anchor = None => \A x \in LastRun + 1..t - 1 : ~Selected(x),
           anchor # None /\ maxCheck' = 0 =>
               /\ maxCheck = 0 /\ OnGrid(anchor, PageInterval, t) /\ matchCron6(t)
               /\ \A x \in LastRun + 1..t - 1 : ~OnGrid(anchor, PageInterval, x)
    PROVE  RunsInv' /\ LastRun' = t /\ runs' \in Seq(Time) /\ runs' # <<>>
<1> DEFINE n == Len(runs)
<1>1. /\ n \in Nat /\ DOMAIN runs = 1..n /\ \A i \in 1..n : runs[i] \in Time /\ runs[i] \in Nat
      /\ LastRun \in Nat /\ now \in Nat /\ t \in Nat
  BY PageValues, WallOf
<1>2. /\ runs' \in Seq(Time) /\ Len(runs') = n + 1 /\ DOMAIN runs' = 1..n + 1
      /\ runs'[n + 1] = t /\ \A i \in 1..n : runs'[i] = runs[i]
  <2>1. runs \in Seq(Time)
    BY DEF PageTypes
  <2> QED
    BY <2>1
<1>3. runs' # <<>>
  BY <1>1, <1>2
<1>4. LastRun' = t
  BY <1>2, <1>3 DEF LastRun
<1>5. now <= LastRun
  <2>1. CASE runs = <<>>
    BY <1>1, <2>1 DEF LastRun
  <2>2. CASE runs # <<>>
    <3>1. LastRun = runs[n] /\ n \in 1..n
      BY <1>1, <2>2 DEF LastRun, PageTypes
    <3> QED
      BY <1>1, <3>1 DEF RunsInv, RunsRise
  <2> QED
    BY <2>1, <2>2
<1>6. Predicted' = Predicted \cup {t}
  <2>1. Predicted' = {runs'[i] : i \in 1..n + 1} /\ Predicted = {runs[i] : i \in 1..n}
    BY <1>1, <1>2 DEF Predicted
  <2>2. 1..n + 1 = (1..n) \cup {n + 1}
    BY <1>1
  <2> QED
    BY <1>2, <2>1, <2>2
<1> HIDE DEF n
<1>7. RunsRise'
  <2> SUFFICES ASSUME NEW i \in 1..n + 1
               PROVE  runs'[i] > now /\ runs'[i] <= t /\ (i > 1 => runs'[i] > runs'[i - 1])
    BY <1>2, <1>4 DEF RunsRise
  <2>1. CASE i \in 1..n
    <3>1. runs[i] > now /\ runs[i] <= LastRun /\ (i > 1 => runs[i] > runs[i - 1])
      BY <1>1, <2>1 DEF RunsInv, RunsRise
    <3>2. i > 1 => i - 1 \in 1..n
      BY <1>1, <2>1
    <3>3. runs'[i] = runs[i] /\ (i > 1 => runs'[i - 1] = runs[i - 1]) /\ runs[i] \in Nat
      BY <1>1, <1>2, <2>1, <3>2
    <3>4. runs[i] <= t
      BY <1>1, <3>1, <3>3
    <3> QED
      BY <3>1, <3>3, <3>4
  <2>2. CASE i = n + 1
    <3>1. runs'[i] = t /\ t > now
      BY <1>1, <1>2, <1>5, <2>2
    <3>2. ASSUME i > 1 PROVE t > runs'[i - 1]
      <4>1. n \in 1..n /\ i - 1 = n
        BY <1>1, <2>2, <3>2
      <4>2. runs'[i - 1] = runs[n] /\ runs[n] \in Nat /\ runs[n] <= LastRun
        BY <1>1, <1>2, <4>1 DEF RunsInv, RunsRise
      <4> QED
        BY <1>1, <4>2
    <3> QED
      BY <1>1, <3>1, <3>2
  <2> QED
    BY <1>1, <2>1, <2>2
<1>8. RunsAreSelected'
  BY <1>6, SameSchedule DEF RunsInv, RunsAreSelected
<1>9. SelectedAreRuns'
  <2> SUFFICES ASSUME anchor = None, NEW x \in now + 1..t, Selected(x) PROVE x \in Predicted \cup {t}
    BY <1>4, <1>6, SameSchedule DEF SelectedAreRuns
  <2>1. CASE x <= LastRun
    <3>1. x \in now + 1..LastRun
      BY <1>1, <2>1
    <3> QED
      BY <3>1 DEF RunsInv, SelectedAreRuns
  <2>2. CASE x > LastRun
    <3>1. x \notin LastRun + 1..t - 1
      OBVIOUS
    <3> QED
      BY <1>1, <2>2, <3>1
  <2> QED
    BY <1>1, <2>1, <2>2
<1>10. RunsAreGrid'
  <2> SUFFICES ASSUME anchor # None, maxCheck' = 0
               PROVE  /\ \A x \in Predicted \cup {t} : OnGrid(anchor, PageInterval, x) /\ matchCron6(x)
                      /\ \A x \in now + 1..t : OnGrid(anchor, PageInterval, x) => x \in Predicted \cup {t}
    BY <1>4, <1>6, SameSchedule DEF RunsAreGrid
  <2>1. \A x \in Predicted \cup {t} : OnGrid(anchor, PageInterval, x) /\ matchCron6(x)
    BY DEF RunsInv, RunsAreGrid
  <2>2. ASSUME NEW x \in now + 1..t, OnGrid(anchor, PageInterval, x) PROVE x \in Predicted \cup {t}
    <3>1. CASE x <= LastRun
      <4>1. x \in now + 1..LastRun
        BY <1>1, <3>1
      <4> QED
        BY <2>2, <4>1 DEF RunsInv, RunsAreGrid
    <3>2. CASE x > LastRun
      <4>1. x \notin LastRun + 1..t - 1
        BY <2>2
      <4> QED
        BY <1>1, <3>2, <4>1
    <3> QED
      BY <1>1, <3>1, <3>2
  <2> QED
    BY <2>1, <2>2
<1> QED
  BY <1>2, <1>3, <1>4, <1>7, <1>8, <1>9, <1>10 DEF RunsInv

\* What the actions of a search of the page have in common.
LEMMA InPageSearch ==
    ASSUME SteadyClock, CInv, PInv, PageSearching
    PROVE  /\ Valid(schedule) /\ Fed(schedule)
           /\ cur \in Time /\ Wall(cur) \in Walls /\ Wall(cur) \in Nat
           /\ (Wall(cur) \div Day) + 1 < Cardinality(Dates)
           /\ DateAt(Wall(cur))[1] < Years
           /\ \A i \in 0..5 : Is(i) <=> Matches(schedule[i], Clock[Wall(cur)][i])
           /\ DayIs <=> PicksDay(schedule, Wall(cur))
<1>1. chosen \in DOMAIN Schedules /\ Valid(schedule) /\ Fed(schedule)
  BY PageValues, PageReads DEF PageSearching, PInv
<1>2. cur < maxCheck /\ maxCheck <= LastAfter + PageInterval + 1 + PageDays * Day /\ cur \in Nat /\ maxCheck \in Nat
  BY DEF PageSearching, PInv, AtSearch, PageTypes
<1>3. LastAfter + PageInterval + 1 + PageDays * Day \in Nat
  <2>1. PageInterval \in Nat /\ LastAfter \in Nat
    BY PageValues DEF PInv
  <2>2. PageDays * Day \in Nat
    BY PageAssumption, Units, Product
  <2> QED
    BY <2>1, <2>2
<1>4. cur < LastAfter + PageInterval + 1 + PageDays * Day
  BY <1>2, <1>3
<1>5. /\ cur \in Time /\ Wall(cur) \in Walls
      /\ (Wall(cur) \div Day) + 1 < Cardinality(Dates)
      /\ DateAt(Wall(cur))[1] < Years
  BY <1>1, <1>2, <1>4, PageInCalendar DEF PageInterval, schedule
<1> QED
  BY <1>1, <1>5, PageReads, ClockAt

\* A jump of the page.
LEMMA PageMoves ==
    ASSUME SteadyClock, CInv, PInv, PageSearching,
           NEW v \in Walls, Jump(schedule, Wall(cur), v), moveTo(v)
    PROVE  PInv'
<1> DEFINE w == Wall(cur)
<1>1. cur \in Nat /\ OffsetBefore \in Nat /\ w = cur + OffsetBefore /\ v \in Nat
  BY InPageSearch, WallOf, Steady, ClockAt
<1>2. w < v /\ \A x \in w..v - 1 : ~Picks(schedule, x)
  BY DEF Jump
<1>3. cur' = date(v) /\ UNCHANGED <<vars, page, now, runs, maxCheck>>
  BY DEF moveTo
<1>4. UNCHANGED <<chosen, anchor, after>>
  BY <1>3 DEF vars
<1> HIDE DEF w
<1>5. cur' = v - OffsetBefore
  BY <1>1, <1>2, <1>3, DateIsTime
<1>6. cur' \in Nat /\ cur < cur'
  BY <1>1, <1>2, <1>5
<1>7. PageTypes'
  BY <1>3, <1>4, <1>6 DEF PInv, PageTypes
<1>8. RunsInv' /\ LastRun' = LastRun
  BY <1>3, <1>4, RunsKept DEF PInv
<1>9. page # "grid" /\ page' = page
  BY <1>3 DEF PageSearching
<1>10. AtSearch'
  <2>1. LastRun <= LastAfter /\ LastRun < cur /\ LastRun \in Nat
    BY PageValues DEF PageSearching, PInv, AtSearch
  <2>2. maxCheck > 0 /\ maxCheck <= LastAfter + PageInterval + 1 + PageDays * Day /\ PageInterval' = PageInterval
    BY <1>4, SameSchedule DEF PageSearching, PInv, AtSearch
  <2>3. ASSUME anchor = None, NEW x \in LastRun + 1..cur' - 1 PROVE ~Selected(x)
    <3>1. CASE x < cur
      <4>1. x \in LastRun + 1..cur - 1
        BY <1>1, <2>1, <3>1
      <4> QED
        BY <2>3, <4>1 DEF PageSearching, PInv, AtSearch
    <3>2. CASE cur <= x
      <4>1. x + OffsetBefore \in w..v - 1
        BY <1>1, <1>5, <2>1, <3>2
      <4> QED
        BY <1>2, <4>1, SelectedIs, Steady
    <3> QED
      BY <1>1, <2>1, <3>1, <3>2
  <2> QED
    BY <1>1, <1>3, <1>4, <1>6, <1>8, <2>1, <2>2, <2>3, SameSchedule DEF AtSearch
<1> QED
  BY <1>7, <1>8, <1>9, <1>10 DEF PInv, AtGrid

LEMMA PageMonthKeeps == ASSUME SteadyClock, CInv, PInv, PageMonth PROVE PInv'
<1> DEFINE w == Wall(cur)
           d == DateAt(w)
           later == LaterThan(schedule[4], Clock[w][4])
           v == IF later = {} THEN FirstOf(d[1] + 1, Min(schedule[4].values)) ELSE FirstOf(d[1], Min(later))
<1>1. PageSearching /\ ~Is(4)
  BY DEF PageMonth
<1>2. /\ Valid(schedule) /\ w \in Walls /\ d[1] < Years
      /\ ~Matches(schedule[4], Clock[w][4]) /\ schedule[4].values # {}
  <2>1. Valid(schedule) /\ Fed(schedule) /\ w \in Walls /\ d[1] < Years /\ ~Matches(schedule[4], Clock[w][4])
    BY <1>1, InPageSearch
  <2>2. 4 \in {0, 1, 2, 4}
    OBVIOUS
  <2> HIDE DEF w, d
  <2> QED
    BY <2>1, <2>2, HasValues
<1>3. moveTo(v)
  BY <1>2, PageReads DEF PageMonth, Fields, DateAt
<1> HIDE DEF w, d, later, v
<1>4. v \in Walls /\ Jump(schedule, w, v)
  BY <1>2, MonthJump DEF d, later, v
<1> QED
  BY <1>1, <1>3, <1>4, PageMoves DEF w

LEMMA PageDayKeeps == ASSUME SteadyClock, CInv, PInv, PageDay PROVE PInv'
<1> DEFINE w == Wall(cur)
           v == w - (w % Day) + Day
<1>1. PageSearching /\ ~DayIs /\ moveTo(v)
  BY DEF PageDay, StartOf
<1>2. Valid(schedule) /\ w \in Walls /\ ~PicksDay(schedule, w) /\ (w \div Day) + 1 < Cardinality(Dates)
  BY <1>1, InPageSearch
<1> HIDE DEF w, v
<1>3. v \in Walls /\ Jump(schedule, w, v)
  BY <1>2, DayJump DEF v
<1> QED
  BY <1>1, <1>3, PageMoves DEF w

\* Hours, minutes and seconds are skipped the same way.
LEMMA PageFieldKeeps ==
    ASSUME SteadyClock, CInv, PInv, PageSearching, NEW i \in 0..2, ~Is(i),
           NEW v, v = Target(i, Wall(cur), schedule), moveTo(v)
    PROVE  PInv'
<1>1. /\ Valid(schedule) /\ Fed(schedule) /\ Wall(cur) \in Walls
      /\ (Wall(cur) \div Day) + 1 < Cardinality(Dates)
      /\ ~Matches(schedule[i], Clock[Wall(cur)][i])
  BY InPageSearch
<1>2. v \in Walls /\ Jump(schedule, Wall(cur), v)
  BY <1>1, TargetIs
<1> QED
  BY <1>2, PageMoves

LEMMA PageHourKeeps == ASSUME SteadyClock, CInv, PInv, PageHour PROVE PInv'
<1> DEFINE w == Wall(cur)
           later == LaterThan(schedule[2], Clock[w][2])
<1>1. PageSearching /\ ~Is(2)
  BY DEF PageHour
<1>2. Valid(schedule)
  BY <1>1, InPageSearch
<1>3. /\ fieldAfter(schedule[2], Fields(cur)[2]) = later
      /\ fieldMin(schedule[2]) = Min(schedule[2].values)
  BY <1>2, PageReads DEF Fields
<1>4. Unit[2 + 1] = Day /\ Unit[2] = Hour
  BY DEF Unit
<1>5. moveTo(StartOf(Day, cur) + IF later = {} THEN Day + Hour * Min(schedule[2].values) ELSE Hour * Min(later))
  BY <1>3 DEF PageHour
<1>6. moveTo(Target(2, w, schedule))
  BY <1>4, <1>5 DEF Target, StartOf
<1> QED
  BY <1>1, <1>6, PageFieldKeeps

LEMMA PageMinuteKeeps == ASSUME SteadyClock, CInv, PInv, PageMinute PROVE PInv'
<1> DEFINE w == Wall(cur)
           later == LaterThan(schedule[1], Clock[w][1])
           z == Min(schedule[1].values)
           y == Min(later)
<1>1. PageSearching /\ ~Is(1)
  BY DEF PageMinute
<1>2. Valid(schedule) /\ Fed(schedule) /\ ~Matches(schedule[1], Clock[w][1])
  BY <1>1, InPageSearch
<1>3. /\ fieldAfter(schedule[1], Fields(cur)[1]) = later
      /\ fieldMin(schedule[1]) = z
  BY <1>2, PageReads DEF Fields
<1>4. Unit[1 + 1] = Hour /\ Unit[1] = SecondsPerMinute /\ SecondsPerMinute \in Nat
  BY Units DEF Unit
<1>5. moveTo(StartOf(Hour, cur) + IF later = {} THEN Hour + z * SecondsPerMinute ELSE y * SecondsPerMinute)
  BY <1>3 DEF PageMinute
<1>6. z \in Nat /\ (later # {} => y \in Nat)
  <2>1. schedule[1].values \in SUBSET Nat /\ z \in schedule[1].values
    <3>1. 1 \in {0, 1, 2, 4}
      OBVIOUS
    <3> QED
      BY <1>2, <3>1, HasValues
  <2>2. later \in SUBSET Nat
    BY <2>1 DEF LaterThan
  <2> QED
    BY <2>1, <2>2, MinIsLeast
<1>7. Target(1, w, schedule) =
      StartOf(Hour, cur) + IF later = {} THEN Hour + SecondsPerMinute * z ELSE SecondsPerMinute * y
  BY <1>4 DEF Target, StartOf
<1> HIDE DEF w, z, y, later
<1>8. z * SecondsPerMinute = SecondsPerMinute * z /\ (later # {} => y * SecondsPerMinute = SecondsPerMinute * y)
  BY <1>4, <1>6
<1>9. moveTo(Target(1, w, schedule))
  BY <1>5, <1>7, <1>8
<1> QED
  BY <1>1, <1>9, PageFieldKeeps DEF w

LEMMA PageSecondKeeps == ASSUME SteadyClock, CInv, PInv, PageSecond PROVE PInv'
<1> DEFINE w == Wall(cur)
           later == LaterThan(schedule[0], Clock[w][0])
           z == Min(schedule[0].values)
           y == Min(later)
<1>1. PageSearching /\ ~Is(0)
  BY DEF PageSecond
<1>2. Valid(schedule) /\ Fed(schedule) /\ ~Matches(schedule[0], Clock[w][0])
  BY <1>1, InPageSearch
<1>3. /\ fieldAfter(schedule[0], Fields(cur)[0]) = later
      /\ fieldMin(schedule[0]) = z
  BY <1>2, PageReads DEF Fields
<1>4. Unit[0 + 1] = SecondsPerMinute /\ Unit[0] = 1
  BY DEF Unit
<1>5. moveTo(StartOf(SecondsPerMinute, cur) + IF later = {} THEN SecondsPerMinute + z ELSE y)
  BY <1>3 DEF PageSecond
<1>6. z \in Nat /\ (later # {} => y \in Nat)
  <2>1. schedule[0].values \in SUBSET Nat /\ z \in schedule[0].values
    <3>1. 0 \in {0, 1, 2, 4}
      OBVIOUS
    <3> QED
      BY <1>2, <3>1, HasValues
  <2>2. later \in SUBSET Nat
    BY <2>1 DEF LaterThan
  <2> QED
    BY <2>1, <2>2, MinIsLeast
<1>7. Target(0, w, schedule) =
      StartOf(SecondsPerMinute, cur) + IF later = {} THEN SecondsPerMinute + 1 * z ELSE 1 * y
  BY <1>4 DEF Target, StartOf
<1> HIDE DEF w, z, y, later
<1>8. 1 * z = z /\ (later # {} => 1 * y = y)
  BY <1>6
<1>9. moveTo(Target(0, w, schedule))
  BY <1>5, <1>7, <1>8
<1> QED
  BY <1>1, <1>9, PageFieldKeeps DEF w

\* A search that begins behind the last run.
LEMMA SearchBegins ==
    ASSUME SteadyClock, CInv, PInv, UNCHANGED <<chosen, anchor>>, LastRun' \in Nat,
           NEW t \in Nat, NEW as \in {"search", "fallback"}, searchFrom(t, as),
           LastRun' <= t, LastRun' <= LastAfter, t <= LastAfter + PageInterval,
           anchor = None => t = LastRun'
    PROVE  AtSearch' /\ AtGrid' /\ cur' \in Nat /\ maxCheck' \in Nat /\ maxCheck' > 0 /\ page' = as
<1>1. LastAfter \in Nat /\ PageInterval \in Nat /\ PageDays * Day \in Nat
  BY PageValues, PageAssumption, Units, Product DEF PInv
<1>2. page' = as /\ cur' = t + 1 /\ maxCheck' = t + 1 + PageDays * Day
  BY DEF searchFrom
<1>3. /\ cur' \in Nat /\ LastRun' < cur' /\ maxCheck' \in Nat /\ maxCheck' > 0
      /\ maxCheck' <= LastAfter + PageInterval + 1 + PageDays * Day
  BY <1>1, <1>2
<1>4. ASSUME anchor = None, NEW x \in LastRun' + 1..cur' - 1 PROVE FALSE
  <2>1. LastRun' = t /\ cur' - 1 = t
    BY <1>2, <1>4
  <2>2. x \in t + 1..t
    BY <1>4, <2>1
  <2> QED
    BY <2>2
<1>5. PageInterval' = PageInterval /\ anchor' = anchor
  BY SameSchedule
<1>6. AtSearch'
  BY <1>2, <1>3, <1>4, <1>5 DEF AtSearch
<1> QED
  BY <1>2, <1>3, <1>6 DEF AtGrid

LEMMA PredictKeeps == ASSUME SteadyClock, CInv, PInv, Predict PROVE PInv'
<1>1. page = "open" /\ runs = <<>> /\ maxCheck = 0 /\ LastRun = now /\ now \in 0..LastAfter
  BY DEF Predict, PInv, PageTypes, LastRun
<1>2. UNCHANGED <<chosen, anchor, after, now, runs>>
  BY DEF Predict, vars
<1>3. RunsInv' /\ LastRun' = LastRun
  BY <1>1, <1>2, RunsKept DEF PInv
<1>4. now \in Nat /\ LastAfter \in Nat /\ PageInterval \in Nat
  BY PageValues DEF PInv
<1>5. CASE anchor # None /\ PageInterval > 0
  <2>1. page' = "grid" /\ UNCHANGED <<cur, maxCheck>>
    BY <1>5 DEF Predict
  <2>2. PageTypes'
    BY <1>2, <2>1 DEF PInv, PageTypes
  <2>3. Multiple' = FirstMultiple
    <3>1. FirstMultiple' = FirstMultiple
      BY <1>2, SameSchedule DEF FirstMultiple
    <3>2. anchor \in Nat
      BY <1>5, PageValues DEF PInv
    <3>3. FirstMultiple = GridAfter(anchor, PageInterval, now)
      BY DEF FirstMultiple, GridAfter
    <3>4. FirstMultiple \in Nat
      BY <1>4, <1>5, <3>2, <3>3, GridIs
    <3>5. Len(runs') = 0 /\ 0 * PageInterval' = 0
      BY <1>1, <1>2, <1>4, SameSchedule
    <3> QED
      BY <3>1, <3>4, <3>5 DEF Multiple
  <2>4. AtGrid'
    BY <1>1, <1>2, <1>3, <1>4, <1>5, <2>1, <2>3, SameSchedule DEF AtGrid, FirstMultiple, GridAfter
  <2> QED
    BY <1>3, <2>1, <2>2, <2>4 DEF PInv, AtSearch
<1>6. CASE ~(anchor # None /\ PageInterval > 0)
  <2>1. searchFrom(now, "search")
    BY <1>6 DEF Predict
  <2>2. AtSearch' /\ AtGrid' /\ cur' \in Nat /\ maxCheck' \in Nat /\ page' = "search"
    <3>1. now <= LastAfter /\ now <= LastAfter + PageInterval
      BY <1>1, <1>4
    <3> QED
      BY <1>1, <1>2, <1>3, <1>4, <2>1, <3>1, SearchBegins
  <2>3. PageTypes'
    BY <1>2, <2>2 DEF PInv, PageTypes
  <2> QED
    BY <1>3, <2>2, <2>3 DEF PInv
<1> QED
  BY <1>5, <1>6

\* The next multiple of a prediction by the grid.
LEMMA MultipleIs ==
    ASSUME SteadyClock, CInv, PInv, page = "grid"
    PROVE  /\ anchor \in Nat /\ PageInterval \in Nat \ {0} /\ maxCheck = 0
           /\ Multiple \in Nat /\ Multiple \in Time /\ Wall(Multiple) \in Walls
           /\ LastRun \in Nat /\ LastRun < Multiple
           /\ LastRun <= LastAfter /\ Multiple <= LastAfter + PageInterval
           /\ OnGrid(anchor, PageInterval, Multiple)
           /\ \A x \in LastRun + 1..Multiple - 1 : ~OnGrid(anchor, PageInterval, x)
<1>1. /\ anchor # None /\ PageInterval > 0 /\ LastRun <= LastAfter /\ maxCheck = 0
      /\ Multiple = GridAfter(anchor, PageInterval, LastRun)
  BY DEF PInv, AtGrid
<1>2. /\ anchor \in 0..LastAfter /\ PageInterval \in Nat \ {0} /\ LastRun \in Nat /\ LastAfter \in Nat
      /\ chosen \in DOMAIN Schedules
  BY <1>1, PageValues DEF PInv
<1>3. anchor \in Nat /\ anchor <= LastAfter
  BY <1>2
<1>4. /\ Multiple \in Nat /\ LastRun < Multiple /\ (Multiple <= anchor \/ Multiple <= LastRun + PageInterval)
      /\ OnGrid(anchor, PageInterval, Multiple)
      /\ \A x \in LastRun + 1..Multiple - 1 : ~OnGrid(anchor, PageInterval, x)
  BY <1>1, <1>2, <1>3, GridIs
<1>5. Multiple <= LastAfter + PageInterval
  BY <1>1, <1>2, <1>3, <1>4
<1>6. Multiple < LastAfter + PageInterval + 1 + PageDays * Day
  <2>1. PageDays * Day \in Nat
    BY PageAssumption, Units, Product
  <2> QED
    BY <1>2, <1>4, <1>5, <2>1
<1>7. Multiple \in Time /\ Wall(Multiple) \in Walls
  BY <1>2, <1>4, <1>6, PageInCalendar DEF PageInterval, schedule
<1> QED
  BY <1>1, <1>2, <1>3, <1>4, <1>5, <1>7

LEMMA TakeMultipleKeeps == ASSUME SteadyClock, CInv, PInv, TakeMultiple PROVE PInv'
<1> DEFINE c == Multiple
           I == PageInterval
<1>1. /\ page = "grid" /\ matchCron6(c) /\ runs' = Append(runs, c)
      /\ UNCHANGED <<chosen, anchor, after, now, cur, maxCheck>>
      /\ page' \in {"done", "grid"} /\ (page' = "grid" => ~(c > LastAfter))
  BY DEF TakeMultiple, vars
<1>2. /\ anchor \in Nat /\ I \in Nat \ {0} /\ maxCheck = 0 /\ c \in Nat /\ c \in Time /\ Wall(c) \in Walls
      /\ LastRun < c /\ OnGrid(anchor, I, c) /\ \A x \in LastRun + 1..c - 1 : ~OnGrid(anchor, I, x)
  BY <1>1, MultipleIs
<1>3. anchor # None /\ LastAfter \in Nat /\ Valid(schedule) /\ Len(runs) \in Nat
  BY <1>1, PageValues DEF PInv, AtGrid
<1> HIDE DEF c, I
<1>4. NoBareStar => Selected(c)
  BY <1>1, <1>2, <1>3, PageMatches
<1>5. RunsInv' /\ LastRun' = c /\ runs' \in Seq(Time) /\ runs' # <<>>
  BY <1>1, <1>2, <1>3, <1>4, RunsGrow DEF PInv, I
<1>6. PageTypes'
  BY <1>1, <1>5 DEF PInv, PageTypes
<1>7. AtGrid'
  <2>1. Multiple' = c + I
    <3>1. Len(runs') = Len(runs) + 1
      <4>1. runs \in Seq(Time)
        BY DEF PInv, PageTypes
      <4> QED
        BY <1>1, <1>2, <4>1
    <3>2. FirstMultiple' = FirstMultiple /\ PageInterval' = I
      BY <1>1, SameSchedule DEF FirstMultiple, I
    <3>3. FirstMultiple \in Nat
      <4>1. FirstMultiple = GridAfter(anchor, I, now)
        BY DEF FirstMultiple, GridAfter, I
      <4>2. now \in Nat
        BY PageValues DEF PInv
      <4> QED
        BY <1>2, <4>1, <4>2, GridIs
    <3>4. (Len(runs) + 1) * I = Len(runs) * I + I /\ Len(runs) * I \in Nat
      BY <1>2, <1>3, Product
    <3>5. Multiple' = FirstMultiple + (Len(runs) + 1) * I /\ c = FirstMultiple + Len(runs) * I
      BY <3>1, <3>2 DEF Multiple, c, I
    <3> QED
      BY <1>2, <3>3, <3>4, <3>5
  <2>2. GridAfter(anchor, I, c) = c + I
    BY <1>2, GridNext
  <2>3. PageInterval' = I /\ anchor' = anchor
    BY <1>1, SameSchedule DEF I
  <2>4. page' = "grid" => c <= LastAfter
    BY <1>1, <1>2, <1>3
  <2> QED
    BY <1>1, <1>2, <1>3, <1>5, <2>1, <2>2, <2>3, <2>4 DEF AtGrid
<1>8. AtSearch'
  BY <1>1 DEF AtSearch
<1> QED
  BY <1>5, <1>6, <1>7, <1>8 DEF PInv

LEMMA LeaveGridKeeps == ASSUME SteadyClock, CInv, PInv, LeaveGrid PROVE PInv'
<1> DEFINE t == IF runs = <<>> THEN Multiple - 1 ELSE runs[Len(runs)]
<1>1. page = "grid" /\ searchFrom(t, "fallback") /\ UNCHANGED <<chosen, anchor, after, now, runs>>
  BY DEF LeaveGrid, vars
<1>2. /\ anchor \in Nat /\ PageInterval \in Nat /\ maxCheck = 0 /\ Multiple \in Nat
      /\ LastRun \in Nat /\ LastRun < Multiple /\ LastRun <= LastAfter /\ Multiple <= LastAfter + PageInterval
  BY <1>1, MultipleIs
<1>3. anchor # None /\ LastAfter \in Nat
  BY <1>1, PageValues DEF PInv, AtGrid
<1>4. RunsInv' /\ LastRun' = LastRun
  BY <1>1, <1>2, RunsKept DEF PInv
<1>5. t \in Nat /\ LastRun <= t /\ t <= LastAfter + PageInterval
  <2>1. CASE runs = <<>>
    BY <1>2, <1>3, <2>1
  <2>2. CASE runs # <<>>
    <3>1. t = LastRun
      BY <2>2 DEF LastRun
    <3> QED
      BY <1>2, <1>3, <3>1
  <2> QED
    BY <2>1, <2>2
<1> HIDE DEF t
<1>6. AtSearch' /\ AtGrid' /\ cur' \in Nat /\ maxCheck' \in Nat /\ page' = "fallback"
  BY <1>1, <1>2, <1>3, <1>4, <1>5, SearchBegins
<1>7. PageTypes'
  BY <1>1, <1>6 DEF PInv, PageTypes
<1> QED
  BY <1>4, <1>6, <1>7 DEF PInv

LEMMA PageFoundKeeps == ASSUME SteadyClock, CInv, PInv, PageFound PROVE PInv'
<1>1. PageSearching /\ DayIs /\ (\A i \in {0, 1, 2, 4} : Is(i)) /\ UNCHANGED <<chosen, anchor, after, now>>
  BY DEF PageFound, vars
<1>2. /\ Valid(schedule) /\ cur \in Time /\ Wall(cur) \in Walls
      /\ PicksDay(schedule, Wall(cur)) /\ \A i \in {0, 1, 2, 4} : Matches(schedule[i], Clock[Wall(cur)][i])
  BY <1>1, InPageSearch
<1>3. Selected(cur)
  BY <1>2, PicksIs, SelectedIs
<1>4. /\ LastRun < cur /\ LastRun \in Nat /\ cur \in Nat /\ maxCheck > 0 /\ maxCheck \in Nat
      /\ anchor = None => \A x \in LastRun + 1..cur - 1 : ~Selected(x)
  BY <1>1, PageValues DEF PageSearching, PInv, AtSearch, PageTypes
<1>5. runs' = Append(runs, cur)
  <2>1. runs # <<>> => cur # runs[Len(runs)]
    BY <1>4 DEF LastRun
  <2> QED
    BY <2>1 DEF PageFound
<1>6. \/ page' = "done" /\ UNCHANGED <<cur, maxCheck>>
      \/ cur <= LastAfter /\ searchFrom(cur, "search")
  <2>1. LastAfter \in Nat
    BY PageValues DEF PInv
  <2> QED
    BY <1>4, <2>1 DEF PageFound
<1>7. maxCheck' > 0 /\ maxCheck' # 0
  <2>1. PageDays * Day \in Nat
    BY PageAssumption, Units, Product
  <2> QED
    BY <1>4, <1>6, <2>1 DEF searchFrom
<1>8. RunsInv' /\ LastRun' = cur /\ runs' \in Seq(Time)
  BY <1>1, <1>2, <1>3, <1>4, <1>5, <1>7, RunsGrow DEF PInv
<1>9. CASE page' = "done" /\ UNCHANGED <<cur, maxCheck>>
  <2>1. PageTypes'
    BY <1>1, <1>8, <1>9 DEF PInv, PageTypes
  <2> QED
    BY <1>8, <1>9, <2>1 DEF PInv, AtGrid, AtSearch
<1>10. CASE cur <= LastAfter /\ searchFrom(cur, "search")
  <2>1. AtSearch' /\ AtGrid' /\ cur' \in Nat /\ maxCheck' \in Nat /\ page' = "search"
    <3>1. LastAfter \in Nat /\ PageInterval \in Nat
      BY PageValues DEF PInv
    <3>2. cur <= LastAfter + PageInterval
      BY <1>4, <1>10, <3>1
    <3> QED
      BY <1>1, <1>4, <1>8, <1>10, <3>2, SearchBegins
  <2>2. PageTypes'
    BY <1>1, <1>8, <2>1 DEF PInv, PageTypes
  <2> QED
    BY <1>8, <2>1, <2>2 DEF PInv
<1> QED
  BY <1>6, <1>9, <1>10

LEMMA PageGivesUpKeeps == ASSUME CInv, PInv, PageGivesUp PROVE PInv'
<1>1. page' \in {"thrown", "done"} /\ UNCHANGED <<chosen, anchor, after, now, runs, cur, maxCheck>>
  BY DEF PageGivesUp, vars
<1>2. RunsInv'
  BY <1>1, RunsKept DEF PInv
<1>3. PageTypes'
  BY <1>1 DEF PInv, PageTypes
<1> QED
  BY <1>1, <1>2, <1>3 DEF PInv, AtGrid, AtSearch

\* The daemon goes on from later and later times.
LEMMA DaemonKeeps == ASSUME SteadyClock, CInv, PInv, Daemon \/ UNCHANGED allVars PROVE PInv'
<1>1. UNCHANGED <<page, now, runs, cur, maxCheck>>
  BY DEF Daemon, allVars, pageVars
<1>2. UNCHANGED <<chosen, anchor>>
  BY DEF Daemon, Next, Anchored, Dies, StartSearch, SkipMonth, SkipDay, SkipHour, SkipMinute, SkipSecond, Skip,
         Found, GiveUp, Again, allVars, vars
<1>3. after' = after \/ Again
  BY DEF Daemon, Next, Anchored, Dies, StartSearch, SkipMonth, SkipDay, SkipHour, SkipMinute, SkipSecond, Skip,
         Found, GiveUp, allVars, vars
<1>4. now \in Nat /\ now <= after /\ after \in Nat
  BY HorizonAssumption DEF CInv, PInv, PageTypes
<1>5. now <= after'
  <2>1. CASE Again
    <3>1. after' = result /\ pc = "done" /\ result # Never
      BY <2>1 DEF Again
    <3>2. result > after /\ result \in Time
      BY <3>1 DEF CInv, TypeOK, ResultIsRight, ResultIsLater
    <3>3. result \in Nat
      BY <3>2, WallOf
    <3> QED
      BY <1>4, <3>1, <3>2, <3>3
  <2> QED
    BY <1>3, <1>4, <2>1
<1>6. RunsInv' /\ LastRun' = LastRun
  BY <1>1, <1>2, RunsKept DEF PInv
<1>7. PageTypes'
  BY <1>1, <1>5 DEF PInv, PageTypes
<1>8. AtGrid'
  <2>1. Multiple' = Multiple
    BY <1>1, <1>2, SameSchedule DEF Multiple, FirstMultiple
  <2>2. GridAfter(anchor, PageInterval, LastRun)' = GridAfter(anchor, PageInterval, LastRun)
    BY <1>2, <1>6, SameSchedule DEF GridAfter
  <2> QED
    BY <1>1, <1>2, <1>6, <2>1, <2>2, SameSchedule DEF PInv, AtGrid
<1>9. AtSearch'
  <2>1. (\A x \in LastRun + 1..cur - 1 : ~Selected(x))' <=> \A x \in LastRun + 1..cur - 1 : ~Selected(x)
    BY <1>1, <1>2, <1>6, SameSchedule
  <2> QED
    BY <1>1, <1>2, <1>6, <2>1, SameSchedule DEF PInv, AtSearch
<1> QED
  BY <1>6, <1>7, <1>8, <1>9 DEF PInv

\* A step of the page or of the daemon is a step of CronNext, or none.
LEMMA PageStepIsStep == ASSUME [PageNext]_allVars PROVE [Next]_vars
<1>1. ASSUME Predict \/ TakeMultiple \/ LeaveGrid PROVE UNCHANGED vars
  BY <1>1 DEF Predict, TakeMultiple, LeaveGrid
<1>2. ASSUME PageMonth \/ PageDay \/ PageHour \/ PageMinute \/ PageSecond PROVE UNCHANGED vars
  <2>1. \A w : moveTo(w) => UNCHANGED vars
    BY DEF moveTo
  <2>2. PageMonth => \E w : moveTo(w)
    BY DEF PageMonth
  <2>3. PageDay => \E w : moveTo(w)
    BY DEF PageDay
  <2>4. PageHour => \E w : moveTo(w)
    BY DEF PageHour
  <2>5. PageMinute => \E w : moveTo(w)
    BY DEF PageMinute
  <2>6. PageSecond => \E w : moveTo(w)
    BY DEF PageSecond
  <2> QED
    BY <1>2, <2>1, <2>2, <2>3, <2>4, <2>5, <2>6
<1>3. ASSUME PageFound \/ PageGivesUp PROVE UNCHANGED vars
  BY <1>3 DEF PageFound, PageGivesUp
<1>4. ASSUME Daemon PROVE Next
  BY <1>4 DEF Daemon
<1>5. ASSUME UNCHANGED allVars PROVE UNCHANGED vars
  BY <1>5 DEF allVars
<1> QED
  BY <1>1, <1>2, <1>3, <1>4, <1>5 DEF PageNext

LEMMA PInvStep == ASSUME SteadyClock, CInv, PInv, [PageNext]_allVars PROVE PInv'
BY PredictKeeps, TakeMultipleKeeps, LeaveGridKeeps, PageMonthKeeps, PageDayKeeps, PageHourKeeps, PageMinuteKeeps,
   PageSecondKeeps, PageFoundKeeps, PageGivesUpKeeps, DaemonKeeps DEF PageNext

LEMMA PInvInit == ASSUME SteadyClock, PageInit PROVE PInv
<1>1. page = "open" /\ now = after /\ runs = <<>> /\ cur = 0 /\ maxCheck = 0
  BY DEF PageInit
<1>2. now \in 0..LastAfter /\ now \in Nat
  BY <1>1, HorizonAssumption DEF PageInit, Init
<1>3. LastRun = now /\ Predicted = {} /\ DOMAIN runs = {}
  BY <1>1 DEF LastRun, Predicted
<1>4. now + 1..now = {}
  BY <1>2
<1>5. PageTypes
  BY <1>1, <1>2 DEF PageTypes
<1>6. RunsInv
  BY <1>3, <1>4 DEF RunsInv, RunsRise, RunsAreSelected, SelectedAreRuns, RunsAreGrid
<1> QED
  BY <1>1, <1>5, <1>6 DEF PInv, AtGrid, AtSearch

LEMMA PredictionsAreRight == ASSUME SteadyClock, CInv, FoundInv, PInv PROVE PredictionsRight
<1>1. /\ Len(runs) \in Nat /\ DOMAIN runs = 1..Len(runs) /\ \A i \in 1..Len(runs) : runs[i] \in Nat
      /\ LastRun \in Nat /\ now \in Nat /\ Valid(schedule)
  BY PageValues DEF PInv
<1>2. after \in Nat /\ now <= after
  BY HorizonAssumption DEF CInv, PInv, PageTypes
<1>3. PredictedSelected
  <2> SUFFICES ASSUME NEW i \in DOMAIN runs
               PROVE  /\ runs[i] > IF i = 1 THEN now ELSE runs[i - 1]
                      /\ anchor = None \/ NoBareStar => Selected(runs[i])
    BY DEF PredictedSelected
  <2>1. runs[i] \in Predicted
    BY DEF Predicted
  <2>2. anchor = None \/ NoBareStar => Selected(runs[i])
    BY <2>1 DEF PInv, RunsInv, RunsAreSelected
  <2>3. runs[i] > now /\ (i > 1 => runs[i] > runs[i - 1])
    BY DEF PInv, RunsInv, RunsRise
  <2>4. i = 1 \/ i > 1
    BY <1>1
  <2> QED
    BY <2>2, <2>3, <2>4
<1>4. ASSUME anchor = None \/ OnDaemonsGrid, runs # <<>>, DaemonFound, result <= runs[Len(runs)]
      PROVE  {t \in Predicted : t > after /\ t <= result} = {result}
  <2>1. result \in Time /\ result \in Nat /\ result > after /\ Selected(result)
    <3>1. pc = "done" /\ result # Never
      BY <1>4 DEF DaemonFound
    <3>2. result \in Time /\ result > after /\ Selected(result)
      BY <3>1 DEF CInv, TypeOK, ResultIsRight, ResultIsLater
    <3> QED
      BY <3>2, WallOf
  <2>2. LastRun = runs[Len(runs)] /\ LastRun \in Predicted /\ \A t \in Predicted : t \in Nat
    <3>1. Len(runs) \in 1..Len(runs)
      BY <1>1, <1>4 DEF PInv, PageTypes
    <3> QED
      BY <1>1, <1>4, <3>1 DEF LastRun, Predicted
  <2>3. CASE anchor = None
    <3>1. result \in now + 1..LastRun
      BY <1>1, <1>2, <1>4, <2>1, <2>2
    <3>2. result \in Predicted
      BY <2>1, <2>3, <3>1 DEF PInv, RunsInv, SelectedAreRuns
    <3>3. ASSUME NEW t \in Predicted, t > after, t < result PROVE FALSE
      <4>1. t \in after + 1..result - 1
        BY <1>2, <2>1, <2>2, <3>3
      <4>2. Selected(t)
        BY <2>3 DEF PInv, RunsInv, RunsAreSelected
      <4> QED
        BY <1>4, <2>3, <4>1, <4>2 DEF DaemonFound, FoundInv
    <3>4. \A t \in Predicted : t > after /\ t <= result => t = result
      BY <2>1, <2>2, <3>3
    <3>5. result > after /\ result <= result
      BY <2>1
    <3> QED
      BY <3>2, <3>4, <3>5, Zenon
  <2>4. CASE anchor # None /\ OnDaemonsGrid
    <3> DEFINE I == Interval(schedule)
               c == Candidate
    <3>1. /\ PageInterval = I /\ maxCheck = 0 /\ NoBareStar
          /\ schedule[3].any \/ schedule[5].any
      BY <2>4 DEF OnDaemonsGrid
    <3>2. /\ c \in Time /\ after < c /\ OnGrid(anchor, I, c)
          /\ \A t \in after + 1..c - 1 : ~OnGrid(anchor, I, t)
      BY <2>4, CandidateIs
    <3>3. c \in Nat /\ Wall(c) \in Walls
      BY <3>2, WallOf
    <3>4. /\ \A t \in Predicted : OnGrid(anchor, I, t) /\ matchCron6(t)
          /\ \A t \in now + 1..LastRun : OnGrid(anchor, I, t) => t \in Predicted
      BY <2>4, <3>1 DEF PInv, RunsInv, RunsAreGrid
    <3> HIDE DEF c, I
    <3>5. c <= LastRun
      <4>1. CASE LastRun < c
        <5>1. LastRun \in after + 1..c - 1
          BY <1>1, <1>2, <1>4, <2>1, <2>2, <3>3, <4>1
        <5> QED
          BY <2>2, <3>2, <3>4, <5>1
      <4> QED
        BY <1>1, <3>3, <4>1
    <3>6. c \in now + 1..LastRun
      BY <1>1, <1>2, <3>2, <3>3, <3>5
    <3>7. c \in Predicted /\ matchCron6(c)
      BY <3>2, <3>4, <3>6
    <3>8. MatchesAll(c)
      BY <1>1, <3>1, <3>3, <3>7, PageMatches
    <3>9. result = c
      BY <1>4, <2>4, <3>8 DEF DaemonFound, FoundInv, c
    <3>10. ASSUME NEW t \in Predicted, t > after, t < result PROVE FALSE
      <4>1. t \in after + 1..c - 1
        BY <1>2, <2>2, <3>3, <3>9, <3>10
      <4> QED
        BY <3>2, <3>4, <4>1
    <3>11. \A t \in Predicted : t > after /\ t <= result => t = result
      BY <2>1, <2>2, <3>10
    <3>12. result \in Predicted /\ result > after /\ result <= result
      BY <2>1, <3>7, <3>9
    <3> QED
      BY <3>11, <3>12, Zenon
  <2> QED
    BY <1>4, <2>3, <2>4
<1>5. PredictionsCome
  BY <1>4 DEF PredictionsCome
<1>6. PredictionsWait
  <2> SUFFICES ASSUME pc = "done", result = Never, ~HalfDead, anchor = None \/ NoBareStar,
                      NEW t \in Predicted, t > after
               PROVE  t >= Min(TwoYearsLater(after + 1))
    BY DEF PredictionsWait
  <2>1. PICK l \in Time : TwoYearsLater(after + 1) = {l}
    BY StartIs DEF CInv
  <2>2. l \in Nat /\ t \in Nat
    BY <1>1, WallOf DEF Predicted
  <2>3. Min(TwoYearsLater(after + 1)) = l
    BY <2>1, <2>2, MinIsLeast
  <2>4. Selected(t)
    BY DEF PInv, RunsInv, RunsAreSelected
  <2>5. t \notin after + 1..l - 1
    BY <2>3, <2>4 DEF CInv, ResultIsRight, NeverForTwoYears
  <2> QED
    BY <1>2, <2>2, <2>3, <2>5
<1> QED
  BY <1>3, <1>5, <1>6 DEF PredictionsRight

\* The page leaves the daemon alone: what holds of its search holds beside it.
THEOREM PageImplementsSearch == PageSpec => Spec
<1>1. PageInit => Init
  BY DEF PageInit
<1>2. [PageNext]_allVars => [Next]_vars
  BY PageStepIsStep
<1> QED
  BY <1>1, <1>2, PTL DEF PageSpec, Spec

\* The runs that the page predicts are those that the daemon finds, one after
\* the other and none in between, and each is a time that the schedule selects;
\* where the daemon finds none, they are two years away, but for a schedule that
\* it takes to be dead (cron.js:158-407 beside cron.go:87-262).
THEOREM PredictionsAreTheRuns == ASSUME SteadyClock PROVE PageSpec => []PredictionsRight
<1> DEFINE Inv == CInv /\ FoundInv /\ PInv
<1>1. PageInit => Inv
  <2>1. PageInit => CInv
    BY CInvInit DEF PageInit
  <2>2. PageInit => FoundInv
    BY DEF PageInit, Init, FoundInv
  <2> QED
    BY <2>1, <2>2, PInvInit
<1>2. Inv /\ [PageNext]_allVars => Inv'
  <2> SUFFICES ASSUME Inv, [PageNext]_allVars PROVE Inv'
    OBVIOUS
  <2>1. [Next]_vars
    BY PageStepIsStep
  <2> QED
    BY <2>1, CInvStep, FoundInvStep, PInvStep
<1>3. Inv => PredictionsRight
  BY PredictionsAreRight
<1> QED
  BY <1>1, <1>2, <1>3, PTL DEF PageSpec

=============================================================================
