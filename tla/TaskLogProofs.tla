--------------------------- MODULE TaskLogProofs ---------------------------
(***************************************************************************)
(* What the log of a task promises for any number of processes, entries,    *)
(* segments, crashes and torn writes: its types (TypeOK), that it holds     *)
(* what it should, once and in order (LogIntact), that a listing is in      *)
(* order (ListingInOrder), and the size of the live file                    *)
(* (LiveWithinBudget).                                                      *)
(*                                                                         *)
(* The invariant has two parts.  Types holds always.  Safe holds until a    *)
(* promise was impossible to keep: the entries of the files are in order    *)
(* from the oldest segment to the live file (FilesOrdered); what a process  *)
(* has read is in order and older than what it has still to read (InOrder); *)
(* it is, with that, the whole log (Complete); what is about to be written  *)
(* again is the history (Taken); a rotation moves each file to a free name  *)
(* (Hole); and the room in the live file suffices for all who looked        *)
(* (Budget).  Two sequences in order with the same entries are the same     *)
(* (OneRising), so the content of the log is the history.                   *)
(*                                                                         *)
(* The steps are of three kinds: some change only what one process knows    *)
(* (QuietStep), some are taken by a process that is alone with the files    *)
(* (AloneStep), and the writes happen beside other appends (PutSafe).       *)
(*                                                                         *)
(* On top of it, GapsInv: before the first crash the segments are numbered  *)
(* without a gap, but for the name a rotation has just freed, so a rotation *)
(* only drops the oldest segment of a full set.                             *)
(***************************************************************************)
EXTENDS TaskLog, FiniteSetTheorems, SequenceTheorems, WellFoundedInduction, TLAPS

-----------------------------------------------------------------------------
(* Counting, and functions defined by recursion on a number *)

Less == OpToRel(<, Nat)

LEMMA LessWellFounded == IsWellFoundedOn(Less, Nat)
BY NatLessThanWellFounded DEF Less

LEMMA NotBefore ==
    ASSUME NEW m \in Nat, NEW n \in Nat, <<m, n>> \notin Less
    PROVE  n <= m
BY SMT DEF Less, OpToRel

LEMMA LeastOf ==
    ASSUME NEW S \in SUBSET Nat, S # {}
    PROVE  \E m \in S : \A k \in S : m <= k
<1>1. PICK m \in S : \A k \in S : <<k, m>> \notin Less
  BY LessWellFounded, WFMin
<1> QED
  BY <1>1, NotBefore

LEMMA Counting ==
    ASSUME NEW N \in Nat, NEW S, 0 \in S, \A n \in 1..N : n - 1 \in S => n \in S
    PROVE  0..N \subseteq S
<1> SUFFICES ASSUME ~(0..N \subseteq S) PROVE FALSE
  OBVIOUS
<1>1. (0..N) \ S \in SUBSET Nat /\ (0..N) \ S # {}
  OBVIOUS
<1>2. PICK m \in (0..N) \ S : \A k \in (0..N) \ S : m <= k
  BY <1>1, LeastOf
<1>3. m \in 1..N /\ m - 1 \in 0..N /\ ~(m <= m - 1)
  BY <1>2
<1> QED
  BY <1>2, <1>3

\* A nonempty bounded set of numbers has a greatest one: the least of its bounds.
LEMMA MaxIsGreatest ==
    ASSUME NEW n \in Nat, NEW S \in SUBSET (0..n), S # {}
    PROVE  Max(S) \in S /\ \A x \in S : x <= Max(S)
<1> DEFINE above == {m \in Nat : \A x \in S : x <= m}
<1>1. n \in above
  OBVIOUS
<1>2. above \subseteq Nat /\ above # {}
  BY <1>1
<1>3. PICK m \in above : \A k \in above : m <= k
  <2> HIDE DEF above
  <2> QED
    BY <1>2, LeastOf
<1>4. m \in S
  <2> SUFFICES ASSUME m \notin S PROVE FALSE
    OBVIOUS
  <2>1. PICK y \in S : TRUE
    OBVIOUS
  <2>2. ASSUME NEW x \in S PROVE x \in Nat /\ x <= m - 1
    <3>1. x <= m /\ x \in 0..n /\ x # m
      BY <1>3, <2>2
    <3> QED
      BY <1>3, <3>1
  <2>3. m - 1 \in Nat
    BY <1>3, <2>1, <2>2
  <2>4. m - 1 \in above
    BY <2>2, <2>3
  <2> QED
    BY <1>3, <2>3, <2>4
<1>5. Max(S) \in S /\ \A y \in S : Max(S) >= y
  BY <1>3, <1>4 DEF Max
<1> QED
  BY <1>5

Iterates(N, X, base, step, f) ==
    f \in [0..N -> X] /\ f[0] = base /\ \A n \in 1..N : f[n] = step[n][f[n - 1]]

LEMMA Iterate ==
    ASSUME NEW N \in Nat, NEW X, NEW base \in X, NEW step, \A n \in 1..N : step[n] \in [X -> X]
    PROVE  \E f : Iterates(N, X, base, step, f)
<1> DEFINE Upto(k, f) == Iterates(k, X, base, step, f)
           S == {k \in 0..N : \E f : Upto(k, f)}
<1>1. 0 \in S
  <2>1. Upto(0, [n \in 0..0 |-> base])
    BY DEF Iterates
  <2> QED
    BY <2>1
<1>2. ASSUME NEW k \in 1..N, k - 1 \in S PROVE k \in S
  <2>1. PICK f : Upto(k - 1, f)
    BY <1>2
  <2> DEFINE g == [n \in 0..k |-> IF n = k THEN step[k][f[k - 1]] ELSE f[n]]
  <2>2. f[k - 1] \in X /\ step[k][f[k - 1]] \in X
    BY <2>1 DEF Iterates
  <2>3. g \in [0..k -> X]
    BY <2>1, <2>2 DEF Iterates
  <2>4. g[0] = base
    BY <2>1 DEF Iterates
  <2>5. ASSUME NEW n \in 1..k PROVE g[n] = step[n][g[n - 1]]
    <3>1. CASE n = k
      BY <3>1
    <3>2. CASE n # k
      BY <2>1, <3>2 DEF Iterates
    <3> QED
      BY <3>1, <3>2
  <2>6. Upto(k, g)
    BY <2>3, <2>4, <2>5 DEF Iterates
  <2> HIDE DEF g
  <2> QED
    BY <2>6
<1>3. N \in S
  <2>1. N \in 0..N
    OBVIOUS
  <2> HIDE DEF S
  <2> QED
    BY <1>1, <1>2, <2>1, Counting
<1> QED
  BY <1>3

-----------------------------------------------------------------------------
(* Sequences of entries *)

\* The elements from a set stand in increasing order.
RisingIn(s, set) ==
    \A j, k \in 1..Len(s) : j < k /\ s[j] \in set /\ s[k] \in set => s[j] < s[k]
Rising(s) == \A j, k \in 1..Len(s) : j < k => s[j] < s[k]

UpTo(s, set, f) ==
    f = [n \in 0..Len(s) |-> IF n = 0 THEN <<>> ELSE IF s[n] \in set THEN Append(f[n - 1], s[n]) ELSE f[n - 1]]

Grows(T, s, set, f) ==
    /\ Len(s) \in Nat /\ f \in [0..Len(s) -> Seq(T \cap set)] /\ f[0] = <<>>
    /\ \A n \in 1..Len(s) : f[n] = IF s[n] \in set THEN Append(f[n - 1], s[n]) ELSE f[n - 1]

LEMMA UpToTypes ==
    ASSUME NEW T, NEW s \in Seq(T), NEW set, NEW f, UpTo(s, set, f)
    PROVE  Grows(T, s, set, f)
<1>1. Len(s) \in Nat /\ \A n \in 1..Len(s) : s[n] \in T
  BY LenProperties, ElementOfSeq
<1>2. f[0] = <<>>
  BY <1>1 DEF UpTo
<1>3. ASSUME NEW n \in 1..Len(s)
      PROVE  f[n] = IF s[n] \in set THEN Append(f[n - 1], s[n]) ELSE f[n - 1]
  <2>1. n \in 0..Len(s) /\ n # 0
    BY <1>1
  <2> QED
    BY <2>1 DEF UpTo
<1> DEFINE S == {n \in 0..Len(s) : f[n] \in Seq(T \cap set)}
<1>4. 0 \in S
  <2>1. <<>> \in Seq(T \cap set)
    OBVIOUS
  <2>2. 0 \in 0..Len(s)
    BY <1>1
  <2> QED
    BY <1>2, <2>1, <2>2
<1>5. ASSUME NEW n \in 1..Len(s), n - 1 \in S PROVE n \in S
  <2>1. f[n - 1] \in Seq(T \cap set) /\ n \in 0..Len(s)
    BY <1>5
  <2>2. CASE s[n] \in set
    <3>1. s[n] \in T \cap set
      BY <1>1, <2>2
    <3>2. Append(f[n - 1], s[n]) \in Seq(T \cap set)
      BY <2>1, <3>1, AppendProperties
    <3> QED
      BY <1>3, <2>1, <2>2, <3>2
  <2>3. CASE s[n] \notin set
    BY <1>3, <2>1, <2>3
  <2> QED
    BY <2>2, <2>3
<1>6. 0..Len(s) \subseteq S
  <2> HIDE DEF S
  <2> QED
    BY <1>1, <1>4, <1>5, Counting
<1>7. f = [n \in 0..Len(s) |-> f[n]]
  BY DEF UpTo
<1>8. f \in [0..Len(s) -> Seq(T \cap set)]
  BY <1>6, <1>7
<1> QED
  BY <1>1, <1>2, <1>3, <1>8 DEF Grows

LEMMA ChosenIs ==
    ASSUME NEW T, NEW s \in Seq(T), NEW set
    PROVE  \E f : UpTo(s, set, f) /\ Chosen(s, set) = f[Len(s)]
<1> DEFINE N == Len(s)
           X == Seq(T \cap set)
           base == <<>>
           step == [n \in 1..N |-> [x \in X |-> IF s[n] \in set THEN Append(x, s[n]) ELSE x]]
<1>1. N \in Nat /\ base \in X /\ \A n \in 1..N : s[n] \in T
  BY LenProperties, ElementOfSeq
<1>2. \A n \in 1..N : step[n] \in [X -> X]
  BY <1>1, AppendProperties
<1>3. PICK f : Iterates(N, X, base, step, f)
  <2>1. N \in Nat /\ base \in X
    BY <1>1
  <2> HIDE DEF N, X, base, step
  <2> QED
    BY <1>2, <2>1, Iterate
<1>4. UpTo(s, set, f)
  <2>1. ASSUME NEW n \in 1..N, NEW x \in X
        PROVE  step[n][x] = IF s[n] \in set THEN Append(x, s[n]) ELSE x
    OBVIOUS
  <2> HIDE DEF step, X
  <2>2. N = Len(s)
    OBVIOUS
  <2> HIDE DEF N
  <2>3. f = [n \in 0..N |-> f[n]]
    BY <1>3 DEF Iterates
  <2>4. f[0] = <<>>
    BY <1>3 DEF Iterates
  <2>5. ASSUME NEW n \in 1..N
        PROVE  f[n] = IF s[n] \in set THEN Append(f[n - 1], s[n]) ELSE f[n - 1]
    <3>1. n \in 0..N /\ n # 0 /\ n - 1 \in 0..N
      BY <1>1
    <3>2. f[n - 1] \in X
      BY <1>3, <3>1 DEF Iterates
    <3>3. f[n] = step[n][f[n - 1]]
      BY <1>3, <3>1 DEF Iterates
    <3> QED
      BY <2>1, <3>2, <3>3
  <2>6. \A n \in 0..N : n # 0 => n \in 1..N
    BY <1>1
  <2>7. \A n \in 0..N : f[n] = IF n = 0 THEN <<>>
                        ELSE IF s[n] \in set THEN Append(f[n - 1], s[n]) ELSE f[n - 1]
    BY <2>4, <2>5, <2>6
  <2> QED
    BY <2>2, <2>3, <2>7 DEF UpTo
<1> DEFINE upTo[n \in 0..Len(s)] ==
              IF n = 0 THEN <<>> ELSE IF s[n] \in set THEN Append(upTo[n - 1], s[n]) ELSE upTo[n - 1]
<1>5. upTo = CHOOSE g : UpTo(s, set, g)
  BY DEF upTo, UpTo
<1>6. UpTo(s, set, upTo)
  <2> HIDE DEF upTo
  <2> QED
    BY <1>4, <1>5
<1>7. Chosen(s, set) = upTo[Len(s)]
  BY DEF Chosen
<1> HIDE DEF upTo
<1> QED
  BY <1>6, <1>7

LEMMA RangeIs ==
    ASSUME NEW T, NEW s \in Seq(T)
    PROVE  /\ Range(s) \subseteq T
           /\ \A x : x \in Range(s) <=> \E j \in 1..Len(s) : s[j] = x
<1>1. Range(s) = {s[j] : j \in 1..Len(s)}
  BY RangeEquality
<1> QED
  BY <1>1, ElementOfSeq

LEMMA EmptyIs == Range(<<>>) = {} /\ Rising(<<>>) /\ \A set : RisingIn(<<>>, set)
<1> DEFINE none == <<>>
<1>1. none \in Seq(Nat) /\ Len(none) = 0
  OBVIOUS
<1> HIDE DEF none
<1>2. Range(none) = {none[j] : j \in 1..Len(none)}
  BY <1>1, RangeEquality
<1>3. Range(none) = {} /\ Rising(none) /\ \A set : RisingIn(none, set)
  BY <1>1, <1>2 DEF Rising, RisingIn
<1> QED
  BY <1>3 DEF none

LEMMA RangeAppended ==
    ASSUME NEW T, NEW s \in Seq(T), NEW e \in T
    PROVE  /\ Append(s, e) \in Seq(T) /\ Range(Append(s, e)) = Range(s) \cup {e}
<1>1. /\ Append(s, e) \in Seq(T) /\ Len(Append(s, e)) = Len(s) + 1 /\ Len(s) \in Nat
      /\ \A j \in 1..Len(s) : Append(s, e)[j] = s[j]
      /\ Append(s, e)[Len(s) + 1] = e
  BY AppendProperties, LenProperties
<1>2. \A x : x \in Range(s) <=> \E j \in 1..Len(s) : s[j] = x
  BY RangeIs
<1>3. \A x : x \in Range(Append(s, e)) <=> \E j \in 1..Len(s) + 1 : Append(s, e)[j] = x
  <2> DEFINE new == Append(s, e)
  <2>1. new \in Seq(T) /\ Len(new) = Len(s) + 1
    BY <1>1
  <2> HIDE DEF new
  <2>2. \A x : x \in Range(new) <=> \E j \in 1..Len(s) + 1 : new[j] = x
    BY <2>1, RangeIs
  <2> QED
    BY <2>2 DEF new
<1>4. /\ \A j \in 1..Len(s) + 1 : j \in 1..Len(s) \/ j = Len(s) + 1
      /\ \A j \in 1..Len(s) : j \in 1..Len(s) + 1
      /\ Len(s) + 1 \in 1..Len(s) + 1
  BY <1>1
<1>5. ASSUME NEW x PROVE x \in Range(Append(s, e)) <=> x \in Range(s) \/ x = e
  <2>1. ASSUME NEW j \in 1..Len(s) + 1, Append(s, e)[j] = x PROVE x \in Range(s) \/ x = e
    BY <1>1, <1>2, <1>4, <2>1
  <2>2. ASSUME NEW j \in 1..Len(s), s[j] = x PROVE x \in Range(Append(s, e))
    BY <1>1, <1>3, <1>4, <2>2
  <2>3. e \in Range(Append(s, e))
    BY <1>1, <1>3, <1>4
  <2> QED
    BY <1>2, <1>3, <2>1, <2>2, <2>3
<1> QED
  BY <1>1, <1>5

LEMMA RisingAppended ==
    ASSUME NEW T \in SUBSET Int, NEW s \in Seq(T), NEW e \in T, Rising(s), \A x \in Range(s) : x < e
    PROVE  Rising(Append(s, e))
<1>1. /\ Len(Append(s, e)) = Len(s) + 1 /\ Len(s) \in Nat
      /\ \A j \in 1..Len(s) : Append(s, e)[j] = s[j] /\ s[j] < e
      /\ Append(s, e)[Len(s) + 1] = e
  BY AppendProperties, LenProperties, RangeIs
<1> QED
  BY <1>1 DEF Rising

LEMMA ChosenKeeps ==
    ASSUME NEW T \in SUBSET Int, NEW s \in Seq(T), NEW set
    PROVE  /\ Chosen(s, set) \in Seq(T \cap set)
           /\ Range(Chosen(s, set)) = Range(s) \cap set
           /\ RisingIn(s, set) => Rising(Chosen(s, set))
<1>1. PICK f : UpTo(s, set, f) /\ Chosen(s, set) = f[Len(s)]
  BY ChosenIs
<1>2. /\ Len(s) \in Nat /\ f \in [0..Len(s) -> Seq(T \cap set)] /\ f[0] = <<>>
      /\ \A n \in 1..Len(s) : f[n] = IF s[n] \in set THEN Append(f[n - 1], s[n]) ELSE f[n - 1]
  <2>1. Grows(T, s, set, f)
    BY <1>1, UpToTypes
  <2> QED
    BY <2>1 DEF Grows
<1>3. \A j \in 1..Len(s) : s[j] \in T
  BY ElementOfSeq
<1> DEFINE P(n) == /\ \A x : x \in Range(f[n]) <=> x \in set /\ \E j \in 1..n : s[j] = x
                   /\ RisingIn(s, set) => Rising(f[n])
           S == {n \in 0..Len(s) : P(n)}
<1>4. 0 \in S
  <2>1. <<>> \in Seq(T \cap set) /\ Len(<<>>) = 0
    OBVIOUS
  <2>2. P(0)
    BY <1>2, <2>1, RangeIs DEF Rising
  <2> QED
    BY <1>2, <2>2
<1>5. ASSUME NEW n \in 1..Len(s), n - 1 \in S PROVE n \in S
  <2>1. P(n - 1) /\ n - 1 \in 0..Len(s) /\ n \in 0..Len(s)
    BY <1>2, <1>5
  <2>2. f[n - 1] \in Seq(T \cap set)
    BY <1>2, <2>1
  <2>3. CASE s[n] \notin set
    <3>1. f[n] = f[n - 1]
      BY <1>2, <2>3
    <3>2. \A j \in 1..n : j \in 1..n - 1 \/ j = n
      OBVIOUS
    <3>3. P(n)
      BY <2>1, <2>3, <3>1, <3>2
    <3> QED
      BY <2>1, <3>3
  <2>4. CASE s[n] \in set
    <3>1. f[n] = Append(f[n - 1], s[n]) /\ s[n] \in T \cap set
      BY <1>2, <1>3, <2>4
    <3>2. Range(f[n]) = Range(f[n - 1]) \cup {s[n]}
      BY <2>2, <3>1, RangeAppended
    <3>3. \A j \in 1..n : j \in 1..n - 1 \/ j = n
      OBVIOUS
    <3>4. ASSUME RisingIn(s, set) PROVE Rising(f[n])
      <4>1. ASSUME NEW x \in Range(f[n - 1]) PROVE x < s[n]
        <5>1. PICK j \in 1..n - 1 : s[j] = x /\ x \in set
          BY <2>1, <4>1
        <5>2. j \in 1..Len(s) /\ n \in 1..Len(s) /\ j < n
          BY <1>2
        <5> QED
          BY <2>4, <3>4, <5>1, <5>2 DEF RisingIn
      <4>2. T \cap set \in SUBSET Int /\ Rising(f[n - 1])
        BY <2>1, <3>4
      <4> QED
        BY <2>2, <3>1, <4>1, <4>2, RisingAppended
    <3>5. P(n)
      BY <2>1, <2>4, <3>2, <3>3, <3>4
    <3> QED
      BY <2>1, <3>5
  <2> QED
    BY <2>3, <2>4
<1>6. Len(s) \in S
  <2>1. Len(s) \in 0..Len(s)
    BY <1>2
  <2> HIDE DEF S
  <2> QED
    BY <1>2, <1>4, <1>5, <2>1, Counting
<1>7. P(Len(s))
  BY <1>6
<1>8. Chosen(s, set) \in Seq(T \cap set)
  BY <1>1, <1>2
<1>9. \A x : x \in Range(Chosen(s, set)) <=> x \in Range(s) \cap set
  BY <1>1, <1>7, RangeIs
<1> QED
  BY <1>1, <1>7, <1>8, <1>9

LEMMA RisingConcat ==
    ASSUME NEW T \in SUBSET Int, NEW s \in Seq(T), NEW t \in Seq(T), Rising(s), Rising(t),
           \A x \in Range(s), y \in Range(t) : x < y
    PROVE  Rising(s \o t)
<1>1. /\ Len(s \o t) = Len(s) + Len(t) /\ Len(s) \in Nat /\ Len(t) \in Nat
      /\ \A i \in 1..Len(s) + Len(t) : (s \o t)[i] = IF i <= Len(s) THEN s[i] ELSE t[i - Len(s)]
  BY ConcatProperties, LenProperties
<1>2. \A i \in 1..Len(s), j \in 1..Len(t) : s[i] < t[j]
  BY RangeIs
<1> SUFFICES ASSUME NEW j \in 1..Len(s) + Len(t), NEW k \in 1..Len(s) + Len(t), j < k
             PROVE  (s \o t)[j] < (s \o t)[k]
  BY <1>1 DEF Rising
<1>3. CASE k <= Len(s)
  BY <1>1, <1>3 DEF Rising
<1>4. CASE j <= Len(s) /\ k > Len(s)
  <2>1. j \in 1..Len(s) /\ k - Len(s) \in 1..Len(t)
    BY <1>1, <1>4
  <2> QED
    BY <1>1, <1>2, <1>4, <2>1
<1>5. CASE j > Len(s)
  <2>1. j - Len(s) \in 1..Len(t) /\ k - Len(s) \in 1..Len(t) /\ j - Len(s) < k - Len(s) /\ k > Len(s)
    BY <1>1, <1>5
  <2> QED
    BY <1>1, <1>5, <2>1 DEF Rising
<1> QED
  BY <1>1, <1>3, <1>4, <1>5

LEMMA NewestKeeps ==
    ASSUME NEW T \in SUBSET Int, NEW s \in Seq(T), NEW n \in Nat
    PROVE  /\ Newest(s, n) \in Seq(T) /\ Range(Newest(s, n)) \subseteq Range(s)
           /\ Rising(s) => Rising(Newest(s, n))
<1>1. Len(s) \in Nat /\ \A j \in 1..Len(s) : s[j] \in T
  BY LenProperties, ElementOfSeq
<1>2. CASE Len(s) <= n
  BY <1>2 DEF Newest
<1>3. CASE Len(s) > n
  <2> DEFINE m == Len(s) - n + 1
             new == SubSeq(s, m, Len(s))
  <2>1. m \in 1..Len(s) + 1 /\ Len(s) - m + 1 = n /\ Newest(s, n) = new
    BY <1>1, <1>3 DEF Newest
  <2>2. /\ new \in Seq(T) /\ Len(new) = n
        /\ \A i \in 1..n : new[i] = s[m + i - 1]
    <3>1. m \in Int /\ Len(s) \in Int /\ \A j \in m..Len(s) : s[j] \in T
      BY <1>1, <2>1
    <3>2. /\ new \in Seq(T) /\ Len(new) = (IF m <= Len(s) THEN Len(s) - m + 1 ELSE 0)
          /\ \A i \in 1..Len(s) - m + 1 : new[i] = s[m + i - 1]
      <4> HIDE DEF m
      <4> QED
        BY <3>1, SubSeqProperties
    <3> QED
      BY <1>1, <2>1, <3>2
  <2>3. \A i \in 1..n : m + i - 1 \in 1..Len(s)
    BY <1>1, <2>1
  <2> HIDE DEF m, new
  <2>4. Range(new) \subseteq Range(s)
    BY <2>2, <2>3, RangeIs
  <2>5. ASSUME Rising(s) PROVE Rising(new)
    <3> SUFFICES ASSUME NEW i \in 1..n, NEW j \in 1..n, i < j PROVE new[i] < new[j]
      BY <2>2 DEF Rising
    <3>1. m + i - 1 \in 1..Len(s) /\ m + j - 1 \in 1..Len(s) /\ m + i - 1 < m + j - 1
      BY <2>1, <2>3
    <3> QED
      BY <2>2, <2>5, <3>1 DEF Rising
  <2> QED
    BY <2>1, <2>2, <2>4, <2>5
<1> QED
  BY <1>1, <1>2, <1>3

\* A set of numbers is listed in increasing order in one way only.
LEMMA OneRising ==
    ASSUME NEW T \in SUBSET Int, NEW s \in Seq(T), NEW t \in Seq(T),
           Rising(s), Rising(t), Range(s) = Range(t)
    PROVE  s = t
<1> DEFINE Same(n) == n \in 1..Len(s) /\ n \in 1..Len(t) /\ s[n] = t[n]
           odd == {n \in Nat : n > 0 /\ (n <= Len(s) \/ n <= Len(t)) /\ ~Same(n)}
<1>1. /\ Len(s) \in Nat /\ \A j \in 1..Len(s) : s[j] \in Int
      /\ Len(t) \in Nat /\ \A j \in 1..Len(t) : t[j] \in Int
  BY LenProperties, ElementOfSeq
<1>2. /\ \A j \in 1..Len(s) : \E k \in 1..Len(t) : t[k] = s[j]
      /\ \A j \in 1..Len(t) : \E k \in 1..Len(s) : s[k] = t[j]
  BY RangeIs
<1>3. odd = {}
  <2> SUFFICES ASSUME odd # {} PROVE FALSE
    OBVIOUS
  <2>1. PICK m \in odd : \A k \in odd : m <= k
    <3>1. odd \in SUBSET Nat
      OBVIOUS
    <3> HIDE DEF odd
    <3> QED
      BY <3>1, LeastOf
  <2>2. m \in Nat /\ m > 0 /\ (m <= Len(s) \/ m <= Len(t)) /\ ~Same(m)
    BY <2>1
  <2>3. ASSUME NEW k \in 1..m - 1, k <= Len(s) \/ k <= Len(t) PROVE Same(k)
    <3>1. k \notin odd /\ k \in Nat /\ k > 0
      BY <2>1, <2>2
    <3> QED
      BY <2>3, <3>1
  <2>4. ASSUME m <= Len(s) PROVE m <= Len(t) /\ t[m] <= s[m]
    <3>1. m \in 1..Len(s)
      BY <1>1, <2>2, <2>4
    <3>2. PICK k \in 1..Len(t) : t[k] = s[m]
      BY <1>2, <3>1
    <3>3. ~(k < m)
      <4> SUFFICES ASSUME k < m PROVE FALSE
        OBVIOUS
      <4>1. Same(k) /\ k \in 1..Len(s)
        BY <2>2, <2>3, <1>1
      <4> QED
        BY <1>1, <3>1, <3>2, <4>1 DEF Rising
    <3>4. m \in 1..Len(t) /\ (m = k \/ m < k)
      BY <1>1, <2>2, <3>3
    <3> QED
      BY <1>1, <3>2, <3>4 DEF Rising
  <2>5. ASSUME m <= Len(t) PROVE m <= Len(s) /\ s[m] <= t[m]
    <3>1. m \in 1..Len(t)
      BY <1>1, <2>2, <2>5
    <3>2. PICK k \in 1..Len(s) : s[k] = t[m]
      BY <1>2, <3>1
    <3>3. ~(k < m)
      <4> SUFFICES ASSUME k < m PROVE FALSE
        OBVIOUS
      <4>1. Same(k) /\ k \in 1..Len(t)
        BY <2>2, <2>3, <1>1
      <4>2. t[k] < t[m] /\ t[k] \in Int /\ t[m] \in Int
        BY <1>1, <3>1, <4>1 DEF Rising
      <4> QED
        BY <3>2, <4>1, <4>2
    <3>4. m \in 1..Len(s) /\ (m = k \/ m < k)
      BY <1>1, <2>2, <3>3
    <3> QED
      BY <1>1, <3>2, <3>4 DEF Rising
  <2> QED
    BY <1>1, <2>2, <2>4, <2>5
<1>4. \A n \in Nat : n > 0 /\ (n <= Len(s) \/ n <= Len(t)) => Same(n)
  BY <1>3
<1>5. Len(s) = Len(t)
  BY <1>1, <1>4
<1>6. \A j \in 1..Len(s) : s[j] = t[j]
  BY <1>1, <1>4
<1> QED
  BY <1>5, <1>6, SeqEqual

-----------------------------------------------------------------------------
(* The invariant *)

Line == Entry \cup {Torn, Junk}
Held(i) == Range(Lines(i)) \cap Entry
Stored == UNION {Held(k) : k \in Name}

ProcType == [op : {"none", "append", "cleanup", "prune", "clear", "list"},
             pc : {"idle", "read", "decide", "remove", "rewrite", "size", "oldest", "shift", "open", "write"},
             todo : SUBSET Name, copy : Seq(Entry), seg : Name]

\* What a process is at fits its operation, and it has what the step needs.
Fits(r) ==
    /\ r.pc = "idle" <=> r.op = "none"
    /\ r.pc \in {"size", "oldest", "shift", "open", "write"} => r.op = "append"
    /\ r.pc \in {"remove", "rewrite"} => r.op \notin {"none", "list"}
    /\ r.pc \in {"read", "remove"} => r.todo # {}
    /\ r.pc \in {"decide", "rewrite"} => r.todo = {}
    /\ r.pc = "oldest" => r.seg > 0
    /\ r.pc = "shift" => r.seg + 1 \in Name

FileTypes ==
    /\ DOMAIN files \subseteq Name /\ files = [i \in DOMAIN files |-> files[i]]
    /\ \A i \in DOMAIN files :
          /\ files[i] \in Seq(Line)
          /\ \A k \in 1..Len(files[i]) - 1 : files[i][k] # Torn
    /\ fd = [p \in Proc |-> fd[p]] /\ \A p \in Proc : fd[p] \in DOMAIN files \cup {Gone}

ProcTypes == proc \in [Proc -> ProcType] /\ \A p \in Proc : Fits(proc[p])

OtherTypes ==
    /\ legacy \in BOOLEAN /\ tainted \in BOOLEAN /\ mixed \subseteq Proc
    /\ expected \in Seq(Entry) /\ last \in Nat /\ last + Cardinality(Appending) <= MaxEntries

\* Nothing is newer than the latest entry.
Known(entries) == \A e \in entries : e <= last
HistoryKnown == Rising(expected) /\ Known(Range(expected))
LogKnown == Known(Stored)
CopiesKnown == \A p \in Proc : Known(Range(proc[p].copy))

\* The files are in order, from the oldest segment to the live file.
FilesOrdered ==
    /\ \A k \in Name : RisingIn(Lines(k), Entry)
    /\ \A j, k \in Name : j < k => \A e \in Held(k), f \in Held(j) : e < f

\* What was read is in order and older than what is still to be read.
InOrder(p) ==
    proc[p].pc \in {"read", "decide"} /\ (p \in mixed => proc[p].op # "list") =>
        /\ Rising(proc[p].copy)
        /\ \A k \in Name, t \in proc[p].todo : k <= t =>
              \A e \in Range(proc[p].copy), f \in Held(k) : e < f

\* What a rewrite reads, and then holds, is the whole log.
Complete(p) ==
    proc[p].pc \in {"read", "decide"} /\ proc[p].op # "list" =>
        Stored = Range(proc[p].copy) \cup UNION {Held(k) : k \in proc[p].todo}

Taken(p) ==
    proc[p].pc \in {"remove", "rewrite"} =>
        /\ Rising(proc[p].copy) /\ Range(expected) = Range(proc[p].copy)
        /\ \A k \in Name \ proc[p].todo : Lines(k) = <<>>

\* A rotation moves each file to a free name.
Hole(p) == proc[p].pc = "shift" => Lines(proc[p].seg + 1) = <<>>

Opened(p) == proc[p].pc = "write" => fd[p] = 0

\* The processes that have looked at the size and will write.
Writers == {p \in Proc : proc[p].pc \in {"open", "write"}}
Budget == Writers # {} => Len(Lines(0)) + Cardinality(Writers) <= MaxLines + Cardinality(Proc) - 1

Safe ==
    /\ ~Conflict /\ FilesOrdered /\ Budget
    /\ \A p \in Proc : InOrder(p) /\ Complete(p) /\ Taken(p) /\ Hole(p) /\ Opened(p)
    /\ ~Rewriting => Range(expected) = Stored

Types == FileTypes /\ ProcTypes /\ OtherTypes /\ HistoryKnown /\ LogKnown /\ CopiesKnown

Inv == Types /\ (~tainted => Safe)

-----------------------------------------------------------------------------
(* Names and files *)

LEMMA FiniteIsBounded ==
    ASSUME NEW S \in SUBSET Nat, IsFiniteSet(S)
    PROVE  \E n \in Nat : \A c \in S : c <= n
<1>1. Cardinality(S) \in Nat /\ ExistsBijection(1..Cardinality(S), S)
  BY FS_CardinalityType
<1>2. PICK f : f \in [1..Cardinality(S) -> S] /\ \A c \in S : \E j \in 1..Cardinality(S) : f[j] = c
  BY <1>1 DEF ExistsBijection, Bijection, Surjection, Injection
<1> DEFINE Bound(k) == \E n \in Nat : \A j \in 1..k : f[j] <= n
           Ks == {k \in 0..Cardinality(S) : Bound(k)}
<1>3. 0 \in Ks
  BY <1>1
<1>4. ASSUME NEW k \in 1..Cardinality(S), k - 1 \in Ks PROVE k \in Ks
  <2>1. PICK n \in Nat : \A j \in 1..k - 1 : f[j] <= n
    BY <1>4
  <2>2. f[k] \in Nat
    BY <1>2
  <2>3. PICK m \in Nat : n <= m /\ f[k] <= m
    BY <2>2
  <2>4. ASSUME NEW j \in 1..k PROVE f[j] <= m
    <3>1. j = k \/ j \in 1..k - 1
      OBVIOUS
    <3>2. j \in 1..Cardinality(S)
      BY <1>1, <1>4
    <3>3. f[j] \in Nat
      BY <1>2, <3>2
    <3> QED
      BY <2>1, <2>3, <3>1, <3>3
  <2>5. Bound(k)
    BY <2>3, <2>4
  <2>6. k \in 0..Cardinality(S)
    BY <1>1
  <2> HIDE DEF Bound
  <2> QED
    BY <2>5, <2>6
<1>5. Cardinality(S) \in Ks
  <2>1. Cardinality(S) \in 0..Cardinality(S)
    BY <1>1
  <2> HIDE DEF Ks
  <2> QED
    BY <1>1, <1>3, <1>4, <2>1, Counting
<1>6. PICK n \in Nat : \A j \in 1..Cardinality(S) : f[j] <= n
  BY <1>5
<1> QED
  BY <1>2, <1>6

LEMMA NamesAre ==
    /\ Max(Counts) \in Counts /\ Max(Counts) \in Nat \ {0}
    /\ \A c \in Counts : c \in Name /\ c > 0
    /\ 0 \in Name /\ Name \subseteq Nat /\ {MaxLines, MaxEntries} \subseteq Nat \ {0} /\ IsFiniteSet(Proc)
<1>1. Counts \in SUBSET Nat /\ IsFiniteSet(Counts) /\ Counts # {} /\ \A c \in Counts : c \in Nat /\ c > 0
  BY LogAssumption
<1>2. PICK n \in Nat : \A c \in Counts : c <= n
  BY <1>1, FiniteIsBounded
<1>3. Counts \in SUBSET (0..n)
  BY <1>1, <1>2
<1>4. Max(Counts) \in Counts /\ \A c \in Counts : c <= Max(Counts)
  BY <1>1, <1>3, MaxIsGreatest
<1> QED
  BY <1>1, <1>4, LogAssumption DEF Name

LEMMA LastToRead ==
    ASSUME NEW S \in SUBSET Name, S # {}
    PROVE  Max(S) \in S /\ \A k \in S : k <= Max(S)
BY NamesAre, MaxIsGreatest DEF Name

\* What is known of the lines of a file.
LineTypes(lines) ==
    /\ lines \in Seq(Line) /\ Len(lines) \in Nat
    /\ \A k \in 1..Len(lines) - 1 : lines[k] # Torn

LEMMA LinesAre ==
    ASSUME FileTypes, NEW k
    PROVE  LineTypes(Lines(k)) /\ (k \in DOMAIN files => Lines(k) = files[k]) /\ (k \notin DOMAIN files => Lines(k) = <<>>)
<1>1. CASE k \in DOMAIN files
  BY <1>1, LenProperties DEF FileTypes, Lines, LineTypes
<1>2. CASE k \notin DOMAIN files
  BY <1>2 DEF Lines, LineTypes
<1> QED
  BY <1>1, <1>2

LEMMA RemoveFileDoes ==
    ASSUME FileTypes, NEW i \in Name, RemoveFile(i)
    PROVE  /\ FileTypes'
           /\ \A k \in Name : Lines(k)' = IF k = i THEN <<>> ELSE Lines(k)
           /\ \A q \in Proc : fd'[q] = IF fd[q] = i THEN Gone ELSE fd[q]
<1>1. /\ files' = [k \in DOMAIN files \ {i} |-> files[k]]
      /\ fd' = [q \in Proc |-> IF fd[q] = i THEN Gone ELSE fd[q]]
  BY DEF RemoveFile
<1>2. DOMAIN files' = DOMAIN files \ {i} /\ \A k \in DOMAIN files' : files'[k] = files[k]
  BY <1>1
<1>3. \A q \in Proc : fd'[q] = IF fd[q] = i THEN Gone ELSE fd[q]
  BY <1>1
<1>4. FileTypes'
  BY <1>1, <1>2, <1>3 DEF FileTypes
<1>5. \A k \in Name : Lines(k)' = IF k = i THEN <<>> ELSE Lines(k)
  BY <1>2 DEF Lines
<1> QED
  BY <1>3, <1>4, <1>5

\* The lines of a file go to the next one, if there is such a file.
Moved(i) ==
    /\ IF i \in DOMAIN files
       THEN \A k \in Name : Lines(k)' = IF k = i + 1 THEN Lines(i) ELSE IF k = i THEN <<>> ELSE Lines(k)
       ELSE \A k \in Name : Lines(k)' = Lines(k)
    /\ Lines(i)' = <<>>

LEMMA RenameFileDoes ==
    ASSUME FileTypes, NEW i \in Name, NEW j \in Name, j = i + 1, RenameFile(i, j)
    PROVE  FileTypes' /\ Moved(i)
<1>0. i \in Nat /\ i # i + 1 /\ RenameFile(i, i + 1) /\ i + 1 \in Name
  BY NamesAre
<1>1. CASE i \in DOMAIN files
  <2>1. /\ files' = [k \in (DOMAIN files \ {i}) \cup {i + 1} |-> IF k = i + 1 THEN files[i] ELSE files[k]]
        /\ fd' = [q \in Proc |-> IF fd[q] = i + 1 THEN Gone ELSE IF fd[q] = i THEN i + 1 ELSE fd[q]]
    BY <1>0, <1>1 DEF RenameFile
  <2>2. /\ DOMAIN files' = (DOMAIN files \ {i}) \cup {i + 1}
        /\ \A k \in DOMAIN files' : files'[k] = IF k = i + 1 THEN files[i] ELSE files[k]
    BY <2>1
  <2>3. \A q \in Proc : fd'[q] = IF fd[q] = i + 1 THEN Gone ELSE IF fd[q] = i THEN i + 1 ELSE fd[q]
    BY <2>1
  <2>4. FileTypes'
    BY <1>0, <1>1, <2>1, <2>2, <2>3 DEF FileTypes
  <2>5. \A k \in Name : Lines(k)' = IF k = i + 1 THEN Lines(i) ELSE IF k = i THEN <<>> ELSE Lines(k)
    BY <1>0, <1>1, <2>2 DEF Lines
  <2> QED
    BY <1>0, <1>1, <2>4, <2>5 DEF Moved
<1>2. CASE i \notin DOMAIN files
  BY <1>2 DEF RenameFile, FileTypes, Lines, Moved
<1> QED
  BY <1>1, <1>2

LEMMA FileWithDoes ==
    ASSUME FileTypes, NEW lines, LineTypes(lines), files' = FileWith(0, lines),
           fd' = [q \in Proc |-> fd'[q]], \A q \in Proc : fd'[q] \in {0, Gone, fd[q]}
    PROVE  /\ FileTypes'
           /\ \A k \in Name : Lines(k)' = IF k = 0 THEN lines ELSE Lines(k)
<1>1. /\ DOMAIN files' = DOMAIN files \cup {0}
      /\ \A k \in DOMAIN files' : files'[k] = IF k = 0 THEN lines ELSE files[k]
      /\ files' = [k \in DOMAIN files' |-> files'[k]]
  BY DEF FileWith
<1>2. FileTypes'
  BY <1>1, NamesAre DEF FileTypes, LineTypes
<1>3. \A k \in Name : Lines(k)' = IF k = 0 THEN lines ELSE Lines(k)
  BY <1>1 DEF Lines
<1> QED
  BY <1>2, <1>3

LEMMA LastOf ==
    ASSUME NEW T, NEW s \in Seq(T), s # <<>>
    PROVE  /\ Len(s) \in Nat \ {0} /\ Last(s) = s[Len(s)] /\ s[Len(s)] \in T
           /\ Front(s) \in Seq(T) /\ Len(Front(s)) = Len(s) - 1
           /\ \A k \in 1..Len(s) - 1 : Front(s)[k] = s[k]
<1>1. Len(s) \in Nat \ {0} /\ \A k \in 1..Len(s) : s[k] \in T
  BY EmptySeq, LenProperties, ElementOfSeq
<1> DEFINE n == Len(s) - 1
<1>2. \A k \in 1..n : s[k] \in T
  BY <1>1
<1>3. /\ SubSeq(s, 1, n) \in Seq(T) /\ Len(SubSeq(s, 1, n)) = IF 1 <= n THEN n - 1 + 1 ELSE 0
      /\ \A k \in 1..n - 1 + 1 : SubSeq(s, 1, n)[k] = s[1 + k - 1]
  <2>1. n \in Int
    BY <1>1
  <2> HIDE DEF n
  <2> QED
    BY <1>2, <2>1, SubSeqProperties
<1>4. n - 1 + 1 = n /\ \A k \in 1..n : 1 + k - 1 = k
  BY <1>1
<1>5. Last(s) = s[Len(s)] /\ Front(s) = SubSeq(s, 1, n)
  BY DEF Last, Front
<1> QED
  BY <1>1, <1>3, <1>4, <1>5

\* A line that is an entry is newer than the others.
Follows(line, entries) == line \in Entry => \A e \in entries : e < line

\* What a write does to the lines of a file.
ExtendsTo(lines, line, new) ==
    /\ LineTypes(new) /\ Len(new) <= Len(lines) + 1
    /\ \A e \in Entry : e \in Range(new) <=> e \in Range(lines) \/ (~EndsTorn(lines) /\ e = line)
    /\ RisingIn(lines, Entry) /\ Follows(line, Range(lines) \cap Entry) => RisingIn(new, Entry)

LEMMA ExtendedIs ==
    ASSUME NEW lines, LineTypes(lines), NEW line \in Entry \cup {Torn}
    PROVE  ExtendsTo(lines, line, Extended(lines, line))
<1> DEFINE new == Extended(lines, line)
<1> HIDE DEF new
<1>1. /\ lines \in Seq(Line) /\ Len(lines) \in Nat /\ \A k \in 1..Len(lines) - 1 : lines[k] # Torn
      /\ \A k \in 1..Len(lines) : lines[k] \in Line
      /\ Torn \in Line /\ Junk \in Line /\ Junk # Torn /\ line \in Line /\ Torn \notin Entry /\ Junk \notin Entry
  BY ElementOfSeq DEF LineTypes, Line, Torn, Junk, Entry
<1>2. \A x : x \in Range(lines) <=> \E j \in 1..Len(lines) : lines[j] = x
  BY <1>1, RangeIs
<1>3. ASSUME ~EndsTorn(lines) PROVE ExtendsTo(lines, line, new)
  <2>1. new = Append(lines, line)
    BY <1>3 DEF Extended, new
  <2>2. /\ new \in Seq(Line) /\ Len(new) = Len(lines) + 1 /\ new[Len(lines) + 1] = line
        /\ \A k \in 1..Len(lines) : new[k] = lines[k]
    BY <1>1, <2>1, AppendProperties
  <2>3. Range(new) = Range(lines) \cup {line}
    BY <1>1, <2>1, RangeAppended
  <2>4. Len(lines) > 0 => lines[Len(lines)] # Torn
    BY <1>1, <1>3, LastOf, EmptySeq DEF EndsTorn
  <2>5. \A k \in 1..Len(lines) : lines[k] # Torn
    BY <1>1, <2>4
  <2>6. LineTypes(new) /\ Len(new) <= Len(lines) + 1
    BY <1>1, <2>2, <2>5 DEF LineTypes
  <2>7. ASSUME RisingIn(lines, Entry), Follows(line, Range(lines) \cap Entry)
        PROVE  RisingIn(new, Entry)
    <3> SUFFICES ASSUME NEW j \in 1..Len(lines) + 1, NEW k \in 1..Len(lines) + 1, j < k,
                        new[j] \in Entry, new[k] \in Entry
                 PROVE  new[j] < new[k]
      BY <2>2 DEF RisingIn
    <3>1. j \in 1..Len(lines) /\ new[j] = lines[j] /\ lines[j] \in Range(lines)
      BY <1>1, <1>2, <2>2
    <3>2. CASE k = Len(lines) + 1
      BY <2>2, <2>7, <3>1, <3>2 DEF Follows
    <3>3. CASE k # Len(lines) + 1
      <4>1. k \in 1..Len(lines) /\ new[k] = lines[k]
        BY <1>1, <2>2, <3>3
      <4> QED
        BY <2>7, <3>1, <4>1 DEF RisingIn
    <3> QED
      BY <3>2, <3>3
  <2> QED
    BY <1>3, <2>3, <2>6, <2>7 DEF ExtendsTo
<1>4. ASSUME EndsTorn(lines), line = Torn PROVE ExtendsTo(lines, line, new)
  BY <1>1, <1>4 DEF Extended, LineTypes, ExtendsTo, new
<1>5. ASSUME EndsTorn(lines), line # Torn PROVE ExtendsTo(lines, line, new)
  <2> DEFINE front == Front(lines)
  <2>1. new = Append(front, Junk)
    BY <1>5 DEF Extended, new
  <2>2. /\ Len(lines) \in Nat \ {0} /\ lines[Len(lines)] = Torn
        /\ front \in Seq(Line) /\ Len(front) = Len(lines) - 1
        /\ \A k \in 1..Len(lines) - 1 : front[k] = lines[k]
    BY <1>1, <1>5, LastOf DEF EndsTorn
  <2> HIDE DEF front
  <2>3. /\ new \in Seq(Line) /\ Len(new) = Len(front) + 1 /\ new[Len(front) + 1] = Junk
        /\ \A k \in 1..Len(front) : new[k] = front[k]
    BY <1>1, <2>1, <2>2, AppendProperties
  <2>4. /\ Len(new) = Len(lines) /\ new[Len(lines)] = Junk
        /\ \A k \in 1..Len(lines) - 1 : new[k] = lines[k]
    BY <2>2, <2>3
  <2>5. LineTypes(new) /\ Len(new) <= Len(lines) + 1
    BY <1>1, <2>3, <2>4 DEF LineTypes
  <2>6. \A x : x \in Range(new) <=> \E j \in 1..Len(lines) : new[j] = x
    BY <2>3, <2>4, RangeIs
  <2>7. \A j \in 1..Len(lines) : j = Len(lines) \/ j \in 1..Len(lines) - 1
    BY <1>1
  <2>8. ASSUME NEW e \in Entry PROVE e \in Range(new) <=> e \in Range(lines)
    BY <1>1, <1>2, <2>2, <2>4, <2>6, <2>7
  <2>9. ASSUME RisingIn(lines, Entry) PROVE RisingIn(new, Entry)
    BY <1>1, <2>4, <2>7, <2>9 DEF RisingIn
  <2> QED
    BY <1>5, <2>5, <2>8, <2>9 DEF ExtendsTo
<1> QED
  BY <1>3, <1>4, <1>5 DEF new

-----------------------------------------------------------------------------
(* Reading the whole log *)

LEMMA HeldIs ==
    ASSUME FileTypes, NEW k
    PROVE  /\ Lines(k) \in Seq(Line) /\ Held(k) \subseteq Entry /\ Line \in SUBSET Int /\ Entry \in SUBSET Int
           /\ Valid(Lines(k)) \in Seq(Entry) /\ Range(Valid(Lines(k))) = Held(k)
           /\ RisingIn(Lines(k), Entry) => Rising(Valid(Lines(k)))
           /\ Lines(k) = <<>> => Held(k) = {}
<1>1. Lines(k) \in Seq(Line)
  BY LinesAre DEF LineTypes
<1>2. Line \in SUBSET Int /\ Line \cap Entry = Entry
  BY DEF Line, Entry, Torn, Junk
<1>3. Chosen(Lines(k), Entry) \in Seq(Line \cap Entry)
      /\ Range(Chosen(Lines(k), Entry)) = Range(Lines(k)) \cap Entry
      /\ (RisingIn(Lines(k), Entry) => Rising(Chosen(Lines(k), Entry)))
  BY <1>1, <1>2, ChosenKeeps
<1>4. Lines(k) = <<>> => Range(Lines(k)) = {}
  BY EmptyIs
<1> QED
  BY <1>1, <1>2, <1>3, <1>4 DEF Held, Valid

Reads(f) ==
    f = [n \in 0..Max(Counts) + 1 |->
            IF n = 0 THEN <<>> ELSE f[n - 1] \o Valid(Lines(Max(Counts) + 1 - n))]

ReadsUp(f) ==
    /\ f[0] = <<>>
    /\ \A n \in 1..Max(Counts) + 1 : f[n] = f[n - 1] \o Valid(Lines(Max(Counts) + 1 - n))

LEMMA ReadsIs == ASSUME NEW f, Reads(f) PROVE ReadsUp(f)
<1>1. 0 \in 0..Max(Counts) + 1 /\ \A n \in 1..Max(Counts) + 1 : n \in 0..Max(Counts) + 1 /\ n # 0
  BY NamesAre
<1> QED
  BY <1>1 DEF Reads, ReadsUp

LEMMA ContentReads ==
    ASSUME FileTypes
    PROVE  \E f : ReadsUp(f) /\ Content = f[Max(Counts) + 1]
<1> DEFINE N == Max(Counts) + 1
           X == Seq(Entry)
           base == <<>>
           step == [n \in 1..N |-> [x \in X |-> x \o Valid(Lines(Max(Counts) + 1 - n))]]
<1>1. N \in Nat /\ base \in X
  BY NamesAre
<1>2. \A n \in 1..N : step[n] \in [X -> X]
  BY HeldIs, ConcatProperties
<1>3. PICK f : Iterates(N, X, base, step, f)
  <2> HIDE DEF N, X, base, step
  <2> QED
    BY <1>1, <1>2, Iterate
<1>4. Reads(f)
  <2>1. ASSUME NEW n \in 1..N, NEW x \in X PROVE step[n][x] = x \o Valid(Lines(Max(Counts) + 1 - n))
    OBVIOUS
  <2> HIDE DEF step, X
  <2>2. N = Max(Counts) + 1
    OBVIOUS
  <2> HIDE DEF N
  <2>3. f = [n \in 0..N |-> f[n]]
    BY <1>3 DEF Iterates
  <2>4. f[0] = <<>>
    BY <1>3 DEF Iterates
  <2>5. ASSUME NEW n \in 1..N PROVE f[n] = f[n - 1] \o Valid(Lines(Max(Counts) + 1 - n))
    <3>1. n \in 0..N /\ n # 0 /\ n - 1 \in 0..N
      BY <1>1
    <3>2. f[n - 1] \in X
      BY <1>3, <3>1 DEF Iterates
    <3>3. f[n] = step[n][f[n - 1]]
      BY <1>3, <3>1 DEF Iterates
    <3> QED
      BY <2>1, <3>2, <3>3
  <2>6. \A n \in 0..N : n # 0 => n \in 1..N
    BY <1>1
  <2>7. \A n \in 0..N : f[n] = IF n = 0 THEN <<>> ELSE f[n - 1] \o Valid(Lines(Max(Counts) + 1 - n))
    BY <2>4, <2>5, <2>6
  <2> QED
    BY <2>2, <2>3, <2>7 DEF Reads
<1> DEFINE oldest[n \in 0..Max(Counts) + 1] ==
              IF n = 0 THEN <<>> ELSE oldest[n - 1] \o Valid(Lines(Max(Counts) + 1 - n))
<1>5. oldest = CHOOSE g : Reads(g)
  BY DEF oldest, Reads
<1>6. Reads(oldest)
  <2> HIDE DEF oldest
  <2> QED
    BY <1>4, <1>5
<1>7. Content = oldest[Max(Counts) + 1]
  BY DEF Content
<1> HIDE DEF oldest
<1> QED
  BY <1>6, <1>7, ReadsIs

\* The content is what the files hold; in order, if the files are.
LEMMA ContentIs ==
    ASSUME FileTypes
    PROVE  /\ Content \in Seq(Entry) /\ Range(Content) = Stored
           /\ FilesOrdered => Rising(Content)
<1> DEFINE N == Max(Counts) + 1
<1>1. PICK f : ReadsUp(f) /\ Content = f[N]
  BY ContentReads
<1>2. N \in Nat /\ \A k : k \in Name <=> k \in 0..N - 1
  BY NamesAre DEF Name
<1>3. f[0] = <<>> /\ \A n \in 1..N : f[n] = f[n - 1] \o Valid(Lines(N - n))
  <2>1. ReadsUp(f)
    BY <1>1
  <2>2. f[0] = <<>> /\ \A n \in 1..N : f[n] = f[n - 1] \o Valid(Lines(Max(Counts) + 1 - n))
    BY <2>1 DEF ReadsUp
  <2>3. \A n \in 1..N : Max(Counts) + 1 - n = N - n
    BY NamesAre
  <2> HIDE DEF N
  <2>4. ASSUME NEW n \in 1..N PROVE Lines(Max(Counts) + 1 - n) = Lines(N - n)
    BY <2>3
  <2> QED
    BY <2>2, <2>4
<1> DEFINE P(n) == /\ f[n] \in Seq(Entry)
                   /\ \A e : e \in Range(f[n]) <=> \E k \in Name : k >= N - n /\ e \in Held(k)
                   /\ FilesOrdered => Rising(f[n])
           S == {n \in 0..N : P(n)}
<1> HIDE DEF N
<1>4. 0 \in S
  <2>1. \A k \in Name : ~(k >= N - 0)
    BY <1>2
  <2>2. f[0] \in Seq(Entry) /\ Len(f[0]) = 0
    BY <1>3
  <2>3. Range(f[0]) = {}
    BY <2>2, RangeIs
  <2>4. Rising(f[0])
    BY <2>2 DEF Rising
  <2>5. P(0) /\ 0 \in 0..N
    BY <1>2, <2>1, <2>2, <2>3, <2>4
  <2> QED
    BY <2>5
<1>5. ASSUME NEW n \in 1..N, n - 1 \in S PROVE n \in S
  <2> DEFINE i == N - n
             more == Valid(Lines(i))
  <2>1. P(n - 1) /\ n \in 0..N /\ i \in Name
    BY <1>2, <1>5
  <2>2. f[n] = f[n - 1] \o more
    BY <1>3
  <2>3. /\ more \in Seq(Entry) /\ Range(more) = Held(i) /\ Entry \in SUBSET Int
        /\ RisingIn(Lines(i), Entry) => Rising(more)
    BY HeldIs
  <2>4. \A k \in Name : (k >= N - n <=> k = i \/ k >= N - (n - 1)) /\ (k >= N - (n - 1) => i < k)
    BY <1>2
  <2> HIDE DEF more, i
  <2>5. f[n] \in Seq(Entry)
    BY <2>1, <2>2, <2>3, ConcatProperties
  <2>6. Range(f[n]) = Range(f[n - 1]) \cup Held(i)
    BY <2>1, <2>2, <2>3, RangeConcatenation
  <2>7. \A e : e \in Range(f[n]) <=> \E k \in Name : k >= N - n /\ e \in Held(k)
    BY <2>1, <2>4, <2>6
  <2>8. ASSUME FilesOrdered PROVE Rising(f[n])
    <3>1. Rising(f[n - 1]) /\ Rising(more)
      BY <2>1, <2>3, <2>8 DEF FilesOrdered
    <3>2. \A x \in Range(f[n - 1]), y \in Range(more) : x < y
      BY <2>1, <2>3, <2>4, <2>8 DEF FilesOrdered
    <3> QED
      BY <2>1, <2>2, <2>3, <3>1, <3>2, RisingConcat
  <2>9. P(n)
    BY <2>5, <2>7, <2>8
  <2> HIDE DEF P
  <2> QED
    BY <2>1, <2>9
<1>6. N \in S
  <2>1. N \in 0..N
    BY <1>2
  <2> HIDE DEF S
  <2> QED
    BY <1>2, <1>4, <1>5, <2>1, Counting
<1>7. P(N)
  BY <1>6
<1>8. \A k \in Name : k >= N - N
  BY <1>2
<1>9. \A e : e \in Range(f[N]) <=> e \in Stored
  BY <1>7, <1>8 DEF Stored
<1> QED
  BY <1>1, <1>7, <1>9

LEMMA ContentIf ==
    ASSUME Inv, ~tainted, ~Rewriting
    PROVE  Content = expected
<1> USE DEF Inv, Types
<1>1. Content \in Seq(Entry) /\ Range(Content) = Stored /\ Rising(Content)
  BY ContentIs DEF Safe
<1>2. expected \in Seq(Entry) /\ Range(expected) = Stored /\ Rising(expected)
  BY DEF Safe, OtherTypes, HistoryKnown
<1>3. Entry \in SUBSET Int
  BY DEF Entry
<1> QED
  BY <1>1, <1>2, <1>3, OneRising

-----------------------------------------------------------------------------
(* What a step of one process leaves alone *)

OnlyMoves(p) == proc' \in [Proc -> ProcType] /\ \A q \in Proc : q # p => proc'[q] = proc[q]

LinesStay == \A k : Lines(k)' = Lines(k)

LEMMA SameLines ==
    ASSUME LinesStay
    PROVE  /\ \A k : Lines(k)' = Lines(k) /\ Held(k)' = Held(k)
           /\ Stored' = Stored /\ FilesOrdered' = FilesOrdered
<1>1. \A k : Lines(k)' = Lines(k)
  BY DEF LinesStay
<1>2. \A k : Held(k)' = Held(k)
  BY <1>1 DEF Held
<1>3. Stored' = Stored
  BY <1>2 DEF Stored
<1>4. FilesOrdered' = FilesOrdered
  BY <1>1, <1>2 DEF FilesOrdered
<1> QED
  BY <1>1, <1>2, <1>3, <1>4

LEMMA SameFiles ==
    ASSUME UNCHANGED files
    PROVE  /\ \A k : Lines(k)' = Lines(k) /\ Held(k)' = Held(k)
           /\ Stored' = Stored /\ FilesOrdered' = FilesOrdered /\ LinesStay
<1>1. LinesStay
  BY DEF Lines, LinesStay
<1> QED
  BY <1>1, SameLines

LEMMA AppendingIs ==
    /\ IsFiniteSet(Appending) /\ Cardinality(Appending) \in Nat
    /\ IsFiniteSet(Writers) /\ Cardinality(Writers) \in Nat /\ Cardinality(Writers) <= Cardinality(Proc)
    /\ Cardinality(Proc) \in Nat
<1>1. Appending \in SUBSET Proc /\ Writers \in SUBSET Proc
  BY DEF Appending, Writers
<1>2. IsFiniteSet(Appending) /\ IsFiniteSet(Writers) /\ Cardinality(Writers) <= Cardinality(Proc)
  BY <1>1, NamesAre, FS_Subset
<1> QED
  BY <1>2, NamesAre, FS_CardinalityType

LEMMA NoMoreAppending ==
    ASSUME OtherTypes, last' = last, \A q \in Proc : proc'[q].op = "append" => proc[q].op = "append"
    PROVE  last' \in Nat /\ last' + Cardinality(Appending') <= MaxEntries
<1>1. Appending' \in SUBSET Appending
  BY DEF Appending
<1>2. Cardinality(Appending') <= Cardinality(Appending) /\ Cardinality(Appending') \in Nat
  BY <1>1, AppendingIs, FS_Subset, FS_CardinalityType
<1> QED
  BY <1>2, AppendingIs, NamesAre DEF OtherTypes

LEMMA BudgetKeeps ==
    ASSUME FileTypes, FileTypes', Budget, Len(Lines(0)') <= Len(Lines(0)), Writers' \subseteq Writers
    PROVE  Budget'
<1>1. Writers' \in SUBSET Writers
  OBVIOUS
<1>2. Cardinality(Writers') <= Cardinality(Writers) /\ Cardinality(Writers') \in Nat
  BY <1>1, AppendingIs, FS_Subset, FS_CardinalityType
<1>3. Len(Lines(0)') \in Nat /\ Len(Lines(0)) \in Nat /\ Writers' # {} => Writers # {}
  BY LinesAre DEF LineTypes, FileTypes, Lines
<1> QED
  BY <1>1, <1>2, <1>3, AppendingIs, NamesAre DEF Budget

\* A process alone with the files: the others are idle or list.
Alone(p) == \A q \in Proc : q # p =>
    proc[q].op \in {"none", "list"} /\ proc[q].pc \in {"idle", "read", "decide"}

LEMMA AloneIf ==
    ASSUME ProcTypes, ~Conflict, NEW p \in Proc, Exclusive(p)
    PROVE  Alone(p)
BY DEF Conflict, Mutating, Alone, ProcTypes, ProcType, Fits

Good(p) == InOrder(p) /\ Complete(p) /\ Taken(p) /\ Hole(p) /\ Opened(p)

\* The steps that only change what one process knows.
LEMMA QuietStep ==
    ASSUME Types, Safe, NEW p \in Proc, LinesStay, UNCHANGED expected, ~Conflict',
           \A q \in Proc : q # p => proc'[q] = proc[q] /\ fd'[q] = fd[q] /\ (q \in mixed' <=> q \in mixed),
           proc[p].pc \notin {"remove", "rewrite"}, proc'[p].pc \notin {"remove", "rewrite"},
           Good(p)', Budget'
    PROVE  Safe'
<1>1. /\ \A k : Lines(k)' = Lines(k) /\ Held(k)' = Held(k)
      /\ Stored' = Stored /\ FilesOrdered' = FilesOrdered
  BY SameLines
<1>2. ASSUME NEW q \in Proc, q # p PROVE Good(q)'
  <2>1. Good(q) /\ proc'[q] = proc[q] /\ fd'[q] = fd[q] /\ expected' = expected /\ (q \in mixed' <=> q \in mixed)
    BY <1>2 DEF Safe, Good
  <2>2. InOrder(q)'
    BY <1>1, <2>1 DEF Good, InOrder
  <2>3. Complete(q)'
    BY <1>1, <2>1 DEF Good, Complete
  <2>4. Taken(q)'
    BY <1>1, <2>1 DEF Good, Taken
  <2>5. Hole(q)' /\ Opened(q)'
    BY <1>1, <2>1 DEF Good, Hole, Opened
  <2> QED
    BY <2>2, <2>3, <2>4, <2>5 DEF Good
<1>3. Rewriting' <=> Rewriting
  BY DEF Rewriting
<1>4. \A q \in Proc : Good(q)'
  BY <1>2
<1> QED
  BY <1>1, <1>3, <1>4 DEF Safe, Good

LEMMA CopyIs ==
    ASSUME Types, NEW p \in Proc
    PROVE  /\ proc[p] \in ProcType /\ Fits(proc[p])
           /\ proc[p].copy \in Seq(Entry) /\ Range(proc[p].copy) \subseteq Entry
           /\ proc[p].todo \in SUBSET Name /\ proc[p].seg \in Name /\ proc[p].seg \in Nat
<1>1. proc[p] \in ProcType /\ Fits(proc[p])
  BY DEF Types, ProcTypes
<1>2. proc[p].copy \in Seq(Entry) /\ proc[p].todo \in SUBSET Name /\ proc[p].seg \in Name
  BY <1>1 DEF ProcType
<1> QED
  BY <1>1, <1>2, RangeOfSeq, NamesAre

LEMMA EntriesAre == Entry \in SUBSET Nat /\ Entry \in SUBSET Int /\ Torn \notin Entry /\ Junk \notin Entry
BY DEF Entry, Torn, Junk

\* Everything keeps its type if the files, the history and the process that
\* moves do.
LEMMA TypesIf ==
    ASSUME Types, FileTypes', LogKnown', HistoryKnown', expected' \in Seq(Entry),
           NEW p \in Proc, OnlyMoves(p), Fits(proc[p])', Known(Range(proc[p].copy))',
           legacy' \in BOOLEAN, tainted' \in BOOLEAN, mixed' \subseteq Proc,
           last' \in Nat, last <= last', last' + Cardinality(Appending') <= MaxEntries
    PROVE  Types'
<1>1. ProcTypes' /\ \A q \in Proc : q # p => proc'[q] = proc[q]
  BY DEF Types, ProcTypes, OnlyMoves
<1>2. OtherTypes'
  BY DEF OtherTypes
<1>3. ASSUME NEW q \in Proc, q # p PROVE Known(Range(proc[q].copy))'
  <2>1. Range(proc[q].copy) \in SUBSET Entry /\ Known(Range(proc[q].copy)) /\ last \in Nat
    BY CopyIs DEF Types, CopiesKnown, OtherTypes
  <2>2. ASSUME NEW e \in Range(proc[q].copy) PROVE e <= last'
    <3>1. e \in Nat /\ e <= last
      BY <2>1, EntriesAre DEF Known
    <3> QED
      BY <2>1, <3>1
  <2>3. proc'[q] = proc[q]
    BY <1>1, <1>3
  <2> QED
    BY <2>2, <2>3 DEF Known
<1>4. CopiesKnown'
  BY <1>3 DEF CopiesKnown
<1> QED
  BY <1>1, <1>2, <1>4 DEF Types

LEMMA FilesKept ==
    ASSUME Types, UNCHANGED <<files, fd, last>>
    PROVE  /\ FileTypes' /\ LogKnown' /\ last \in Nat /\ last' \in Nat /\ last <= last'
           /\ UNCHANGED expected => HistoryKnown' /\ expected' \in Seq(Entry)
           /\ legacy \in BOOLEAN /\ mixed \subseteq Proc
           /\ \A entries : Known(entries)' <=> Known(entries)
           /\ \A q \in Proc : Known(Range(proc[q].copy))
<1>1. FileTypes'
  BY DEF Types, FileTypes
<1>2. Stored' = Stored
  BY SameFiles
<1>3. LogKnown'
  BY <1>2 DEF Types, LogKnown, Known
<1>4. UNCHANGED expected => HistoryKnown' /\ expected' \in Seq(Entry)
  BY DEF Types, HistoryKnown, OtherTypes, Known
<1> QED
  BY <1>1, <1>3, <1>4 DEF Types, OtherTypes, Known, CopiesKnown

Turns(p, op, pc, todo, copy) ==
    /\ OnlyMoves(p) /\ Fits(proc[p])'
    /\ proc'[p].op = op /\ proc'[p].pc = pc /\ proc'[p].todo = todo /\ proc'[p].copy = copy

-----------------------------------------------------------------------------
(* Operations begin *)

LEMMA SegmentsAre ==
    ASSUME FileTypes
    PROVE  /\ Segments \in SUBSET Name /\ Segments # {}
           /\ \A k \in Name \ Segments : Lines(k) = <<>> /\ Held(k) = {}
           /\ Stored = UNION {Held(k) : k \in Segments}
<1>1. Segments \in SUBSET Name /\ Segments # {}
  BY NamesAre DEF FileTypes, Segments
<1>2. \A k \in Name \ Segments : Lines(k) = <<>> /\ Held(k) = {}
  BY LinesAre, HeldIs DEF Segments
<1>3. Stored = UNION {Held(k) : k \in Segments}
  BY <1>1, <1>2 DEF Stored
<1> QED
  BY <1>1, <1>2, <1>3

LEMMA TurnsIf ==
    ASSUME Types, NEW p \in Proc, NEW r \in ProcType, Fits(r), proc' = [proc EXCEPT ![p] = r]
    PROVE  Turns(p, r.op, r.pc, r.todo, r.copy)
<1>1. proc \in [Proc -> ProcType]
  BY DEF Types, ProcTypes
<1>2. OnlyMoves(p) /\ proc'[p] = r
  BY <1>1 DEF OnlyMoves
<1> QED
  BY <1>2 DEF Turns

LEMMA IdleIs ==
    /\ Idle \in ProcType /\ Fits(Idle)
    /\ Idle.op = "none" /\ Idle.pc = "idle" /\ Idle.todo = {} /\ Idle.copy = <<>> /\ Idle.seg = 0
<1>1. Idle \in ProcType
  <2>1. 0 \in Name /\ <<>> \in Seq(Entry)
    BY NamesAre
  <2> QED
    BY <2>1 DEF Idle, ProcType
<1>2. Idle.op = "none" /\ Idle.pc = "idle" /\ Idle.todo = {} /\ Idle.copy = <<>> /\ Idle.seg = 0
  BY DEF Idle
<1> QED
  BY <1>1, <1>2 DEF Fits

LEMMA BeginAppendIs ==
    ASSUME Types, NEW p \in Proc, BeginAppend(p)
    PROVE  /\ proc[p].op = "none"
           /\ Turns(p, "append", "read", Segments, <<>>) \/ Turns(p, "append", "size", {}, <<>>)
<1>1. /\ proc[p].op = "none"
      /\ proc' = [proc EXCEPT ![p] = [(IF legacy THEN Reading ELSE [Idle EXCEPT !.pc = "size"]) EXCEPT !.op = "append"]]
  BY DEF BeginAppend, Begin
<1>2. Segments \in SUBSET Name /\ Segments # {} /\ 0 \in Name /\ proc \in [Proc -> ProcType]
  BY NamesAre, SegmentsAre DEF Types, ProcTypes
<1>3. CASE legacy
  <2>1. proc' = [proc EXCEPT ![p] = [Reading EXCEPT !.op = "append"]]
    BY <1>1, <1>3
  <2> DEFINE x == Reading
             r == [x EXCEPT !.op = "append"]
  <2>4. x \in ProcType /\ x.op = "none" /\ x.pc = "read" /\ x.todo = Segments /\ x.copy = <<>>
    BY <1>2, IdleIs DEF Reading, ProcType
  <2> HIDE DEF x
  <2>5. r \in ProcType /\ r.op = "append" /\ r.pc = "read" /\ r.todo = Segments /\ r.copy = <<>>
    BY <2>4 DEF ProcType
  <2>2. r \in ProcType /\ Fits(r) /\ r.op = "append" /\ r.pc = "read" /\ r.todo = Segments /\ r.copy = <<>>
    BY <1>2, <2>5 DEF Fits
  <2> USE DEF x
  <2> HIDE DEF r
  <2>3. Turns(p, r.op, r.pc, r.todo, r.copy)
    BY <2>1, <2>2, TurnsIf DEF r
  <2> QED
    BY <1>1, <2>2, <2>3
<1>4. CASE ~legacy
  <2>1. proc' = [proc EXCEPT ![p] = [[Idle EXCEPT !.pc = "size"] EXCEPT !.op = "append"]]
    BY <1>1, <1>4
  <2> DEFINE r == [[Idle EXCEPT !.pc = "size"] EXCEPT !.op = "append"]
  <2>2. r \in ProcType /\ r.op = "append" /\ r.pc = "size" /\ r.todo = {} /\ r.copy = <<>>
    BY IdleIs DEF ProcType
  <2>3. Fits(r)
    BY <2>2 DEF Fits
  <2> HIDE DEF r
  <2>4. Turns(p, r.op, r.pc, r.todo, r.copy)
    BY <2>1, <2>2, <2>3, TurnsIf DEF r
  <2> QED
    BY <1>1, <2>2, <2>4
<1> QED
  BY <1>3, <1>4

LEMMA BeginAppendTypes ==
    ASSUME Types, NEW p \in Proc, BeginAppend(p), tainted' \in BOOLEAN
    PROVE  Types'
<1>1. /\ proc[p].op = "none" /\ proc'[p].op = "append" /\ proc'[p].copy = <<>>
      /\ OnlyMoves(p) /\ Fits(proc[p])'
  BY BeginAppendIs DEF Turns
<1>2. Appending' = Appending \cup {p} /\ p \notin Appending
  BY <1>1 DEF Appending, OnlyMoves
<1>3. Cardinality(Appending') = Cardinality(Appending) + 1
  BY <1>2, AppendingIs, FS_AddElement
<1>4. last + Cardinality(Appending) < MaxEntries /\ UNCHANGED <<files, fd, legacy, last, expected, mixed>>
  BY DEF BeginAppend, Begin
<1>5. last' + Cardinality(Appending') <= MaxEntries
  BY <1>3, <1>4, AppendingIs, NamesAre DEF Types, OtherTypes
<1>6. Known(Range(proc[p].copy))'
  BY <1>1, EmptyIs DEF Known
<1> QED
  BY <1>1, <1>4, <1>5, <1>6, TypesIf, FilesKept

LEMMA BeginReadIs ==
    ASSUME Types, NEW p \in Proc, BeginRead(p)
    PROVE  /\ proc[p].op = "none" /\ UNCHANGED <<files, fd, legacy, last, expected, mixed>>
           /\ \E op \in {"cleanup", "prune", "list"} : Turns(p, op, "read", Segments, <<>>)
<1>1. PICK op \in {"cleanup", "prune", "list"} : Begin(p, op, Reading)
  BY DEF BeginRead
<1>2. proc' = [proc EXCEPT ![p] = [Reading EXCEPT !.op = op]] /\ proc[p].op = "none"
      /\ UNCHANGED <<files, fd, legacy, last, expected, mixed>>
  BY <1>1 DEF Begin, BeginRead
<1>3. Segments \in SUBSET Name /\ Segments # {} /\ 0 \in Name /\ proc \in [Proc -> ProcType]
  BY NamesAre, SegmentsAre DEF Types, ProcTypes
<1>4. Turns(p, op, "read", Segments, <<>>)
  <2> DEFINE x == Reading
             r == [x EXCEPT !.op = op]
  <2>4. x \in ProcType /\ x.op = "none" /\ x.pc = "read" /\ x.todo = Segments /\ x.copy = <<>>
    BY <1>3, IdleIs DEF Reading, ProcType
  <2> HIDE DEF x
  <2>5. r \in ProcType /\ r.op = op /\ r.pc = "read" /\ r.todo = Segments /\ r.copy = <<>>
    BY <2>4 DEF ProcType
  <2>1. r \in ProcType /\ Fits(r) /\ r.op = op /\ r.pc = "read" /\ r.todo = Segments /\ r.copy = <<>>
    BY <1>3, <2>5 DEF Fits
  <2> USE DEF x
  <2>2. proc' = [proc EXCEPT ![p] = r]
    BY <1>2
  <2> HIDE DEF r
  <2>3. Turns(p, r.op, r.pc, r.todo, r.copy)
    BY <2>1, <2>2, TurnsIf
  <2> QED
    BY <2>1, <2>3
<1> QED
  BY <1>2, <1>4

LEMMA BeginReadTypes ==
    ASSUME Types, NEW p \in Proc, BeginRead(p), tainted' \in BOOLEAN
    PROVE  Types'
<1>1. /\ proc'[p].op # "append" /\ proc'[p].copy = <<>> /\ OnlyMoves(p) /\ Fits(proc[p])'
      /\ UNCHANGED <<files, fd, legacy, last, expected, mixed>>
  BY BeginReadIs DEF Turns
<1>2. \A q \in Proc : proc'[q].op = "append" => proc[q].op = "append"
  BY <1>1 DEF OnlyMoves
<1>3. last' \in Nat /\ last' + Cardinality(Appending') <= MaxEntries
  BY <1>1, <1>2, NoMoreAppending DEF Types
<1>4. Known(Range(proc[p].copy))'
  BY <1>1, EmptyIs DEF Known
<1> QED
  BY <1>1, <1>3, <1>4, TypesIf, FilesKept

LEMMA BeginClearIs ==
    ASSUME Types, NEW p \in Proc, BeginClear(p)
    PROVE  /\ proc[p].op = "none" /\ UNCHANGED <<files, fd, legacy, last, mixed>> /\ expected' = <<>>
           /\ Turns(p, "clear", "remove", Segments, <<>>)
<1>1. /\ proc' = [proc EXCEPT ![p] = [[Idle EXCEPT !.pc = "remove", !.todo = Segments] EXCEPT !.op = "clear"]]
      /\ proc[p].op = "none" /\ UNCHANGED <<files, fd, legacy, last, mixed>> /\ expected' = <<>>
  BY DEF BeginClear, Begin
<1>2. Segments \in SUBSET Name /\ Segments # {} /\ 0 \in Name /\ proc \in [Proc -> ProcType]
  BY NamesAre, SegmentsAre DEF Types, ProcTypes
<1>3. Turns(p, "clear", "remove", Segments, <<>>)
  <2> DEFINE x == [Idle EXCEPT !.pc = "remove", !.todo = Segments]
             r == [x EXCEPT !.op = "clear"]
  <2>4. x \in ProcType /\ x.op = "none" /\ x.pc = "remove" /\ x.todo = Segments /\ x.copy = <<>>
    BY <1>2, IdleIs DEF ProcType
  <2> HIDE DEF x
  <2>5. r \in ProcType /\ r.op = "clear" /\ r.pc = "remove" /\ r.todo = Segments /\ r.copy = <<>>
    BY <2>4 DEF ProcType
  <2>1. r \in ProcType /\ Fits(r) /\ r.op = "clear" /\ r.pc = "remove" /\ r.todo = Segments /\ r.copy = <<>>
    BY <1>2, <2>5 DEF Fits
  <2> USE DEF x
  <2>2. proc' = [proc EXCEPT ![p] = r]
    BY <1>1
  <2> HIDE DEF r
  <2>3. Turns(p, r.op, r.pc, r.todo, r.copy)
    BY <2>1, <2>2, TurnsIf
  <2> QED
    BY <2>1, <2>3
<1> QED
  BY <1>1, <1>3

LEMMA BeginClearTypes ==
    ASSUME Types, NEW p \in Proc, BeginClear(p), tainted' \in BOOLEAN
    PROVE  Types'
<1>1. /\ proc'[p].op # "append" /\ proc'[p].copy = <<>> /\ OnlyMoves(p) /\ Fits(proc[p])'
      /\ UNCHANGED <<files, fd, legacy, last, mixed>> /\ expected' = <<>>
  BY BeginClearIs DEF Turns
<1>2. \A q \in Proc : proc'[q].op = "append" => proc[q].op = "append"
  BY <1>1 DEF OnlyMoves
<1>3. last' \in Nat /\ last' + Cardinality(Appending') <= MaxEntries
  BY <1>1, <1>2, NoMoreAppending DEF Types
<1>4. Known(Range(proc[p].copy))' /\ expected' \in Seq(Entry) /\ HistoryKnown'
  BY <1>1, EmptyIs DEF Known, HistoryKnown
<1> QED
  BY <1>1, <1>3, <1>4, TypesIf, FilesKept

-----------------------------------------------------------------------------
(* Reading and deciding *)

LEMMA WithoutKeeps ==
    ASSUME NEW entries \in Seq(Entry), NEW gone
    PROVE  /\ Without(entries, gone) \in Seq(Entry) /\ Range(Without(entries, gone)) = Range(entries) \ gone
           /\ Rising(entries) => Rising(Without(entries, gone))
<1> DEFINE set == Range(entries) \ gone
<1>1. /\ Chosen(entries, set) \in Seq(Entry \cap set) /\ Range(Chosen(entries, set)) = Range(entries) \cap set
      /\ RisingIn(entries, set) => Rising(Chosen(entries, set))
  BY EntriesAre, ChosenKeeps
<1>2. Range(entries) \subseteq Entry
  BY RangeIs
<1>3. Entry \cap set = set /\ Range(entries) \cap set = set
  BY <1>2
<1>4. Chosen(entries, set) \in Seq(Entry)
  <2> DEFINE new == Chosen(entries, set)
  <2>1. new \in Seq(set) /\ set \subseteq Entry
    BY <1>1, <1>2, <1>3
  <2> HIDE DEF new, set
  <2>2. new \in Seq(Entry)
    BY <2>1
  <2> QED
    BY <2>2 DEF new
<1>5. Rising(entries) => RisingIn(entries, set)
  BY DEF Rising, RisingIn
<1> QED
  BY <1>1, <1>3, <1>4, <1>5 DEF Without

LEMMA YoungKeeps ==
    ASSUME NEW logs \in Seq(Entry), NEW since
    PROVE  /\ Young(logs, since) \in Seq(Entry) /\ Range(Young(logs, since)) \subseteq Range(logs)
           /\ Rising(logs) => Rising(Young(logs, since))
<1> DEFINE set == {e \in Entry : Second[e] >= since}
<1>1. /\ Chosen(logs, set) \in Seq(Entry \cap set) /\ Range(Chosen(logs, set)) = Range(logs) \cap set
      /\ RisingIn(logs, set) => Rising(Chosen(logs, set))
  BY EntriesAre, ChosenKeeps
<1>2. Rising(logs) => RisingIn(logs, set)
  BY DEF Rising, RisingIn
<1>3. Chosen(logs, set) \in Seq(Entry)
  <2> DEFINE new == Chosen(logs, set)
  <2>1. new \in Seq(Entry \cap set)
    BY <1>1
  <2> HIDE DEF new, set
  <2>2. new \in Seq(Entry)
    BY <2>1
  <2> QED
    BY <2>2 DEF new
<1>4. Young(logs, since) = Chosen(logs, set)
  BY DEF Young
<1> HIDE DEF set
<1> QED
  BY <1>1, <1>2, <1>3, <1>4

LEMMA RetainedKeeps ==
    ASSUME NEW logs \in Seq(Entry), NEW kept \in Retained(logs)
    PROVE  /\ kept \in Seq(Entry) /\ Range(kept) \subseteq Range(logs)
           /\ Rising(logs) => Rising(kept)
<1> DEFINE young == {Young(logs, since) : since \in Ages}
<1>1. kept \in young \/ \E n \in Keep : \E s \in young \cup {logs} : kept = Newest(s, n)
  BY DEF Retained
<1>2. ASSUME NEW s \in young \cup {logs}
      PROVE  s \in Seq(Entry) /\ Range(s) \subseteq Range(logs) /\ (Rising(logs) => Rising(s))
  BY YoungKeeps
<1> HIDE DEF young
<1>3. CASE kept \in young
  BY <1>2, <1>3
<1>4. ASSUME NEW n \in Keep, NEW s \in young \cup {logs}, kept = Newest(s, n)
      PROVE  kept \in Seq(Entry) /\ Range(kept) \subseteq Range(logs) /\ (Rising(logs) => Rising(kept))
  <2>1. n \in Nat
    BY LogAssumption
  <2> QED
    BY <1>2, <1>4, <2>1, EntriesAre, NewestKeeps
<1> QED
  BY <1>1, <1>3, <1>4

LEMMA WantedKeeps ==
    ASSUME NEW p, NEW logs \in Seq(Entry), NEW kept \in Wanted(p, logs)
    PROVE  /\ kept \in Seq(Entry) /\ Range(kept) \subseteq Range(logs) /\ (Rising(logs) => Rising(kept))
           /\ proc[p].op \in {"append", "cleanup", "prune"} /\ (proc[p].op = "append" => kept = logs)
<1>1. CASE proc[p].op = "append"
  BY <1>1 DEF Wanted
<1>2. CASE proc[p].op = "cleanup"
  <2>1. kept \in Retained(logs)
    BY <1>2 DEF Wanted
  <2> QED
    BY <1>2, <2>1, RetainedKeeps
<1>3. CASE proc[p].op = "prune"
  <2>1. PICK match \in {Failed, Entry}, n \in Keep \cup {0} : kept = Pruned(logs, match, n)
    BY <1>3 DEF Wanted
  <2>2. \E gone : kept = Without(logs, gone)
    BY <2>1 DEF Pruned
  <2> QED
    BY <1>3, <2>2, WithoutKeeps
<1>4. CASE proc[p].op \notin {"append", "cleanup", "prune"}
  BY <1>4 DEF Wanted
<1> QED
  BY <1>1, <1>2, <1>3, <1>4

\* Everything keeps its type in a step that writes no new entry.
LEMMA OldTypesIf ==
    ASSUME Types, FileTypes', UNCHANGED last,
           UNCHANGED expected \/ \E gone : expected' = Without(expected, gone), NEW p \in Proc,
           \A k \in Name : Held(k)' \subseteq Stored \cup Range(proc[p].copy), OnlyMoves(p), Fits(proc[p])', proc'[p].op \in {proc[p].op, "none"},
           Known(Range(proc'[p].copy)), legacy' \in BOOLEAN, tainted' \in BOOLEAN, mixed' \subseteq Proc
    PROVE  Types'
<1>1. \A q \in Proc : proc'[q].op = "append" => proc[q].op = "append"
  BY DEF OnlyMoves
<1>2. last' + Cardinality(Appending') <= MaxEntries /\ last \in Nat /\ last' \in Nat /\ last <= last'
  BY <1>1, NoMoreAppending DEF Types, OtherTypes
<1>3. expected \in Seq(Entry) /\ Rising(expected) /\ Known(Range(expected)) /\ Known(Stored)
  BY DEF Types, OtherTypes, HistoryKnown, LogKnown
<1>4. expected' \in Seq(Entry) /\ Rising(expected') /\ Range(expected') \subseteq Range(expected)
  BY <1>3, WithoutKeeps
<1>5. Stored' \subseteq Stored \cup Range(proc[p].copy) /\ Known(Range(proc[p].copy))
  BY DEF Stored, Types, CopiesKnown
<1>6. HistoryKnown' /\ LogKnown' /\ Known(Range(proc[p].copy))'
  BY <1>3, <1>4, <1>5 DEF HistoryKnown, LogKnown, Known
<1> QED
  BY <1>2, <1>4, <1>6, TypesIf

LEMMA UnreadIs ==
    ASSUME Types, UNCHANGED files
    PROVE  \A k \in Name : Held(k)' \subseteq Stored
BY SameFiles DEF Stored

LEMMA ReadIs ==
    ASSUME Types, NEW p \in Proc, Read(p)
    PROVE  \E i \in proc[p].todo :
              /\ \A k \in proc[p].todo : k <= i
              /\ Turns(p, proc[p].op, IF proc[p].todo = {i} THEN "decide" ELSE "read",
                       proc[p].todo \ {i}, proc[p].copy \o Valid(Lines(i)))
<1> DEFINE i == NextSegment(p)
           more == proc[p].copy \o Valid(Lines(i))
           label == IF proc[p].todo = {i} THEN "decide" ELSE "read"
<1>1. proc[p] \in ProcType /\ Fits(proc[p]) /\ proc[p].copy \in Seq(Entry) /\ proc[p].todo \in SUBSET Name
  BY CopyIs
<1>2. proc[p].pc = "read" /\ proc[p].todo # {} /\ proc[p].op # "none"
  BY <1>1 DEF Read, AtPc, Fits
<1>3. i \in proc[p].todo /\ \A k \in proc[p].todo : k <= i
  BY <1>1, <1>2, LastToRead DEF NextSegment
<1>4. more \in Seq(Entry)
  BY <1>1, HeldIs, ConcatProperties DEF Types
<1>5. proc' = [proc EXCEPT ![p].copy = more, ![p].todo = proc[p].todo \ {i}, ![p].pc = label]
  BY <1>1 DEF Read
<1>6. proc \in [Proc -> ProcType]
  BY DEF Types, ProcTypes
<1>7. label \in {"decide", "read"}
  OBVIOUS
<1> HIDE DEF i, more, label
<1>8. /\ proc' \in [Proc -> ProcType] /\ \A q \in Proc : q # p => proc'[q] = proc[q]
      /\ proc'[p].op = proc[p].op /\ proc'[p].pc = label
      /\ proc'[p].todo = proc[p].todo \ {i} /\ proc'[p].copy = more
  BY <1>1, <1>4, <1>5, <1>6, <1>7 DEF ProcType
<1>9. Fits(proc[p])'
  BY <1>2, <1>3, <1>8 DEF Fits, label
<1> QED
  BY <1>3, <1>8, <1>9 DEF Turns, OnlyMoves, more, label

LEMMA ReadTypes ==
    ASSUME Types, NEW p \in Proc, Read(p), tainted' \in BOOLEAN
    PROVE  Types'
<1>1. UNCHANGED <<files, legacy, fd, last, expected, mixed>>
  BY DEF Read
<1>2. PICK i \in proc[p].todo :
              Turns(p, proc[p].op, IF proc[p].todo = {i} THEN "decide" ELSE "read",
                    proc[p].todo \ {i}, proc[p].copy \o Valid(Lines(i)))
  BY ReadIs
<1>3. OnlyMoves(p) /\ Fits(proc[p])' /\ proc'[p].op = proc[p].op /\ proc'[p].copy = proc[p].copy \o Valid(Lines(i))
  BY <1>2 DEF Turns
<1>4. Range(proc'[p].copy) = Range(proc[p].copy) \cup Held(i)
  BY <1>3, CopyIs, HeldIs, RangeConcatenation DEF Types
<1>5. Held(i) \subseteq Stored
  BY <1>2, CopyIs DEF Stored
<1>6. Known(Range(proc'[p].copy))
  BY <1>4, <1>5 DEF Known, Types, LogKnown, CopiesKnown
<1> QED
  BY <1>1, <1>3, <1>6, OldTypesIf, FilesKept, UnreadIs

LEMMA DoneIs ==
    ASSUME Types, NEW p \in Proc, Done(p)
    PROVE  Turns(p, "none", "idle", {}, <<>>)
BY IdleIs, TurnsIf DEF Done

LEMMA DecideIs ==
    ASSUME Types, NEW p \in Proc, Decide(p)
    PROVE  \/ Turns(p, "none", "idle", {}, <<>>) /\ UNCHANGED expected /\ proc[p].op # "list"
           \/ \E kept \in Seq(Entry) :
                 /\ Range(kept) \subseteq Range(proc[p].copy) /\ (Rising(proc[p].copy) => Rising(kept))
                 /\ proc[p].op \in {"append", "cleanup", "prune"}
                 /\ Turns(p, proc[p].op, "remove", Segments, kept)
                 /\ expected' = Without(expected, Range(proc[p].copy) \ Range(kept))
<1>1. proc[p] \in ProcType /\ Fits(proc[p]) /\ proc[p].copy \in Seq(Entry)
  BY CopyIs
<1>2. PICK kept \in Wanted(p, proc[p].copy) :
         IF kept = proc[p].copy /\ proc[p].op # "append"
         THEN Done(p) /\ UNCHANGED expected
         ELSE /\ proc' = [proc EXCEPT ![p].copy = kept, ![p].todo = Segments, ![p].pc = "remove"]
              /\ expected' = Without(expected, Range(proc[p].copy) \ Range(kept))
  BY DEF Decide
<1>3. /\ kept \in Seq(Entry) /\ Range(kept) \subseteq Range(proc[p].copy)
      /\ Rising(proc[p].copy) => Rising(kept)
      /\ proc[p].op \in {"append", "cleanup", "prune"}
  BY <1>1, WantedKeeps
<1>4. CASE kept = proc[p].copy /\ proc[p].op # "append"
  BY <1>2, <1>3, <1>4, DoneIs
<1>5. CASE ~(kept = proc[p].copy /\ proc[p].op # "append")
  <2>1. /\ proc' = [proc EXCEPT ![p].copy = kept, ![p].todo = Segments, ![p].pc = "remove"]
        /\ expected' = Without(expected, Range(proc[p].copy) \ Range(kept))
    BY <1>2, <1>5
  <2>2. proc \in [Proc -> ProcType] /\ Segments \in SUBSET Name /\ Segments # {}
    BY SegmentsAre DEF Types, ProcTypes
  <2>3. /\ proc' \in [Proc -> ProcType] /\ \A q \in Proc : q # p => proc'[q] = proc[q]
        /\ proc'[p].op = proc[p].op /\ proc'[p].pc = "remove"
        /\ proc'[p].todo = Segments /\ proc'[p].copy = kept
    BY <1>1, <1>3, <2>1, <2>2 DEF ProcType
  <2>4. Fits(proc[p])'
    BY <1>3, <2>2, <2>3 DEF Fits
  <2> QED
    BY <1>3, <2>1, <2>3, <2>4 DEF Turns, OnlyMoves
<1> QED
  BY <1>4, <1>5

LEMMA DecideTypes ==
    ASSUME Types, NEW p \in Proc, Decide(p), tainted' \in BOOLEAN
    PROVE  Types'
<1>1. UNCHANGED <<files, legacy, fd, last, mixed>>
  BY DEF Decide
<1>2. /\ OnlyMoves(p) /\ Fits(proc[p])' /\ proc'[p].op \in {proc[p].op, "none"}
      /\ Range(proc'[p].copy) \subseteq Range(proc[p].copy)
      /\ UNCHANGED expected \/ \E gone : expected' = Without(expected, gone)
  BY DecideIs, EmptyIs DEF Turns
<1>3. Known(Range(proc'[p].copy))
  BY <1>2 DEF Known, Types, CopiesKnown
<1>4. FileTypes' /\ legacy' \in BOOLEAN /\ mixed' \subseteq Proc
  BY <1>1 DEF Types, OtherTypes, FileTypes
<1> QED
  BY <1>1, <1>2, <1>3, <1>4, OldTypesIf, UnreadIs

LEMMA ListedTypes ==
    ASSUME Types, NEW p \in Proc, Listed(p), tainted' \in BOOLEAN
    PROVE  Types'
<1>1. UNCHANGED <<files, legacy, fd, last, expected>> /\ mixed' = mixed \ {p} /\ Done(p)
  BY DEF Listed
<1>2. OnlyMoves(p) /\ Fits(proc[p])' /\ proc'[p].op = "none" /\ proc'[p].copy = <<>>
  BY <1>1, DoneIs DEF Turns
<1>3. Known(Range(proc'[p].copy))
  BY <1>2, EmptyIs DEF Known
<1>4. FileTypes' /\ legacy' \in BOOLEAN /\ mixed' \subseteq Proc
  BY <1>1 DEF Types, OtherTypes, FileTypes
<1> QED
  BY <1>1, <1>2, <1>3, <1>4, OldTypesIf, UnreadIs

-----------------------------------------------------------------------------
(* Rewriting *)

LEMMA RemoveOneIs ==
    ASSUME Types, NEW p \in Proc, RemoveOne(p)
    PROVE  \E i \in proc[p].todo :
              /\ RemoveFile(i) /\ \A k \in proc[p].todo : k <= i
              /\ FileTypes' /\ \A k \in Name : Lines(k)' = IF k = i THEN <<>> ELSE Lines(k)
              /\ \A q \in Proc : fd'[q] = IF fd[q] = i THEN Gone ELSE fd[q]
              /\ legacy' \in BOOLEAN
              /\ \/ /\ proc[p].todo # {i}
                    /\ Turns(p, proc[p].op, "remove", proc[p].todo \ {i}, proc[p].copy)
                 \/ /\ proc[p].todo = {i} /\ proc[p].copy # <<>>
                    /\ Turns(p, proc[p].op, "rewrite", {}, proc[p].copy)
                 \/ /\ proc[p].todo = {i} /\ proc[p].copy = <<>> /\ proc[p].op = "append"
                    /\ Turns(p, "append", "size", {}, <<>>)
                 \/ /\ proc[p].todo = {i} /\ proc[p].copy = <<>>
                    /\ Turns(p, "none", "idle", {}, <<>>)
<1> DEFINE i == NextSegment(p)
<1>1. proc[p] \in ProcType /\ Fits(proc[p]) /\ proc[p].copy \in Seq(Entry) /\ proc[p].todo \in SUBSET Name
  BY CopyIs
<1>2. proc[p].pc = "remove" /\ proc[p].todo # {} /\ proc[p].op \notin {"none", "list"}
  BY <1>1 DEF RemoveOne, AtPc, Fits
<1>3. i \in proc[p].todo /\ i \in Name /\ \A k \in proc[p].todo : k <= i
  BY <1>1, <1>2, LastToRead DEF NextSegment
<1>4. /\ RemoveFile(i) /\ legacy' = (legacy /\ i # 0)
      /\ IF proc[p].todo # {i} THEN proc' = [proc EXCEPT ![p].todo = @ \ {i}]
         ELSE IF proc[p].copy # <<>>
         THEN proc' = [proc EXCEPT ![p].todo = {}, ![p].pc = "rewrite"]
         ELSE IF proc[p].op = "append"
         THEN proc' = [proc EXCEPT ![p].todo = {}, ![p].pc = "size"]
         ELSE Done(p)
  BY DEF RemoveOne
<1>5. proc \in [Proc -> ProcType]
  BY DEF Types, ProcTypes
<1> HIDE DEF i
<1>6. /\ FileTypes' /\ \A k \in Name : Lines(k)' = IF k = i THEN <<>> ELSE Lines(k)
      /\ \A q \in Proc : fd'[q] = IF fd[q] = i THEN Gone ELSE fd[q]
      /\ legacy' \in BOOLEAN
  BY <1>3, <1>4, RemoveFileDoes DEF Types, OtherTypes
<1>7. CASE proc[p].todo # {i}
  <2>1. proc' = [proc EXCEPT ![p].todo = proc[p].todo \ {i}]
    BY <1>1, <1>4, <1>7
  <2>2. /\ proc' \in [Proc -> ProcType] /\ \A q \in Proc : q # p => proc'[q] = proc[q]
        /\ proc'[p].op = proc[p].op /\ proc'[p].pc = "remove"
        /\ proc'[p].todo = proc[p].todo \ {i} /\ proc'[p].copy = proc[p].copy
    BY <1>1, <1>2, <1>5, <2>1 DEF ProcType
  <2>3. Fits(proc[p])'
    BY <1>2, <1>3, <1>7, <2>2 DEF Fits
  <2>4. Turns(p, proc[p].op, "remove", proc[p].todo \ {i}, proc[p].copy)
    BY <2>2, <2>3 DEF Turns, OnlyMoves
  <2> QED
    BY <1>3, <1>4, <1>6, <1>7, <2>4
<1>8. CASE proc[p].todo = {i} /\ proc[p].copy # <<>>
  <2>1. proc' = [proc EXCEPT ![p].todo = {}, ![p].pc = "rewrite"]
    BY <1>4, <1>8
  <2>2. /\ proc' \in [Proc -> ProcType] /\ \A q \in Proc : q # p => proc'[q] = proc[q]
        /\ proc'[p].op = proc[p].op /\ proc'[p].pc = "rewrite"
        /\ proc'[p].todo = {} /\ proc'[p].copy = proc[p].copy
    BY <1>1, <1>5, <2>1 DEF ProcType
  <2>3. Fits(proc[p])'
    BY <1>2, <2>2 DEF Fits
  <2>4. Turns(p, proc[p].op, "rewrite", {}, proc[p].copy)
    BY <2>2, <2>3 DEF Turns, OnlyMoves
  <2> QED
    BY <1>3, <1>4, <1>6, <1>8, <2>4
<1>9. CASE proc[p].todo = {i} /\ proc[p].copy = <<>> /\ proc[p].op = "append"
  <2>1. proc' = [proc EXCEPT ![p].todo = {}, ![p].pc = "size"]
    BY <1>4, <1>9
  <2>2. /\ proc' \in [Proc -> ProcType] /\ \A q \in Proc : q # p => proc'[q] = proc[q]
        /\ proc'[p].op = "append" /\ proc'[p].pc = "size"
        /\ proc'[p].todo = {} /\ proc'[p].copy = <<>>
    BY <1>1, <1>5, <1>9, <2>1 DEF ProcType
  <2>3. Fits(proc[p])'
    BY <2>2 DEF Fits
  <2>4. Turns(p, "append", "size", {}, <<>>)
    BY <2>2, <2>3 DEF Turns, OnlyMoves
  <2> QED
    BY <1>3, <1>4, <1>6, <1>9, <2>4
<1>10. CASE proc[p].todo = {i} /\ proc[p].copy = <<>> /\ proc[p].op # "append"
  <2>1. Turns(p, "none", "idle", {}, <<>>)
    BY <1>4, <1>10, DoneIs
  <2> QED
    BY <1>3, <1>4, <1>6, <1>10, <2>1
<1> QED
  BY <1>7, <1>8, <1>9, <1>10

LEMMA HeldLess ==
    ASSUME NEW k, Lines(k)' = <<>> \/ \E j \in Name : Lines(k)' = Lines(j)
    PROVE  Held(k)' \subseteq Stored
<1>1. CASE Lines(k)' = <<>>
  BY <1>1, EmptyIs DEF Held
<1>2. ASSUME NEW j \in Name, Lines(k)' = Lines(j) PROVE Held(k)' \subseteq Stored
  BY <1>2 DEF Held, Stored
<1> QED
  BY <1>1, <1>2

LEMMA RemoveOneTypes ==
    ASSUME Types, NEW p \in Proc, RemoveOne(p), tainted' \in BOOLEAN
    PROVE  Types'
<1>1. /\ FileTypes' /\ legacy' \in BOOLEAN /\ \A k \in Name : Lines(k)' = <<>> \/ Lines(k)' = Lines(k)
      /\ OnlyMoves(p) /\ Fits(proc[p])' /\ proc'[p].op \in {proc[p].op, "none"}
      /\ Range(proc'[p].copy) \subseteq Range(proc[p].copy)
  BY RemoveOneIs, EmptyIs DEF Turns
<1>2. UNCHANGED <<last, expected>> /\ mixed' \subseteq Proc
  BY DEF RemoveOne, Types, OtherTypes
<1>3. Known(Range(proc'[p].copy))
  BY <1>1 DEF Known, Types, CopiesKnown
<1>4. \A k \in Name : Held(k)' \subseteq Stored
  BY <1>1, HeldLess
<1> QED
  BY <1>1, <1>2, <1>3, <1>4, OldTypesIf

LEMMA CopyLines ==
    ASSUME NEW entries \in Seq(Entry)
    PROVE  /\ LineTypes(entries) /\ Range(entries) \cap Entry = Range(entries)
           /\ Rising(entries) => RisingIn(entries, Entry)
<1>1. /\ Len(entries) \in Nat /\ \A k \in 1..Len(entries) : entries[k] \in Entry
      /\ Range(entries) \subseteq Entry
  BY LenProperties, ElementOfSeq, RangeIs
<1>2. entries \in Seq(Line)
  BY DEF Line
<1>3. \A k \in 1..Len(entries) - 1 : entries[k] # Torn
  BY <1>1, EntriesAre
<1> QED
  BY <1>1, <1>2, <1>3 DEF LineTypes, Rising, RisingIn

LEMMA RewriteIs ==
    ASSUME Types, NEW p \in Proc, Rewrite(p)
    PROVE  /\ FileTypes' /\ \A k \in Name : Lines(k)' = IF k = 0 THEN proc[p].copy ELSE Lines(k)
           /\ \A q \in Proc : fd'[q] = IF fd[q] = 0 THEN Gone ELSE fd[q]
           /\ \/ proc[p].op = "append" /\ Turns(p, "append", "size", {}, <<>>)
              \/ Turns(p, "none", "idle", {}, <<>>)
<1>1. proc[p] \in ProcType /\ Fits(proc[p]) /\ proc[p].copy \in Seq(Entry) /\ proc[p].pc = "rewrite"
  BY CopyIs DEF Rewrite, AtPc
<1>2. /\ files' = FileWith(0, proc[p].copy)
      /\ fd' = [q \in Proc |-> IF fd[q] = 0 THEN Gone ELSE fd[q]]
      /\ IF proc[p].op = "append"
         THEN proc' = [proc EXCEPT ![p].copy = <<>>, ![p].pc = "size"]
         ELSE Done(p)
  BY DEF Rewrite
<1>3. \A q \in Proc : fd'[q] = IF fd[q] = 0 THEN Gone ELSE fd[q]
  BY <1>2
<1>4. fd' = [q \in Proc |-> fd'[q]]
  BY <1>2, <1>3
<1>5. FileTypes' /\ \A k \in Name : Lines(k)' = IF k = 0 THEN proc[p].copy ELSE Lines(k)
  BY <1>1, <1>2, <1>3, <1>4, CopyLines, FileWithDoes DEF Types
<1>6. CASE proc[p].op = "append"
  <2>1. proc \in [Proc -> ProcType] /\ <<>> \in Seq(Entry) /\ proc[p].todo = {}
    BY <1>1 DEF Types, ProcTypes, Fits
  <2>2. /\ proc' \in [Proc -> ProcType] /\ \A q \in Proc : q # p => proc'[q] = proc[q]
        /\ proc'[p].op = "append" /\ proc'[p].pc = "size"
        /\ proc'[p].todo = {} /\ proc'[p].copy = <<>>
    BY <1>1, <1>2, <1>6, <2>1 DEF ProcType
  <2>3. Fits(proc[p])'
    BY <2>2 DEF Fits
  <2>4. Turns(p, "append", "size", {}, <<>>)
    BY <2>2, <2>3 DEF Turns, OnlyMoves
  <2> QED
    BY <1>3, <1>5, <1>6, <2>4
<1>7. CASE proc[p].op # "append"
  BY <1>2, <1>3, <1>5, <1>7, DoneIs
<1> QED
  BY <1>6, <1>7

LEMMA RewriteTypes ==
    ASSUME Types, NEW p \in Proc, Rewrite(p), tainted' \in BOOLEAN
    PROVE  Types'
<1>1. /\ FileTypes' /\ \A k \in Name : Lines(k)' = IF k = 0 THEN proc[p].copy ELSE Lines(k)
      /\ OnlyMoves(p) /\ Fits(proc[p])' /\ proc'[p].op \in {proc[p].op, "none"} /\ proc'[p].copy = <<>>
  BY RewriteIs DEF Turns
<1>2. UNCHANGED <<legacy, last, expected>> /\ mixed' \subseteq Proc /\ legacy' \in BOOLEAN
  BY DEF Rewrite, Types, OtherTypes
<1>3. Known(Range(proc'[p].copy))
  BY <1>1, EmptyIs DEF Known
<1>4. \A k \in Name : Held(k)' \subseteq Stored \cup Range(proc[p].copy)
  BY <1>1 DEF Held, Stored
<1> QED
  BY <1>1, <1>2, <1>3, <1>4, OldTypesIf

-----------------------------------------------------------------------------
(* Rotating *)

Ready(pc, seg) ==
    \/ pc = "oldest" /\ seg > 0
    \/ pc = "shift" /\ seg + 1 \in Name
    \/ pc = "open"

\* A process goes on with the same copy and nothing to read.
LEMMA GoesOn ==
    ASSUME Types, NEW p \in Proc, NEW pc, NEW seg \in Name,
           proc' = [proc EXCEPT ![p].seg = seg, ![p].pc = pc], proc[p].op = "append",
           Ready(pc, seg)
    PROVE  Turns(p, "append", pc, proc[p].todo, proc[p].copy) /\ proc'[p].seg = seg
<1>1. proc[p] \in ProcType /\ proc \in [Proc -> ProcType]
  BY CopyIs DEF Types, ProcTypes
<1>2. /\ proc' \in [Proc -> ProcType] /\ \A q \in Proc : q # p => proc'[q] = proc[q]
      /\ proc'[p].op = proc[p].op /\ proc'[p].pc = pc /\ proc'[p].seg = seg
      /\ proc'[p].todo = proc[p].todo /\ proc'[p].copy = proc[p].copy
  BY <1>1 DEF ProcType, Ready
<1>3. Fits(proc[p])'
  BY <1>2 DEF Fits, Ready
<1> QED
  BY <1>2, <1>3 DEF Turns, OnlyMoves

LEMMA Appends ==
    ASSUME Types, NEW p \in Proc, proc[p].pc \in {"size", "oldest", "shift", "open", "write"}
    PROVE  proc[p].op = "append"
BY CopyIs DEF Fits

LEMMA SizeIs ==
    ASSUME Types, NEW p \in Proc, Size(p)
    PROVE  /\ proc[p].op = "append" /\ UNCHANGED <<files, legacy, fd, last, expected, mixed>>
           /\ \/ TooFull /\ Turns(p, "append", "oldest", proc[p].todo, proc[p].copy)
              \/ ~TooFull /\ Turns(p, "append", "open", proc[p].todo, proc[p].copy)
<1>1. proc[p].op = "append" /\ proc[p].seg \in Name /\ proc[p] \in ProcType /\ proc \in [Proc -> ProcType]
  BY CopyIs, Appends DEF Size, AtPc, Types, ProcTypes
<1>2. UNCHANGED <<files, legacy, fd, last, expected, mixed>>
  BY DEF Size
<1>3. CASE TooFull
  <2>1. PICK count \in Counts : proc' = [proc EXCEPT ![p].seg = count, ![p].pc = "oldest"]
    BY <1>3 DEF Size
  <2>2. count \in Name /\ Ready("oldest", count)
    BY NamesAre DEF Ready
  <2>3. Turns(p, "append", "oldest", proc[p].todo, proc[p].copy)
    BY <1>1, <2>1, <2>2, GoesOn
  <2> QED
    BY <1>1, <1>2, <1>3, <2>3
<1>4. CASE ~TooFull
  <2>1. proc' = [proc EXCEPT ![p].pc = "open"]
    BY <1>4 DEF Size
  <2>2. /\ proc' \in [Proc -> ProcType] /\ \A q \in Proc : q # p => proc'[q] = proc[q]
        /\ proc'[p].op = "append" /\ proc'[p].pc = "open"
        /\ proc'[p].todo = proc[p].todo /\ proc'[p].copy = proc[p].copy
    BY <1>1, <2>1 DEF ProcType
  <2>3. Fits(proc[p])'
    BY <2>2 DEF Fits
  <2> QED
    BY <1>1, <1>2, <1>4, <2>2, <2>3 DEF Turns, OnlyMoves
<1> QED
  BY <1>3, <1>4

LEMMA SizeTypes ==
    ASSUME Types, NEW p \in Proc, Size(p), tainted' \in BOOLEAN
    PROVE  Types'
<1>1. /\ UNCHANGED <<files, legacy, fd, last, expected, mixed>>
      /\ OnlyMoves(p) /\ Fits(proc[p])' /\ proc'[p].op = proc[p].op /\ proc'[p].copy = proc[p].copy
  BY SizeIs DEF Turns
<1>2. Known(Range(proc'[p].copy))
  BY <1>1 DEF Known, Types, CopiesKnown
<1> QED
  BY <1>1, <1>2, OldTypesIf, FilesKept, UnreadIs

LEMMA OldestIs ==
    ASSUME Types, NEW p \in Proc, Oldest(p)
    PROVE  \E i \in Name :
              /\ i = proc[p].seg /\ i - 1 \in Name /\ proc'[p].seg = i - 1
              /\ FileTypes' /\ \A k \in Name : Lines(k)' = IF k = i THEN <<>> ELSE Lines(k)
              /\ \A q \in Proc : fd'[q] = IF fd[q] = i THEN Gone ELSE fd[q]
              /\ expected' = Without(expected, Range(Lines(i)))
              /\ Turns(p, "append", "shift", proc[p].todo, proc[p].copy)
<1> DEFINE i == proc[p].seg
<1>1. /\ proc[p].op = "append" /\ i \in Name /\ i > 0
  BY CopyIs, Appends DEF Oldest, AtPc, Fits
<1>2. i - 1 \in Name
  BY <1>1, NamesAre DEF Name
<1>3. proc' = [proc EXCEPT ![p].seg = i - 1, ![p].pc = "shift"]
  <2>1. proc[p] \in ProcType /\ proc \in [Proc -> ProcType]
    BY CopyIs DEF Types, ProcTypes
  <2> QED
    BY <2>1 DEF Oldest
<1>4. Turns(p, "append", "shift", proc[p].todo, proc[p].copy) /\ proc'[p].seg = i - 1
  <2> DEFINE j == i - 1
  <2>1. j \in Name /\ Ready("shift", j) /\ proc' = [proc EXCEPT ![p].seg = j, ![p].pc = "shift"]
    BY <1>1, <1>2, <1>3, NamesAre DEF Ready
  <2> HIDE DEF j
  <2>2. Turns(p, "append", "shift", proc[p].todo, proc[p].copy) /\ proc'[p].seg = j
    BY <1>1, <2>1, GoesOn
  <2> QED
    BY <2>2 DEF j
<1>5. RemoveFile(i) /\ expected' = Without(expected, Range(Lines(i)))
  BY DEF Oldest
<1> HIDE DEF i
<1>6. /\ FileTypes' /\ \A k \in Name : Lines(k)' = IF k = i THEN <<>> ELSE Lines(k)
      /\ \A q \in Proc : fd'[q] = IF fd[q] = i THEN Gone ELSE fd[q]
  BY <1>1, <1>5, RemoveFileDoes DEF Types
<1> QED
  BY <1>1, <1>2, <1>4, <1>5, <1>6 DEF i

LEMMA OldestTypes ==
    ASSUME Types, NEW p \in Proc, Oldest(p), tainted' \in BOOLEAN
    PROVE  Types'
<1>1. /\ FileTypes' /\ \A k \in Name : Lines(k)' = <<>> \/ Lines(k)' = Lines(k)
      /\ OnlyMoves(p) /\ Fits(proc[p])' /\ proc'[p].op = "append" /\ proc'[p].copy = proc[p].copy
      /\ \E gone : expected' = Without(expected, gone)
  BY OldestIs DEF Turns
<1>2. UNCHANGED <<legacy, last, mixed>> /\ mixed' \subseteq Proc /\ legacy' \in BOOLEAN /\ proc[p].op = "append"
  BY Appends DEF Oldest, Types, OtherTypes, AtPc
<1>3. Known(Range(proc'[p].copy))
  BY <1>1 DEF Known, Types, CopiesKnown
<1>4. \A k \in Name : Held(k)' \subseteq Stored
  BY <1>1, HeldLess
<1> QED
  BY <1>1, <1>2, <1>3, <1>4, OldTypesIf

LEMMA ShiftIs ==
    ASSUME Types, NEW p \in Proc, Shift(p)
    PROVE  \E i \in Name :
              /\ i = proc[p].seg /\ i + 1 \in Name /\ proc[p].pc = "shift" /\ FileTypes' /\ Moved(i)
              /\ \/ i > 0 /\ proc'[p].seg = i - 1 /\ Turns(p, "append", "shift", proc[p].todo, proc[p].copy)
                 \/ i = 0 /\ Turns(p, "append", "open", proc[p].todo, proc[p].copy)
<1>0. PICK i : i = proc[p].seg
  OBVIOUS
<1>1. /\ proc[p].op = "append" /\ i \in Name /\ i + 1 \in Name /\ i \in Nat /\ proc[p].pc = "shift"
  BY <1>0, CopyIs, Appends DEF Shift, AtPc, Fits
<1>2. RenameFile(i, i + 1)
      /\ proc' = [proc EXCEPT ![p].seg = IF i > 0 THEN i - 1 ELSE 0,
                              ![p].pc = IF i > 0 THEN "shift" ELSE "open"]
  BY <1>0 DEF Shift
<1>3. ASSUME i > 0
      PROVE  proc'[p].seg = i - 1 /\ Turns(p, "append", "shift", proc[p].todo, proc[p].copy)
  <2> DEFINE j == i - 1
  <2>1. j \in Name /\ Ready("shift", j)
    BY <1>1, <1>3, NamesAre DEF Name, Ready
  <2>2. proc' = [proc EXCEPT ![p].seg = j, ![p].pc = "shift"]
    BY <1>2, <1>3
  <2> HIDE DEF j
  <2>3. Turns(p, "append", "shift", proc[p].todo, proc[p].copy) /\ proc'[p].seg = j
    BY <1>1, <2>1, <2>2, GoesOn
  <2> QED
    BY <2>3 DEF j
<1>4. ASSUME i = 0 PROVE Turns(p, "append", "open", proc[p].todo, proc[p].copy)
  <2>1. proc' = [proc EXCEPT ![p].seg = 0, ![p].pc = "open"] /\ 0 \in Name /\ Ready("open", 0)
    BY <1>2, <1>4, NamesAre DEF Ready
  <2> QED
    BY <1>1, <2>1, GoesOn
<1>5. FileTypes /\ RenameFile(i, i + 1)
  BY <1>2 DEF Types
<1>6. FileTypes' /\ Moved(i)
  BY <1>1, <1>5, RenameFileDoes
<1> QED
  BY <1>0, <1>1, <1>3, <1>4, <1>6

LEMMA ShiftTypes ==
    ASSUME Types, NEW p \in Proc, Shift(p), tainted' \in BOOLEAN
    PROVE  Types'
<1>1. /\ FileTypes' /\ \A k \in Name : Lines(k)' = <<>> \/ \E j \in Name : Lines(k)' = Lines(j)
      /\ OnlyMoves(p) /\ Fits(proc[p])' /\ proc'[p].op = "append" /\ proc'[p].copy = proc[p].copy
  BY ShiftIs DEF Turns, Moved
<1>2. UNCHANGED <<legacy, last, expected, mixed>> /\ mixed' \subseteq Proc /\ legacy' \in BOOLEAN
      /\ proc[p].op = "append"
  BY Appends DEF Shift, Types, OtherTypes, AtPc
<1>3. Known(Range(proc'[p].copy))
  BY <1>1 DEF Known, Types, CopiesKnown
<1>4. \A k \in Name : Held(k)' \subseteq Stored
  BY <1>1, HeldLess
<1> QED
  BY <1>1, <1>2, <1>3, <1>4, OldTypesIf

-----------------------------------------------------------------------------
(* Writing *)

LEMMA OpenIs ==
    ASSUME Types, NEW p \in Proc, Open(p)
    PROVE  /\ FileTypes' /\ \A k \in Name : Lines(k)' = Lines(k)
           /\ fd'[p] = 0 /\ \A q \in Proc : q # p => fd'[q] = fd[q]
           /\ Turns(p, "append", "write", proc[p].todo, proc[p].copy) /\ proc[p].pc = "open"
<1>1. /\ files' = FileWith(0, Lines(0)) /\ fd' = [fd EXCEPT ![p] = 0]
      /\ proc' = [proc EXCEPT ![p].pc = "write"] /\ proc[p].pc = "open"
  BY DEF Open, AtPc
<1>2. fd = [q \in Proc |-> fd[q]]
  BY DEF Types, FileTypes
<1>3. fd'[p] = 0 /\ \A q \in Proc : q # p => fd'[q] = fd[q]
  BY <1>1, <1>2
<1>4. fd' = [q \in Proc |-> fd'[q]]
  BY <1>1, <1>2
<1>5. \A q \in Proc : fd'[q] \in {0, Gone, fd[q]}
  BY <1>3
<1>6. FileTypes' /\ \A k \in Name : Lines(k)' = IF k = 0 THEN Lines(0) ELSE Lines(k)
  BY <1>1, <1>4, <1>5, LinesAre, FileWithDoes DEF Types
<1>7. proc[p] \in ProcType /\ proc \in [Proc -> ProcType] /\ proc[p].op = "append"
  BY <1>1, CopyIs, Appends DEF Types, ProcTypes
<1>8. /\ proc' \in [Proc -> ProcType] /\ \A q \in Proc : q # p => proc'[q] = proc[q]
      /\ proc'[p].op = "append" /\ proc'[p].pc = "write"
      /\ proc'[p].todo = proc[p].todo /\ proc'[p].copy = proc[p].copy
  BY <1>1, <1>7 DEF ProcType
<1>9. Fits(proc[p])'
  BY <1>8 DEF Fits
<1> QED
  BY <1>1, <1>3, <1>6, <1>8, <1>9 DEF Turns, OnlyMoves

LEMMA OpenTypes ==
    ASSUME Types, NEW p \in Proc, Open(p), tainted' \in BOOLEAN
    PROVE  Types'
<1>1. /\ FileTypes' /\ \A k \in Name : Lines(k)' = <<>> \/ \E j \in Name : Lines(k)' = Lines(j)
      /\ OnlyMoves(p) /\ Fits(proc[p])' /\ proc'[p].op = "append" /\ proc'[p].copy = proc[p].copy
  BY OpenIs DEF Turns
<1>2. UNCHANGED <<legacy, last, expected, mixed>> /\ mixed' \subseteq Proc /\ legacy' \in BOOLEAN
      /\ proc[p].op = "append"
  BY Appends DEF Open, Types, OtherTypes, AtPc
<1>3. Known(Range(proc'[p].copy))
  BY <1>1 DEF Known, Types, CopiesKnown
<1>4. \A k \in Name : Held(k)' \subseteq Stored
  BY <1>1, HeldLess
<1> QED
  BY <1>1, <1>2, <1>3, <1>4, OldTypesIf

LEMMA PutIs ==
    ASSUME Types, NEW p \in Proc, NEW line \in Entry \cup {Torn}, Put(p, line)
    PROVE  /\ FileTypes' /\ \A k \in Name : Lines(k)' = IF k = fd[p] THEN Extended(Lines(k), line) ELSE Lines(k)
           /\ fd'[p] = Gone /\ \A q \in Proc : q # p => fd'[q] = fd[q]
           /\ proc[p].pc = "write" /\ proc[p].op = "append" /\ Turns(p, "none", "idle", {}, <<>>)
           /\ UNCHANGED <<legacy, mixed>>
<1>1. /\ proc[p].pc = "write" /\ proc[p].op = "append" /\ Turns(p, "none", "idle", {}, <<>>)
      /\ fd' = [fd EXCEPT ![p] = Gone] /\ UNCHANGED <<legacy, mixed>>
      /\ files' = IF fd[p] = Gone THEN files ELSE [files EXCEPT ![fd[p]] = Extended(@, line)]
  BY DoneIs, Appends DEF Put, AtPc
<1>2. /\ fd = [q \in Proc |-> fd[q]] /\ \A q \in Proc : fd[q] \in DOMAIN files \cup {Gone}
      /\ DOMAIN files \subseteq Name /\ Gone \notin Name /\ FileTypes /\ files = [i \in DOMAIN files |-> files[i]]
  BY NamesAre DEF Types, FileTypes, Gone
<1>3. fd'[p] = Gone /\ (\A q \in Proc : q # p => fd'[q] = fd[q]) /\ fd' = [q \in Proc |-> fd'[q]]
  BY <1>1, <1>2
<1>4. CASE fd[p] = Gone
  <2>1. FileTypes' /\ \A k \in Name : Lines(k)' = Lines(k) /\ k # fd[p]
    BY <1>1, <1>2, <1>3, <1>4, SameFiles DEF FileTypes
  <2> QED
    BY <1>1, <1>3, <2>1
<1>5. CASE fd[p] # Gone
  <2> DEFINE i == fd[p]
             new == Extended(files[i], line)
  <2>1. i \in DOMAIN files /\ i \in Name /\ files' = [files EXCEPT ![i] = new]
    BY <1>1, <1>2, <1>5
  <2>2. Lines(i) = files[i] /\ LineTypes(files[i])
    BY <1>2, <2>1, LinesAre
  <2>3. LineTypes(new)
    <3>1. LineTypes(Extended(files[i], line))
      <4> HIDE DEF i
      <4> QED
        BY <2>2, ExtendedIs DEF ExtendsTo
    <3> QED
      BY <3>1
  <2> HIDE DEF new
  <2>4. DOMAIN files' = DOMAIN files /\ \A k \in DOMAIN files : files'[k] = IF k = i THEN new ELSE files[k]
    BY <2>1
  <2>5. files' = [k \in DOMAIN files' |-> files'[k]]
    BY <1>2, <2>1
  <2>8. \A k \in DOMAIN files' : files'[k] \in Seq(Line) /\ \A n \in 1..Len(files'[k]) - 1 : files'[k][n] # Torn
    BY <1>2, <2>3, <2>4 DEF FileTypes, LineTypes
  <2>9. \A q \in Proc : fd'[q] \in DOMAIN files' \cup {Gone}
    BY <1>2, <1>3, <2>4
  <2>6. FileTypes'
    BY <1>2, <1>3, <2>4, <2>5, <2>8, <2>9 DEF FileTypes
  <2>7. \A k \in Name : Lines(k)' = IF k = i THEN Extended(Lines(k), line) ELSE Lines(k)
    BY <2>1, <2>2, <2>4 DEF Lines, new
  <2> QED
    BY <1>1, <1>3, <2>6, <2>7
<1> QED
  BY <1>4, <1>5

\* The next entry is free as long as a process appends.
LEMMA NextEntry ==
    ASSUME OtherTypes, NEW p \in Proc, proc[p].op = "append", proc'[p].op = "none",
           \A q \in Proc : q # p => proc'[q] = proc[q]
    PROVE  /\ last + 1 \in Entry /\ last \in Nat
           /\ Cardinality(Appending') = Cardinality(Appending) - 1 /\ Cardinality(Appending') \in Nat
<1>1. Appending' = Appending \ {p} /\ p \in Appending
  BY DEF Appending
<1>2. /\ Cardinality(Appending') = Cardinality(Appending) - 1 /\ Cardinality(Appending) \in Nat
      /\ IsFiniteSet(Appending')
  BY <1>1, AppendingIs, FS_RemoveElement
<1>3. Cardinality(Appending') \in Nat
  BY <1>2, FS_CardinalityType
<1>4. last + 1 \in 1..MaxEntries /\ last \in Nat
  BY <1>2, <1>3, NamesAre DEF OtherTypes
<1> QED
  BY <1>2, <1>3, <1>4 DEF Entry

LEMMA WriteTypes ==
    ASSUME Types, NEW p \in Proc, Write(p), tainted' \in BOOLEAN
    PROVE  Types'
<1>1. /\ last' = last + 1 /\ Put(p, last + 1)
      /\ expected' = IF fd[p] # Gone /\ EndsTorn(files[fd[p]]) THEN expected ELSE Append(expected, last + 1)
  BY DEF Write
<1>2. /\ OtherTypes /\ proc[p].op = "append" /\ proc'[p].op = "none" /\ \A q \in Proc : q # p => proc'[q] = proc[q]
      /\ legacy' \in BOOLEAN /\ mixed' \subseteq Proc /\ Done(p)
  BY <1>1, DoneIs, Appends DEF Put, AtPc, Turns, OnlyMoves, Types, OtherTypes
<1>3. /\ last + 1 \in Entry /\ last \in Nat
      /\ Cardinality(Appending') = Cardinality(Appending) - 1 /\ Cardinality(Appending') \in Nat
  BY <1>2, NextEntry
<1>4. /\ FileTypes' /\ \A k \in Name : Lines(k)' = IF k = fd[p] THEN Extended(Lines(k), last + 1) ELSE Lines(k)
      /\ Turns(p, "none", "idle", {}, <<>>)
  BY <1>1, <1>3, PutIs
<1>5. last' \in Nat /\ last <= last' /\ last' + Cardinality(Appending') <= MaxEntries
  BY <1>1, <1>2, <1>3, NamesAre, AppendingIs DEF OtherTypes
<1>6. ASSUME NEW k \in Name PROVE Held(k)' \subseteq Held(k) \cup {last + 1}
  <2>1. CASE k = fd[p]
    <3>1. Lines(k)' = Extended(Lines(k), last + 1)
      BY <1>4, <2>1
    <3>2. LineTypes(Lines(k))
      BY LinesAre DEF Types
    <3>4. ExtendsTo(Lines(k), last + 1, Extended(Lines(k), last + 1))
      BY <1>3, <3>2, ExtendedIs
    <3>3. \A e \in Entry : e \in Range(Lines(k)') => e \in Range(Lines(k)) \/ e = last + 1
      BY <3>1, <3>4 DEF ExtendsTo
    <3> QED
      BY <3>3 DEF Held
  <2>2. CASE k # fd[p]
    BY <1>4, <2>2 DEF Held
  <2> QED
    BY <2>1, <2>2
<1>7. \A e \in Stored' : e \in Stored \/ e = last + 1
  BY <1>6 DEF Stored
<1>8. \A entries \in SUBSET Entry : Known(entries) => \A e \in entries : e <= last'
  BY <1>1, <1>3, EntriesAre DEF Known
<1>9. Stored \in SUBSET Entry
  BY HeldIs DEF Stored, Types
<1>10. LogKnown'
  BY <1>1, <1>3, <1>5, <1>7, <1>8, <1>9 DEF LogKnown, Known, Types
<1>11. expected \in Seq(Entry) /\ Rising(expected) /\ Known(Range(expected)) /\ Range(expected) \in SUBSET Entry
  BY RangeIs DEF Types, OtherTypes, HistoryKnown
<1>12. expected' \in Seq(Entry) /\ HistoryKnown'
  <2>1. CASE expected' = expected
    BY <1>8, <1>11, <2>1 DEF HistoryKnown, Known
  <2>2. CASE expected' = Append(expected, last + 1)
    <3>1. expected' \in Seq(Entry) /\ Range(expected') = Range(expected) \cup {last + 1}
      BY <1>3, <1>11, <2>2, RangeAppended
    <3>2. ASSUME NEW e \in Range(expected) PROVE e < last + 1
      <4>1. e <= last /\ e \in Nat
        BY <1>11, EntriesAre DEF Known
      <4> QED
        BY <1>3, <4>1
    <3>3. Rising(expected')
      BY <1>3, <1>11, <2>2, <3>2, EntriesAre, RisingAppended
    <3>4. Known(Range(expected))'
      BY <1>1, <1>3, <1>8, <1>11, <3>1 DEF Known
    <3> QED
      BY <3>1, <3>3, <3>4 DEF HistoryKnown
  <2> QED
    BY <1>1, <2>1, <2>2
<1>13. OnlyMoves(p) /\ Fits(proc[p])' /\ Known(Range(proc[p].copy))'
  BY <1>4, EmptyIs DEF Turns, Known
<1> QED
  BY <1>2, <1>4, <1>5, <1>10, <1>12, <1>13, TypesIf

LEMMA WriteFailsTypes ==
    ASSUME Types, NEW p \in Proc, WriteFails(p), tainted' \in BOOLEAN
    PROVE  Types'
<1>1. Put(p, Torn) /\ UNCHANGED <<last, expected>>
  BY DEF WriteFails
<1>2. /\ FileTypes' /\ \A k \in Name : Lines(k)' = IF k = fd[p] THEN Extended(Lines(k), Torn) ELSE Lines(k)
      /\ Turns(p, "none", "idle", {}, <<>>) /\ UNCHANGED <<legacy, mixed>>
  BY <1>1, PutIs
<1>3. ASSUME NEW k \in Name PROVE Held(k)' \subseteq Stored
  <2>1. CASE k = fd[p]
    <3>1. Lines(k)' = Extended(Lines(k), Torn)
      BY <1>2, <2>1
    <3>2. LineTypes(Lines(k))
      BY LinesAre DEF Types
    <3>4. ExtendsTo(Lines(k), Torn, Extended(Lines(k), Torn))
      BY <3>2, ExtendedIs
    <3>3. \A e \in Entry : e \in Range(Lines(k)') => e \in Range(Lines(k)) \/ e = Torn
      BY <3>1, <3>4 DEF ExtendsTo
    <3> QED
      BY <3>3, EntriesAre DEF Held, Stored
  <2>2. CASE k # fd[p]
    BY <1>2, <2>2 DEF Held, Stored
  <2> QED
    BY <2>1, <2>2
<1>4. /\ OnlyMoves(p) /\ Fits(proc[p])' /\ proc'[p].op = "none" /\ Known(Range(proc'[p].copy))
      /\ legacy' \in BOOLEAN /\ mixed' \subseteq Proc
  BY <1>2, EmptyIs DEF Turns, Known, Types, OtherTypes
<1> QED
  BY <1>1, <1>2, <1>3, <1>4, OldTypesIf

LEMMA CrashTypes ==
    ASSUME Types, NEW p \in Proc, Crash(p), tainted' \in BOOLEAN
    PROVE  Types'
<1>1. /\ Done(p) /\ fd' = [fd EXCEPT ![p] = Gone] /\ mixed' = mixed \ {p}
      /\ UNCHANGED <<files, legacy, last, expected>>
  BY DEF Crash
<1>2. OnlyMoves(p) /\ Fits(proc[p])' /\ proc'[p].op = "none" /\ Known(Range(proc'[p].copy))
  BY <1>1, DoneIs, EmptyIs DEF Turns, Known
<1>3. FileTypes' /\ legacy' \in BOOLEAN /\ mixed' \subseteq Proc
  BY <1>1 DEF Types, OtherTypes, FileTypes
<1> QED
  BY <1>1, <1>2, <1>3, OldTypesIf, UnreadIs

LEMMA StepTypes ==
    ASSUME Types, NEW p \in Proc, Step(p), tainted' \in BOOLEAN
    PROVE  Types'
BY BeginAppendTypes, BeginReadTypes, BeginClearTypes, ReadTypes, DecideTypes, ListedTypes, RemoveOneTypes,
   RewriteTypes, SizeTypes, OldestTypes, ShiftTypes, OpenTypes, WriteTypes, WriteFailsTypes DEF Step

-----------------------------------------------------------------------------
(* Steps that only change what one process knows keep the promises *)

LEMMA QuietBudget ==
    ASSUME Types, Types', Budget, LinesStay, NEW p \in Proc, \A q \in Proc : q # p => proc'[q] = proc[q],
           proc'[p].pc \in {"open", "write"} => proc[p].pc \in {"open", "write"}
    PROVE  Budget'
<1>1. Writers' \subseteq Writers
  BY DEF Writers
<1>2. Lines(0)' = Lines(0) /\ Len(Lines(0)) \in Nat
  BY SameLines, LinesAre DEF LineTypes, Types
<1> QED
  BY <1>1, <1>2, BudgetKeeps DEF Types

LEMMA StartsReading ==
    ASSUME Types, LinesStay, NEW p \in Proc, NEW op, Turns(p, op, "read", Segments, <<>>)
    PROVE  Good(p)'
<1>1. proc'[p].pc = "read" /\ proc'[p].todo = Segments /\ proc'[p].copy = <<>>
  BY DEF Turns
<1>2. InOrder(p)'
  BY <1>1, EmptyIs DEF InOrder
<1>3. Stored' = Stored /\ Stored = UNION {Held(k) : k \in Segments} /\ \A k : Held(k)' = Held(k)
  BY SameLines, SegmentsAre DEF Types
<1>4. Complete(p)'
  BY <1>1, <1>3, EmptyIs DEF Complete
<1> QED
  BY <1>1, <1>2, <1>4 DEF Good, Taken, Hole, Opened

\* A process that is idle, or appends and has nothing to keep, is in order.
LEMMA GoodIf ==
    ASSUME NEW p, proc'[p].pc \in {"idle", "size", "oldest", "open"}
    PROVE  Good(p)'
BY DEF Good, InOrder, Complete, Taken, Hole, Opened

LEMMA BeginAppendSafe ==
    ASSUME Types, Types', Safe, NEW p \in Proc, BeginAppend(p), ~Conflict'
    PROVE  Safe'
<1>1. UNCHANGED <<files, fd, expected, mixed>> /\ LinesStay
  BY SameFiles DEF BeginAppend, Begin
<1>2. /\ proc[p].op = "none"
      /\ Turns(p, "append", "read", Segments, <<>>) \/ Turns(p, "append", "size", {}, <<>>)
  BY BeginAppendIs
<1>3. Good(p)'
  <2>1. CASE Turns(p, "append", "read", Segments, <<>>)
    BY <1>1, <2>1, StartsReading
  <2>2. CASE Turns(p, "append", "size", {}, <<>>)
    BY <2>2, GoodIf DEF Turns
  <2> QED
    BY <1>2, <2>1, <2>2
<1>4. /\ \A q \in Proc : q # p => proc'[q] = proc[q]
      /\ proc'[p].pc \in {"read", "size"} /\ proc[p].pc = "idle"
  BY <1>2, CopyIs DEF Turns, OnlyMoves, Fits
<1>5. Budget'
  BY <1>1, <1>4, QuietBudget DEF Safe
<1> QED
  BY <1>1, <1>3, <1>4, <1>5, QuietStep

LEMMA BeginReadSafe ==
    ASSUME Types, Types', Safe, NEW p \in Proc, BeginRead(p), ~Conflict'
    PROVE  Safe'
<1>1. UNCHANGED <<files, fd, expected, mixed>> /\ LinesStay /\ proc[p].op = "none"
  BY BeginReadIs, SameFiles
<1>2. PICK op : Turns(p, op, "read", Segments, <<>>)
  BY BeginReadIs
<1>3. Good(p)'
  BY <1>1, <1>2, StartsReading
<1>4. /\ \A q \in Proc : q # p => proc'[q] = proc[q]
      /\ proc'[p].pc = "read" /\ proc[p].pc = "idle"
  BY <1>1, <1>2, CopyIs DEF Turns, OnlyMoves, Fits
<1>5. Budget'
  BY <1>1, <1>4, QuietBudget DEF Safe
<1> QED
  BY <1>1, <1>3, <1>4, <1>5, QuietStep

LEMMA ReadSafe ==
    ASSUME Types, Types', Safe, NEW p \in Proc, Read(p), ~Conflict'
    PROVE  Safe'
<1>1. UNCHANGED <<files, fd, expected, mixed>> /\ LinesStay /\ proc[p].pc = "read"
  BY SameFiles DEF Read, AtPc
<1>2. PICK i \in proc[p].todo :
         /\ \A k \in proc[p].todo : k <= i
         /\ Turns(p, proc[p].op, IF proc[p].todo = {i} THEN "decide" ELSE "read",
                  proc[p].todo \ {i}, proc[p].copy \o Valid(Lines(i)))
  BY ReadIs
<1>3. /\ \A q \in Proc : q # p => proc'[q] = proc[q]
      /\ proc'[p].op = proc[p].op /\ proc'[p].pc \in {"read", "decide"}
      /\ proc'[p].todo = proc[p].todo \ {i} /\ proc'[p].copy = proc[p].copy \o Valid(Lines(i))
  BY <1>2 DEF Turns, OnlyMoves
<1>4. /\ InOrder(p) /\ Complete(p) /\ FilesOrdered /\ proc[p].todo \in SUBSET Name /\ i \in Name
      /\ proc[p].copy \in Seq(Entry) /\ proc'[p].todo \in SUBSET Name
  BY <1>2, <1>3, CopyIs DEF Safe
<1>5. /\ \A k : Held(k)' = Held(k)
      /\ Stored' = Stored /\ Entry \in SUBSET Int
  BY <1>1, SameLines, EntriesAre
<1>6. /\ Valid(Lines(i)) \in Seq(Entry) /\ Range(Valid(Lines(i))) = Held(i)
      /\ RisingIn(Lines(i), Entry) => Rising(Valid(Lines(i)))
  BY HeldIs DEF Types
<1>7. Range(proc'[p].copy) = Range(proc[p].copy) \cup Held(i)
  BY <1>3, <1>4, <1>6, RangeConcatenation
<1>8. InOrder(p)'
  <2> SUFFICES ASSUME p \in mixed => proc[p].op # "list"
               PROVE  /\ Rising(proc'[p].copy)
                      /\ \A k \in Name, t \in proc'[p].todo : k <= t =>
                            \A e \in Range(proc'[p].copy), f \in Held(k) : e < f
    BY <1>1, <1>3, <1>5 DEF InOrder
  <2>1. /\ Rising(proc[p].copy)
        /\ \A k \in Name, t \in proc[p].todo : k <= t =>
              \A e \in Range(proc[p].copy), f \in Held(k) : e < f
    BY <1>1, <1>4 DEF InOrder
  <2>2. \A e \in Range(proc[p].copy), f \in Held(i) : e < f
    BY <1>2, <1>4, <2>1, NamesAre
  <2>3. Rising(proc'[p].copy)
    BY <1>3, <1>4, <1>5, <1>6, <2>1, <2>2, RisingConcat DEF FilesOrdered
  <2>4. ASSUME NEW k \in Name, NEW t \in proc'[p].todo, k <= t,
               NEW e \in Range(proc'[p].copy), NEW f \in Held(k)
        PROVE  e < f
    <3>1. t \in proc[p].todo /\ t # i /\ t <= i /\ t \in Nat /\ i \in Nat /\ k \in Nat
      BY <1>2, <1>3, <1>4, NamesAre
    <3>2. k < i
      BY <2>4, <3>1
    <3>3. CASE e \in Range(proc[p].copy)
      BY <2>1, <2>4, <3>1, <3>3
    <3>4. CASE e \in Held(i)
      BY <1>4, <3>2, <3>4 DEF FilesOrdered
    <3> QED
      BY <1>7, <3>3, <3>4
  <2> QED
    BY <2>3, <2>4
<1>9. Complete(p)'
  <2> SUFFICES ASSUME proc[p].op # "list"
               PROVE  Stored = Range(proc'[p].copy) \cup UNION {Held(k) : k \in proc'[p].todo}
    BY <1>3, <1>5 DEF Complete
  <2>1. Stored = Range(proc[p].copy) \cup UNION {Held(k) : k \in proc[p].todo}
    BY <1>1, <1>4 DEF Complete
  <2> QED
    BY <1>2, <1>3, <1>7, <2>1
<1>10. Good(p)'
  BY <1>3, <1>8, <1>9 DEF Good, Taken, Hole, Opened
<1>11. Budget'
  BY <1>1, <1>3, QuietBudget DEF Safe
<1>12. proc[p].pc \notin {"remove", "rewrite"} /\ proc'[p].pc \notin {"remove", "rewrite"}
  BY <1>1, <1>3
<1> QED
  BY <1>1, <1>3, <1>10, <1>11, <1>12, QuietStep

LEMMA ListedSafe ==
    ASSUME Types, Types', Safe, NEW p \in Proc, Listed(p), ~Conflict'
    PROVE  Safe'
<1>1. UNCHANGED <<files, fd, expected>> /\ mixed' = mixed \ {p} /\ LinesStay /\ proc[p].pc = "decide" /\ Done(p)
  BY SameFiles DEF Listed, AtPc
<1>2. proc'[p].pc = "idle" /\ \A q \in Proc : q # p => proc'[q] = proc[q]
  BY <1>1, DoneIs DEF Turns, OnlyMoves
<1>3. Good(p)' /\ Budget'
  BY <1>1, <1>2, GoodIf, QuietBudget DEF Safe
<1> QED
  BY <1>1, <1>2, <1>3, QuietStep

LEMMA SizeSafe ==
    ASSUME Types, Types', Safe, NEW p \in Proc, Size(p), ~Conflict'
    PROVE  Safe'
<1>1. UNCHANGED <<files, fd, expected, mixed>> /\ LinesStay /\ proc[p].pc = "size"
  BY SameFiles DEF Size, AtPc
<1>2. \/ TooFull /\ Turns(p, "append", "oldest", proc[p].todo, proc[p].copy)
      \/ ~TooFull /\ Turns(p, "append", "open", proc[p].todo, proc[p].copy)
  BY SizeIs
<1>3. proc'[p].pc \in {"oldest", "open"} /\ \A q \in Proc : q # p => proc'[q] = proc[q]
  BY <1>2 DEF Turns, OnlyMoves
<1>4. Good(p)'
  BY <1>3, GoodIf
<1>5. Budget'
  <2>1. CASE proc'[p].pc = "oldest"
    BY <1>1, <1>3, <2>1, QuietBudget DEF Safe
  <2>2. CASE proc'[p].pc = "open"
    <3>1. ~TooFull
      BY <1>2, <2>2 DEF Turns
    <3>2. Lines(0)' = Lines(0) /\ Len(Lines(0)) \in Nat
      BY <1>1, SameLines, LinesAre DEF LineTypes, Types
    <3>3. Len(Lines(0)) <= MaxLines - 1 /\ MaxLines \in Nat
      BY <3>1, <3>2, NamesAre DEF TooFull
    <3>4. Writers' \in SUBSET Proc
      BY DEF Writers
    <3>5. Cardinality(Writers') <= Cardinality(Proc) /\ Cardinality(Writers') \in Nat
      BY <3>4, NamesAre, FS_Subset, FS_CardinalityType
    <3>6. Len(Lines(0)) + Cardinality(Writers') <= MaxLines + Cardinality(Proc) - 1
      BY <3>2, <3>3, <3>5, AppendingIs
    <3> QED
      BY <3>2, <3>6 DEF Budget
  <2> QED
    BY <1>3, <2>1, <2>2
<1> QED
  BY <1>1, <1>3, <1>4, <1>5, QuietStep

-----------------------------------------------------------------------------
(* Steps of a process that is alone with the files keep the promises *)

\* Entries only move up the segments, or go.
OnlyOlder == \A k \in Name : \A f \in Held(k)' : \E j \in Name : j <= k /\ f \in Held(j)

LEMMA AloneStep ==
    ASSUME Types, Types', Safe, NEW p \in Proc, Alone(p), OnlyMoves(p), ~Conflict', FilesOrdered', Good(p)',
           OnlyOlder \/ {q \in Proc : proc[q].op = "list"} \subseteq mixed', mixed \subseteq mixed',
           proc'[p].pc \in {"open", "write"} => Lines(0)' = <<>>,
           proc'[p].pc \notin {"remove", "rewrite"} => Range(expected') = Stored'
    PROVE  Safe'
<1>1. /\ \A q \in Proc : q # p =>
            proc'[q] = proc[q] /\ proc[q].op \in {"none", "list"} /\ proc[q].pc \in {"idle", "read", "decide"}
  BY DEF Alone, OnlyMoves
<1>2. ASSUME NEW q \in Proc, q # p PROVE InOrder(q)'
  <2>1. CASE proc[q].pc = "idle"
    BY <1>1, <1>2, <2>1 DEF InOrder
  <2>2. CASE proc[q].pc # "idle"
    <3>1. proc[q].op = "list" /\ proc[q].pc \in {"read", "decide"} /\ proc'[q] = proc[q]
      BY <1>1, <1>2, <2>2, CopyIs DEF Fits
    <3> SUFFICES ASSUME q \notin mixed'
                 PROVE  /\ Rising(proc[q].copy)
                        /\ \A k \in Name, t \in proc[q].todo : k <= t =>
                              \A e \in Range(proc[q].copy), f \in Held(k)' : e < f
      BY <3>1 DEF InOrder
    <3>2. /\ Rising(proc[q].copy)
          /\ \A k \in Name, t \in proc[q].todo : k <= t =>
                \A e \in Range(proc[q].copy), f \in Held(k) : e < f
      BY <1>2, <3>1 DEF Safe, InOrder
    <3>3. OnlyOlder
      BY <1>2, <3>1
    <3>4. ASSUME NEW k \in Name, NEW t \in proc[q].todo, k <= t,
                 NEW e \in Range(proc[q].copy), NEW f \in Held(k)'
          PROVE  e < f
      <4>1. PICK j \in Name : j <= k /\ f \in Held(j)
        BY <3>3 DEF OnlyOlder
      <4>2. j <= t
        <5>1. t \in Name
          BY CopyIs
        <5>2. j \in Nat /\ k \in Nat /\ t \in Nat
          BY <5>1, NamesAre
        <5> QED
          BY <3>4, <4>1, <5>2
      <4> QED
        BY <3>2, <4>1, <4>2
    <3> QED
      BY <3>2, <3>4
  <2> QED
    BY <2>1, <2>2
<1>3. ASSUME NEW q \in Proc, q # p PROVE Complete(q)' /\ Taken(q)' /\ Hole(q)' /\ Opened(q)'
  <2>1. proc[q].op = "list" \/ proc[q].pc = "idle"
    BY <1>1, <1>3, CopyIs DEF Fits
  <2> QED
    BY <1>1, <1>3, <2>1 DEF Complete, Taken, Hole, Opened
<1>4. \A q \in Proc : InOrder(q)' /\ Complete(q)' /\ Taken(q)' /\ Hole(q)' /\ Opened(q)'
  BY <1>2, <1>3 DEF Good
<1>5. Budget'
  <2> SUFFICES ASSUME Writers' # {}
               PROVE  Len(Lines(0)') + Cardinality(Writers') <= MaxLines + Cardinality(Proc) - 1
    BY DEF Budget
  <2>1. proc'[p].pc \in {"open", "write"}
    BY <1>1 DEF Writers
  <2>2. Len(Lines(0)') = 0
    BY <2>1
  <2>3. Writers' \in SUBSET Proc
    BY DEF Writers
  <2>4. Cardinality(Writers') <= Cardinality(Proc) /\ Cardinality(Writers') \in Nat
    BY <2>3, NamesAre, FS_Subset, FS_CardinalityType
  <2> QED
    BY <2>2, <2>4, NamesAre, AppendingIs
<1>6. ~Rewriting' => Range(expected') = Stored'
  BY DEF Rewriting
<1> QED
  BY <1>4, <1>5, <1>6 DEF Safe

LEMMA NotRewriting ==
    ASSUME NEW p \in Proc, Alone(p), proc[p].pc \notin {"remove", "rewrite"}
    PROVE  ~Rewriting
BY DEF Alone, Rewriting

LEMMA StillOlder == ASSUME LinesStay PROVE OnlyOlder
BY SameLines, NamesAre DEF OnlyOlder

LEMMA BeginClearSafe ==
    ASSUME Types, Types', Safe, NEW p \in Proc, BeginClear(p), ~Conflict'
    PROVE  Safe'
<1>1. UNCHANGED <<files, fd, mixed>> /\ LinesStay /\ expected' = <<>> /\ proc[p].op = "none"
  BY BeginClearIs, SameFiles
<1>2. /\ OnlyMoves(p) /\ proc'[p].op = "clear" /\ proc'[p].pc = "remove"
      /\ proc'[p].todo = Segments /\ proc'[p].copy = <<>>
  BY BeginClearIs DEF Turns
<1>3. Alone(p)
  <2>1. ASSUME NEW q \in Proc, q # p PROVE proc[q].op \in {"none", "list"} /\ proc[q].pc \in {"idle", "read", "decide"}
    <3>1. proc'[q].op \in {"none", "list"} /\ proc'[q] = proc[q]
      BY <1>2, <2>1 DEF Conflict, Exclusive, Mutating, OnlyMoves
    <3> QED
      BY <3>1, CopyIs DEF Fits, ProcType
  <2> QED
    BY <2>1 DEF Alone
<1>4. \A k \in Name \ Segments : Lines(k)' = <<>>
  BY <1>1, SameLines, SegmentsAre DEF Types
<1>5. Taken(p)'
  BY <1>1, <1>2, <1>4, EmptyIs DEF Taken
<1>6. Good(p)'
  BY <1>2, <1>5 DEF Good, InOrder, Complete, Hole, Opened
<1>7. FilesOrdered' /\ OnlyOlder
  BY <1>1, SameLines, StillOlder DEF Safe
<1> QED
  BY <1>1, <1>2, <1>3, <1>6, <1>7, AloneStep

LEMMA DecideSafe ==
    ASSUME Types, Types', Safe, NEW p \in Proc, Decide(p), ~Conflict'
    PROVE  Safe'
<1>1. UNCHANGED <<files, fd, mixed>> /\ LinesStay /\ proc[p].pc = "decide"
  BY SameFiles DEF Decide, AtPc
<1>2. CASE Turns(p, "none", "idle", {}, <<>>) /\ UNCHANGED expected
  <2>1. proc'[p].pc = "idle" /\ \A q \in Proc : q # p => proc'[q] = proc[q]
    BY <1>2 DEF Turns, OnlyMoves
  <2>2. Good(p)' /\ Budget'
    BY <1>1, <2>1, GoodIf, QuietBudget DEF Safe
  <2> QED
    BY <1>1, <1>2, <2>1, <2>2, QuietStep
<1>3. ASSUME NEW kept \in Seq(Entry), Range(kept) \subseteq Range(proc[p].copy),
             Rising(proc[p].copy) => Rising(kept), proc[p].op \in {"append", "cleanup", "prune"},
             Turns(p, proc[p].op, "remove", Segments, kept),
             expected' = Without(expected, Range(proc[p].copy) \ Range(kept))
      PROVE  Safe'
  <2>1. Alone(p)
    <3>1. Exclusive(p) /\ ProcTypes /\ ~Conflict
      BY <1>1, <1>3 DEF Exclusive, Mutating, Safe, Types
    <3> QED
      BY <3>1, AloneIf
  <2>2. ~Rewriting
    BY <1>1, <2>1, NotRewriting
  <2>3. proc[p].todo = {} /\ Rising(proc[p].copy) /\ Stored = Range(proc[p].copy)
    <3>1. proc[p].todo = {} /\ InOrder(p) /\ Complete(p)
      BY <1>1, CopyIs DEF Fits, Safe
    <3> QED
      BY <1>1, <1>3, <3>1 DEF InOrder, Complete
  <2>4. Range(expected') = Range(kept)
    <3>1. expected \in Seq(Entry) /\ Range(expected) = Stored
      BY <2>2 DEF Types, OtherTypes, Safe
    <3>2. Range(expected') = Range(expected) \ (Range(proc[p].copy) \ Range(kept))
      BY <1>3, <3>1, WithoutKeeps
    <3> QED
      BY <1>3, <2>3, <3>1, <3>2
  <2>5. OnlyMoves(p) /\ proc'[p].pc = "remove" /\ proc'[p].todo = Segments /\ proc'[p].copy = kept
    BY <1>3 DEF Turns
  <2>6. \A k \in Name \ Segments : Lines(k)' = <<>>
    BY <1>1, SameLines, SegmentsAre DEF Types
  <2>7. Taken(p)'
    BY <1>3, <2>3, <2>4, <2>5, <2>6 DEF Taken
  <2>8. Good(p)'
    BY <2>5, <2>7 DEF Good, InOrder, Complete, Hole, Opened
  <2>9. FilesOrdered' /\ OnlyOlder
    BY <1>1, SameLines, StillOlder DEF Safe
  <2> QED
    BY <1>1, <2>1, <2>5, <2>8, <2>9, AloneStep
<1> QED
  BY <1>2, <1>3, DecideIs

LEMMA RewriterAlone ==
    ASSUME Types, Safe, NEW p \in Proc, proc[p].pc \in {"remove", "rewrite", "oldest", "shift"}
    PROVE  Alone(p)
<1>1. proc[p].op \notin {"none", "list"}
  BY CopyIs DEF Fits
<1>2. Exclusive(p) /\ ProcTypes /\ ~Conflict
  BY <1>1 DEF Exclusive, Mutating, Safe, Types
<1> QED
  BY <1>2, AloneIf

\* Without entries nothing is out of order.
LEMMA EmptyFiles ==
    ASSUME NEW k, Lines(k)' = <<>>
    PROVE  Held(k)' = {} /\ RisingIn(Lines(k), Entry)'
BY EmptyIs DEF Held

LEMMA RemoveOneSafe ==
    ASSUME Types, Types', Safe, NEW p \in Proc, RemoveOne(p), ~Conflict'
    PROVE  Safe'
<1>1. proc[p].pc = "remove" /\ mixed' = mixed \cup {q \in Proc : proc[q].op = "list"} /\ UNCHANGED expected
  BY DEF RemoveOne, AtPc
<1>2. Alone(p)
  BY <1>1, RewriterAlone
<1>3. PICK i \in proc[p].todo :
         /\ \A k \in Name : Lines(k)' = IF k = i THEN <<>> ELSE Lines(k)
         /\ \/ /\ proc[p].todo # {i}
               /\ Turns(p, proc[p].op, "remove", proc[p].todo \ {i}, proc[p].copy)
            \/ /\ proc[p].todo = {i} /\ proc[p].copy # <<>>
               /\ Turns(p, proc[p].op, "rewrite", {}, proc[p].copy)
            \/ /\ proc[p].todo = {i} /\ proc[p].copy = <<>> /\ proc[p].op = "append"
               /\ Turns(p, "append", "size", {}, <<>>)
            \/ /\ proc[p].todo = {i} /\ proc[p].copy = <<>>
               /\ Turns(p, "none", "idle", {}, <<>>)
  BY RemoveOneIs
<1>4. /\ Rising(proc[p].copy) /\ Range(expected) = Range(proc[p].copy)
      /\ \A k \in Name \ proc[p].todo : Lines(k) = <<>>
  BY <1>1 DEF Safe, Taken
<1>5. \A k \in Name : Lines(k)' = <<>> \/ (Lines(k)' = Lines(k) /\ Held(k)' = Held(k))
  BY <1>3 DEF Held
<1>6. \A k \in Name \ (proc[p].todo \ {i}) : Lines(k)' = <<>>
  BY <1>3, <1>4
<1>7. FilesOrdered'
  BY <1>5, EmptyFiles DEF Safe, FilesOrdered
<1>8. CASE proc[p].todo # {i} /\ Turns(p, proc[p].op, "remove", proc[p].todo \ {i}, proc[p].copy)
  <2>1. OnlyMoves(p) /\ proc'[p].pc = "remove" /\ proc'[p].todo = proc[p].todo \ {i} /\ proc'[p].copy = proc[p].copy
    BY <1>8 DEF Turns
  <2>2. Good(p)'
    BY <1>1, <1>4, <1>6, <2>1 DEF Good, InOrder, Complete, Hole, Opened, Taken
  <2> QED
    BY <1>1, <1>2, <1>7, <2>1, <2>2, AloneStep
<1>9. CASE proc[p].todo = {i} /\ Turns(p, proc[p].op, "rewrite", {}, proc[p].copy)
  <2>1. OnlyMoves(p) /\ proc'[p].pc = "rewrite" /\ proc'[p].todo = {} /\ proc'[p].copy = proc[p].copy
    BY <1>9 DEF Turns
  <2>2. \A k \in Name : Lines(k)' = <<>>
    BY <1>6, <1>9
  <2>3. Good(p)'
    BY <1>1, <1>4, <2>1, <2>2 DEF Good, InOrder, Complete, Hole, Opened, Taken
  <2> QED
    BY <1>1, <1>2, <1>7, <2>1, <2>3, AloneStep
<1>10. ASSUME proc[p].todo = {i}, proc[p].copy = <<>>, NEW op, NEW pc \in {"size", "idle"}, Turns(p, op, pc, {}, <<>>)
       PROVE  Safe'
  <2>1. OnlyMoves(p) /\ proc'[p].pc = pc
    BY <1>10 DEF Turns
  <2>2. \A k \in Name : Held(k)' = {}
    BY <1>6, <1>10, EmptyFiles
  <2>3. Range(expected') = {} /\ Stored' = {}
    BY <1>1, <1>4, <1>10, <2>2, EmptyIs DEF Stored
  <2>4. Good(p)'
    BY <2>1, GoodIf
  <2> QED
    BY <1>1, <1>2, <1>7, <2>1, <2>3, <2>4, AloneStep
<1> QED
  BY <1>3, <1>8, <1>9, <1>10

LEMMA RewriteSafe ==
    ASSUME Types, Types', Safe, NEW p \in Proc, Rewrite(p), ~Conflict'
    PROVE  Safe'
<1>1. proc[p].pc = "rewrite" /\ mixed' = mixed \cup {q \in Proc : proc[q].op = "list"} /\ UNCHANGED expected
  BY DEF Rewrite, AtPc
<1>2. Alone(p)
  BY <1>1, RewriterAlone
<1>3. /\ \A k \in Name : Lines(k)' = IF k = 0 THEN proc[p].copy ELSE Lines(k)
      /\ OnlyMoves(p) /\ proc'[p].pc \in {"size", "idle"}
  BY RewriteIs DEF Turns
<1>4. /\ Rising(proc[p].copy) /\ Range(expected) = Range(proc[p].copy) /\ proc[p].todo = {}
      /\ \A k \in Name \ proc[p].todo : Lines(k) = <<>>
  BY <1>1, CopyIs DEF Safe, Taken, Fits
<1>5. Lines(0)' = proc[p].copy /\ 0 \in Name /\ \A k \in Name : k # 0 => Lines(k)' = <<>>
  BY <1>3, <1>4, NamesAre
<1>6. Held(0)' = Range(proc[p].copy) /\ RisingIn(proc[p].copy, Entry)
  BY <1>4, <1>5, CopyIs, CopyLines DEF Held
<1>7. \A k \in Name : RisingIn(Lines(k), Entry)' /\ (k # 0 => Held(k)' = {})
  BY <1>5, <1>6, EmptyFiles
<1>8. FilesOrdered'
  <2>1. ASSUME NEW j \in Name, NEW k \in Name, j < k PROVE Held(k)' = {}
    <3>1. j \in Nat /\ k \in Nat
      BY NamesAre
    <3>2. k # 0
      BY <2>1, <3>1
    <3> QED
      BY <1>7, <3>2
  <2> QED
    BY <1>7, <2>1 DEF FilesOrdered
<1>9. Range(expected') = Stored'
  BY <1>1, <1>4, <1>5, <1>6, <1>7 DEF Stored
<1>10. Good(p)'
  BY <1>3, GoodIf
<1> QED
  BY <1>1, <1>2, <1>3, <1>8, <1>9, <1>10, AloneStep

LEMMA OldestSafe ==
    ASSUME Types, Types', Safe, NEW p \in Proc, Oldest(p), ~Conflict'
    PROVE  Safe'
<1>1. proc[p].pc = "oldest" /\ UNCHANGED mixed
  BY DEF Oldest, AtPc
<1>2. Alone(p) /\ ~Rewriting
  BY <1>1, RewriterAlone, NotRewriting
<1>3. PICK i \in Name :
              /\ i = proc[p].seg /\ i - 1 \in Name /\ proc'[p].seg = i - 1
              /\ \A k \in Name : Lines(k)' = IF k = i THEN <<>> ELSE Lines(k)
              /\ expected' = Without(expected, Range(Lines(i)))
              /\ Turns(p, "append", "shift", proc[p].todo, proc[p].copy)
  BY OldestIs
<1>4. OnlyMoves(p) /\ proc'[p].pc = "shift" /\ i \in Nat
  BY <1>3, NamesAre DEF Turns
<1>5. Lines(i)' = <<>> /\ \A k \in Name : k # i => Lines(k)' = Lines(k) /\ Held(k)' = Held(k)
  BY <1>3 DEF Held
<1>6. Held(i)' = {} /\ RisingIn(Lines(i), Entry)'
  BY <1>5, EmptyFiles
<1>7. FilesOrdered /\ \A k \in Name : Held(k)' \subseteq Held(k)
  BY <1>5, <1>6 DEF Safe
<1>8. FilesOrdered'
  BY <1>5, <1>6, <1>7 DEF FilesOrdered
<1>9. OnlyOlder
  <2>1. ASSUME NEW k \in Name PROVE k <= k
    BY NamesAre
  <2> QED
    BY <1>7, <2>1 DEF OnlyOlder
<1>10. Good(p)'
  <2>1. proc'[p].seg + 1 = i
    BY <1>3, <1>4
  <2> QED
    BY <1>4, <1>5, <2>1 DEF Good, InOrder, Complete, Hole, Opened, Taken
<1>11. Range(expected') = Stored'
  <2>1. expected \in Seq(Entry) /\ Range(expected) = Stored
    BY <1>2 DEF Types, OtherTypes, Safe
  <2>2. Range(expected') = Stored \ Range(Lines(i))
    BY <1>3, <2>1, WithoutKeeps
  <2>3. ASSUME NEW k \in Name, k # i, NEW e \in Held(k) PROVE e \notin Range(Lines(i))
    <3> SUFFICES ASSUME e \in Held(i) PROVE FALSE
      BY <2>3, HeldIs DEF Types, Held
    <3>1. e \in Int /\ k \in Nat
      BY <2>3, HeldIs, EntriesAre, NamesAre DEF Types
    <3>2. k < i \/ i < k
      BY <1>4, <2>3, <3>1
    <3>3. e < e
      BY <1>7, <2>3, <3>2 DEF FilesOrdered
    <3> QED
      BY <3>1, <3>3
  <2>4. Stored' = Stored \ Range(Lines(i))
    <3>1. ASSUME NEW e \in Stored' PROVE e \in Stored /\ e \notin Range(Lines(i))
      <4>1. PICK k \in Name : e \in Held(k)'
        BY DEF Stored
      <4>2. k # i /\ e \in Held(k)
        BY <1>5, <1>6, <4>1
      <4> QED
        BY <2>3, <4>2 DEF Stored
    <3>2. ASSUME NEW e \in Stored, e \notin Range(Lines(i)) PROVE e \in Stored'
      <4>1. PICK k \in Name : e \in Held(k)
        BY DEF Stored
      <4>2. k # i
        BY <3>2, <4>1 DEF Held
      <4>3. e \in Held(k)'
        BY <1>5, <4>1, <4>2
      <4> QED
        BY <4>3 DEF Stored
    <3> QED
      BY <3>1, <3>2
  <2> QED
    BY <2>2, <2>4
<1> QED
  BY <1>1, <1>2, <1>4, <1>8, <1>9, <1>10, <1>11, AloneStep

LEMMA ShiftSafe ==
    ASSUME Types, Types', Safe, NEW p \in Proc, Shift(p), ~Conflict'
    PROVE  Safe'
<1>1. proc[p].pc = "shift" /\ UNCHANGED <<expected, mixed>>
  BY DEF Shift, AtPc
<1>2. Alone(p) /\ ~Rewriting
  BY <1>1, RewriterAlone, NotRewriting
<1>3. PICK i \in Name :
              /\ i = proc[p].seg /\ i + 1 \in Name /\ Moved(i)
              /\ \/ i > 0 /\ proc'[p].seg = i - 1 /\ Turns(p, "append", "shift", proc[p].todo, proc[p].copy)
                 \/ i = 0 /\ Turns(p, "append", "open", proc[p].todo, proc[p].copy)
  BY ShiftIs
<1>4. i \in Nat /\ i + 1 # i /\ i <= i + 1
  BY NamesAre
<1>5. Lines(i + 1) = <<>>
  BY <1>1, <1>3 DEF Safe, Hole
<1>6. /\ Lines(i + 1)' = Lines(i) /\ Lines(i)' = <<>>
      /\ \A k \in Name : k # i /\ k # i + 1 => Lines(k)' = Lines(k)
  <2>1. CASE i \in DOMAIN files
    BY <1>3, <1>4, <2>1 DEF Moved
  <2>2. CASE i \notin DOMAIN files
    BY <1>3, <1>4, <1>5, <2>2, LinesAre DEF Moved, Types
  <2> QED
    BY <2>1, <2>2
<1>7. /\ Held(i + 1)' = Held(i) /\ Held(i)' = {} /\ Held(i + 1) = {}
      /\ \A k \in Name : k # i /\ k # i + 1 => Held(k)' = Held(k)
  BY <1>5, <1>6, EmptyFiles, HeldIs DEF Held, Types
<1>8. \A k \in Name : RisingIn(Lines(k), Entry)'
  BY <1>6, EmptyFiles DEF Safe, FilesOrdered
<1>9. FilesOrdered'
  <2>1. ASSUME NEW j \in Name, NEW k \in Name, j < k, NEW e \in Held(k)', NEW f \in Held(j)'
        PROVE  e < f
    <3>1. FilesOrdered /\ j \in Nat /\ k \in Nat /\ k # i /\ j # i
      BY <1>7, <2>1, NamesAre DEF Safe
    <3>2. CASE k = i + 1
      <4>1. j < i /\ e \in Held(i) /\ f \in Held(j)
        BY <1>4, <1>7, <2>1, <3>1, <3>2
      <4> QED
        BY <3>1, <4>1 DEF FilesOrdered
    <3>3. CASE k # i + 1 /\ j = i + 1
      <4>1. i < k /\ e \in Held(k) /\ f \in Held(i)
        BY <1>4, <1>7, <2>1, <3>1, <3>3
      <4> QED
        BY <3>1, <4>1 DEF FilesOrdered
    <3>4. CASE k # i + 1 /\ j # i + 1
      BY <1>7, <2>1, <3>1, <3>4 DEF FilesOrdered
    <3> QED
      BY <3>2, <3>3, <3>4
  <2> QED
    BY <1>8, <2>1 DEF FilesOrdered
<1>10. OnlyOlder
  <2>1. ASSUME NEW k \in Name, NEW f \in Held(k)' PROVE \E j \in Name : j <= k /\ f \in Held(j)
    <3>1. CASE k = i + 1
      BY <1>4, <1>7, <2>1, <3>1
    <3>2. CASE k # i + 1
      <4>1. f \in Held(k) /\ k \in Nat
        BY <1>7, <2>1, <3>2, NamesAre
      <4> QED
        BY <4>1
    <3> QED
      BY <3>1, <3>2
  <2> QED
    BY <2>1 DEF OnlyOlder
<1>11. Stored' = Stored
  <2>1. ASSUME NEW e \in Stored' PROVE e \in Stored
    BY <1>10 DEF Stored, OnlyOlder
  <2>2. ASSUME NEW e \in Stored PROVE e \in Stored'
    <3>1. PICK k \in Name : e \in Held(k)
      BY DEF Stored
    <3>2. CASE k = i
      BY <1>3, <1>7, <3>1, <3>2 DEF Stored
    <3>3. CASE k # i
      <4>1. e \in Held(k)'
        BY <1>7, <3>1, <3>3
      <4> QED
        BY <4>1 DEF Stored
    <3> QED
      BY <3>2, <3>3
  <2> QED
    BY <2>1, <2>2
<1>12. Range(expected') = Stored'
  BY <1>1, <1>2, <1>11 DEF Safe
<1>13. CASE i > 0 /\ proc'[p].seg = i - 1 /\ Turns(p, "append", "shift", proc[p].todo, proc[p].copy)
  <2>1. OnlyMoves(p) /\ proc'[p].pc = "shift" /\ proc'[p].seg + 1 = i
    BY <1>4, <1>13 DEF Turns
  <2>2. Good(p)'
    BY <1>6, <2>1 DEF Good, InOrder, Complete, Hole, Opened, Taken
  <2> QED
    BY <1>1, <1>2, <1>9, <1>10, <1>12, <2>1, <2>2, AloneStep
<1>14. CASE i = 0 /\ Turns(p, "append", "open", proc[p].todo, proc[p].copy)
  <2>1. OnlyMoves(p) /\ proc'[p].pc = "open" /\ Lines(0)' = <<>>
    BY <1>6, <1>14 DEF Turns
  <2>2. Good(p)'
    BY <2>1, GoodIf
  <2> QED
    BY <1>1, <1>2, <1>9, <1>10, <1>12, <2>1, <2>2, AloneStep
<1> QED
  BY <1>3, <1>13, <1>14

-----------------------------------------------------------------------------
(* Writing keeps the promises, also beside others that append *)

LEMMA OpenSafe ==
    ASSUME Types, Types', Safe, NEW p \in Proc, Open(p), ~Conflict'
    PROVE  Safe'
<1>1. /\ files' = FileWith(0, Lines(0)) /\ UNCHANGED <<expected, mixed>>
  BY DEF Open
<1>2. LinesStay
  <2>1. /\ DOMAIN files' = DOMAIN files \cup {0}
        /\ \A k \in DOMAIN files' : files'[k] = IF k = 0 THEN Lines(0) ELSE files[k]
    BY <1>1 DEF FileWith
  <2>2. ASSUME NEW k PROVE Lines(k)' = Lines(k)
    <3>1. CASE k = 0
      BY <2>1, <3>1 DEF Lines
    <3>2. CASE k # 0
      BY <2>1, <3>2 DEF Lines
    <3> QED
      BY <3>1, <3>2
  <2> QED
    BY <2>2 DEF LinesStay
<1>3. /\ fd'[p] = 0 /\ \A q \in Proc : q # p => fd'[q] = fd[q]
      /\ Turns(p, "append", "write", proc[p].todo, proc[p].copy) /\ proc[p].pc = "open"
  BY OpenIs
<1>4. proc'[p].pc = "write" /\ \A q \in Proc : q # p => proc'[q] = proc[q]
  BY <1>3 DEF Turns, OnlyMoves
<1>5. Good(p)'
  BY <1>3, <1>4 DEF Good, InOrder, Complete, Hole, Opened, Taken
<1>6. Budget'
  BY <1>2, <1>3, <1>4, QuietBudget DEF Safe
<1> QED
  BY <1>1, <1>2, <1>3, <1>4, <1>5, <1>6, QuietStep

LEMMA CrashSafe ==
    ASSUME Types, Types', Safe, NEW p \in Proc, Crash(p), proc[p].pc \notin {"remove", "rewrite"}
    PROVE  Safe'
<1>1. /\ Done(p) /\ fd' = [fd EXCEPT ![p] = Gone] /\ mixed' = mixed \ {p} /\ UNCHANGED <<files, expected>>
      /\ LinesStay
  BY SameFiles DEF Crash
<1>2. proc'[p].pc = "idle" /\ proc'[p].op = "none" /\ \A q \in Proc : q # p => proc'[q] = proc[q]
  BY <1>1, DoneIs DEF Turns, OnlyMoves
<1>3. \A q \in Proc : q # p => fd'[q] = fd[q]
  BY <1>1 DEF Types, FileTypes
<1>4. Good(p)' /\ Budget'
  BY <1>1, <1>2, GoodIf, QuietBudget DEF Safe
<1>5. ~Conflict'
  <2>1. ASSUME NEW q \in Proc, NEW r \in Proc, q # r, Exclusive(q)', Mutating(r)' PROVE FALSE
    <3>1. q # p /\ r # p
      BY <1>2, <2>1 DEF Exclusive, Mutating
    <3>2. Exclusive(q) /\ Mutating(r)
      BY <1>2, <2>1, <3>1 DEF Exclusive, Mutating
    <3> QED
      BY <2>1, <3>2 DEF Safe, Conflict
  <2> QED
    BY <2>1 DEF Conflict
<1> QED
  BY <1>1, <1>2, <1>3, <1>4, <1>5, QuietStep

\* Beside a process that appends the others list or are at an append.
LEMMA BesideAppend ==
    ASSUME Types, Safe, NEW p \in Proc, proc[p].op = "append", NEW q \in Proc, q # p
    PROVE  /\ proc[q].pc \notin {"remove", "rewrite", "oldest", "shift"}
           /\ proc[q].pc \in {"read", "decide"} => proc[q].op = "list"
<1>1. ~Exclusive(q)
  BY DEF Safe, Conflict, Mutating
<1>2. Fits(proc[q]) /\ proc[q] \in ProcType
  BY CopyIs
<1> QED
  BY <1>1, <1>2 DEF Exclusive, Mutating, Fits

LEMMA PutSafe ==
    ASSUME Types, Types', Safe, NEW p \in Proc, NEW line \in Entry \cup {Torn}, Put(p, line),
           line \in Entry => line = last + 1, ~Conflict',
           \A e : e \in Range(expected') <=>
              e \in Range(expected) \/ (~EndsTorn(Lines(0)) /\ line \in Entry /\ e = line)
    PROVE  Safe'
<1>1. /\ \A k \in Name : Lines(k)' = IF k = fd[p] THEN Extended(Lines(k), line) ELSE Lines(k)
      /\ \A q \in Proc : q # p => fd'[q] = fd[q]
      /\ proc[p].pc = "write" /\ proc[p].op = "append" /\ Turns(p, "none", "idle", {}, <<>>)
      /\ UNCHANGED mixed
  BY PutIs
<1>2. proc'[p].pc = "idle" /\ \A q \in Proc : q # p => proc'[q] = proc[q]
  BY <1>1 DEF Turns, OnlyMoves
<1>3. fd[p] = 0 /\ 0 \in Name
  BY <1>1, NamesAre DEF Safe, Opened
<1>4. Lines(0)' = Extended(Lines(0), line) /\ \A k \in Name : k # 0 => Lines(k)' = Lines(k) /\ Held(k)' = Held(k)
  BY <1>1, <1>3 DEF Held
<1>5. /\ Len(Lines(0)') <= Len(Lines(0)) + 1 /\ Len(Lines(0)') \in Nat /\ Len(Lines(0)) \in Nat
      /\ \A e \in Entry : e \in Range(Lines(0)') <=> e \in Range(Lines(0)) \/ (~EndsTorn(Lines(0)) /\ e = line)
      /\ RisingIn(Lines(0), Entry) /\ Follows(line, Range(Lines(0)) \cap Entry)
            => RisingIn(Lines(0)', Entry)
  <2>1. LineTypes(Lines(0))
    BY LinesAre DEF Types
  <2> DEFINE new == Lines(0)'
  <2>2. new = Extended(Lines(0), line)
    BY <1>4
  <2> HIDE DEF new
  <2>3. ExtendsTo(Lines(0), line, Extended(Lines(0), line))
    BY <2>1, ExtendedIs
  <2>4. ExtendsTo(Lines(0), line, new)
    BY <2>2, <2>3
  <2> QED
    BY <2>1, <2>4 DEF new, LineTypes, ExtendsTo
<1>6. \A e : e \in Held(0)' <=> e \in Held(0) \/ (~EndsTorn(Lines(0)) /\ line \in Entry /\ e = line)
  BY <1>5 DEF Held
<1>7. ASSUME line \in Entry, NEW entries \in SUBSET Entry, Known(entries)
      PROVE  \A e \in entries : e < line
  <2>1. ASSUME NEW e \in entries PROVE e < line
    <3>1. e \in Nat /\ e <= last /\ last \in Nat /\ line = last + 1
      BY <1>7, <2>1, EntriesAre DEF Known, Types, OtherTypes
    <3> QED
      BY <3>1
  <2> QED
    BY <2>1
<1>8. \A k \in Name : Held(k) \in SUBSET Entry /\ Known(Held(k))
  BY HeldIs DEF Known, Types, LogKnown, Stored
<1>9. FilesOrdered'
  <2>1. RisingIn(Lines(0), Entry)'
    <3>1. Follows(line, Range(Lines(0)) \cap Entry)
      BY <1>3, <1>7, <1>8 DEF Follows, Held
    <3> QED
      BY <1>3, <1>5, <3>1 DEF Safe, FilesOrdered
  <2>2. \A k \in Name : RisingIn(Lines(k), Entry)'
    BY <1>4, <2>1 DEF Safe, FilesOrdered
  <2>3. ASSUME NEW j \in Name, NEW k \in Name, j < k, NEW e \in Held(k)', NEW f \in Held(j)'
        PROVE  e < f
    <3>1. k # 0 /\ e \in Held(k) /\ FilesOrdered
      <4>1. j \in Nat /\ k \in Nat
        BY NamesAre
      <4>2. k # 0
        BY <2>3, <4>1
      <4> QED
        BY <1>4, <2>3, <4>2 DEF Safe
    <3>2. CASE f \in Held(j)
      BY <2>3, <3>1, <3>2 DEF FilesOrdered
    <3>3. CASE f \notin Held(j)
      <4>1. line \in Entry /\ f = line
        BY <1>4, <1>6, <2>3, <3>3
      <4> QED
        BY <1>7, <1>8, <3>1, <4>1
    <3> QED
      BY <3>2, <3>3
  <2> QED
    BY <2>2, <2>3 DEF FilesOrdered
<1>10. ASSUME NEW q \in Proc, q # p PROVE InOrder(q)'
  <2> SUFFICES ASSUME proc[q].pc \in {"read", "decide"}, q \in mixed => proc[q].op # "list"
               PROVE  /\ Rising(proc[q].copy)
                      /\ \A k \in Name, t \in proc[q].todo : k <= t =>
                            \A e \in Range(proc[q].copy), f \in Held(k)' : e < f
    BY <1>1, <1>2, <1>10 DEF InOrder
  <2>1. /\ Rising(proc[q].copy)
        /\ \A k \in Name, t \in proc[q].todo : k <= t =>
              \A e \in Range(proc[q].copy), f \in Held(k) : e < f
    BY <1>10 DEF Safe, InOrder
  <2>2. Range(proc[q].copy) \in SUBSET Entry /\ Known(Range(proc[q].copy))
    BY CopyIs DEF Types, CopiesKnown
  <2>3. ASSUME NEW k \in Name, NEW t \in proc[q].todo, k <= t, NEW e \in Range(proc[q].copy), NEW f \in Held(k)'
        PROVE  e < f
    <3>1. CASE f \in Held(k)
      BY <2>1, <2>3, <3>1
    <3>2. CASE f \notin Held(k)
      <4>1. line \in Entry /\ f = line
        BY <1>4, <1>6, <2>3, <3>2
      <4> QED
        BY <1>7, <2>2, <4>1
    <3> QED
      BY <3>1, <3>2
  <2> QED
    BY <2>1, <2>3
<1>11. ASSUME NEW q \in Proc, q # p PROVE Complete(q)' /\ Taken(q)' /\ Hole(q)' /\ Opened(q)'
  <2>1. /\ proc[q].pc \notin {"remove", "rewrite", "oldest", "shift"}
        /\ proc[q].pc \in {"read", "decide"} => proc[q].op = "list"
    BY <1>1, <1>11, BesideAppend
  <2>2. Opened(q) /\ fd'[q] = fd[q] /\ proc'[q] = proc[q]
    BY <1>1, <1>2, <1>11 DEF Safe
  <2> QED
    BY <2>1, <2>2 DEF Complete, Taken, Hole, Opened
<1>12. \A q \in Proc : InOrder(q)' /\ Complete(q)' /\ Taken(q)' /\ Hole(q)' /\ Opened(q)'
  BY <1>2, <1>10, <1>11, GoodIf DEF Good
<1>13. Budget'
  <2>1. Writers' = Writers \ {p} /\ p \in Writers
    BY <1>1, <1>2 DEF Writers
  <2>2. Cardinality(Writers') = Cardinality(Writers) - 1 /\ Cardinality(Writers) \in Nat
    BY <2>1, AppendingIs, FS_RemoveElement
  <2>3. Len(Lines(0)) + Cardinality(Writers) <= MaxLines + Cardinality(Proc) - 1
    BY <2>1 DEF Safe, Budget
  <2> QED
    BY <1>5, <2>2, <2>3, NamesAre, AppendingIs DEF Budget
<1>14. Range(expected') = Stored'
  <2>1. ~Rewriting
    <3>1. \A q \in Proc : proc[q].pc \notin {"remove", "rewrite"}
      BY <1>1, BesideAppend
    <3> QED
      BY <3>1 DEF Rewriting
  <2>2. Range(expected) = Stored
    BY <2>1 DEF Safe
  <2>3. \A e : e \in Stored' <=> e \in Stored \/ (~EndsTorn(Lines(0)) /\ line \in Entry /\ e = line)
    <3>1. \A e : e \in Stored' <=> \E k \in Name : e \in Held(k)'
      BY DEF Stored
    <3>2. \A e : e \in Stored <=> \E k \in Name : e \in Held(k)
      BY DEF Stored
    <3> QED
      BY <1>3, <1>4, <1>6, <3>1, <3>2
  <2> QED
    BY <2>2, <2>3
<1> QED
  BY <1>9, <1>12, <1>13, <1>14 DEF Safe

LEMMA WriteSafe ==
    ASSUME Types, Types', Safe, NEW p \in Proc, Write(p), ~Conflict'
    PROVE  Safe'
<1>1. /\ Put(p, last + 1)
      /\ expected' = IF fd[p] # Gone /\ EndsTorn(files[fd[p]]) THEN expected ELSE Append(expected, last + 1)
  BY DEF Write
<1>2. /\ OtherTypes /\ proc[p].op = "append" /\ proc[p].pc = "write" /\ proc'[p].op = "none"
      /\ \A q \in Proc : q # p => proc'[q] = proc[q]
  BY <1>1, DoneIs, Appends DEF Put, AtPc, Turns, OnlyMoves, Types
<1>3. last + 1 \in Entry
  BY <1>2, NextEntry
<1>4. fd[p] = 0 /\ 0 # Gone /\ 0 \in DOMAIN files
  BY <1>2 DEF Safe, Opened, Gone, Types, FileTypes
<1>5. files[fd[p]] = Lines(0)
  BY <1>4 DEF Lines
<1>6. expected' = IF EndsTorn(Lines(0)) THEN expected ELSE Append(expected, last + 1)
  BY <1>1, <1>4, <1>5
<1>7. expected \in Seq(Entry)
  BY <1>2 DEF OtherTypes
<1>8. Range(Append(expected, last + 1)) = Range(expected) \cup {last + 1}
  BY <1>3, <1>7, RangeAppended
<1>9. \A e : e \in Range(expected') <=>
              e \in Range(expected) \/ (~EndsTorn(Lines(0)) /\ last + 1 \in Entry /\ e = last + 1)
  BY <1>3, <1>6, <1>8
<1> QED
  BY <1>1, <1>3, <1>9, PutSafe

LEMMA WriteFailsSafe ==
    ASSUME Types, Types', Safe, NEW p \in Proc, WriteFails(p), ~Conflict'
    PROVE  Safe'
<1>1. Put(p, Torn) /\ UNCHANGED expected /\ Torn \notin Entry
  BY EntriesAre DEF WriteFails
<1> QED
  BY <1>1, PutSafe

-----------------------------------------------------------------------------
(* The invariant holds *)

LEMMA StepSafe ==
    ASSUME Types, Types', Safe, NEW p \in Proc, Step(p), ~Conflict'
    PROVE  Safe'
BY BeginAppendSafe, BeginReadSafe, BeginClearSafe, ReadSafe, DecideSafe, ListedSafe, RemoveOneSafe,
   RewriteSafe, SizeSafe, OldestSafe, ShiftSafe, OpenSafe, WriteSafe, WriteFailsSafe DEF Step

LEMMA NextInv ==
    ASSUME Inv, [Next]_vars
    PROVE  Inv'
<1>1. CASE UNCHANGED vars
  <2>1. UNCHANGED <<files, legacy, proc, fd, last, expected, tainted, mixed>>
    BY <1>1 DEF vars
  <2>2. LinesStay /\ Stored' = Stored /\ FilesOrdered' = FilesOrdered /\ \A k : Held(k)' = Held(k)
    BY <2>1, SameFiles
  <2>3. Types'
    BY <2>1, <2>2 DEF Inv, Types, FileTypes, ProcTypes, OtherTypes, HistoryKnown, LogKnown, CopiesKnown, Known, Appending
  <2>4. Safe' = Safe
    BY <2>1, <2>2 DEF LinesStay, Safe, Conflict, Exclusive, Mutating, Budget, Writers, InOrder, Complete, Taken,
                      Hole, Opened, Rewriting
  <2> QED
    BY <2>1, <2>3, <2>4 DEF Inv
<1>2. ASSUME NEW p \in Proc, Step(p), tainted' = (tainted \/ Conflict') PROVE Inv'
  <2>1. Types /\ tainted \in BOOLEAN
    BY DEF Inv, Types, OtherTypes
  <2>2. tainted' \in BOOLEAN
    BY <1>2, <2>1
  <2>3. Types'
    BY <1>2, <2>1, <2>2, StepTypes
  <2>4. ASSUME ~tainted' PROVE Safe'
    BY <1>2, <2>1, <2>3, <2>4, StepSafe DEF Inv
  <2> QED
    BY <2>3, <2>4 DEF Inv
<1>3. ASSUME NEW p \in Proc, Crash(p), tainted' = (tainted \/ AtPc(p, "remove") \/ AtPc(p, "rewrite")) PROVE Inv'
  <2>1. Types /\ tainted \in BOOLEAN
    BY DEF Inv, Types, OtherTypes
  <2>2. tainted' \in BOOLEAN
    BY <1>3, <2>1
  <2>3. Types'
    BY <1>3, <2>1, <2>2, CrashTypes
  <2>4. ASSUME ~tainted' PROVE Safe'
    BY <1>3, <2>1, <2>3, <2>4, CrashSafe DEF Inv, AtPc
  <2> QED
    BY <2>3, <2>4 DEF Inv
<1> QED
  BY <1>1, <1>2, <1>3 DEF Next

LEMMA InitInv == Init => Inv
<1> SUFFICES ASSUME Init PROVE Inv
  OBVIOUS
<1>1. /\ legacy \in {FALSE, Legacy} /\ Legacy \in BOOLEAN /\ fd = [p \in Proc |-> Gone]
      /\ proc = [p \in Proc |-> Idle] /\ tainted = FALSE /\ mixed = {}
  BY LogAssumption DEF Init
<1>2. ProcTypes /\ \A p \in Proc : proc[p] = Idle
  BY <1>1, IdleIs DEF ProcTypes
<1>3. Appending = {} /\ Writers = {} /\ Cardinality(Appending) = 0
  BY <1>2, IdleIs, FS_EmptySet DEF Appending, Writers
<1>4. \/ files = [k \in {0} |-> <<1>>] /\ last = 1 /\ expected = <<1>>
      \/ files = <<>> /\ last = 0 /\ expected = <<>>
  BY DEF Init
<1>5. CopiesKnown /\ \A p \in Proc : InOrder(p) /\ Complete(p) /\ Taken(p) /\ Hole(p) /\ Opened(p)
  BY <1>2, IdleIs, EmptyIs DEF CopiesKnown, Known, InOrder, Complete, Taken, Hole, Opened
<1>6. ~Conflict /\ Budget /\ ~Rewriting
  BY <1>2, <1>3, IdleIs DEF Conflict, Exclusive, Mutating, Budget, Rewriting
<1>7. 1 \in Entry /\ 0 \in Name /\ Name \subseteq Nat /\ MaxEntries \in Nat \ {0}
  BY NamesAre DEF Entry
<1>8. CASE files = [k \in {0} |-> <<1>>] /\ last = 1 /\ expected = <<1>>
  <2> DEFINE one == <<1>>
  <2>1. one \in Seq(Entry) /\ Len(one) = 1 /\ one[1] = 1
    BY <1>7
  <2> HIDE DEF one
  <2>2. Range(one) = {1} /\ Rising(one) /\ LineTypes(one) /\ RisingIn(one, Entry)
    BY <2>1, RangeIs, CopyLines DEF Rising
  <2>3. files = [k \in {0} |-> one] /\ expected = one
    BY <1>8 DEF one
  <2>4. DOMAIN files = {0} /\ files[0] = one
    BY <2>3
  <2>5. Lines(0) = one /\ \A k \in Name : k # 0 => Lines(k) = <<>>
    BY <2>4 DEF Lines
  <2>6. Held(0) = {1} /\ \A k \in Name : k # 0 => Held(k) = {}
    BY <1>7, <2>2, <2>5, EmptyIs DEF Held
  <2>7. Stored = {1}
    BY <1>7, <2>6 DEF Stored
  <2>8. FileTypes
    BY <1>1, <1>7, <2>2, <2>3, <2>4 DEF FileTypes, LineTypes
  <2>9. FilesOrdered
    <3>1. \A k \in Name : RisingIn(Lines(k), Entry)
      BY <2>2, <2>5, EmptyIs
    <3>2. \A j, k \in Name : j < k => k # 0
      BY <1>7
    <3> QED
      BY <2>6, <3>1, <3>2 DEF FilesOrdered
  <2>11. HistoryKnown /\ LogKnown
    BY <1>8, <2>2, <2>3, <2>7 DEF HistoryKnown, LogKnown, Known
  <2>12. expected \in Seq(Entry) /\ last \in Nat /\ last + Cardinality(Appending) <= MaxEntries
    <3>1. expected \in Seq(Entry)
      BY <2>1, <2>3
    <3>2. last = 1
      BY <1>8
    <3> QED
      BY <1>3, <1>7, <3>1, <3>2
  <2>10. HistoryKnown /\ LogKnown /\ OtherTypes
    BY <1>1, <2>11, <2>12 DEF OtherTypes
  <2> QED
    BY <1>2, <1>5, <1>6, <2>2, <2>3, <2>7, <2>8, <2>9, <2>10 DEF Inv, Types, Safe
<1>9. CASE files = <<>> /\ last = 0 /\ expected = <<>>
  <2>1. DOMAIN files = {} /\ files = [i \in DOMAIN files |-> files[i]]
    BY <1>9
  <2>2. \A k \in Name : Lines(k) = <<>>
    BY <2>1 DEF Lines
  <2>3. \A k \in Name : Held(k) = {} /\ RisingIn(Lines(k), Entry)
    BY <2>2, EmptyIs DEF Held
  <2>4. Stored = {} /\ FilesOrdered
    BY <2>3 DEF Stored, FilesOrdered
  <2>5. FileTypes
    BY <1>1, <2>1 DEF FileTypes
  <2>8. HistoryKnown /\ LogKnown
    BY <1>9, <2>4, EmptyIs DEF HistoryKnown, LogKnown, Known
  <2>9. expected \in Seq(Entry) /\ last \in Nat /\ last + Cardinality(Appending) <= MaxEntries
    BY <1>3, <1>7, <1>9
  <2>6. HistoryKnown /\ LogKnown /\ OtherTypes
    BY <1>1, <2>8, <2>9 DEF OtherTypes
  <2>7. Range(expected) = Stored
    BY <1>9, <2>4, EmptyIs
  <2> QED
    BY <1>2, <1>5, <1>6, <2>4, <2>5, <2>6, <2>7 DEF Inv, Types, Safe
<1> QED
  BY <1>4, <1>8, <1>9

LEMMA InvHolds == Spec => []Inv
<1>1. Init => Inv
  BY InitInv
<1>2. Inv /\ [Next]_vars => Inv'
  BY NextInv
<1> QED
  BY <1>1, <1>2, PTL DEF Spec

-----------------------------------------------------------------------------
(* Without a crash the set of segments has no gap when a rotation begins *)

\* What a process that rotates or removes knows of the names.
Names(p) ==
    /\ proc[p].pc \in {"oldest", "shift"} => 0 \in DOMAIN files
    /\ proc[p].pc = "shift" => proc[p].seg + 1 \notin DOMAIN files
    /\ proc[p].pc = "remove" => DOMAIN files \subseteq proc[p].todo

\* The segments are numbered without a gap, but for the free name of a rotation.
NoGap ==
    \A k \in DOMAIN files, j \in Nat \ {0} :
        j < k => j \in DOMAIN files \/ \E p \in Proc : proc[p].pc = "shift" /\ j = proc[p].seg + 1

GapsInv ==
    /\ lost \subseteq Entry /\ bounds \in [crashes : Nat, torn : Nat]
    /\ ~tainted /\ bounds.crashes = 0 => lost = {} /\ NoGap /\ \A p \in Proc : Names(p)

\* No file comes or goes.
LEMMA SameNames ==
    ASSUME NoGap, \A q \in Proc : Names(q), DOMAIN files' = DOMAIN files, NEW p \in Proc, OnlyMoves(p),
           proc[p].pc # "shift", Names(p)'
    PROVE  NoGap' /\ \A q \in Proc : Names(q)'
<1>1. \A q \in Proc : q # p => proc'[q] = proc[q]
  BY DEF OnlyMoves
<1>2. NoGap'
  BY <1>1 DEF NoGap
<1>3. ASSUME NEW q \in Proc, q # p PROVE Names(q)'
  BY <1>1, <1>3 DEF Names
<1> QED
  BY <1>2, <1>3

\* Files come or go by a process beside which no other rotates or removes.
LEMMA NewNames ==
    ASSUME Types, Safe, NEW p \in Proc, OnlyMoves(p), proc[p].op \notin {"none", "list"}, Names(p)'
    PROVE  /\ \A q \in Proc : Names(q)'
           /\ \A q \in Proc : proc[q].pc = "shift" => q = p
<1>1. ASSUME NEW q \in Proc, q # p
      PROVE  proc'[q] = proc[q] /\ proc[q].pc \notin {"remove", "rewrite", "oldest", "shift"}
  <2>1. proc'[q] = proc[q]
    BY <1>1 DEF OnlyMoves
  <2>2. proc[q].pc \notin {"remove", "rewrite", "oldest", "shift"}
    BY <1>1, RewriterAlone DEF Alone
  <2> QED
    BY <2>1, <2>2
<1>2. ASSUME NEW q \in Proc, q # p PROVE Names(q)'
  BY <1>1, <1>2 DEF Names
<1> QED
  BY <1>1, <1>2

LEMMA RemoveOneNames ==
    ASSUME Types, Safe, NoGap, NEW p \in Proc, Names(p), RemoveOne(p)
    PROVE  NoGap' /\ \A q \in Proc : Names(q)'
<1>1. PICK i \in proc[p].todo :
         /\ RemoveFile(i) /\ \A k \in proc[p].todo : k <= i
         /\ \/ Turns(p, proc[p].op, "remove", proc[p].todo \ {i}, proc[p].copy)
            \/ Turns(p, proc[p].op, "rewrite", {}, proc[p].copy)
            \/ Turns(p, "append", "size", {}, <<>>)
            \/ Turns(p, "none", "idle", {}, <<>>)
  BY RemoveOneIs
<1>2. DOMAIN files' = DOMAIN files \ {i} /\ proc[p].pc = "remove" /\ DOMAIN files \subseteq Nat
  BY <1>1, NamesAre DEF RemoveFile, RemoveOne, AtPc, Types, FileTypes
<1>3. proc[p].op \notin {"none", "list"} /\ i \in Nat
  BY <1>2, CopyIs, NamesAre DEF Fits
<1>4. DOMAIN files \subseteq proc[p].todo
  BY <1>2 DEF Names
<1>5. OnlyMoves(p) /\ Names(p)'
  BY <1>1, <1>2, <1>4 DEF Turns, Names
<1>6. (\A q \in Proc : Names(q)') /\ \A q \in Proc : proc[q].pc # "shift"
  BY <1>2, <1>3, <1>5, NewNames
<1>7. \A k \in DOMAIN files, j \in Nat \ {0} : j < k => j \in DOMAIN files
  BY <1>6 DEF NoGap
<1>8. NoGap'
  <2> SUFFICES ASSUME NEW k \in DOMAIN files', NEW j \in Nat \ {0}, j < k PROVE j \in DOMAIN files'
    BY DEF NoGap
  <2>1. k \in DOMAIN files /\ k \in Nat /\ k <= i
    BY <1>1, <1>2, <1>4
  <2>2. j # i
    BY <1>3, <2>1
  <2> QED
    BY <1>2, <1>7, <2>1, <2>2
<1> QED
  BY <1>6, <1>8

\* The live file comes.
LEMMA LiveComes ==
    ASSUME Types, Safe, NoGap, NEW p \in Proc, OnlyMoves(p), proc[p].op \notin {"none", "list"},
           proc[p].pc # "shift", proc'[p].pc \notin {"oldest", "shift", "remove"},
           DOMAIN files' = DOMAIN files \cup {0}
    PROVE  NoGap' /\ \A q \in Proc : Names(q)'
<1>1. Names(p)'
  BY DEF Names
<1>2. (\A q \in Proc : Names(q)') /\ \A q \in Proc : proc[q].pc # "shift"
  BY <1>1, NewNames
<1>3. \A k \in DOMAIN files, j \in Nat \ {0} : j < k => j \in DOMAIN files
  BY <1>2 DEF NoGap
<1>4. NoGap'
  BY <1>3 DEF NoGap
<1> QED
  BY <1>2, <1>4

\* A rotation of a full set drops the oldest segment and loses nothing else.
LEMMA OldestNames ==
    ASSUME Types, Safe, NoGap, NEW p \in Proc, Names(p), Oldest(p)
    PROVE  NoGap' /\ (\A q \in Proc : Names(q)') /\ lost' = lost
<1> DEFINE c == proc[p].seg
<1>1. /\ proc[p].pc = "oldest" /\ proc[p].op = "append" /\ c \in Nat /\ c > 0
  BY CopyIs, Appends DEF Oldest, AtPc, Fits
<1>2. /\ proc'[p].pc = "shift" /\ proc'[p].seg = c - 1 /\ OnlyMoves(p)
  BY OldestIs DEF Turns
<1>3. /\ DOMAIN files' = DOMAIN files \ {c}
      /\ lost' = lost \cup (IF 0..c \subseteq DOMAIN files THEN {} ELSE Range(Valid(Lines(c))))
  BY DEF Oldest, RemoveFile
<1>4. 0 \in DOMAIN files
  BY <1>1 DEF Names
<1>5. c - 1 + 1 = c /\ 0 # c
  BY <1>1
<1>6. Names(p)'
  BY <1>2, <1>3, <1>4, <1>5 DEF Names
<1>7. (\A q \in Proc : Names(q)') /\ \A q \in Proc : proc[q].pc # "shift"
  BY <1>1, <1>2, <1>6, NewNames
<1>8. \A k \in DOMAIN files, j \in Nat \ {0} : j < k => j \in DOMAIN files
  BY <1>7 DEF NoGap
<1>9. NoGap'
  <2> SUFFICES ASSUME NEW k \in DOMAIN files', NEW j \in Nat \ {0}, j < k, j \notin DOMAIN files'
               PROVE  proc'[p].pc = "shift" /\ j = proc'[p].seg + 1
    BY DEF NoGap
  <2>1. j = c
    BY <1>3, <1>8
  <2> QED
    BY <1>2, <1>5, <2>1
<1>10. CASE c \in DOMAIN files
  <2>1. \A j \in 0..c : j = 0 \/ j = c \/ (j \in Nat \ {0} /\ j < c)
    BY <1>1
  <2>2. 0..c \subseteq DOMAIN files
    BY <1>4, <1>8, <1>10, <2>1
  <2> QED
    BY <1>3, <1>7, <1>9, <2>2
<1>11. CASE c \notin DOMAIN files
  <2>1. Lines(c) = <<>>
    BY <1>11 DEF Lines
  <2>2. Range(Valid(<<>>)) = {}
    <3>1. <<>> \in Seq(Int)
      OBVIOUS
    <3>2. Range(Chosen(<<>>, Entry)) = Range(<<>>) \cap Entry
      BY <3>1, ChosenKeeps
    <3> QED
      BY <3>2, EmptyIs DEF Valid
  <2> QED
    BY <1>3, <1>7, <1>9, <2>1, <2>2
<1> QED
  BY <1>10, <1>11

LEMMA ShiftNames ==
    ASSUME Types, Safe, NoGap, NEW p \in Proc, Names(p), Shift(p)
    PROVE  NoGap' /\ \A q \in Proc : Names(q)'
<1> DEFINE i == proc[p].seg
<1>1. /\ proc[p].pc = "shift" /\ proc[p].op = "append" /\ i \in Nat /\ OnlyMoves(p)
      /\ \/ i > 0 /\ proc'[p].seg = i - 1 /\ proc'[p].pc = "shift"
         \/ i = 0 /\ proc'[p].pc = "open"
  BY ShiftIs, CopyIs, Appends DEF Turns
<1>2. RenameFile(i, i + 1) /\ DOMAIN files \subseteq Nat
  BY NamesAre DEF Shift, Types, FileTypes
<1>3. 0 \in DOMAIN files /\ i + 1 \notin DOMAIN files /\ i # i + 1 /\ i - 1 + 1 = i /\ i + 1 # 0
  BY <1>1 DEF Names
<1>4. /\ i \in DOMAIN files => DOMAIN files' = (DOMAIN files \ {i}) \cup {i + 1}
      /\ i \notin DOMAIN files => files' = files
  BY <1>2 DEF RenameFile
<1> HIDE DEF i
<1>5. i \notin DOMAIN files'
  BY <1>3, <1>4
<1>6. Names(p)'
  <2>1. i > 0 => 0 \in DOMAIN files'
    BY <1>3, <1>4
  <2> QED
    BY <1>1, <1>3, <1>5, <2>1 DEF Names
<1>7. (\A q \in Proc : Names(q)') /\ \A q \in Proc : proc[q].pc = "shift" => q = p
  BY <1>1, <1>6, NewNames
<1>8. \A k \in DOMAIN files, j \in Nat \ {0} : j < k => j \in DOMAIN files \/ j = i + 1
  BY <1>7 DEF NoGap, i
<1>9. ASSUME NEW k \in DOMAIN files', NEW j \in Nat \ {0}, j < k, j \notin DOMAIN files'
      PROVE  j = i /\ i > 0
  <2>1. CASE i \in DOMAIN files
    <3>1. j # i + 1 /\ (j # i => j \notin DOMAIN files)
      BY <1>4, <1>9, <2>1
    <3>2. CASE k = i + 1
      BY <1>1, <1>8, <1>9, <2>1, <3>1, <3>2
    <3>3. CASE k # i + 1
      <4>1. k \in DOMAIN files
        BY <1>4, <1>9, <2>1, <3>3
      <4> QED
        BY <1>1, <1>8, <1>9, <3>1, <4>1
    <3> QED
      BY <3>2, <3>3
  <2>2. CASE i \notin DOMAIN files
    <3>1. k \in DOMAIN files /\ j \notin DOMAIN files /\ k \in Nat
      BY <1>2, <1>4, <1>9, <2>2
    <3>2. j = i + 1 /\ i # 0
      BY <1>3, <1>8, <1>9, <2>2, <3>1
    <3>3. i \in Nat \ {0} /\ i < k
      BY <1>1, <1>9, <3>1, <3>2
    <3> QED
      BY <1>3, <1>8, <2>2, <3>1, <3>3
  <2> QED
    BY <2>1, <2>2
<1>10. NoGap'
  <2> SUFFICES ASSUME NEW k \in DOMAIN files', NEW j \in Nat \ {0}, j < k, j \notin DOMAIN files'
               PROVE  proc'[p].pc = "shift" /\ j = proc'[p].seg + 1
    BY DEF NoGap
  <2> QED
    BY <1>1, <1>3, <1>9
<1> QED
  BY <1>7, <1>10

\* The steps of a process leave no gap but the one of a rotation.
LEMMA StepNames ==
    ASSUME Types, Safe, NoGap, \A q \in Proc : Names(q), NEW p \in Proc, Step(p)
    PROVE  NoGap' /\ (\A q \in Proc : Names(q)') /\ lost' = lost
<1>1. CASE BeginAppend(p)
  <2>1. UNCHANGED <<files, lost>> /\ proc[p].op = "none" /\ OnlyMoves(p) /\ proc'[p].pc \in {"read", "size"}
    BY <1>1, BeginAppendIs DEF BeginAppend, Begin, Turns
  <2>2. proc[p].pc # "shift" /\ Names(p)'
    BY <2>1, CopyIs DEF Fits, Names
  <2> QED
    BY <2>1, <2>2, SameNames
<1>2. CASE BeginRead(p)
  <2>1. UNCHANGED <<files, lost>> /\ proc[p].op = "none" /\ OnlyMoves(p) /\ proc'[p].pc = "read"
    BY <1>2, BeginReadIs DEF BeginRead, Turns
  <2>2. proc[p].pc # "shift" /\ Names(p)'
    BY <2>1, CopyIs DEF Fits, Names
  <2> QED
    BY <2>1, <2>2, SameNames
<1>3. CASE BeginClear(p)
  <2>1. /\ UNCHANGED <<files, lost>> /\ proc[p].op = "none" /\ OnlyMoves(p)
        /\ proc'[p].pc = "remove" /\ proc'[p].todo = Segments
    BY <1>3, BeginClearIs DEF BeginClear, Turns
  <2>2. proc[p].pc # "shift" /\ Names(p)'
    BY <2>1, CopyIs DEF Fits, Names, Segments
  <2> QED
    BY <2>1, <2>2, SameNames
<1>4. CASE Read(p)
  <2>1. /\ UNCHANGED <<files, lost>> /\ proc[p].pc = "read" /\ OnlyMoves(p)
        /\ proc'[p].pc \in {"read", "decide"}
    BY <1>4, ReadIs DEF Read, AtPc, Turns
  <2>2. Names(p)'
    BY <2>1 DEF Names
  <2> QED
    BY <2>1, <2>2, SameNames
<1>5. CASE Decide(p)
  <2>1. /\ UNCHANGED <<files, lost>> /\ proc[p].pc = "decide" /\ OnlyMoves(p)
        /\ \/ proc'[p].pc = "idle"
           \/ proc'[p].pc = "remove" /\ proc'[p].todo = Segments
    BY <1>5, DecideIs DEF Decide, AtPc, Turns
  <2>2. Names(p)'
    BY <2>1 DEF Names, Segments
  <2> QED
    BY <2>1, <2>2, SameNames
<1>6. CASE Listed(p)
  <2>1. UNCHANGED <<files, lost>> /\ proc[p].pc = "decide" /\ OnlyMoves(p) /\ proc'[p].pc = "idle"
    BY <1>6, DoneIs DEF Listed, AtPc, Turns
  <2>2. Names(p)'
    BY <2>1 DEF Names
  <2> QED
    BY <2>1, <2>2, SameNames
<1>7. CASE RemoveOne(p)
  BY <1>7, RemoveOneNames DEF RemoveOne
<1>8. CASE Rewrite(p)
  <2>1. /\ UNCHANGED lost /\ proc[p].pc = "rewrite" /\ OnlyMoves(p) /\ proc'[p].pc \in {"size", "idle"}
        /\ DOMAIN files' = DOMAIN files \cup {0}
    BY <1>8, RewriteIs DEF Rewrite, FileWith, AtPc, Turns
  <2>2. proc[p].op \notin {"none", "list"}
    BY <2>1, CopyIs DEF Fits
  <2> QED
    BY <2>1, <2>2, LiveComes
<1>9. CASE Size(p)
  <2>1. /\ UNCHANGED <<files, lost>> /\ proc[p].pc = "size" /\ OnlyMoves(p)
        /\ \/ TooFull /\ proc'[p].pc = "oldest"
           \/ proc'[p].pc = "open"
    BY <1>9, SizeIs DEF Size, AtPc, Turns
  <2>2. TooFull => 0 \in DOMAIN files
    <3>1. Len(<<>>) = 0 /\ ~(0 > 0)
      OBVIOUS
    <3> QED
      BY <3>1 DEF TooFull, Lines
  <2>3. Names(p)'
    BY <2>1, <2>2 DEF Names
  <2> QED
    BY <2>1, <2>3, SameNames
<1>10. CASE Oldest(p)
  BY <1>10, OldestNames
<1>11. CASE Shift(p)
  BY <1>11, ShiftNames DEF Shift
<1>12. CASE Open(p)
  <2>1. /\ UNCHANGED lost /\ proc[p].pc = "open" /\ OnlyMoves(p) /\ proc'[p].pc = "write"
        /\ DOMAIN files' = DOMAIN files \cup {0}
    BY <1>12, OpenIs DEF Open, FileWith, Turns
  <2>2. proc[p].op \notin {"none", "list"}
    BY <2>1, Appends
  <2> QED
    BY <2>1, <2>2, LiveComes
<1>13. ASSUME NEW line, Put(p, line) PROVE NoGap' /\ (\A q \in Proc : Names(q)') /\ lost' = lost
  <2>1. proc[p].pc = "write" /\ UNCHANGED lost /\ DOMAIN files' = DOMAIN files
    BY <1>13 DEF Put, AtPc
  <2>2. OnlyMoves(p) /\ proc'[p].pc = "idle"
    BY <1>13, DoneIs DEF Put, Turns
  <2>3. Names(p)'
    BY <2>2 DEF Names
  <2> QED
    BY <2>1, <2>2, <2>3, SameNames
<1> QED
  BY <1>1, <1>2, <1>3, <1>4, <1>5, <1>6, <1>7, <1>8, <1>9, <1>10, <1>11, <1>12, <1>13
     DEF Step, Write, WriteFails

\* What a rotation drops is an entry, and the counts stay numbers.
LEMMA LostTypes ==
    ASSUME Types, lost \subseteq Entry, bounds \in [crashes : Nat, torn : Nat], NEW p \in Proc
    PROVE  /\ Step(p) => lost' \subseteq Entry /\ bounds' \in [crashes : Nat, torn : Nat]
                         /\ bounds'.crashes = bounds.crashes
           /\ Crash(p) => lost' = lost /\ bounds' \in [crashes : Nat, torn : Nat] /\ bounds'.crashes # 0
<1>1. CASE Oldest(p)
  <2>1. \A k : Range(Valid(Lines(k))) \subseteq Entry
    <3> SUFFICES ASSUME NEW k PROVE Range(Valid(Lines(k))) \subseteq Entry
      OBVIOUS
    <3>1. Lines(k) \in Seq(Line) /\ Line \in SUBSET Int
      BY LinesAre DEF Types, LineTypes, Line, Entry, Torn, Junk
    <3>2. Range(Chosen(Lines(k), Entry)) = Range(Lines(k)) \cap Entry
      BY <3>1, ChosenKeeps
    <3> QED
      BY <3>2 DEF Valid
  <2>2. lost' \subseteq Entry /\ bounds' = bounds
    BY <1>1, <2>1 DEF Oldest
  <2>3. ~Crash(p)
    <3>1. proc'[p].pc = "shift"
      BY <1>1, OldestIs DEF Turns
    <3> QED
      BY <3>1, DoneIs DEF Crash, Turns
  <2> QED
    BY <2>2, <2>3
<1>2. CASE WriteFails(p)
  <2>1. lost' = lost /\ bounds' = [bounds EXCEPT !.torn = bounds.torn + 1]
    BY <1>2 DEF WriteFails, Put
  <2>2. bounds' \in [crashes : Nat, torn : Nat] /\ bounds'.crashes = bounds.crashes
    BY <2>1
  <2>3. bounds'.torn = bounds.torn + 1 /\ bounds.torn \in Nat
    BY <2>1
  <2>4. ~Crash(p)
    <3> SUFFICES ASSUME Crash(p) PROVE FALSE
      OBVIOUS
    <3>1. bounds'.crashes = bounds.crashes + 1 /\ bounds.crashes \in Nat
      BY DEF Crash
    <3> QED
      BY <2>2, <3>1
  <2> QED
    BY <2>1, <2>2, <2>4
<1>3. CASE Step(p) /\ ~Oldest(p) /\ ~WriteFails(p)
  <2>1. lost' = lost /\ bounds' = bounds
    BY <1>3 DEF Step, BeginAppend, BeginRead, BeginClear, Begin, Read, Decide, Listed, RemoveOne, Rewrite,
                Size, Shift, Open, Write, Put
  <2>2. ~Crash(p)
    <3> SUFFICES ASSUME Crash(p) PROVE FALSE
      OBVIOUS
    <3>1. bounds'.crashes = bounds.crashes + 1 /\ bounds.crashes \in Nat
      BY DEF Crash
    <3> QED
      BY <2>1, <3>1
  <2> QED
    BY <2>1, <2>2
<1>4. CASE Crash(p) /\ ~Step(p)
  <2>1. lost' = lost /\ bounds' = [bounds EXCEPT !.crashes = bounds.crashes + 1]
    BY <1>4 DEF Crash
  <2>2. bounds' \in [crashes : Nat, torn : Nat] /\ bounds'.crashes = bounds.crashes + 1
    BY <2>1
  <2>3. bounds'.crashes # 0
    BY <2>2
  <2> QED
    BY <1>4, <2>1, <2>2, <2>3
<1> QED
  BY <1>1, <1>2, <1>3, <1>4

LEMMA NextGaps ==
    ASSUME Inv, GapsInv, [Next]_vars
    PROVE  GapsInv'
<1>1. CASE UNCHANGED vars
  BY <1>1 DEF vars, GapsInv, NoGap, Names
<1>2. ASSUME NEW p \in Proc, Step(p), tainted' = (tainted \/ Conflict') PROVE GapsInv'
  <2>1. /\ lost' \subseteq Entry /\ bounds' \in [crashes : Nat, torn : Nat]
        /\ bounds'.crashes = bounds.crashes
    BY <1>2, LostTypes DEF Inv, GapsInv
  <2>2. ASSUME ~tainted', bounds'.crashes = 0
        PROVE  lost' = {} /\ NoGap' /\ \A q \in Proc : Names(q)'
    <3>1. ~tainted /\ bounds.crashes = 0
      BY <1>2, <2>1, <2>2 DEF Inv, Types, OtherTypes
    <3> QED
      BY <1>2, <3>1, StepNames DEF Inv, GapsInv
  <2> QED
    BY <2>1, <2>2 DEF GapsInv
<1>3. ASSUME NEW p \in Proc, Crash(p) PROVE GapsInv'
  BY <1>3, LostTypes DEF Inv, GapsInv
<1> QED
  BY <1>1, <1>2, <1>3 DEF Next

LEMMA GapsInvHolds == Spec => []GapsInv
<1>1. Init => GapsInv
  <2> SUFFICES ASSUME Init PROVE GapsInv
    OBVIOUS
  <2>1. lost = {} /\ bounds = [crashes |-> 0, torn |-> 0] /\ \A p \in Proc : proc[p].pc = "idle"
    BY DEF Init, Idle
  <2>2. DOMAIN files \subseteq {0}
    BY DEF Init
  <2>3. NoGap
    BY <2>2 DEF NoGap
  <2> QED
    BY <2>1, <2>3 DEF GapsInv, Names
<1>2. Inv /\ GapsInv /\ [Next]_vars => GapsInv'
  BY NextGaps
<1> QED
  BY <1>1, <1>2, InvHolds, PTL DEF Spec

\* Every variable keeps its type, and a line without its end is the last one of
\* its file, whatever the processes do (log.go:156-283, 478-543).
THEOREM TypeCorrect == Spec => []TypeOK
<1>1. Inv /\ GapsInv => TypeOK
  <2> SUFFICES ASSUME Types, lost \subseteq Entry PROVE TypeOK
    BY DEF Inv, GapsInv
  <2>1. ASSUME NEW i \in DOMAIN files
        PROVE  /\ Range(files[i]) \subseteq Entry \cup {Torn, Junk}
               /\ \A k \in 1..Len(files[i]) - 1 : files[i][k] # Torn
    <3>1. files[i] \in Seq(Line) /\ \A k \in 1..Len(files[i]) - 1 : files[i][k] # Torn
      BY <2>1 DEF Types, FileTypes
    <3> QED
      BY <3>1, RangeIs DEF Line
  <2>2. ASSUME NEW p \in Proc
        PROVE  /\ proc[p].pc \in {"idle", "read", "decide", "remove", "rewrite", "size", "oldest", "shift", "open", "write"}
               /\ proc[p].op \in {"none", "append", "cleanup", "prune", "clear", "list"}
               /\ proc[p].todo \subseteq Name /\ proc[p].seg \in Name
               /\ Range(proc[p].copy) \subseteq Entry
    BY CopyIs DEF ProcType
  <2>3. DOMAIN files \subseteq Name /\ fd \in [Proc -> Name \cup {Gone}]
    BY DEF Types, FileTypes
  <2>4. last \in 0..MaxEntries
    BY AppendingIs, NamesAre DEF Types, OtherTypes
  <2>5. Range(expected) \cup lost \subseteq Entry
    BY RangeIs DEF Types, OtherTypes
  <2> QED
    BY <2>1, <2>2, <2>3, <2>4, <2>5 DEF TypeOK, Types, OtherTypes
<1> QED
  BY <1>1, InvHolds, GapsInvHolds, PTL

\* The log holds what it should, once and in order, as long as no promise was
\* impossible to keep: for any number of processes, entries, segments and
\* crashes; and before the first crash a rotation drops nothing but the oldest
\* segment of a full set (log.go:156-283, 478-543, 629-713).
THEOREM LogStaysIntact == Spec => []LogIntact
<1>1. Inv /\ GapsInv => LogIntact
  BY ContentIf DEF LogIntact, GapsInv
<1> QED
  BY <1>1, InvHolds, GapsInvHolds, PTL

\* A listing that no rewrite met is in order and shows no entry twice, at every
\* point of its reading and beside any number of appends (log.go:287-315, 409-439).
THEOREM ListingsAreInOrder == Spec => []ListingInOrder
<1>1. Inv => ListingInOrder
  <2> SUFFICES ASSUME Types, Safe, NEW p \in Proc \ mixed, proc[p].op = "list"
               PROVE  Rising(proc[p].copy)
    BY DEF Inv, ListingInOrder, Rising
  <2>1. proc[p].pc \in {"read", "decide"}
    BY CopyIs DEF Fits, ProcType
  <2> QED
    BY <2>1 DEF Safe, InOrder
<1> QED
  BY <1>1, InvHolds, PTL

\* Beside a process about to write the live file grows by a line at most.
LEMMA GrowsByOne ==
    ASSUME Types, Safe, NEW p \in Proc, proc[p].pc = "write", NEW q \in Proc, Step(q) \/ Crash(q)
    PROVE  Len(Lines(0)') <= Len(Lines(0)) + 1
<1>1. 0 \in Name /\ Len(Lines(0)) \in Nat /\ LineTypes(Lines(0)) /\ Len(<<>>) = 0 /\ proc[p].op = "append"
  BY NamesAre, LinesAre, Appends DEF Types, LineTypes
<1>2. CASE UNCHANGED files
  BY <1>1, <1>2, SameFiles
<1>3. CASE RemoveOne(q)
  <2>1. Lines(0)' = <<>> \/ Lines(0)' = Lines(0)
    BY <1>1, <1>3, RemoveOneIs
  <2> QED
    BY <1>1, <2>1
<1>4. ~Rewrite(q)
  <2> SUFFICES ASSUME Rewrite(q) PROVE FALSE
    OBVIOUS
  <2>1. proc[q].pc = "rewrite" /\ Alone(q)
    BY RewriterAlone DEF Rewrite, AtPc
  <2> QED
    BY <1>1, <2>1 DEF Alone
<1>5. CASE Oldest(q)
  <2>1. Lines(0)' = <<>> \/ Lines(0)' = Lines(0)
    BY <1>1, <1>5, OldestIs
  <2> QED
    BY <1>1, <2>1
<1>6. CASE Shift(q)
  <2>1. PICK i \in Name : i + 1 \in Name /\ Moved(i)
    BY <1>6, ShiftIs
  <2>2. 0 # i + 1
    BY <2>1, NamesAre
  <2>3. Lines(0)' = <<>> \/ Lines(0)' = Lines(0)
    BY <1>1, <2>1, <2>2 DEF Moved
  <2> QED
    BY <1>1, <2>3
<1>7. CASE Open(q)
  <2>1. Lines(0)' = Lines(0)
    BY <1>1, <1>7, OpenIs
  <2> QED
    BY <1>1, <2>1
<1>8. ASSUME NEW line \in Entry \cup {Torn}, Put(q, line) PROVE Len(Lines(0)') <= Len(Lines(0)) + 1
  <2>1. Lines(0)' = Extended(Lines(0), line) \/ Lines(0)' = Lines(0)
    BY <1>1, <1>8, PutIs
  <2>2. ExtendsTo(Lines(0), line, Extended(Lines(0), line))
    BY <1>1, ExtendedIs
  <2>3. Len(Extended(Lines(0), line)) <= Len(Lines(0)) + 1
    BY <2>2 DEF ExtendsTo
  <2> QED
    BY <1>1, <2>1, <2>3
<1>9. CASE Write(q)
  <2>1. Put(q, last + 1)
    BY <1>9 DEF Write
  <2>2. /\ OtherTypes /\ proc[q].op = "append" /\ proc'[q].op = "none" /\ \A r \in Proc : r # q => proc'[r] = proc[r]
    BY <2>1, DoneIs, Appends DEF Put, AtPc, Turns, OnlyMoves, Types
  <2>3. last + 1 \in Entry
    BY <2>2, NextEntry
  <2> QED
    BY <1>8, <2>1, <2>3
<1>10. CASE WriteFails(q)
  BY <1>8, <1>10 DEF WriteFails
<1> QED
  BY <1>2, <1>3, <1>4, <1>5, <1>6, <1>7, <1>9, <1>10
     DEF Step, Crash, BeginAppend, BeginRead, BeginClear, Begin, Read, Decide, Listed, Size

\* The live file outgrows its limit by one line of each other process that looked
\* at the size before, and no more (log.go:173-180).
THEOREM LiveFileWithinBudget == Spec => LiveWithinBudget
<1>1. Inv /\ [Next]_vars =>
        [\A p \in Proc :
          ~tainted /\ AtPc(p, "write") /\ fd[p] = 0 /\ Len(Lines(0)') > Len(Lines(0))
              => Len(Lines(0)') <= MaxLines + Cardinality(Proc) - 1]_vars
  <2> SUFFICES ASSUME Types, Safe, Next, NEW p \in Proc, proc[p].pc = "write", Len(Lines(0)') > Len(Lines(0))
               PROVE  Len(Lines(0)') <= MaxLines + Cardinality(Proc) - 1
    BY DEF Inv, AtPc
  <2>1. Len(Lines(0)') <= Len(Lines(0)) + 1
    <3>1. PICK q \in Proc : Step(q) \/ Crash(q)
      BY DEF Next
    <3> QED
      BY <3>1, GrowsByOne
  <2>2. p \in Writers
    BY DEF Writers
  <2>3. Cardinality(Writers) >= 1
    <3>1. Cardinality(Writers) # 0
      BY <2>2, AppendingIs, FS_EmptySet
    <3> QED
      BY <3>1, AppendingIs
  <2>4. Len(Lines(0)) + Cardinality(Writers) <= MaxLines + Cardinality(Proc) - 1
    BY <2>2 DEF Safe, Budget
  <2>5. Len(Lines(0)) \in Nat
    BY LinesAre DEF Types, LineTypes
  <2>6. Len(Lines(0)') \in Nat
    <3>1. FileTypes'
      <4>1. PICK q \in Proc : Step(q) \/ Crash(q)
        BY DEF Next
      <4>2. Types'
        BY NextInv DEF Inv
      <4> QED
        BY <4>2 DEF Types
    <3> QED
      BY <3>1, LenProperties DEF FileTypes, Lines
  <2> QED
    BY <2>1, <2>3, <2>4, <2>5, <2>6, NamesAre, AppendingIs
<1> QED
  BY <1>1, InvHolds, PTL DEF Spec, LiveWithinBudget

=============================================================================
